------------------------------ MODULE GraphSync -------------------------------
(***************************************************************************)
(* The knowledge graph and everything that writes to it or reads it:       *)
(* graph/sync.py (full_sync and the upserts), graph/events.py, the tools   *)
(* of tools/issue_tools.py that mirror what they wrote to Node, and the    *)
(* queries of graph/queries.py behind the suggestion of an assignee and    *)
(* the search for similar issues.                                          *)
(*                                                                         *)
(* Node is the source of truth and changes at any time.  The graph is a    *)
(* set of facts, edges and properties; one Cypher statement is atomic and  *)
(* an await, so that syncs, events and tools interleave between any two.   *)
(***************************************************************************)
EXTENDS Integers, FiniteSets, Sequences

CONSTANTS
  Users, Projects, Issues, Sprints, Labels, Texts,
  None,        \* no user, sprint, row or issue; an entry that is no label
  Home,        \* the project of an issue or of a sprint
  Reporter,    \* of an issue
  LabelsOf, Blocks, BlockedBy,   \* the lists that Node's events about an issue carry
  Recent,      \* the issues whose resolution, if any, is of the last 30 days
  Alike,       \* the pairs of different texts that share a word of four letters
  Embeds,      \* does the provider of embeddings answer?
  Syncs, Events, Tools,   \* callers of full_sync; calls of apply_event and of tools
  Roster0, Rows0,         \* Node's data at first
  MaxChanges   \* bound: changes of Node's data

States == {"open", "done"}   \* completedAt IS NULL, or not
Rows == [title : Texts, state : States,
         assignee : Users \cup {None}, sprint : Sprints \cup {None}]

ASSUME GraphAssumption ==
  /\ Home \in [Issues \cup Sprints -> Projects]
  /\ Reporter \in [Issues -> Users] /\ LabelsOf \in [Issues -> Seq(Labels \cup {None})]
  /\ Blocks \in [Issues -> Seq(Issues)] /\ BlockedBy \in [Issues -> Seq(Issues)]
  /\ Roster0 \in [Projects -> SUBSET Users] /\ Rows0 \in [Issues -> Rows \cup {None}]
  /\ None \notin Users \cup Sprints \cup Issues \cup Labels \cup Texts \cup Rows
  /\ Syncs \cap Events = {} /\ Syncs \cap Tools = {} /\ Events \cap Tools = {}
  /\ Recent \subseteq Issues /\ Alike \subseteq Texts \X Texts
  /\ IsFiniteSet(Issues) /\ IsFiniteSet(Users) /\ Embeds \in BOOLEAN /\ MaxChanges \in Nat

Jobs == Syncs \cup Events \cup Tools

VARIABLES
  roster,    \* Node: the members of each project
  rows,      \* Node: the issues, None before and after their life
  said,      \* history: every fact that has been true in Node
  graph,     \* Neo4j
  at,        \* what a job awaits next, or how it ended
  todo,      \* the statements left of the upsert a job is in
  left,      \* the upserts left of the list a sync goes through
  ahead,     \* the projects a sync has not come to
  project,   \* the one a sync or a query is about
  keep,      \* active_ids of a sync
  issue, seen,      \* the issue a tool changes, and its row as first read
  past,      \* first read of a suggestion: resolved issues of each user
  answer,    \* the candidates, then the result of a search
  steady,    \* history: all that happened since a sync began agrees with Node's data
  fresh,     \* history: and nothing else since such a sync ended
  changes    \* changes of Node's data so far

nodeVars == <<roster, rows, said, changes>>
syncVars == <<left, ahead, keep>>
toolVars == <<issue, seen, past, answer>>
history == <<steady, fresh>>
vars == <<nodeVars, graph, at, todo, project, syncVars, toolVars, history>>

-----------------------------------------------------------------------------
(* Facts, and the statements that write them. *)

Fact(r, a, b) == [rel |-> r, from |-> a, to |-> b]
Single == {"title", "state"}

Name(x) == Fact("name", x, x)   \* the properties the model leaves constant
Member(u, p) == Fact("MEMBER_OF", u, p)
Removed(u, p) == Fact("REMOVED", u, p)

\* SET replaces a property and resets removed_at, MERGE only ever adds.
Replaces(w, f) ==
  \E g \in w :
    /\ g.from = f.from
    /\ \/ g.rel = f.rel /\ g.rel \in Single
       \/ g.rel = "MEMBER_OF" /\ f.rel = "REMOVED" /\ g.to = f.to
\* Mutation: a member who comes back stays removed.
PutStillRemoved(g, w) ==
  {f \in g : ~\E h \in w : h.from = f.from /\ h.rel = f.rel /\ h.rel \in Single}
  \cup {f \in w : f.rel = "MEMBER_OF" => Removed(f.from, f.to) \notin g}

Put(g, w) == {f \in g : ~Replaces(w, f)} \cup w

\* tombstone_missing_members
Lapsed(g, p, kept) == {f \in g : f.rel = "MEMBER_OF" /\ f.to = p /\ f.from \notin kept}
Buried(g, p, kept) ==
  (g \ Lapsed(g, p, kept)) \cup {Removed(f.from, f.to) : f \in Lapsed(g, p, kept)}

NameWrites(x) == <<{Name(x)}>>   \* upsert_user, upsert_project, upsert_sprint
MemberWrites(u, p) == <<{Name(u)}, {Member(u, p)}>>

\* A statement that the code runs if the row has the value.
IfGiven(value, writes) == IF value = None THEN <<>> ELSE <<writes>>

\* Mutation: the guard on assigneeId is missing.
RowWritesUnguarded(i, r) ==
  <<{Fact("title", i, r.title), Fact("state", i, r.state)},
    {Fact("ASSIGNED_TO", r.assignee, i)}>>

\* upsert_issue. A vector among the parameters is in no SET clause.
RowWrites(i, r) ==
  <<{Fact("title", i, r.title), Fact("state", i, r.state)},
    {Fact("IN_PROJECT", i, Home[i])},
    {Fact("REPORTED", Reporter[i], i)}>>
  \o IfGiven(r.assignee, {Fact("ASSIGNED_TO", r.assignee, i)})
  \o IfGiven(r.sprint, {Fact("IN_SPRINT", i, r.sprint)})

\* upsert_label and its edge, for each label; for another entry nothing is written.
LabelWrites(i) ==
  [n \in 1 .. 2 * Len(LabelsOf[i]) |->
     {IF n % 2 = 1 THEN Name(l) ELSE Fact("HAS_LABEL", i, l) :
        l \in {LabelsOf[i][(n + 1) \div 2]} \ {None}}]
BlockWrites(i) == [n \in DOMAIN Blocks[i] |-> {Fact("BLOCKS", i, Blocks[i][n])}]
BlockedByWrites(i) == [n \in DOMAIN BlockedBy[i] |-> {Fact("BLOCKS", BlockedBy[i][n], i)}]
LinkWrites(i) == LabelWrites(i) \o BlockWrites(i) \o BlockedByWrites(i)

\* The same of a row that carries the lists, as no list of issues does.
IssueWrites(i, r) == RowWrites(i, r) \o LinkWrites(i)

Told(writes) == UNION {writes[n] : n \in DOMAIN writes}

\* What Node's lists say, and what its events say besides, were its data these.
ListsOf(team, table) ==
  {Name(x) : x \in Users \cup Projects \cup Sprints}
  \cup (UNION {{Member(u, p) : u \in team[p]} : p \in Projects})
  \cup (UNION {Told(RowWrites(i, table[i])) : i \in {k \in Issues : table[k] # None}})
FactsOf(team, table) ==
  ListsOf(team, table)
  \cup (UNION {Told(LinkWrites(i)) : i \in {k \in Issues : table[k] # None}})

Current == FactsOf(roster, rows)
Existing(p) == {i \in Issues : rows[i] # None /\ Home[i] = p}

-----------------------------------------------------------------------------
(* History: a change of Node's data, or a statement that contradicts them, *)
(* ends every steady run and the freshness of the graph.                   *)
Agree(yes) ==
  /\ steady' = [s \in Syncs |-> steady[s] /\ yes]
  /\ fresh' = (fresh /\ yes)

Goto(j, l) == at' = [at EXCEPT ![j] = l]
Ended == {"idle", "done", "updated", "failed"}

\* A statement of the upsert the job is in, or the first of its next upsert.
Write(j) ==
  \E writes \in IF todo[j] = <<>> THEN left[j] ELSE {todo[j]} :
    /\ graph' = Put(graph, Head(writes))
    /\ todo' = [todo EXCEPT ![j] = Tail(writes)]
    /\ left' = IF todo[j] = <<>> THEN [left EXCEPT ![j] = @ \ {writes}] ELSE left
    /\ Agree(Head(writes) \subseteq Current)
    /\ UNCHANGED <<nodeVars, at, project, ahead, keep, toolVars>>

Idle(j) == todo[j] = <<>> /\ left[j] = {}

-----------------------------------------------------------------------------
(* full_sync: for each project its members, the tombstones, its sprints    *)
(* and its issues, each list as Node has it when it is asked.              *)

StartSync(s) ==
  /\ at[s] \in Ended /\ Goto(s, "projects")
  /\ ahead' = [ahead EXCEPT ![s] = Projects]
  /\ steady' = [steady EXCEPT ![s] = TRUE]
  /\ UNCHANGED <<nodeVars, graph, todo, project, left, keep, toolVars, fresh>>

\* Mutation: the sync does not get past a project.
NextProjectAgain(s) ==
  /\ at[s] = "projects" /\ Idle(s) /\ Goto(s, "members")
  /\ \E p \in ahead[s] : /\ project' = [project EXCEPT ![s] = p]
                         /\ todo' = [todo EXCEPT ![s] = NameWrites(p)]
  /\ UNCHANGED <<nodeVars, graph, left, ahead, keep, toolVars, history>>

NextProject(s) ==
  /\ at[s] = "projects" /\ Idle(s) /\ Goto(s, "members")
  /\ \E p \in ahead[s] :
       /\ project' = [project EXCEPT ![s] = p]
       /\ ahead' = [ahead EXCEPT ![s] = @ \ {p}]
       /\ todo' = [todo EXCEPT ![s] = NameWrites(p)]
  /\ UNCHANGED <<nodeVars, graph, left, keep, toolVars, history>>

\* Node answers with a list, each row of which is an upsert.
Listed(s, upserts) == left' = [left EXCEPT ![s] = upserts]

\* Mutation: active_ids is not filled.
ListMembersForgets(s) ==
  /\ at[s] = "members" /\ Idle(s) /\ Goto(s, "tombstones")
  /\ Listed(s, {MemberWrites(u, project[s]) : u \in roster[project[s]]})
  /\ UNCHANGED <<nodeVars, graph, todo, project, ahead, keep, toolVars, history>>

ListMembers(s) ==
  /\ at[s] = "members" /\ Idle(s) /\ Goto(s, "tombstones")
  /\ Listed(s, {MemberWrites(u, project[s]) : u \in roster[project[s]]})
  /\ keep' = [keep EXCEPT ![s] = roster[project[s]]]
  /\ UNCHANGED <<nodeVars, graph, todo, project, ahead, toolVars, history>>

Tombstone(s) ==
  /\ at[s] = "tombstones" /\ Idle(s) /\ Goto(s, "sprints")
  /\ graph' = Buried(graph, project[s], keep[s])
  /\ keep' = [keep EXCEPT ![s] = {}]   \* the next project has its own
  /\ Agree(keep[s] = roster[project[s]])
  /\ UNCHANGED <<nodeVars, todo, project, left, ahead, toolVars>>

ListSprints(s) ==
  /\ at[s] = "sprints" /\ Idle(s) /\ Goto(s, "issues")
  /\ Listed(s, {NameWrites(x) : x \in {y \in Sprints : Home[y] = project[s]}})
  /\ UNCHANGED <<nodeVars, graph, todo, project, ahead, keep, toolVars, history>>

\* Mutation: Node is asked for the open issues.
ListIssuesOpen(s) ==
  /\ at[s] = "issues" /\ Idle(s) /\ Goto(s, "projects")
  /\ Listed(s, {RowWrites(i, rows[i]) : i \in {k \in Existing(project[s]) : rows[k].state = "open"}})
  /\ UNCHANGED <<nodeVars, graph, todo, project, ahead, keep, toolVars, history>>

ListIssues(s) ==
  /\ at[s] = "issues" /\ Idle(s) /\ Goto(s, "projects")
  /\ Listed(s, {RowWrites(i, rows[i]) : i \in Existing(project[s])})
  /\ UNCHANGED <<nodeVars, graph, todo, project, ahead, keep, toolVars, history>>

EndSync(s) ==
  /\ at[s] = "projects" /\ Idle(s) /\ ahead[s] = {} /\ Goto(s, "done")
  /\ project' = [project EXCEPT ![s] = None]
  /\ fresh' = (fresh \/ steady[s])
  /\ UNCHANGED <<nodeVars, graph, todo, syncVars, toolVars, steady>>

SyncStep(s) ==
  \/ NextProject(s) \/ ListMembers(s) \/ Tombstone(s) \/ ListSprints(s)
  \/ ListIssues(s) \/ EndSync(s)

-----------------------------------------------------------------------------
(* Node's data change, and Node tells the service or not; of the end of a  *)
(* membership it never does.  The call of apply_event may come late.       *)

Changed(team, table) ==
  /\ changes < MaxChanges /\ changes' = changes + 1
  /\ roster' = team /\ rows' = table
  /\ said' = said \cup FactsOf(team, table)
  /\ Agree(FALSE)

Apply(e, writes) ==
  /\ at[e] = "idle" /\ Goto(e, "applying")
  /\ todo' = [todo EXCEPT ![e] = writes]

Published(writes) == UNCHANGED <<at, todo>> \/ \E e \in Events : Apply(e, writes)

Join(u, p) ==
  /\ u \notin roster[p]
  /\ Changed([roster EXCEPT ![p] = @ \cup {u}], rows)
  /\ Published(<<{Member(u, p)}>>)
  /\ UNCHANGED <<graph, project, syncVars, toolVars>>

Leave(u, p) ==
  /\ u \in roster[p]
  /\ Changed([roster EXCEPT ![p] = @ \ {u}], rows)
  /\ UNCHANGED <<graph, at, todo, project, syncVars, toolVars>>

New(i) == rows[i] = None /\ Fact("IN_PROJECT", i, Home[i]) \notin said

Edits(r) ==
  {[r EXCEPT !.title = x] : x \in Texts} \cup {[r EXCEPT !.state = c] : c \in States}
  \cup {[r EXCEPT !.assignee = u] : u \in Users \cup {None}}
  \cup {[r EXCEPT !.sprint = x] : x \in Sprints \cup {None}}

\* An issue is created, or a property of it changes.
Save(i) ==
  /\ \E r \in IF New(i) THEN {r \in Rows : r.state = "open"} ELSE IF rows[i] = None THEN {} ELSE Edits(rows[i]) :
       /\ r # rows[i]
       /\ Changed(roster, [rows EXCEPT ![i] = r])
       /\ Published(IssueWrites(i, r))
  /\ UNCHANGED <<graph, project, syncVars, toolVars>>

Delete(i) ==
  /\ rows[i] # None
  /\ Changed(roster, [rows EXCEPT ![i] = None])
  /\ UNCHANGED <<graph, at, todo, project, syncVars, toolVars>>

\* An event about a user, a project or a sprint.
Announce(x) ==
  /\ \E e \in Events : Apply(e, NameWrites(x))
  /\ UNCHANGED <<nodeVars, graph, project, syncVars, toolVars, history>>

EventApplied(e) ==
  /\ at[e] = "applying" /\ Idle(e) /\ Goto(e, "done")
  /\ UNCHANGED <<nodeVars, graph, todo, project, syncVars, toolVars, history>>

-----------------------------------------------------------------------------
(* The tools of the issue agent. *)

\* The upsert to come, once the provider has answered or failed.
Mirror(t, i, r, l) ==
  /\ Goto(t, l)
  /\ todo' = [todo EXCEPT ![t] = RowWrites(i, r)]

\* Node made the change and its answer was lost: the tool mirrors nothing.
AnswerLost(t) == Goto(t, "done") /\ UNCHANGED todo

Patched(r, x, u) ==
  [r EXCEPT !.title = IF x = None THEN @ ELSE x, !.assignee = IF u = None THEN @ ELSE u]

\* UpdateIssueTool finds the issue among all, patches it and mirrors the row
\* it found, patched.
FindIssue(t, i) ==
  /\ at[t] = "idle" /\ rows[i] # None /\ Goto(t, "patching")
  /\ issue' = [issue EXCEPT ![t] = i] /\ seen' = [seen EXCEPT ![t] = rows[i]]
  /\ UNCHANGED <<nodeVars, graph, todo, project, syncVars, past, answer, history>>

\* Mutation: the row is mirrored although Node refused the patch.
PatchIssueRefused(t) ==
  /\ at[t] = "patching" /\ rows[issue[t]] # None
  /\ \E x \in Texts \cup {None}, u \in Users \cup {None} :
       Changed(roster, rows) /\ Mirror(t, issue[t], Patched(seen[t], x, u), "mirroring")
  /\ seen' = [seen EXCEPT ![t] = None]
  /\ UNCHANGED <<graph, project, syncVars, issue, past, answer>>

PatchIssue(t) ==
  /\ at[t] = "patching" /\ rows[issue[t]] # None
  /\ \E x \in Texts \cup {None}, u \in Users \cup {None} :
       /\ Changed(roster, [rows EXCEPT ![issue[t]] = Patched(@, x, u)])
       /\ Mirror(t, issue[t], Patched(seen[t], x, u), "mirroring") \/ AnswerLost(t)
  /\ seen' = [seen EXCEPT ![t] = None]
  /\ UNCHANGED <<graph, project, syncVars, issue, past, answer>>

\* CreateIssueTool goes on to suggest an assignee if it was given none.
PostIssue(t, i) ==
  /\ at[t] = "idle" /\ New(i)
  /\ issue' = [issue EXCEPT ![t] = i]
  /\ project' = [project EXCEPT ![t] = Home[i]]
  /\ \E x \in Texts, u \in Users \cup {None} :
       LET row == [title |-> x, state |-> "open", assignee |-> u, sprint |-> None]
       IN /\ Changed(roster, [rows EXCEPT ![i] = row])
          /\ \/ Mirror(t, i, row, IF u = None THEN "creating" ELSE "mirroring")
             \/ AnswerLost(t)
  /\ UNCHANGED <<graph, syncVars, seen, past, answer>>

AfterMirror(t, l) == Goto(t, IF at[t] = "creating" THEN "resolving" ELSE l)

Mirrored(t) ==
  /\ at[t] \in {"mirroring", "creating"} /\ Idle(t) /\ AfterMirror(t, "updated")
  /\ UNCHANGED <<nodeVars, graph, todo, project, syncVars, toolVars, history>>

\* suggest_assignee. Of its reads the second, of comments, finds nothing: no
\* caller of the service ever writes them.
Suggest(t, p) ==
  /\ at[t] = "idle" /\ Goto(t, "resolving")
  /\ project' = [project EXCEPT ![t] = p]
  /\ UNCHANGED <<nodeVars, graph, todo, syncVars, toolVars, history>>

Assigned(u, p) ==
  {i \in Issues : {Fact("ASSIGNED_TO", u, i), Fact("IN_PROJECT", i, p)} \subseteq graph}
Resolved(u, p) == {i \in Assigned(u, p) : Fact("state", i, "done") \in graph}
OpenLoad(u, p) == Cardinality(Assigned(u, p) \ Resolved(u, p))
\* Mutation: the query does not look at removed_at.
ActiveEver(p) == {u \in Users : {Member(u, p), Removed(u, p)} \cap graph # {}}

Active(p) == {u \in Users : Member(u, p) \in graph}

ReadResolved(t) ==
  /\ at[t] = "resolving" /\ Goto(t, "loading")
  /\ past' = [past EXCEPT ![t] =
       [u \in Users |-> LET done == Resolved(u, project[t])
                        IN 3 * Cardinality(done) + 2 * Cardinality(done \cap Recent)]]
  /\ UNCHANGED <<nodeVars, graph, todo, project, syncVars, issue, seen, answer, history>>

\* Mutation: former members are left out of the winners, not of the candidates.
BestOfAll(t) ==
  LET Score(u) == past[t][u] - OpenLoad(u, project[t])
  IN {u \in Active(project[t]) : \A v \in ActiveEver(project[t]) : Score(v) <= Score(u)}

\* Who is suggested, if anyone: the first of those with the highest score.
Best(t) ==
  LET Score(u) == past[t][u] - OpenLoad(u, project[t])
  IN {u \in Active(project[t]) : \A v \in Active(project[t]) : Score(v) <= Score(u)}

ReadLoad(t) ==
  /\ at[t] = "loading" /\ Goto(t, "done")
  /\ past' = [past EXCEPT ![t] = None] /\ project' = [project EXCEPT ![t] = None]
  /\ UNCHANGED <<nodeVars, graph, todo, syncVars, issue, seen, answer, history>>

\* FindSimilarIssuesTool: the words of the title, then the vector index.
Search(t, p, x) ==
  /\ at[t] = "idle"
  /\ LET found == {i \in Issues : /\ Fact("IN_PROJECT", i, p) \in graph
                                  /\ \E y \in Texts : /\ <<x, y>> \in Alike
                                                      /\ Fact("title", i, y) \in graph}
     IN /\ answer' = [answer EXCEPT ![t] = found]
        /\ Goto(t, IF Embeds /\ found # {} THEN "ranking" ELSE "done")
  /\ UNCHANGED <<nodeVars, graph, todo, project, syncVars, issue, seen, past, history>>

Vectored(i) == \E f \in graph : f.rel = "embedding" /\ f.from = i

Rank(t) ==
  /\ at[t] = "ranking" /\ Goto(t, "done")
  /\ \/ answer' = [answer EXCEPT ![t] = {i \in @ : Vectored(i)}]
     \/ UNCHANGED answer   \* the index failed
  /\ UNCHANGED <<nodeVars, graph, todo, project, syncVars, issue, seen, past, history>>

ToolStep(t) == PatchIssue(t) \/ Mirrored(t) \/ ReadResolved(t) \/ ReadLoad(t) \/ Rank(t)

-----------------------------------------------------------------------------
(* An await raises: Neo4j or Node is away, a row lacks a key.  What was    *)
(* written stays.  A sync ends with a 500, an event with ok = false; a     *)
(* tool swallows what happens to its mirror.  The variables of a call end  *)
(* with it.                                                                *)
Fail(j) ==
  /\ at[j] \notin Ended
  /\ AfterMirror(j, IF j \in Syncs THEN "failed" ELSE "done")
  /\ project' = IF at[j] = "creating" THEN project ELSE [project EXCEPT ![j] = None]
  /\ todo' = [todo EXCEPT ![j] = <<>>] /\ left' = [left EXCEPT ![j] = {}]
  /\ ahead' = [s \in Syncs |-> IF s = j THEN {} ELSE ahead[s]]
  /\ keep' = [s \in Syncs |-> IF s = j THEN {} ELSE keep[s]]
  /\ seen' = [t \in Tools |-> IF t = j THEN None ELSE seen[t]]
  /\ past' = [t \in Tools |-> IF t = j THEN None ELSE past[t]]
  /\ UNCHANGED <<nodeVars, graph, issue, answer, history>>

Init ==
  /\ roster = Roster0 /\ rows = Rows0 /\ said = FactsOf(Roster0, Rows0) /\ changes = 0
  /\ graph = {}
  /\ at = [j \in Jobs |-> "idle"] /\ todo = [j \in Jobs |-> <<>>]
  /\ left = [j \in Jobs |-> {}]
  /\ ahead = [s \in Syncs |-> {}] /\ keep = [s \in Syncs |-> {}]
  /\ project = [j \in Jobs |-> None]
  /\ issue = [t \in Tools |-> None] /\ seen = [t \in Tools |-> None]
  /\ past = [t \in Tools |-> None] /\ answer = [t \in Tools |-> {}]
  /\ steady = [s \in Syncs |-> FALSE] /\ fresh = FALSE

NodeStep ==
  \/ \E u \in Users, p \in Projects : Join(u, p) \/ Leave(u, p)
  \/ \E i \in Issues : Save(i) \/ Delete(i)

Start ==
  \/ \E s \in Syncs : StartSync(s)
  \/ \E x \in Users \cup Projects \cup Sprints : Announce(x)
  \/ \E t \in Tools, i \in Issues : FindIssue(t, i) \/ PostIssue(t, i)
  \/ \E t \in Tools, p \in Projects : Suggest(t, p) \/ \E x \in Texts : Search(t, p, x)

\* What a job does once it runs.
Proceed(j) ==
  \/ Write(j) \/ Fail(j)
  \/ j \in Syncs /\ SyncStep(j)
  \/ j \in Events /\ EventApplied(j)
  \/ j \in Tools /\ ToolStep(j)

Next == NodeStep \/ Start \/ \E j \in Jobs : Proceed(j)

Spec == Init /\ [][Next]_vars

\* Assumed of an await of a sync: it returns or raises. The client of Node has a
\* timeout of 10 seconds, that of Neo4j sets none and leaves it to its driver.
FairSpec == Spec /\ \A s \in Syncs : WF_vars(Proceed(s))

-----------------------------------------------------------------------------
(* Properties *)

Facts ==
  [rel : {"name", "title", "state", "MEMBER_OF", "REMOVED", "IN_PROJECT", "REPORTED",
          "ASSIGNED_TO", "IN_SPRINT", "HAS_LABEL", "BLOCKS"},
   from : Users \cup Projects \cup Issues \cup Sprints \cup Labels,
   to : Users \cup Projects \cup Issues \cup Sprints \cup Labels \cup Texts \cup States]
Upserts == {writes \in Seq(SUBSET Facts) : writes # <<>>}

(* Every variable has its type, and a job between two upserts of a list is *)
(* one that runs.                                                          *)
TypeOK ==
  /\ roster \in [Projects -> SUBSET Users] /\ rows \in [Issues -> Rows \cup {None}]
  /\ said \subseteq Facts /\ graph \subseteq Facts
  /\ changes \in 0..MaxChanges
  /\ at \in [Jobs -> Ended \cup {"projects", "members", "tombstones", "sprints", "issues",
                                 "applying", "patching", "mirroring", "creating",
                                 "resolving", "loading", "ranking"}]
  /\ todo \in [Jobs -> Seq(SUBSET Facts)] /\ left \in [Jobs -> SUBSET Upserts]
  /\ ahead \in [Syncs -> SUBSET Projects] /\ keep \in [Syncs -> SUBSET Users]
  /\ project \in [Jobs -> Projects \cup {None}]
  /\ issue \in [Tools -> Issues \cup {None}] /\ seen \in [Tools -> Rows \cup {None}]
  /\ past \in [Tools -> [Users -> Nat] \cup {None}]
  /\ answer \in [Tools -> SUBSET Issues]
  /\ steady \in [Syncs -> BOOLEAN] /\ fresh \in BOOLEAN

UserNames == {Name(u) : u \in Users}
Running(j) == at[j] \notin Ended

(* However syncs, events and mirrors interleave and fail, and however late *)
(* an event comes, the graph holds what Node said once and nothing else,   *)
(* and forgets nothing but for a newer value (graph/sync.py merges only).  *)
Mirrors == INSTANCE GraphMirror WITH held <- graph
ImplementsMirror == Mirrors!Spec

\* The graph has all that Node's lists say, but for users who are members of
\* nothing, and of memberships that stand nothing else.
Covered ==
  /\ {f \in ListsOf(roster, rows) : f \in UserNames => \E p \in Projects : f.from \in roster[p]}
       \subseteq graph
  /\ \A f \in graph : f.rel = "MEMBER_OF" => f \in Current

(* Once a full_sync ran from end to end while Node's data stood still and  *)
(* nothing older was written, the graph has what the rows of Node's lists  *)
(* say, its active members and the properties of its issues are Node's,    *)
(* and later syncs, events and mirrors keep them so, also between two of   *)
(* their statements.                                                       *)
(* Assignments of the past remain; labels and dependencies are in no list, *)
(* so that a sync repairs none (graph/sync.py:112-113).                    *)
FreshIsExact ==
  fresh =>
    /\ Covered
    /\ \A f \in graph :
         /\ f.rel = "REMOVED" => Member(f.from, f.to) \notin Current
         /\ f.rel \in Single /\ rows[f.from] # None => f \in Current

(* A member of a project is tombstoned only by a sync that overlaps with a *)
(* change: one whose list of members is no longer Node's.                  *)
OnlyOverlapBuries ==
  [][\A u \in Users, p \in Projects :
       Member(u, p) \in graph \ graph' /\ u \in roster[p] =>
         \E s \in Syncs : at[s] = "tombstones" /\ project[s] = p /\ ~steady[s]]_vars

(* The inductive invariant behind these, in parts.                         *)
SyncStages == {"projects", "members", "tombstones", "sprints", "issues"}

\* Where a job stands, its variables are set.
Placed ==
  /\ \A j \in Jobs :
       at[j] \in {"members", "tombstones", "sprints", "issues", "creating", "resolving", "loading"}
         => project[j] \in Projects
  /\ \A t \in Tools :
       /\ at[t] = "patching" => issue[t] \in Issues /\ seen[t] \in Rows
       /\ at[t] = "loading" => past[t] \in [Users -> Nat]

\* Whatever is in the graph, or on its way, Node has said, but for the tombstones.
OneValue(w) == \A f \in w, g \in w : Replaces({g}, f) => f = g
Proper(writes) == \A n \in DOMAIN writes : writes[n] \subseteq said /\ OneValue(writes[n])
Sourced ==
  /\ Current \subseteq said
  /\ \A f \in said : /\ f.rel # "REMOVED"
                     /\ f.rel \in Single => f.from \in Issues
                     /\ f.rel = "MEMBER_OF" => f.to \in Projects
  /\ \A f \in graph : f \in said \/ f.rel = "REMOVED"
  /\ \A t \in Tools : at[t] = "patching" => Told(RowWrites(issue[t], seen[t])) \subseteq said
  /\ \A j \in Jobs : Proper(todo[j]) /\ \A writes \in left[j] : Proper(writes)

\* What a sync got done so far, if nothing contradicted it: of each project
\* that is not ahead, the lists it is past are in the graph or on their way.
Pending(j) == Told(todo[j]) \cup (UNION {Told(writes) : writes \in left[j]})
Team(p) == UNION {{Name(u), Member(u, p)} : u \in roster[p]}
NobodyElse(p) == \A f \in graph : f.rel = "MEMBER_OF" /\ f.to = p => f.from \in roster[p]
Past(s, p, stages) == p \notin ahead[s] /\ ~(project[s] = p /\ at[s] \in stages)
Repaired(s, p) ==
  LET got == graph \cup Pending(s)
  IN /\ Past(s, p, {}) => Name(p) \in got
     /\ Past(s, p, {"members"}) => Team(p) \subseteq got
     /\ Past(s, p, {"members", "tombstones"}) => NobodyElse(p)
     /\ Past(s, p, {"members", "tombstones", "sprints"}) =>
          {Name(x) : x \in {y \in Sprints : Home[y] = p}} \subseteq got
     /\ Past(s, p, {"members", "tombstones", "sprints", "issues"}) =>
          UNION {Told(RowWrites(i, rows[i])) : i \in Existing(p)} \subseteq got
Repairs(s) ==
  steady[s] /\ at[s] \in SyncStages =>
    /\ at[s] = "tombstones" => keep[s] = roster[project[s]]
    /\ \A p \in Projects : Repaired(s, p)

(* The graph and what is on its way to it have a source in Node, a node    *)
(* has one value of each property, and a sync that nothing contradicted    *)
(* has repaired whatever it is past, between any two of its statements.    *)
IndInv ==
  /\ Placed /\ Sourced /\ OneValue(graph)
  /\ \A s \in Syncs : Repairs(s)
  /\ fresh => Covered

(* Once the graph is fresh, whoever is about to be suggested is a member in *)
(* Node, and somebody is whenever the project has a member: the resolved   *)
(* issues of former members, and tombstones between the reads, do not      *)
(* surface (graph/queries.py:79).                                          *)
SuggestsMembers ==
  \A t \in Tools :
    at[t] = "loading" /\ fresh =>
      /\ Best(t) \subseteq roster[project[t]]
      /\ Best(t) = {} => roster[project[t]] = {}

(* A sync that Node's data stand still for makes the graph fresh, unless   *)
(* a statement fails or writes what is no longer so.                       *)
SyncsRepair ==
  \A s \in Syncs : (Running(s) /\ steady[s]) ~> (fresh \/ at[s] = "failed" \/ ~steady[s])

(* What graph/sync.py:45-48 says of the vector of a title: it is stored on *)
(* the node, so that the index has data to query.                          *)
VectorsStored ==
  \A t \in Tools : at[t] = "updated" /\ Embeds => Vectored(issue[t])
=============================================================================
