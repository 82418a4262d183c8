------------------------------- MODULE ReadTurn -------------------------------
(***************************************************************************)
(* A turn that reads: from the intent to the reply of /chat.  An agent     *)
(* that calls tools (agents/issue_agent.py, member_agent.py,               *)
(* sprint_agent.py) or the summary of a sprint (summarize_agent.py), the   *)
(* pass that emits blocks, and the edge of the service in main.py.  Every  *)
(* call of Node may fail, and Node's data change between two of them.      *)
(*                                                                         *)
(* Turns share nothing but the latency statistics: one is modelled, and    *)
(* the others by their records.                                            *)
(***************************************************************************)
EXTENDS SprintSummary, Latency

CONSTANTS
  Issues, Sprints,
  None,            \* no sprint, status or query; an issue or a sprint that does not exist
  Exact, Within,   \* of a query: the sprints it names, and those whose name contains it
  BlocksFromLLM,   \* RENDER_BLOCKS_LLM_ENABLED
  Rows0, Sprints0, Durations,
  MaxCalls,        \* of tools in a turn: the recursion limit of the agent
  MaxChanges, MaxRecords   \* bounds: changes of Node's data, calls of /chat

Rows == [sprint : Sprints \cup {None}, status : Statuses \cup {None}, completed : BOOLEAN]
Intents == {"QUERY_ISSUES", "QUERY_MEMBER", "QUERY_SPRINT", "SUMMARIZE",
            "TEAMS_CONTEXT", "UNKNOWN"}
Queries == DOMAIN Exact

ASSUME ReadAssumption ==
  /\ Rows0 \in [Issues -> Rows \cup {None}] /\ Sprints0 \in [Sprints -> {"planned", "active", None}]
  /\ IsFiniteSet({i \in Issues : Rows0[i] # None})
  /\ IsFiniteSet(Statuses) /\ IsFiniteSet(Severities)
  /\ Category \in [Statuses -> {"todo", "done"}] /\ Other \notin Statuses
  /\ None \notin Issues \cup Sprints \cup Statuses \cup Rows
  /\ Exact \in [Queries -> SUBSET Sprints] /\ Within \in [Queries -> SUBSET Sprints]
  /\ BlocksFromLLM \in BOOLEAN /\ Durations \subseteq Nat
  /\ Window \in Nat \ {0} /\ {MaxCalls, MaxChanges, MaxRecords} \subseteq Nat

VARIABLES
  rows, sprints, columns,   \* Node: issues, sprints, and the statuses that exist
  at, intent, query,        \* the turn: what it awaits, and what it is about
  trace,      \* what its calls came back with
  sprint, issues,           \* a summary: the sprint, and its issues as read
  reply,      \* the result, as far as it is made
  stats,      \* latency_stats
  steady,     \* history: Node's data stood still since the turn began
  since,      \* history: calls since one that took the longest, Window at most
  changes     \* changes of Node's data so far

node == <<rows, sprints, columns, changes>>
latency == <<stats, since>>
vars == <<node, at, intent, query, trace, sprint, issues, reply, steady, latency>>

-----------------------------------------------------------------------------
(* Replies.  A text admits that the server was not reached, mentions one   *)
(* of the words that say so, of an issue say, or is plain.                 *)

Text(says, caveat) == [says |-> says, caveat |-> caveat, figures |-> None, blocks |-> {}]
NoReply == Text("none", FALSE)
Admits(r) == r.says = "admits" \/ r.caveat

\* Mutation: only the last call counts.
ToolErrorAtEnd(calls) == calls # <<>> /\ calls[Len(calls)] = "Failed"

ToolErrorInTrace(calls) == \E k \in DOMAIN calls : calls[k] = "Failed"
AlreadyFlagsFailure(says) == says \in {"admits", "mentions"}
Finalize(says, calls) ==
  Text(says, ToolErrorInTrace(calls) /\ ~AlreadyFlagsFailure(says))

\* _route_intent
Agent(i) ==
  CASE i = "QUERY_ISSUES" -> "issue_agent"
    [] i = "QUERY_SPRINT" -> "sprint_agent"
    [] i = "QUERY_MEMBER" -> "member_agent"
    [] i = "SUMMARIZE" -> "summarize_agent"
    [] OTHER -> "none"
ReAct == {"issue_agent", "sprint_agent", "member_agent"}
EmitIntents == {"QUERY_ISSUES", "QUERY_SPRINT", "QUERY_MEMBER"}

-----------------------------------------------------------------------------
(* Node's data.  They matter to a summary alone, from its first call on. *)

Change ==
  /\ at \in {"sprints", "active", "issues", "statuses"}
  /\ changes < MaxChanges /\ changes' = changes + 1 /\ steady' = FALSE
  /\ UNCHANGED <<at, intent, query, trace, sprint, issues, reply, latency>>

\* An issue is created and planned, moved, edited, or deleted.
Edits(r) ==
  IF r = None THEN {x \in Rows : ~x.completed}
  ELSE {x \in Rows : x.sprint = r.sprint \/ (x.status = r.status /\ x.completed = r.completed)}
       \cup {None}

ChangeIssue(i) ==
  /\ Change
  /\ \E r \in Edits(rows[i]) : r # rows[i] /\ rows' = [rows EXCEPT ![i] = r]
  /\ UNCHANGED <<sprints, columns>>

\* One sprint of a project is active at most.
ChangeSprint(s) ==
  /\ Change
  /\ \E c \in {"planned", "active", None} :
       /\ c # sprints[s]
       /\ c = "active" => \A o \in Sprints : sprints[o] # "active"
       /\ sprints' = [sprints EXCEPT ![s] = c]
  /\ UNCHANGED <<rows, columns>>

ChangeStatus(c) ==
  /\ Change /\ columns' = IF c \in columns THEN columns \ {c} ELSE columns \cup {c}
  /\ UNCHANGED <<rows, sprints>>

-----------------------------------------------------------------------------
(* The turn *)

Begin(i, q) ==
  /\ at = "idle" /\ stats.count < MaxRecords
  /\ intent' = i /\ query' = IF i = "SUMMARIZE" THEN q ELSE None
  /\ trace' = <<>> /\ sprint' = None /\ issues' = <<>> /\ steady' = FALSE
  /\ \/ Agent(i) \in ReAct /\ at' = "agent" /\ reply' = NoReply
     \/ Agent(i) = "summarize_agent" /\ at' = "sprints" /\ reply' = NoReply
     \/ Agent(i) = "summarize_agent" /\ at' = "edge" /\ reply' = Text("plain", FALSE)
        \* no project: it asks for one
     \/ Agent(i) = "none" /\ at' = "edge" /\ reply' = Text("plain", FALSE)
        \* _UNKNOWN_MESSAGE, which the persona leaves as it is
  /\ UNCHANGED <<node, latency>>

CallTool ==
  /\ at = "agent" /\ Len(trace) < MaxCalls
  /\ \E got \in {"Failed", "none", "data"} : trace' = Append(trace, got)
  /\ UNCHANGED <<node, at, intent, query, sprint, issues, reply, steady, latency>>

Say(r, l) ==
  /\ reply' = r /\ at' = l
  /\ UNCHANGED <<node, intent, query, steady, latency>>

\* What the model says of what it saw is its own; the sprint agent ships it as it is.
AgentAnswers ==
  /\ at = "agent"
  /\ \E says \in {"plain", "mentions", "admits"} :
       Say(IF Agent(intent) = "sprint_agent" THEN Text(says, FALSE) ELSE Finalize(says, trace),
           "emit")
  /\ UNCHANGED <<trace, sprint, issues>>

\* The model's provider fails: _error_message.
AgentRaises ==
  /\ at = "agent" /\ Say(Text("admits", FALSE), "emit")
  /\ UNCHANGED <<trace, sprint, issues>>

\* A call of the summary fails, and the reply says so, or that there is no sprint.
FetchFails ==
  /\ at \in {"sprints", "active", "issues", "statuses"}
  /\ trace' = Append(trace, "Failed")
  /\ Say(Text(IF at = "active" THEN "absent" ELSE "admits", FALSE), "edge")
  /\ UNCHANGED <<sprint, issues>>

Goto(l) ==
  /\ at' = l /\ trace' = Append(trace, "data")
  /\ steady' = (steady \/ at = "sprints")
  /\ UNCHANGED <<node, intent, query, reply, latency>>

Existing == {s \in Sprints : sprints[s] # None}
\* _resolve_sprint: the first of these, in an order that is Node's.
Resolve(q) ==
  IF Exact[q] \cap Existing # {} THEN Exact[q] \cap Existing ELSE Within[q] \cap Existing
ActiveSprints == {s \in Sprints : sprints[s] = "active"}

FetchSprints ==
  /\ at = "sprints"
  /\ \/ Resolve(query) = {} /\ Goto("active") /\ UNCHANGED sprint
     \/ \E s \in Resolve(query) : Goto("issues") /\ sprint' = s
  /\ UNCHANGED issues

FetchActive ==
  /\ at = "active"
  /\ \/ /\ ActiveSprints = {} /\ Say(Text("absent", FALSE), "edge")
        /\ UNCHANGED <<trace, sprint>>
     \/ \E s \in ActiveSprints : Goto("issues") /\ sprint' = s
  /\ UNCHANGED issues

\* Mutation: the issues of every sprint.
FetchIssuesAll ==
  /\ at = "issues" /\ Goto("statuses")
  /\ issues' = [i \in {k \in Issues : rows[k] # None} |-> rows[i]]
  /\ UNCHANGED sprint

FetchIssues ==
  /\ at = "issues" /\ Goto("statuses")
  /\ issues' = [i \in {k \in Issues : rows[k] # None /\ rows[k].sprint = sprint} |-> rows[i]]
  /\ UNCHANGED sprint

FetchStatuses ==
  /\ at = "statuses"
  /\ Say([says |-> "plain", caveat |-> FALSE,
          figures |-> TextOf(sprint, issues, columns),
          blocks |-> BlocksOf(issues, columns)], "edge")
  /\ UNCHANGED <<trace, sprint, issues>>

\* emit_blocks: valid blocks of the model, or none.
Emit ==
  /\ at = "emit" /\ at' = "edge"
  /\ \/ UNCHANGED reply
     \/ /\ BlocksFromLLM /\ intent \in EmitIntents
        /\ reply' = [reply EXCEPT !.blocks = {[type |-> "model"]}]
  /\ UNCHANGED <<node, intent, query, trace, sprint, issues, steady, latency>>

\* Mutation: blocks are taken as they come, none included.
WireBlocksAsIs(r) == r.blocks

\* ensure_wire_blocks
WireBlocks(r) == IF r.blocks = {} THEN {[type |-> "prose"]} ELSE r.blocks

Recorded(ms) ==
  /\ stats' = Record(stats, ms)
  /\ since' = IF \A d \in Durations : d <= ms THEN 0
              ELSE IF since < Window THEN since + 1 ELSE since

\* attach_render_blocks, and the finally of chat.
Edge ==
  /\ at = "edge" /\ at' = "idle"
  /\ reply' = [reply EXCEPT !.blocks = WireBlocks(reply)]
  /\ \E ms \in Durations : Recorded(ms)
  /\ UNCHANGED <<node, intent, query, trace, sprint, issues, steady>>

\* Another call of /chat ends, with a reply or without; when in a turn it does
\* makes no difference to either.
AnotherCallEnds ==
  /\ at = "idle" /\ stats.count < MaxRecords
  /\ \E ms \in Durations : Recorded(ms)
  /\ UNCHANGED <<node, at, intent, query, trace, sprint, issues, reply, steady>>

Init ==
  /\ rows = Rows0 /\ sprints = Sprints0 /\ columns = Statuses /\ changes = 0
  /\ at = "idle" /\ intent = None /\ query = None /\ trace = <<>>
  /\ sprint = None /\ issues = <<>> /\ reply = NoReply /\ steady = FALSE
  /\ stats = NoStats /\ since = 0

NodeStep ==
  \/ \E i \in Issues : ChangeIssue(i)
  \/ \E s \in Sprints : ChangeSprint(s)
  \/ \E c \in Statuses : ChangeStatus(c)

TurnStep ==
  \/ AgentAnswers \/ AgentRaises \/ FetchFails \/ FetchSprints \/ FetchActive
  \/ FetchIssues \/ FetchStatuses \/ Emit \/ Edge

Next ==
  \/ NodeStep \/ AnotherCallEnds \/ CallTool \/ TurnStep
  \/ \E i \in Intents, q \in Queries : Begin(i, q)

Spec == Init /\ [][Next]_vars

\* Assumed of a turn: its awaits come back (Node's client times out after ten seconds,
\* the models' and Neo4j's leave it to their libraries), and an agent that has made
\* all its calls answers.
FairSpec == Spec /\ WF_vars(CallTool \/ TurnStep)

-----------------------------------------------------------------------------
(* Properties *)

IsReply(r) ==
  /\ DOMAIN r = {"says", "caveat", "figures", "blocks"} /\ r.caveat \in BOOLEAN
  /\ r.says \in {"none", "plain", "mentions", "admits", "absent"}

(* Every variable has its type; statistics count what they hold, and there *)
(* is a reply whenever a turn is past its calls.                           *)
TypeOK ==
  /\ rows \in [Issues -> Rows \cup {None}]
  /\ sprints \in [Sprints -> {"planned", "active", None}] /\ columns \subseteq Statuses
  /\ at \in {"idle", "agent", "sprints", "active", "issues", "statuses", "emit", "edge"}
  /\ intent \in Intents \cup {None} /\ query \in Queries \cup {None}
  /\ trace \in Seq({"Failed", "none", "data"}) /\ Len(trace) <= Larger(MaxCalls, 4)
  /\ sprint \in Sprints \cup {None} /\ DOMAIN issues \subseteq Issues
  /\ IsReply(reply) /\ (at \in {"emit", "edge"} => reply.says # "none")
  /\ stats.count \in 0..MaxRecords
  /\ Len(stats.samples) = Smaller(stats.count, Window)
  /\ since \in 0..Window /\ steady \in BOOLEAN /\ changes \in 0..MaxChanges

Replied == at = "idle" /\ reply # NoReply
Summarised == reply.figures # None

AddsUp(f, blocks) ==
  LET finished == {c \in DOMAIN f.status : c # Other /\ Category[c] = "done"}
  IN /\ SumOf(f.status) = f.total /\ SumOf(f.priority) <= f.total
     /\ SumOf([c \in finished |-> f.status[c]]) <= f.done /\ f.done <= f.total
     /\ \A b \in blocks : b.type = "breakdown" => SumOf(b.segments) <= f.total
     /\ f.total > 0 => \E b \in blocks : b.type = "breakdown" /\ b.dimension = "status"

(* When a call of the turn failed, the text that ends it admits it, but    *)
(* for three ways to stay silent: the sprint agent trusts its model, a     *)
(* word like "unavailable" in the data passes for an admission             *)
(* (agents/react_utils.py), and the summary takes an active sprint it      *)
(* could not ask for as none (agents/summarize_agent.py).                  *)
ThreeSilences ==
  Replied /\ (\E k \in DOMAIN trace : trace[k] = "Failed") /\ ~Admits(reply) =>
    intent = "QUERY_SPRINT" \/ reply.says \in {"mentions", "absent"}

(* The figures of a summary add up though each list is of another time: an *)
(* issue is in one segment of the status, those of done statuses are done, *)
(* and the blocks, when there are issues, show the figures of the text.    *)
SummaryAddsUp == Summarised => AddsUp(reply.figures, reply.blocks)

\* What a summary is of, as Node's data are.
Asked == IF Resolve(query) # {} THEN Resolve(query) ELSE ActiveSprints
IssuesOf(s) == {i \in Issues : rows[i] # None /\ rows[i].sprint = s}

IsTrue(r) ==
  /\ r.figures # None =>
       LET f == r.figures
           its == IssuesOf(f.sprint)
       IN /\ f.sprint \in Asked /\ f.total = Cardinality(its)
          /\ \A c \in columns :
               LET n == Cardinality({i \in its : rows[i].status = c})
               IN IF n = 0 THEN c \notin DOMAIN f.status
                  ELSE c \in DOMAIN f.status /\ f.status[c] = n
  /\ r.says = "absent" /\ ~ToolErrorInTrace(trace) => Asked = {}

(* A summary that Node's data stood still for tells what they are: the     *)
(* sprint that was named, by the whole of its name if one is, else the     *)
(* active one (agents/summarize_agent.py), and its issues; "no sprint"     *)
(* only if there is none or Node failed.                                   *)
SteadySummaryIsTrue == Replied /\ steady /\ intent = "SUMMARIZE" => IsTrue(reply)

(* However calls of /chat end, the percentiles of metering/metrics.py are  *)
(* in order and within the extremes, and once Window calls were quicker    *)
(* than the slowest there can be, it is out of them.                       *)
PercentilesInOrder ==
  stats.count > 0 =>
    LET s == Snapshot(stats)
    IN /\ s.p50 <= s.p95 /\ s.p95 <= s.max /\ s.mean <= s.max
       /\ \E k \in DOMAIN stats.samples : 100 * stats.samples[k] <= s.p50
       /\ \A d \in Durations :
            (\A e \in Durations : e <= d) /\ since >= Window => s.p95 < 100 * d

(* Every turn ends, and with blocks for the frontend to render.            *)
EveryReadRenders == (at # "idle") ~> (Replied /\ reply.blocks # {})

-----------------------------------------------------------------------------
(* What the properties rest on: what a turn has done when it awaits what   *)
(* it awaits, and what the statistics keep.                                *)

\* Calls that the summary has made, before each of its calls.
Fetched == [sprints |-> 0, active |-> 1, issues |-> 2, statuses |-> 3]

TurnSoFar ==
  /\ at # "idle" => stats.count < MaxRecords
  /\ at \in {"agent", "emit"} => Agent(intent) \in ReAct
  /\ at = "agent" => Len(trace) <= MaxCalls
  /\ at \in DOMAIN Fetched =>
       intent = "SUMMARIZE" /\ Len(trace) <= Fetched[at] /\ ~ToolErrorInTrace(trace)
  /\ at = "emit" => reply.figures = None
  /\ IsFiniteSet({i \in Issues : rows[i] # None}) /\ IsFiniteSet(DOMAIN issues)

\* A failed call is admitted, or in one of the three ways not.
FailuresAdmitted ==
  at \in {"emit", "edge", "idle"} /\ ToolErrorInTrace(trace) =>
    Admits(reply) \/ intent = "QUERY_SPRINT" \/ reply.says \in {"mentions", "absent"}

\* What has been read is as Node still has it.
SteadySoFar ==
  steady /\ intent = "SUMMARIZE" =>
    /\ at = "active" => Resolve(query) = {}
    /\ at \in {"issues", "statuses"} => sprint \in Asked
    /\ at = "statuses" => issues = [i \in IssuesOf(sprint) |-> rows[i]]
    /\ at \in {"edge", "idle"} => IsTrue(reply)

\* The last `since` of the samples are of calls that did not take the longest.
StatsAddUp ==
  /\ stats \in [count : Nat, total : Nat, max : Nat, samples : Seq(Durations)]
  /\ stats.total <= stats.count * stats.max /\ since <= stats.count
  /\ \A k \in DOMAIN stats.samples :
       /\ stats.samples[k] <= stats.max
       /\ k > Len(stats.samples) - since => \E d \in Durations : stats.samples[k] < d

IndInv ==
  TypeOK /\ TurnSoFar /\ FailuresAdmitted /\ SteadySoFar /\ SummaryAddsUp /\ StatsAddUp
=============================================================================
