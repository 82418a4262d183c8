------------------------------ MODULE WriteFlow -------------------------------
(***************************************************************************)
(* One write, from the entities the LLM extracted to the request Node is   *)
(* sent: the write half of `run` and `_validate_intent` in                 *)
(* agents/supervisor.py, and agents/write_executor.py.                     *)
(*                                                                         *)
(* A turn proposes and a later one confirms; every lookup is an await, so  *)
(* the project's members, sprints and issues may change before and after   *)
(* each of them, and any lookup may fail.  When a proposal may be          *)
(* confirmed is the business of Conversation.                              *)
(***************************************************************************)
EXTENDS Entities, Integers, Sequences, SequencesExt

CONSTANTS
  Names,        \* of members and sprints, as users and Node write them
  Ids,          \* their UUIDs, and those of statuses
  Within,       \* the pairs of names of which the first occurs in the second
  Messages,     \* what a message is and what the LLM makes of it
  Members0, Sprints0, Issues0,   \* the project when the message comes
  MaxChanges    \* bound: changes of the project

Entries == [id : Ids, name : Names]
Keys == {"title", "name", "goal", "type", "priority", "status", "status_id",
         "assignee", "assignee_id", "sprint", "sprint_id", "issue", "number"}
Forms == {"int", "hash", "words"}   \* of an issue number: 42, "#42", no number

ASSUME NamesAssumption ==
  /\ Within \subseteq Names \X Names
  /\ \A n \in Names : <<n, n>> \in Within
  /\ Names \cap Ids = {}
  /\ Members0 \in Seq(Entries) /\ Sprints0 \in Seq(Entries) /\ Issues0 \subseteq Nat
  /\ MaxChanges \in Nat

Intents == {"create_issue", "update_issue", "create_sprint"}

\* An LLM may return any of the keys; grounding and the title's parts concern
\* title and name only.
IsExtraction(e) ==
  /\ DOMAIN e \subseteq Keys
  /\ \A k \in {"title", "name"} : Get(e, k) # Null => Get(e, k) \in Titles

ASSUME MessagesAssumption ==
  /\ Null \notin Names \cup Ids /\ \A t \in Titles : t # Null
  /\ Null \notin Priorities \cup {"task"}
  /\ \A m \in Messages :
       /\ m.intent \in Intents /\ IsExtraction(m.entities)
       /\ m.cues \subseteq Cues /\ m.quoted \in BOOLEAN
       /\ m.sure \in BOOLEAN       \* confidence >= MIN_WRITE_CONFIDENCE
       /\ m.project \in BOOLEAN    \* the turn is about a project

VARIABLES
  stage,     \* the await the write is suspended in, or how it ended
  message,
  entities,  \* intent_result.entities; after the yes, the merged ones
  resolved,  \* the ids validation found
  errors,    \* the kinds of thing validation missed
  preview,   \* what the user was shown
  body,      \* what Node was sent
  members, sprints, issues,   \* Neo4j's active members by name; Node's records
  changes,   \* changes of the project so far
  outage     \* a lookup of this write has failed

project == <<members, sprints, issues>>
vars == <<stage, message, entities, resolved, errors, preview, body, project,
          changes, outage>>

Kinds == {"assignee", "sprint"}
IdKey == [assignee |-> "assignee_id", sprint |-> "sprint_id"]

Validating == {"checking_issue", "resolving_assignee", "checking_assignee",
               "resolving_sprint", "checking_sprint", "validated"}
Asking == {"needs_input", "validation_failed"}
Failures == {"no_title", "no_status", "no_number", "nothing", "invalid_number",
             "unreachable", "not_found"}
Stages == {"extracted", "awaiting", "cancelled", "executing", "sent"}
          \cup Validating \cup Asking \cup Failures

TypeOK ==
  /\ stage \in Stages
  /\ message \in Messages
  /\ IsExtraction(entities)
  /\ DOMAIN resolved \subseteq {"assignee_id", "sprint_id"}
  /\ \A k \in DOMAIN resolved : resolved[k] \in Ids
  /\ errors \subseteq Kinds \cup {"issue"}
  /\ members \in Seq(Entries) /\ sprints \in Seq(Entries) /\ issues \subseteq Nat
  /\ changes \in Nat /\ outage \in BOOLEAN

Init ==
  /\ stage = "extracted"
  /\ message \in Messages
  /\ entities = message.entities
  /\ resolved = <<>> /\ errors = {} /\ preview = {} /\ body = <<>>
  /\ members = Members0 /\ sprints = Sprints0 /\ issues = Issues0
  /\ changes = 0 /\ outage = FALSE

-----------------------------------------------------------------------------
(* Before validation. *)

intent == message.intent
kept == <<message, project, changes>>

AskToRephrase ==
  /\ stage = "extracted" /\ ~message.sure
  /\ stage' = "needs_input"
  /\ UNCHANGED <<entities, resolved, errors, preview, body, kept, outage>>

\* Normalise and ground; a create without a title ends here, a turn without
\* a project is not validated.
Prepare ==
  /\ stage = "extracted" /\ message.sure
  /\ entities' = Prepared(intent, entities, message.cues, message.quoted)
  /\ stage' = IF intent = "create_issue" /\ EffectiveTitle(entities') = Null
                THEN "needs_input"
              ELSE IF intent = "create_sprint" \/ ~message.project THEN "validated"
              ELSE IF intent = "update_issue" THEN "checking_issue"
              ELSE "resolving_assignee"
  /\ UNCHANGED <<resolved, errors, preview, body, kept, outage>>

-----------------------------------------------------------------------------
(* Validation: _validate_intent. *)

Number == Either(entities, "issue", "number")
Named(k) == Either(entities, k, IdKey[k])

Directory(k) == IF k = "assignee" THEN members ELSE sprints

\* Where find_user_by_name or _match_sprint_name find the name n.
Matches(k, n) ==
  {i \in DOMAIN Directory(k) :
     \/ <<n, Directory(k)[i].name>> \in Within
     \/ k = "sprint" /\ <<Directory(k)[i].name, n>> \in Within}

Resolving(k) == IF k = "assignee" THEN "resolving_assignee" ELSE "resolving_sprint"
Checking(k) == IF k = "assignee" THEN "checking_assignee" ELSE "checking_sprint"
After(k) == IF k = "assignee" THEN "resolving_sprint" ELSE "validated"

Lookup(succeeds) ==
  /\ outage' = (outage \/ ~succeeds)
  /\ UNCHANGED <<entities, preview, body, kept>>

\* A number to look up; a text that is none is left to the executor.
HasNumber == Number # Null /\ Number.form # "words"

CheckIssue ==
  /\ stage = "checking_issue" /\ stage' = "resolving_assignee"
  /\ \/ ~HasNumber /\ Lookup(TRUE) /\ UNCHANGED errors
     \/ HasNumber /\ Lookup(FALSE) /\ UNCHANGED errors
     \/ /\ HasNumber /\ Lookup(TRUE)
        /\ errors' = IF Number.num \in issues THEN errors ELSE errors \cup {"issue"}
  /\ UNCHANGED resolved

SkipName(k) ==
  /\ stage = Resolving(k) /\ stage' = After(k)
  /\ \/ Named(k) = Null /\ UNCHANGED resolved
     \/ Named(k) \in Ids /\ resolved' = With(resolved, IdKey[k], Named(k))
  /\ Lookup(TRUE) /\ UNCHANGED errors

\* _resolve_assignee_via_graph, _resolve_sprint_via_node.
ResolveName(k) ==
  /\ stage = Resolving(k) /\ Named(k) \in Names
  /\ \/ \E i \in Matches(k, Named(k)) :
          /\ \A j \in Matches(k, Named(k)) : i <= j
          /\ resolved' = With(resolved, IdKey[k], Directory(k)[i].id)
          /\ Lookup(TRUE) /\ stage' = After(k)
     \/ /\ Lookup(TRUE) /\ Matches(k, Named(k)) = {}
        /\ stage' = Checking(k) /\ UNCHANGED resolved
     \/ Lookup(FALSE) /\ stage' = Checking(k) /\ UNCHANGED resolved
  /\ UNCHANGED errors

\* Mutation: a name that cannot be looked up is refused.
CheckNameStrictly(k) ==
  /\ stage = Checking(k) /\ stage' = After(k)
  /\ \/ Lookup(FALSE) /\ errors' = errors \cup {k}
     \/ /\ Lookup(TRUE)
        /\ errors' = IF Matches(k, Named(k)) # {} THEN errors ELSE errors \cup {k}
  /\ UNCHANGED resolved

\* _check_assignee_name, _check_sprint_name: the name is looked up again.
CheckName(k) ==
  /\ stage = Checking(k) /\ stage' = After(k)
  /\ \/ Lookup(FALSE) /\ UNCHANGED errors
     \/ /\ Lookup(TRUE)
        /\ errors' = IF Matches(k, Named(k)) # {} THEN errors ELSE errors \cup {k}
  /\ UNCHANGED resolved

Refuse ==
  /\ stage = "validated" /\ errors # {}
  /\ stage' = "validation_failed"
  /\ UNCHANGED <<entities, resolved, errors, preview, body, kept, outage>>

-----------------------------------------------------------------------------
(* The proposal and its answer. *)

Propose ==
  /\ stage = "validated" /\ errors = {}
  /\ preview' = Preview(intent, entities)
  /\ stage' = "awaiting"
  /\ UNCHANGED <<entities, resolved, errors, body, kept, outage>>

Decline ==
  /\ stage = "awaiting" /\ stage' = "cancelled"
  /\ UNCHANGED <<entities, resolved, errors, preview, body, kept, outage>>

\* Mutation: what the LLM extracted wins over what validation found.
MergedBackwards == Over(entities, resolved)

Merged == Over(resolved, entities)

Confirm ==
  /\ stage = "awaiting" /\ stage' = "executing"
  /\ entities' = Merged
  /\ UNCHANGED <<resolved, errors, preview, body, kept, outage>>

-----------------------------------------------------------------------------
(* Execution: write_executor.py. *)

Execute(i, outcome) ==
  /\ stage = "executing" /\ intent = i /\ stage' = outcome
  /\ UNCHANGED <<entities, resolved, errors, preview, kept, outage>>

Send(i, b) == Execute(i, "sent") /\ body' = b
Fail(i, outcome) == Execute(i, outcome) /\ UNCHANGED body

\* The status is looked up unless the entities have one.
ExecuteCreateIssue ==
  LET titled == Get(entities, "title") # Null
      lookup == Get(entities, "status_id") = Null
  IN  \/ ~titled /\ Fail("create_issue", "no_title")
      \/ titled /\ lookup /\ Fail("create_issue", "unreachable")
      \/ titled /\ lookup /\ Fail("create_issue", "no_status")
      \/ titled /\ Send("create_issue", IssueBody(entities, "default"))

\* int(Number)
IsInt == Number # Null /\ Number.form = "int"

ExecuteUpdateIssue ==
  LET fields == UpdateBody(entities)
      changing == Number # Null /\ DOMAIN fields # {}
  IN  \/ Number = Null /\ Fail("update_issue", "no_number")
      \/ Number # Null /\ ~changing /\ Fail("update_issue", "nothing")
      \/ changing /\ ~IsInt /\ Fail("update_issue", "invalid_number")
      \/ changing /\ IsInt /\ Fail("update_issue", "unreachable")
      \/ /\ changing /\ IsInt /\ Number.num \notin issues
         /\ Fail("update_issue", "not_found")
      \/ /\ changing /\ IsInt /\ Number.num \in issues
         /\ Send("update_issue", With(fields, "issue", Number))

ExecuteCreateSprint ==
  \/ Either(entities, "name", "title") = Null /\ Fail("create_sprint", "no_title")
  \/ /\ Either(entities, "name", "title") # Null
     /\ Send("create_sprint", SprintBody(entities))

-----------------------------------------------------------------------------
(* The project changes: a member leaves, a sprint or an issue is deleted.  *)

Shorter(s) == {RemoveAt(s, i) : i \in 1 .. Len(s)}

Change ==
  /\ changes < MaxChanges /\ changes' = changes + 1
  /\ \/ members' \in Shorter(members) /\ UNCHANGED <<sprints, issues>>
     \/ sprints' \in Shorter(sprints) /\ UNCHANGED <<members, issues>>
     \/ issues' \in {issues \ {i} : i \in issues} /\ UNCHANGED <<members, sprints>>
  /\ UNCHANGED <<stage, message, entities, resolved, errors, preview, body, outage>>

Validate ==
  \/ CheckIssue
  \/ \E k \in Kinds : SkipName(k) \/ ResolveName(k) \/ CheckName(k)
  \/ Refuse

Next ==
  \/ AskToRephrase \/ Prepare \/ Validate
  \/ Propose \/ Decline \/ Confirm
  \/ ExecuteCreateIssue \/ ExecuteUpdateIssue \/ ExecuteCreateSprint
  \/ Change

Spec == Init /\ [][Next]_vars

-----------------------------------------------------------------------------
(* Properties. *)

Sent(i) == stage = "sent" /\ intent = i
ValuesOf(pairs, label) == {p[2] : p \in {q \in pairs : q[1] = label}} \ {Null}
Previewed(label) == ValuesOf(preview, label)

\* The values the preview names for a type, a priority, an update's title and
\* issue, and a sprint's name are those Node is sent, and Node is sent none of
\* these unpreviewed: normalisation comes before the preview and the executor
\* derives nothing anew.
PostedAsPreviewed ==
  stage = "sent" =>
    \A label \in {"type", "priority", "name", "issue"}
                 \cup (IF intent = "update_issue" THEN {"title"} ELSE {}) :
      Previewed(label) = IF label \in DOMAIN body THEN {body[label]} ELSE {}

\* An issue is created under the title that was extracted, whichever key it came
\* under, without its tokens that are invented altogether and with all the others:
\* those that only have an invented word in them stay whole, as strip_novel says.
TitleIsPruned ==
  Sent("create_issue") =>
    LET raw == Either(message.entities, "title", "name")
    IN  "title" \in DOMAIN body /\ body["title"] = {p \in raw : p # "novel"}

\* A priority the user gave is posted, whatever conventions their words call for.
GivenPriorityWins ==
  LET given == Get(message.entities, "priority")
  IN  stage = "sent" /\ intent # "create_sprint" /\ given # Null =>
        body["priority"] = Canonical(given)

\* The things a message names that the project does not have.
Unknown ==
  {k \in Kinds : Named(k) \in Names /\ Matches(k, Named(k)) = {}}
  \cup (IF intent = "update_issue" /\ HasNumber /\ Number.num \notin issues
        THEN {"issue"} ELSE {})

\* While the project does not change, validation refuses only what is unknown,
\* even when lookups fail, and when none fails it proposes only what is known,
\* with an id for everything named.
ValidationDecides ==
  changes = 0 /\ message.project /\ intent # "create_sprint" =>
    /\ stage = "validation_failed" => errors # {} /\ errors \subseteq Unknown
    /\ stage = "awaiting" /\ ~outage =>
         /\ Unknown = {}
         /\ \A k \in Kinds : Named(k) # Null => IdKey[k] \in DOMAIN resolved

\* An id that validation found is the one that is posted, and it was found under
\* the name the user confirmed, whatever other ids the LLM returned.
ResolvedAsPreviewed ==
  stage = "sent" /\ intent # "create_sprint" /\ changes = 0 =>
    \A k \in Kinds : IdKey[k] \in DOMAIN resolved =>
       /\ k \in DOMAIN body
       /\ \/ body[k] \in Previewed(k)
          \/ \E n \in Previewed(k) \cap Names :
               \E i \in Matches(k, n) : Directory(k)[i].id = body[k]

-----------------------------------------------------------------------------
(* What the properties rest on: the entities after `Prepare`, and what     *)
(* validation has found so far.                                            *)

Ready == stage \notin {"extracted", "needs_input"}

\* The key the executor reads has the title of the message, pruned, or nothing.
Pruned ==
  LET raw == Either(message.entities, "title", "name")
      title == Get(entities, "title")
  IN  Ready /\ intent = "create_issue" /\ title # Null =>
        raw # Null /\ title = {p \in raw : p # "novel"}

PriorityKept ==
  LET given == Get(message.entities, "priority")
  IN  Ready /\ intent # "create_sprint" /\ given # Null =>
        Get(entities, "priority") = Canonical(given)

\* The preview still says of these what the entities say, although the yes has
\* put ids in them.
PreviewStands ==
  stage \in {"awaiting", "executing"} =>
    \A label \in {"type", "priority", "title", "name", "issue"} :
      Previewed(label) = ValuesOf(Preview(intent, entities), label)

\* Nothing of this is touched before the extraction is prepared.
Untouched == stage = "extracted" => entities = message.entities

\* Validation begins with nothing found and nothing missed, passes through the
\* lookups of its intent, and proposes only what it missed nothing of.
OnCourse ==
  /\ stage = "extracted" => errors = {} /\ DOMAIN resolved = {}
  /\ stage \in Validating \ {"validated"} => intent # "create_sprint"
  /\ stage = "checking_issue" => intent = "update_issue"
  /\ \A k \in Kinds : stage = Checking(k) => Named(k) \in Names
  /\ stage = "awaiting" => errors = {}
  /\ stage = "validation_failed" => errors # {}

Unanswered == Validating \cup {"awaiting", "validation_failed"}

MissesTheUnknown == changes = 0 /\ stage \in Unanswered => errors \subseteq Unknown

\* The stages that come once the kind k has been looked up.
Past(k) == {"validated", "awaiting"}
           \cup IF k = "assignee" THEN {"resolving_sprint", "checking_sprint"} ELSE {}

\* Where no lookup failed, what has been looked up was found or is missed.
FindsTheKnown ==
  changes = 0 /\ ~outage /\ message.project /\ intent # "create_sprint" =>
    /\ stage \in (Validating \ {"checking_issue"}) \cup {"awaiting"} =>
         Unknown \cap {"issue"} \subseteq errors
    /\ \A k \in Kinds :
         /\ stage = Checking(k) => Matches(k, Named(k)) = {}
         /\ stage \in Past(k) /\ Named(k) # Null =>
              k \in errors \/ (IdKey[k] \in DOMAIN resolved /\ k \notin Unknown)

\* n is the id, or a name that it is found under.
Means(k, n, id) ==
  n = id \/ (n \in Names /\ \E i \in Matches(k, n) : Directory(k)[i].id = id)

\* An id that was found is what was named, then what the preview shows, and
\* it wins over what else the LLM returned.
FindsTheNamed ==
  \A k \in Kinds : IdKey[k] \in DOMAIN resolved =>
    LET id == resolved[IdKey[k]]
    IN  /\ changes = 0 /\ stage \in Unanswered =>
             intent # "create_sprint" /\ Means(k, Named(k), id)
        /\ changes = 0 /\ stage \in {"awaiting", "executing"} =>
             \E n \in Previewed(k) : Means(k, n, id)
        /\ stage = "executing" => Get(entities, IdKey[k]) = id

IndInv ==
  /\ TypeOK /\ Untouched /\ Pruned /\ PriorityKept /\ PreviewStands
  /\ PostedAsPreviewed /\ TitleIsPruned /\ GivenPriorityWins
  /\ OnCourse /\ MissesTheUnknown /\ FindsTheKnown /\ FindsTheNamed
  /\ ResolvedAsPreviewed

-----------------------------------------------------------------------------
(* What the comments of the code promise and the code does not keep.       *)

\* The project and its lookups stayed as they were.
Undisturbed == changes = 0 /\ ~outage

\* write_executor: "preview == execution by construction", and build_preview: "All
\* extracted mutations are surfaced": an undisturbed write is made under the title
\* that was previewed, with its status, in the sprint of its very name when there is
\* one, and with nothing the message said and the preview did not.
ExecutedAsShown ==
  stage = "sent" /\ Undisturbed =>
    /\ "title" \in DOMAIN body => body["title"] \in Previewed("title")
    /\ Previewed("status") # {} => "status" \in DOMAIN body
    /\ "sprint" \in DOMAIN body =>
         \A s \in ToSet(sprints) : s.name \in Previewed("sprint") => body["sprint"] = s.id
    /\ \A f \in DOMAIN body \cap DOMAIN message.entities : Previewed(f) # {}

\* _validate_intent: when a lookup fails, "the post-confirmation error path still
\* surfaces the problem", and execute_create_issue: assignee_id is "already a UUID":
\* a write is made with an id for everyone and everything its preview named.
NothingDropped ==
  stage = "sent" /\ intent # "create_sprint" =>
    \A k \in Kinds : Previewed(k) # {} => k \in DOMAIN body /\ body[k] \in Ids
=============================================================================
