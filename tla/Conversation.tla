---------------------------- MODULE Conversation ----------------------------
(***************************************************************************)
(* The conversation pipeline of the AI service: agents/supervisor.py       *)
(* (`run`), the store it keeps its threads in (memory/store.py), the write *)
(* executor it confirms proposals through (agents/write_executor.py) and   *)
(* the calls to the Node API (clients/node_api.py).                        *)
(*                                                                         *)
(* One asyncio process serves every /chat request, so the code between two *)
(* awaits is one step and steps of different requests interleave.  The     *)
(* process may restart: threads and counters are in memory and are lost,   *)
(* calls already sent to Node are not.                                     *)
(***************************************************************************)
EXTENDS Integers, Sequences, FiniteSets

CONSTANTS
  Requests,      \* the /chat calls; a call also names the proposal it makes
                 \* and the idempotency key minted for it
  Threads,       \* conversation threads: user, org and project (_thread_id)
  Orgs,
  OrgOf,         \* the org of a thread
  None,
  Intents,       \* the intents the LLM may see in a message
  TTL,           \* settings.PENDING_TTL_SECONDS
  MaxStored,     \* _MAX_STORED_MESSAGES
  MaxTurns,      \* settings.MAX_HISTORY_TURNS
  MaxClock,      \* bound: the clock
  MaxBoots,      \* bound: restarts
  Quota, TokenCosts, MaxTokens   \* see Metering

WriteIntents == {"create_issue", "update_issue", "create_sprint"}
\* query: the agents with tools (issues, sprint); report: member and summary.
ReadIntents == {"query", "report", "unknown"}

ASSUME ConversationAssumption ==
  /\ OrgOf \in [Threads -> Orgs]
  /\ None \notin Requests \cup Threads \cup Orgs
  /\ Intents \subseteq WriteIntents \cup ReadIntents
  /\ TTL \in Nat /\ MaxClock \in Nat /\ MaxBoots \in Nat /\ MaxTurns \in Nat
  /\ MaxStored \in Nat /\ MaxStored >= 2 /\ MaxStored % 2 = 0
  /\ Quota \in Nat /\ TokenCosts \subseteq Nat \ {0} /\ MaxTokens \in Nat

VARIABLES
  pc,        \* where a request is: the await it is suspended in, or its status
  msg,       \* its thread, what its text is for yes_no, and when it came
  intent,    \* the classified intent of a request
  shown,     \* when a request's reply prompted its user (preview or question)
  confirms,  \* the proposal a request executes
  call,      \* the write a request sent to Node, as Node sees it
  told,      \* what an executed write's reply says of the write
  pending,   \* ConversationStore._pending
  log,       \* ConversationStore._messages
  now,       \* time.time()
  boots,     \* restarts so far
  usage, requestCount, tokens, adding   \* see Metering

turnVars == <<pc, msg, intent, shown, confirms, told>>
storeVars == <<pending, log>>
envVars == <<now, boots>>
meterVars == <<usage, requestCount, tokens, adding>>
vars == <<turnVars, call, storeVars, envVars, meterVars>>

-----------------------------------------------------------------------------
(* Requests suspended in an LLM call, suspended elsewhere, and answered. *)
LLMStates == {"followup", "routing", "classifying", "shaping", "answering"}
Waiting == LLMStates \cup {"validating", "preparing", "posting"}
Statuses == {"executed", "cancelled", "error", "needs_input", "validation_failed",
             "awaiting_confirmation", "needs_clarification", "quota_exceeded"}
Final == Statuses \cup {"lost"}

Replies == {"yes", "no", "other"}
Messages == [thread : Threads, reply : Replies, at : Nat, boot : Nat]
Moments == [at : Nat, boot : Nat]
Pendings == [kind : {"proposal", "clarification"}, by : Requests, ts : Nat]
ASSUME NoneAssumption == None \notin Messages \cup Moments \cup Pendings

Lines == [of : Requests, role : {"user", "ai"}]
CallStates == {"none", "sent", "applied", "duplicate", "rejected"}

Usage == INSTANCE Metering WITH
  org   <- [r \in Requests |-> IF msg[r] = None THEN None ELSE OrgOf[msg[r].thread]],
  stage <- [r \in Requests |-> CASE pc[r] = "new" -> "new"
                                 [] pc[r] \in Waiting -> "running"
                                 [] pc[r] = "quota_exceeded" -> "blocked"
                                 [] OTHER -> "done"]

TypeOK ==
  /\ pc \in [Requests -> {"new"} \cup Waiting \cup Final]
  /\ msg \in [Requests -> Messages \cup {None}]
  /\ intent \in [Requests -> WriteIntents \cup ReadIntents \cup {None}]
  /\ shown \in [Requests -> Moments \cup {None}]
  /\ confirms \in [Requests -> Requests \cup {None}]
  /\ call \in [Requests -> CallStates]
  /\ told \in [Requests -> {"nothing", "done", "failed"}]
  /\ pending \in [Threads -> Pendings \cup {None}]
  /\ log \in [Threads -> Seq(Lines)]
  /\ now \in Nat /\ boots \in Nat
  /\ usage \in [Orgs -> Nat] /\ requestCount \in [Orgs -> Nat]
  /\ tokens \in [Requests -> Nat]
  /\ adding \in [Requests -> Usage!Adds \cup {None}]

Init ==
  /\ pc = [r \in Requests |-> "new"]
  /\ msg = [r \in Requests |-> None]
  /\ intent = [r \in Requests |-> None]
  /\ shown = [r \in Requests |-> None]
  /\ confirms = [r \in Requests |-> None]
  /\ call = [r \in Requests |-> "none"]
  /\ told = [r \in Requests |-> "nothing"]
  /\ pending = [t \in Threads |-> None]
  /\ log = [t \in Threads |-> <<>>]
  /\ now = 0 /\ boots = 0
  /\ Usage!MeterInit

-----------------------------------------------------------------------------
(* ConversationStore. *)

LastOf(s, n) == IF Len(s) <= n THEN s ELSE SubSeq(s, Len(s) - n + 1, Len(s))

\* The window `history` reads at arrival and hands to a read agent.
History(t) == LastOf(log[t], 2 * MaxTurns)

\* Mutation: a stored prompt never expires.
AliveForever(t) == pending[t] # None

\* What get_pending finds alive; an expired entry is dropped by the read.
Alive(t) == pending[t] # None /\ now - pending[t].ts <= TTL
AliveKind(t, k) == Alive(t) /\ pending[t].kind = k

Dropped(t) == [pending EXCEPT ![t] = None]
Turn(r) == <<[of |-> r, role |-> "user"], [of |-> r, role |-> "ai"]>>
\* Mutation: the trim is off by one.
AppendedOff(t, lines) == [log EXCEPT ![t] = LastOf(@ \o lines, MaxStored - 1)]

Appended(t, lines) == [log EXCEPT ![t] = LastOf(@ \o lines, MaxStored)]

-----------------------------------------------------------------------------
(* Arrival: the code of `run` up to its first await.                      *)

Thread(r) == msg[r].thread

Goto(r, s) == pc' = [pc EXCEPT ![r] = s]

\* A reply: one append of the user's message and the answer, one status.
Reply(r, t, s) == Goto(r, s) /\ log' = Appended(t, Turn(r))

Receive(r, t, y) ==
  /\ pc[r] = "new"
  /\ msg' = [msg EXCEPT ![r] = [thread |-> t, reply |-> y, at |-> now, boot |-> boots]]
  /\ Usage!CountRequest(OrgOf[t])
  /\ UNCHANGED <<shown, told, call, envVars>>

\* Mutation: the quota is not looked at.
AdmittedAlways(r, t, y) == Receive(r, t, y)

Admitted(r, t, y) == Receive(r, t, y) /\ ~Usage!OverQuota(OrgOf[t])

RejectOverQuota(r, t, y) ==
  /\ Receive(r, t, y) /\ Usage!OverQuota(OrgOf[t])
  /\ Goto(r, "quota_exceeded")
  /\ UNCHANGED <<intent, confirms, storeVars>>

\* No pending, or an expired one, which the read drops.
StartFresh(r, t, y) ==
  /\ Admitted(r, t, y) /\ ~Alive(t)
  /\ pending' = Dropped(t)
  /\ Goto(r, "routing")
  /\ UNCHANGED <<intent, confirms, log>>

DeclineQuestion(r, t, y) ==
  /\ Admitted(r, t, y) /\ AliveKind(t, "clarification") /\ y = "no"
  /\ pending' = Dropped(t)
  /\ Reply(r, t, "cancelled")
  /\ UNCHANGED <<intent, confirms>>

AnswerQuestion(r, t, y) ==
  /\ Admitted(r, t, y) /\ AliveKind(t, "clarification") /\ y # "no"
  /\ pending' = Dropped(t)
  /\ Goto(r, "followup")
  /\ UNCHANGED <<intent, confirms, log>>

\* Mutation: the proposal is cleared after the write, not before it.
ConfirmKeepsPending(r, t, y) ==
  /\ Admitted(r, t, y) /\ AliveKind(t, "proposal") /\ y = "yes"
  /\ confirms' = [confirms EXCEPT ![r] = pending[t].by]
  /\ intent' = [intent EXCEPT ![r] = intent[pending[t].by]]
  /\ Goto(r, "preparing")
  /\ UNCHANGED storeVars

\* The proposal is consumed before its write is awaited.
Confirm(r, t, y) ==
  /\ Admitted(r, t, y) /\ AliveKind(t, "proposal") /\ y = "yes"
  /\ pending' = Dropped(t)
  /\ confirms' = [confirms EXCEPT ![r] = pending[t].by]
  /\ intent' = [intent EXCEPT ![r] = intent[pending[t].by]]
  /\ Goto(r, "preparing")
  /\ UNCHANGED log

CancelProposal(r, t, y) ==
  /\ Admitted(r, t, y) /\ AliveKind(t, "proposal") /\ y = "no"
  /\ pending' = Dropped(t)
  /\ Reply(r, t, "cancelled")
  /\ UNCHANGED <<intent, confirms>>

\* Neither yes nor no: the proposal is dropped and the message is a new request.
DropProposal(r, t, y) ==
  /\ Admitted(r, t, y) /\ AliveKind(t, "proposal") /\ y = "other"
  /\ pending' = Dropped(t)
  /\ Goto(r, "routing")
  /\ UNCHANGED <<intent, confirms, log>>

Arrive(r) ==
  \E t \in Threads, y \in Replies :
    \/ RejectOverQuota(r, t, y) \/ StartFresh(r, t, y)
    \/ DeclineQuestion(r, t, y) \/ AnswerQuestion(r, t, y)
    \/ Confirm(r, t, y) \/ CancelProposal(r, t, y) \/ DropProposal(r, t, y)

-----------------------------------------------------------------------------
(* Understanding a message: from one await of the LLM to the next.         *)

\* Resume r from await `s`: the callbacks of its LLM calls have ended.
Resume(r, s) ==
  /\ pc[r] = s /\ Usage!Settled(r)
  /\ UNCHANGED <<msg, confirms, envVars, meterVars>>

Understand(r, i) == intent' = [intent EXCEPT ![r] = i]

\* resolve_followup never raises; its rewrite enters the pipeline unchanged.
FollowupResolved(r) ==
  /\ Resume(r, "followup") /\ Goto(r, "routing")
  /\ UNCHANGED <<intent, shown, told, call, storeVars>>

\* The pre-router answers with a read, or with nothing (or crashes).
PreRouted(r) ==
  /\ Resume(r, "routing")
  /\ \/ \E i \in Intents \cap ReadIntents : Understand(r, i) /\ Goto(r, "answering")
     \/ Goto(r, "classifying") /\ UNCHANGED intent
  /\ UNCHANGED <<shown, told, call, storeVars>>

ClassifyFailed(r) ==
  /\ Resume(r, "classifying") /\ Reply(r, Thread(r), "error")
  /\ UNCHANGED <<intent, shown, told, call, pending>>

\* A write the LLM is not sure of, or a create without a usable title.
NeedsInput(r) ==
  /\ Resume(r, "classifying")
  /\ \E i \in Intents \cap WriteIntents : Understand(r, i)
  /\ Reply(r, Thread(r), "needs_input")
  /\ UNCHANGED <<shown, told, call, pending>>

Classified(r) ==
  /\ Resume(r, "classifying")
  /\ \E i \in Intents :
       /\ Understand(r, i)
       /\ Goto(r, IF i \in WriteIntents THEN "validating" ELSE "answering")
  /\ UNCHANGED <<shown, told, call, storeVars>>

ValidationFailed(r) ==
  /\ Resume(r, "validating") /\ Reply(r, Thread(r), "validation_failed")
  /\ UNCHANGED <<intent, shown, told, call, pending>>

\* Names resolved, or their lookup failed and is ignored.
Validated(r) ==
  /\ Resume(r, "validating") /\ Goto(r, "shaping")
  /\ UNCHANGED <<intent, shown, told, call, storeVars>>

-----------------------------------------------------------------------------
(* Prompts and answers. *)

\* Mutation: an outstanding prompt is kept instead of overwritten.
SetPendingOnce(t, r, k) ==
  pending' = IF pending[t] = None
             THEN [pending EXCEPT ![t] = [kind |-> k, by |-> r, ts |-> now]]
             ELSE pending

\* Mutation: the prompt is stored without its time.
SetPendingUnstamped(t, r, k) ==
  pending' = [pending EXCEPT ![t] = [kind |-> k, by |-> r]]

SetPending(t, r, k) ==
  pending' = [pending EXCEPT ![t] = [kind |-> k, by |-> r, ts |-> now]]

\* set_pending and append run without an await between them.
Prompt(r, k, s) ==
  /\ SetPending(Thread(r), r, k)
  /\ shown' = [shown EXCEPT ![r] = [at |-> now, boot |-> boots]]
  /\ Reply(r, Thread(r), s)
  /\ UNCHANGED <<intent, told, call>>

\* The shaped preview is shown and the proposal stored with a fresh key.
Propose(r) == Resume(r, "shaping") /\ Prompt(r, "proposal", "awaiting_confirmation")

\* A read whose answer ends in a question mark.
Ask(r) == Resume(r, "answering") /\ Prompt(r, "clarification", "needs_clarification")

AnswerRead(r) ==
  /\ Resume(r, "answering") /\ Reply(r, Thread(r), "executed")
  /\ UNCHANGED <<intent, shown, told, call, pending>>

\* The issue and sprint agents are built with write tools beside the read
\* tools and choose freely; one call of a write tool in a turn is modelled.
ToolCall(r) ==
  /\ Resume(r, "answering") /\ intent[r] = "query" /\ call[r] = "none"
  /\ call' = [call EXCEPT ![r] = "sent"]
  /\ UNCHANGED <<turnVars, storeVars>>

-----------------------------------------------------------------------------
(* The write executor.                                                     *)

Tell(r, what) ==
  /\ told' = [told EXCEPT ![r] = what]
  /\ Reply(r, Thread(r), "executed")
  /\ UNCHANGED <<intent, shown, call, pending>>

\* No title, no status, no such issue, a lookup that failed: nothing is sent.
GiveUp(r) == Resume(r, "preparing") /\ Tell(r, "failed")

SendWrite(r) ==
  /\ Resume(r, "preparing") /\ Goto(r, "posting")
  /\ call' = [call EXCEPT ![r] = "sent"]
  /\ UNCHANGED <<intent, shown, told, storeVars>>

WriteAnswered(r) ==
  /\ Resume(r, "posting") /\ call[r] \in {"applied", "duplicate", "rejected"}
  /\ Tell(r, IF call[r] = "rejected" THEN "failed" ELSE "done")

\* Mutation: only an answer of Node ends the wait.
WriteTimedOutLate(r) ==
  /\ Resume(r, "posting") /\ call[r] # "sent" /\ Tell(r, "failed")

\* No answer in ten seconds, or a dropped connection, whatever Node did.
WriteTimedOut(r) == Resume(r, "posting") /\ Tell(r, "failed")

-----------------------------------------------------------------------------
(* Node, as this service relies on it: a create is deduplicated by its     *)
(* Idempotency-Key, a call that was sent may be served at any later time,  *)
(* refused, or never served.                                               *)

Keyed(r) == confirms[r] # None /\ intent[r] \in {"create_issue", "create_sprint"}

NodeApply(r) ==
  /\ call[r] = "sent"
  /\ call' = [call EXCEPT ![r] =
       IF Keyed(r) /\ \E q \in Requests : /\ Keyed(q) /\ call[q] = "applied"
                                          /\ confirms[q] = confirms[r]
       THEN "duplicate" ELSE "applied"]
  /\ UNCHANGED <<turnVars, storeVars, envVars, meterVars>>

NodeReject(r) ==
  /\ call[r] = "sent"
  /\ call' = [call EXCEPT ![r] = "rejected"]
  /\ UNCHANGED <<turnVars, storeVars, envVars, meterVars>>

-----------------------------------------------------------------------------
OnLlmEnd(r) ==
  /\ pc[r] \in LLMStates
  /\ Usage!AddRead(r, OrgOf[Thread(r)]) \/ Usage!AddWrite(r, OrgOf[Thread(r)])
  /\ UNCHANGED <<turnVars, call, storeVars, envVars>>

Tick ==
  /\ now < MaxClock /\ now' = now + 1
  /\ UNCHANGED <<turnVars, call, storeVars, boots, meterVars>>

\* The process dies and starts again; its clients' connections are reset.
Restart ==
  /\ boots < MaxBoots /\ boots' = boots + 1
  /\ pc' = [r \in Requests |-> IF pc[r] \in Waiting THEN "lost" ELSE pc[r]]
  /\ pending' = [t \in Threads |-> None]
  /\ log' = [t \in Threads |-> <<>>]
  /\ Usage!Forget
  /\ UNCHANGED <<msg, intent, shown, confirms, told, call, now>>

\* Assumed below: every await of a request comes back.  The client of Node times
\* out after ten seconds; those of the LLM and of Neo4j leave it to their libraries.
Proceed(r) ==
  \/ FollowupResolved(r) \/ PreRouted(r) \/ ClassifyFailed(r) \/ NeedsInput(r)
  \/ Classified(r) \/ ValidationFailed(r) \/ Validated(r)
  \/ Propose(r) \/ Ask(r) \/ AnswerRead(r)
  \/ GiveUp(r) \/ SendWrite(r) \/ WriteAnswered(r) \/ WriteTimedOut(r)

Next ==
  \/ \E r \in Requests : \/ Arrive(r) \/ Proceed(r) \/ ToolCall(r) \/ OnLlmEnd(r)
                         \/ NodeApply(r) \/ NodeReject(r)
  \/ Tick \/ Restart

Fairness == \A r \in Requests : WF_vars(Proceed(r)) /\ WF_vars(OnLlmEnd(r))

Spec == Init /\ [][Next]_vars
FairSpec == Spec /\ Fairness

-----------------------------------------------------------------------------
(* Properties. *)

(* A proposal is executed by at most one request, however many "yes" are   *)
(* in flight at once: `run` clears the pending action before it awaits the *)
(* executor (supervisor.py:782-806).                                       *)
ExecutedAtMostOnce ==
  \A r, q \in Requests : confirms[r] # None /\ confirms[r] = confirms[q] => r = q

(* What the executor runs was previewed in the same thread and the same    *)
(* process, and affirmed within the TTL of its preview; a clarification,   *)
(* an expired or a pre-restart proposal never executes (store.py:49-75,    *)
(* supervisor.py:746-844).                                                 *)
ExecutedAsPreviewed ==
  \A r \in Requests :
    confirms[r] # None =>
      LET p == confirms[r] IN
      /\ pc[p] = "awaiting_confirmation" /\ Thread(p) = Thread(r)
      /\ msg[r].reply = "yes"
      /\ shown[p].boot = msg[r].boot
      /\ msg[r].at - shown[p].at \in 0..TTL

-----------------------------------------------------------------------------
(* The inductive invariant behind the gate: a request that runs has        *)
(* arrived, a standing prompt is the unconsumed last word of an answered   *)
(* request of its thread and process, and only a request that executes a   *)
(* proposal or runs a read agent has sent a write to Node.                 *)
Arrived == \A r \in Requests : msg[r] = None <=> pc[r] = "new"

TurnState ==
  \A r \in Requests :
    /\ pc[r] \in {"preparing", "posting"} => confirms[r] # None
    /\ pc[r] \in {"new"} \cup LLMStates \cup {"validating"} => confirms[r] = None
    /\ pc[r] \in {"new", "followup", "routing", "classifying", "preparing"}
         => call[r] = "none"
    /\ call[r] # "none" => confirms[r] # None \/ intent[r] = "query"

StandingPrompt ==
  \A t \in Threads :
    pending[t] # None =>
      LET p == pending[t].by IN
      /\ pc[p] = IF pending[t].kind = "proposal" THEN "awaiting_confirmation"
                                                 ELSE "needs_clarification"
      /\ Thread(p) = t
      /\ shown[p] = [at |-> pending[t].ts, boot |-> boots] /\ pending[t].ts <= now
      /\ \A r \in Requests : confirms[r] # p

IndInv == /\ TypeOK /\ Arrived /\ TurnState /\ StandingPrompt
          /\ ExecutedAtMostOnce /\ ExecutedAsPreviewed

-----------------------------------------------------------------------------
Prompts(t) == {i \in 1..Len(log[t]) : log[t][i].role = "ai" /\ shown[log[t][i].of] # None}

(* What a thread's next reply is taken to answer is the last question or   *)
(* preview its transcript shows, whatever turns of the thread overlapped:  *)
(* set_pending overwrites and runs with the append of the prompt in one    *)
(* step (supervisor.py:989-998, 1068-1078; store.py:65-75).                *)
PendingIsLatestPrompt ==
  \A t \in Threads :
    pending[t] # None =>
      \A i \in Prompts(t) :
        (\A j \in Prompts(t) : j <= i) => log[t][i].of = pending[t].by

WholeTurns(s) ==
  /\ Len(s) % 2 = 0
  /\ \A i \in 1..Len(s) :
       IF i % 2 = 1 THEN s[i].role = "user" /\ s[i + 1] = [s[i] EXCEPT !.role = "ai"]
                    ELSE s[i].role = "ai"

(* The history window a turn hands to its agent is made of whole turns,    *)
(* each a user's message followed by its own answer, although turns of one *)
(* thread overlap and old messages are trimmed (store.py:36-47).           *)
HistoryInWholeTurns == \A t \in Threads : WholeTurns(History(t))

(* The inductive invariant behind these two: the stored transcripts are    *)
(* whole turns, and only of requests that were answered, which show        *)
(* nothing any more.                                                       *)
TranscriptInv ==
  /\ \A t \in Threads :
       /\ WholeTurns(log[t])
       /\ \A i \in 1..Len(log[t]) : pc[log[t][i].of] \in Statuses
  /\ \A r \in Requests : shown[r] # None => pc[r] \in Statuses
  /\ PendingIsLatestPrompt

(* The state of the abstract gate: standing proposals, requests that ever  *)
(* proposed, proposals that were affirmed, and writes Node made for them.  *)
StandingOffer(t) ==
  IF pending[t] # None /\ pending[t].kind = "proposal" THEN pending[t].by ELSE None
Proposed == {p \in Requests : pc[p] = "awaiting_confirmation"}
Affirmed == {p \in Requests : \E r \in Requests : confirms[r] = p}
Makers(p) == {r \in Requests : confirms[r] = p /\ call[r] = "applied"}

Gate == INSTANCE ConfirmationGate WITH
  Proposals <- Requests,
  offer <- [t \in Threads |-> StandingOffer(t)],
  spent <- Proposed,
  granted <- Affirmed,
  made <- [p \in Requests |-> Cardinality(Makers(p))]

(* The pipeline implements the confirmation gate (supervisor.py:7-9).      *)
ImplementsGate == Gate!Spec

(* The pipeline meters and blocks its requests as Metering describes.      *)
ImplementsMetering == Usage!Spec

(* Every request is answered unless the process restarts under it: each    *)
(* await ends in an answer or an exception the pipeline turns into one.    *)
EveryRequestAnswered ==
  \A r \in Requests : pc[r] \in Waiting ~> pc[r] \in Final

(* "This keeps a single misread message from silently creating or changing *)
(* work items" (supervisor.py:8-9): nothing is written to Node but what    *)
(* its user confirmed.                                                     *)
WritesAreConfirmed == \A r \in Requests : call[r] = "applied" => confirms[r] # None

\* q is a reply "yes" to the proposal p, whose execution by r was reported
\* failed, with no prompt since.
Retries(q, p) ==
  /\ pc[q] = "new" /\ pc'[q] \notin {"new", "quota_exceeded"}
  /\ msg'[q].reply = "yes"
  /\ LET t == msg'[q].thread IN
     /\ \E i \in Prompts(t) : log[t][i].of = p /\ \A j \in Prompts(t) : j <= i
     /\ now - shown[p].at <= TTL
  /\ \E r \in Requests : confirms[r] = p /\ told[r] = "failed"

(* "a retried confirmation POSTs with the SAME Idempotency-Key"            *)
(* (supervisor.py:802-804).                                                *)
RetriedConfirmationReusesKey ==
  [][\A q, p \in Requests : Retries(q, p) => confirms'[q] = p]_vars
=============================================================================
