------------------------- MODULE ConversationProofs -------------------------
(* Theorems about Conversation, for every value of its constants.          *)
EXTENDS Conversation, SequenceTheorems, TLAPS

(* The last messages of a transcript are messages.                         *)
LEMMA LastOfType ==
  ASSUME NEW S, NEW s \in Seq(S), NEW n \in Nat
  PROVE  LastOf(s, n) \in Seq(S)
<1>1. CASE Len(s) <= n
  BY <1>1 DEF LastOf
<1>2. CASE ~(Len(s) <= n)
  <2>1. Len(s) - n + 1 \in 1..Len(s) + 1 /\ Len(s) \in Nat
    BY <1>2, LenProperties
  <2>2. SubSeq(s, Len(s) - n + 1, Len(s)) \in Seq(S)
    BY <2>1, SubSeqProperties
  <2> QED
    BY <1>2, <2>2 DEF LastOf
<1> QED
  BY <1>1, <1>2

(* Trimming keeps a thread's transcript a sequence of messages.            *)
LEMMA AppendedType ==
  ASSUME TypeOK, NEW t \in Threads, NEW r \in Requests
  PROVE  Appended(t, Turn(r)) \in [Threads -> Seq(Lines)]
<1>1. Turn(r) \in Seq(Lines)
  BY DEF Turn, Lines
<1>2. log[t] \o Turn(r) \in Seq(Lines)
  BY <1>1, ConcatProperties DEF TypeOK
<1>3. LastOf(log[t] \o Turn(r), MaxStored) \in Seq(Lines)
  BY <1>2, LastOfType, ConversationAssumption
<1> QED
  BY <1>3 DEF Appended, TypeOK

-----------------------------------------------------------------------------
(* Type correctness. *)

(* What a call to the counters leaves of their types.                      *)
LEMMA MeterTypes ==
  ASSUME TypeOK, NEW r \in Requests, NEW o \in Orgs,
         Usage!CountRequest(o) \/ Usage!AddRead(r, o) \/ Usage!AddWrite(r, o)
           \/ Usage!Forget \/ UNCHANGED meterVars
  PROVE  /\ usage' \in [Orgs -> Nat] /\ requestCount' \in [Orgs -> Nat]
         /\ tokens' \in [Requests -> Nat]
         /\ adding' \in [Requests -> Usage!Adds \cup {None}]
<1> USE DEF TypeOK
<1>1. CASE Usage!CountRequest(o)
  BY <1>1 DEF Usage!CountRequest
<1>2. CASE Usage!AddRead(r, o)
  BY <1>2 DEF Usage!AddRead, Usage!Adds
<1>3. CASE Usage!AddWrite(r, o)
  <2>1. adding[r] \in Usage!Adds
    BY <1>3 DEF Usage!AddWrite, Usage!Settled
  <2>2. adding[r].cost \in Nat /\ adding[r].seen \in Nat
    BY <2>1, ConversationAssumption DEF Usage!Adds
  <2> QED
    BY <1>3, <2>2 DEF Usage!AddWrite
<1>4. CASE Usage!Forget
  BY <1>4 DEF Usage!Forget
<1>5. CASE UNCHANGED meterVars
  BY <1>5 DEF meterVars
<1> QED
  BY <1>1, <1>2, <1>3, <1>4, <1>5

(* Receiving a message keeps the types of all but what `run` then assigns. *)
LEMMA ReceiveTypes ==
  ASSUME TypeOK, NEW r \in Requests, NEW t \in Threads, NEW y \in Replies,
         Receive(r, t, y)
  PROVE  /\ msg' \in [Requests -> Messages \cup {None}]
         /\ shown' \in [Requests -> Moments \cup {None}]
         /\ call' \in [Requests -> CallStates]
         /\ told' \in [Requests -> {"nothing", "done", "failed"}]
         /\ now' \in Nat /\ boots' \in Nat
         /\ usage' \in [Orgs -> Nat] /\ requestCount' \in [Orgs -> Nat]
         /\ tokens' \in [Requests -> Nat]
         /\ adding' \in [Requests -> Usage!Adds \cup {None}]
<1>1. OrgOf[t] \in Orgs
  BY ConversationAssumption
<1>2. Usage!CountRequest(OrgOf[t])
  BY DEF Receive
<1>3. /\ usage' \in [Orgs -> Nat] /\ requestCount' \in [Orgs -> Nat]
      /\ tokens' \in [Requests -> Nat]
      /\ adding' \in [Requests -> Usage!Adds \cup {None}]
  BY <1>1, <1>2, MeterTypes
<1>4. [thread |-> t, reply |-> y, at |-> now, boot |-> boots] \in Messages
  BY DEF Messages, TypeOK
<1> QED
  BY <1>3, <1>4 DEF Receive, envVars, TypeOK

(* An arriving request keeps the types, whatever branch of `run` it takes.  *)
LEMMA ArriveTypes ==
  ASSUME TypeOK, NEW r \in Requests, Arrive(r)
  PROVE  TypeOK'
<1> PICK t \in Threads, y \in Replies :
      \/ RejectOverQuota(r, t, y) \/ StartFresh(r, t, y)
      \/ DeclineQuestion(r, t, y) \/ AnswerQuestion(r, t, y)
      \/ Confirm(r, t, y) \/ CancelProposal(r, t, y) \/ DropProposal(r, t, y)
  BY DEF Arrive
<1>1. Receive(r, t, y)
  BY DEF RejectOverQuota, StartFresh, DeclineQuestion, AnswerQuestion, Confirm,
         CancelProposal, DropProposal, Admitted
<1>2. /\ msg' \in [Requests -> Messages \cup {None}]
      /\ shown' \in [Requests -> Moments \cup {None}]
      /\ call' \in [Requests -> CallStates]
      /\ told' \in [Requests -> {"nothing", "done", "failed"}]
      /\ now' \in Nat /\ boots' \in Nat
      /\ usage' \in [Orgs -> Nat] /\ requestCount' \in [Orgs -> Nat]
      /\ tokens' \in [Requests -> Nat]
      /\ adding' \in [Requests -> Usage!Adds \cup {None}]
  BY <1>1, ReceiveTypes
<1>3. pc' \in [Requests -> {"new"} \cup Waiting \cup Final]
  BY DEF RejectOverQuota, StartFresh, DeclineQuestion, AnswerQuestion, Confirm,
         CancelProposal, DropProposal, Reply, Goto, TypeOK, Waiting, LLMStates,
         Final, Statuses
<1>4. pending' \in [Threads -> Pendings \cup {None}]
  BY DEF RejectOverQuota, StartFresh, DeclineQuestion, AnswerQuestion, Confirm,
         CancelProposal, DropProposal, Dropped, storeVars, TypeOK
<1>5. log' \in [Threads -> Seq(Lines)]
  BY AppendedType DEF RejectOverQuota, StartFresh, DeclineQuestion, AnswerQuestion,
         Confirm, CancelProposal, DropProposal, Reply, storeVars, TypeOK
<1>6. /\ confirms' \in [Requests -> Requests \cup {None}]
      /\ intent' \in [Requests -> WriteIntents \cup ReadIntents \cup {None}]
  <2>1. CASE Confirm(r, t, y)
    <3>1. pending[t] \in Pendings
      BY <2>1 DEF Confirm, AliveKind, Alive, TypeOK
    <3>2. pending[t].by \in Requests
      BY <3>1 DEF Pendings
    <3> QED
      BY <2>1, <3>2 DEF Confirm, TypeOK
  <2>2. CASE ~Confirm(r, t, y)
    BY <2>2 DEF RejectOverQuota, StartFresh, DeclineQuestion, AnswerQuestion,
         CancelProposal, DropProposal, TypeOK
  <2> QED
    BY <2>1, <2>2
<1> QED
  BY <1>2, <1>3, <1>4, <1>5, <1>6 DEF TypeOK

(* A resumed request steps to a listed state, appends whole turns to its   *)
(* thread and stores a well-formed prompt.                                 *)
LEMMA ProceedTypes ==
  ASSUME TypeOK, Arrived, NEW r \in Requests, Proceed(r)
  PROVE  TypeOK'
<1> USE DEF Proceed, FollowupResolved, PreRouted, ClassifyFailed, NeedsInput, Classified,
            ValidationFailed, Validated, Propose, Ask, AnswerRead, GiveUp, SendWrite,
            WriteAnswered, WriteTimedOut
<1>1. /\ UNCHANGED <<msg, confirms, envVars, meterVars>>
      /\ pc[r] # "new"
  BY DEF Resume
<1>2. Thread(r) \in Threads
  BY <1>1 DEF Arrived, TypeOK, Messages, Thread
<1>3. pc' \in [Requests -> {"new"} \cup Waiting \cup Final]
  BY DEF Prompt, Tell, Reply, Goto, TypeOK, Waiting, LLMStates, Final, Statuses
<1>4. log' \in [Threads -> Seq(Lines)]
  BY <1>2, AppendedType DEF Prompt, Tell, Reply, storeVars, TypeOK
<1>5. /\ pending' \in [Threads -> Pendings \cup {None}]
      /\ shown' \in [Requests -> Moments \cup {None}]
  <2>1. CASE Propose(r) \/ Ask(r)
    <3>1. PICK k \in {"proposal", "clarification"} :
            /\ SetPending(Thread(r), r, k)
            /\ shown' = [shown EXCEPT ![r] = [at |-> now, boot |-> boots]]
      BY <2>1 DEF Prompt
    <3>2. [kind |-> k, by |-> r, ts |-> now] \in Pendings
      BY DEF Pendings, TypeOK
    <3>3. [at |-> now, boot |-> boots] \in Moments
      BY DEF Moments, TypeOK
    <3> QED
      BY <3>1, <3>2, <3>3 DEF SetPending, TypeOK
  <2>2. CASE ~(Propose(r) \/ Ask(r))
    <3>1. UNCHANGED <<pending, shown>>
      BY <2>2 DEF Tell, storeVars
    <3> QED
      BY <3>1 DEF TypeOK
  <2> QED
    BY <2>1, <2>2
<1>6. intent' \in [Requests -> WriteIntents \cup ReadIntents \cup {None}]
  <2>1. \/ UNCHANGED intent
        \/ \E i \in Intents : intent' = [intent EXCEPT ![r] = i]
    BY DEF Understand, Prompt, Tell
  <2> QED
    BY <2>1, ConversationAssumption DEF TypeOK
<1>7. UNCHANGED call \/ call' = [call EXCEPT ![r] = "sent"]
  BY DEF Prompt, Tell
<1>8. UNCHANGED told \/ \E w \in {"done", "failed"} : told' = [told EXCEPT ![r] = w]
  BY DEF Prompt, Tell
<1> HIDE DEF Proceed, FollowupResolved, PreRouted, ClassifyFailed, NeedsInput, Classified,
             ValidationFailed, Validated, Propose, Ask, AnswerRead, GiveUp, SendWrite,
             WriteAnswered, WriteTimedOut
<1>9. call' \in [Requests -> CallStates]
  BY <1>7 DEF TypeOK, CallStates
<1>10. told' \in [Requests -> {"nothing", "done", "failed"}]
  BY <1>8 DEF TypeOK
<1> QED
  BY <1>1, <1>3, <1>4, <1>5, <1>6, <1>9, <1>10 DEF TypeOK, envVars, meterVars

(* Every step keeps the types: type correctness is inductive.              *)
LEMMA NextTypes ==
  ASSUME TypeOK, Arrived, [Next]_vars
  PROVE  TypeOK'
<1>1. CASE UNCHANGED vars
  BY <1>1 DEF vars, turnVars, storeVars, envVars, meterVars, TypeOK
<1>2. ASSUME NEW r \in Requests, Arrive(r) PROVE TypeOK'
  BY <1>2, ArriveTypes
<1>3. ASSUME NEW r \in Requests, Proceed(r) PROVE TypeOK'
  BY <1>3, ProceedTypes
<1>4. ASSUME NEW r \in Requests, ToolCall(r) PROVE TypeOK'
  BY <1>4 DEF ToolCall, Resume, turnVars, storeVars, envVars, meterVars, TypeOK, CallStates
<1>5. ASSUME NEW r \in Requests, OnLlmEnd(r) PROVE TypeOK'
  <2>1. OrgOf[Thread(r)] \in Orgs
    BY <1>5, ConversationAssumption
       DEF OnLlmEnd, Arrived, TypeOK, Messages, Thread, LLMStates
  <2>2. /\ usage' \in [Orgs -> Nat] /\ requestCount' \in [Orgs -> Nat]
        /\ tokens' \in [Requests -> Nat]
        /\ adding' \in [Requests -> Usage!Adds \cup {None}]
    BY <1>5, <2>1, MeterTypes DEF OnLlmEnd
  <2> QED
    BY <1>5, <2>2 DEF OnLlmEnd, turnVars, storeVars, envVars, TypeOK
<1>6. ASSUME NEW r \in Requests, NodeApply(r) \/ NodeReject(r) PROVE TypeOK'
  BY <1>6 DEF NodeApply, NodeReject, turnVars, storeVars, envVars, meterVars, TypeOK,
              CallStates
<1>7. CASE Tick
  BY <1>7 DEF Tick, turnVars, storeVars, meterVars, TypeOK
<1>8. CASE Restart
  <2>1. pc' \in [Requests -> {"new"} \cup Waiting \cup Final]
    BY <1>8 DEF Restart, TypeOK, Final
  <2>2. /\ pending' \in [Threads -> Pendings \cup {None}]
        /\ log' \in [Threads -> Seq(Lines)]
    BY <1>8 DEF Restart
  <2> QED
    BY <1>8, <2>1, <2>2 DEF Restart, Usage!Forget, TypeOK
<1> QED
  BY <1>1, <1>2, <1>3, <1>4, <1>5, <1>6, <1>7, <1>8 DEF Next

-----------------------------------------------------------------------------
(* The gate's invariant. *)

(* A step that answers nobody, consumes prompts at most and lets time pass *)
(* keeps what is known of prompts and of executed proposals.               *)
LEMMA PromptsKept ==
  ASSUME IndInv, TypeOK', UNCHANGED <<msg, shown, confirms, boots>>, now' >= now,
         \A t \in Threads : pending'[t] \in {pending[t], None},
         \A p \in Requests : pc[p] \in Final => pc'[p] = pc[p]
  PROVE  StandingPrompt' /\ ExecutedAtMostOnce' /\ ExecutedAsPreviewed'
<1>1. ASSUME NEW t \in Threads, pending'[t] # None
      PROVE  /\ pc'[pending'[t].by] = IF pending'[t].kind = "proposal"
                                      THEN "awaiting_confirmation"
                                      ELSE "needs_clarification"
             /\ msg'[pending'[t].by].thread = t
             /\ shown'[pending'[t].by] = [at |-> pending'[t].ts, boot |-> boots']
             /\ pending'[t].ts <= now'
             /\ \A r \in Requests : confirms'[r] # pending'[t].by
  <2>1. pending'[t] = pending[t] /\ pending[t] \in Pendings
    BY <1>1 DEF IndInv, TypeOK
  <2>2. pending[t].by \in Requests /\ pending[t].ts \in Nat
    BY <2>1 DEF Pendings
  <2>3. /\ pc[pending[t].by] = IF pending[t].kind = "proposal"
                               THEN "awaiting_confirmation" ELSE "needs_clarification"
        /\ msg[pending[t].by].thread = t
        /\ shown[pending[t].by] = [at |-> pending[t].ts, boot |-> boots]
        /\ pending[t].ts <= now
        /\ \A r \in Requests : confirms[r] # pending[t].by
    BY <1>1, <2>1 DEF IndInv, StandingPrompt, Thread
  <2>4. pc'[pending[t].by] = pc[pending[t].by]
    BY <2>2, <2>3 DEF Final, Statuses
  <2>5. pending[t].ts <= now'
    BY <2>2, <2>3 DEF IndInv, TypeOK
  <2> QED
    BY <2>1, <2>3, <2>4, <2>5
<1>2. ExecutedAtMostOnce'
  BY DEF IndInv, ExecutedAtMostOnce
<1>3. ExecutedAsPreviewed'
  BY DEF IndInv, TypeOK, ExecutedAsPreviewed, Final, Statuses, Thread
<1>4. StandingPrompt'
  BY <1>1 DEF StandingPrompt, Thread
<1> QED
  BY <1>2, <1>3, <1>4

(* An arriving request is not part of any prompt or execution yet: dropping *)
(* its thread's prompt, or executing the standing proposal of its thread    *)
(* once, keeps the invariant.                                               *)
LEMMA ArriveKeepsPrompts ==
  ASSUME IndInv, TypeOK', NEW r \in Requests, Arrive(r)
  PROVE  StandingPrompt' /\ ExecutedAtMostOnce' /\ ExecutedAsPreviewed'
<1> PICK t \in Threads, y \in Replies :
      \/ RejectOverQuota(r, t, y) \/ StartFresh(r, t, y)
      \/ DeclineQuestion(r, t, y) \/ AnswerQuestion(r, t, y)
      \/ Confirm(r, t, y) \/ CancelProposal(r, t, y) \/ DropProposal(r, t, y)
  BY DEF Arrive
<1>1. /\ pc[r] = "new"
      /\ msg' = [msg EXCEPT ![r] = [thread |-> t, reply |-> y, at |-> now, boot |-> boots]]
      /\ UNCHANGED <<shown, now, boots>>
      /\ \A p \in Requests \ {r} : pc'[p] = pc[p] /\ msg'[p] = msg[p]
  <2>1. Receive(r, t, y)
    BY DEF RejectOverQuota, StartFresh, DeclineQuestion, AnswerQuestion, Confirm,
           CancelProposal, DropProposal, Admitted
  <2>2. \E s \in Waiting \cup Final : pc' = [pc EXCEPT ![r] = s]
    BY DEF RejectOverQuota, StartFresh, DeclineQuestion, AnswerQuestion, Confirm,
           CancelProposal, DropProposal, Reply, Goto, Waiting, LLMStates, Final, Statuses
  <2> QED
    BY <2>1, <2>2 DEF Receive, envVars, IndInv, TypeOK
<1>2. confirms[r] = None
  BY <1>1 DEF IndInv, TurnState
<1>3. \A u \in Threads : pending'[u] = pending[u] \/ (u = t /\ pending'[u] = None)
  <2>1. UNCHANGED pending \/ pending' = [pending EXCEPT ![t] = None]
    BY DEF RejectOverQuota, StartFresh, DeclineQuestion, AnswerQuestion, Confirm,
           CancelProposal, DropProposal, Dropped, storeVars
  <2> QED
    BY <2>1 DEF IndInv, TypeOK
<1>4. \A p \in Requests : pc[p] # "new" => p # r
  BY <1>1
<1>5. ASSUME NEW u \in Threads, pending[u] # None
      PROVE  /\ pending[u].by \in Requests \ {r} /\ pending[u].ts \in Nat
             /\ pc[pending[u].by] = IF pending[u].kind = "proposal"
                                    THEN "awaiting_confirmation"
                                    ELSE "needs_clarification"
             /\ msg[pending[u].by].thread = u
             /\ shown[pending[u].by] = [at |-> pending[u].ts, boot |-> boots]
             /\ pending[u].ts <= now
             /\ \A q \in Requests : confirms[q] # pending[u].by
  <2>1. pending[u].by \in Requests /\ pending[u].ts \in Nat
    BY <1>5 DEF IndInv, TypeOK, Pendings
  <2> QED
    BY <1>4, <1>5, <2>1 DEF IndInv, StandingPrompt, Thread
<1>6. CASE Confirm(r, t, y)
  <2> DEFINE q == pending[t].by
  <2>1. /\ pending[t] # None /\ pending[t].kind = "proposal" /\ y = "yes"
        /\ now - pending[t].ts <= TTL
        /\ confirms' = [confirms EXCEPT ![r] = q]
        /\ pending' = [pending EXCEPT ![t] = None]
    BY <1>6 DEF Confirm, AliveKind, Alive, Dropped
  <2>2. /\ q \in Requests \ {r} /\ pending[t].ts \in Nat
        /\ pc[q] = "awaiting_confirmation" /\ msg[q].thread = t
        /\ shown[q] = [at |-> pending[t].ts, boot |-> boots] /\ pending[t].ts <= now
        /\ \A p \in Requests : confirms[p] # q
    BY <1>5, <2>1
  <2>3. \A p \in Requests : confirms'[p] = IF p = r THEN q ELSE confirms[p]
    BY <2>1 DEF IndInv, TypeOK
  <2>4. StandingPrompt'
    <3>1. ASSUME NEW u \in Threads, pending'[u] # None
          PROVE  u # t /\ pending'[u] = pending[u] /\ pending[u].by # q
      <4>1. pending'[t] = None
        BY <2>1 DEF IndInv, TypeOK
      <4>2. u # t /\ pending'[u] = pending[u]
        BY <1>3, <3>1, <4>1
      <4>3. msg[pending[u].by].thread = u
        BY <1>5, <3>1, <4>2
      <4> QED
        BY <2>2, <4>2, <4>3
    <3> QED
      BY <1>1, <1>5, <2>3, <3>1 DEF StandingPrompt, Thread
  <2>5. ExecutedAtMostOnce'
    BY <2>2, <2>3 DEF IndInv, ExecutedAtMostOnce
  <2>6. ExecutedAsPreviewed'
    <3>1. /\ pc'[q] = "awaiting_confirmation" /\ msg'[q].thread = msg'[r].thread
          /\ msg'[r].reply = "yes" /\ shown'[q].boot = msg'[r].boot
          /\ msg'[r].at - shown'[q].at \in 0..TTL
      BY <1>1, <2>1, <2>2, ConversationAssumption DEF IndInv, TypeOK
    <3>2. ASSUME NEW p \in Requests \ {r}, confirms'[p] # None
          PROVE  /\ confirms'[p] = confirms[p]
                 /\ confirms[p] \in Requests /\ confirms[p] # r
                 /\ pc[confirms[p]] = "awaiting_confirmation"
      BY <1>1, <2>3, <3>2 DEF IndInv, TypeOK, ExecutedAsPreviewed
    <3> QED
      BY <1>1, <2>3, <3>1, <3>2 DEF IndInv, ExecutedAsPreviewed, Thread
  <2> QED
    BY <2>4, <2>5, <2>6
<1>7. CASE ~Confirm(r, t, y)
  <2>1. UNCHANGED confirms
    BY <1>7 DEF RejectOverQuota, StartFresh, DeclineQuestion, AnswerQuestion,
                CancelProposal, DropProposal
  <2>2. StandingPrompt'
    <3>1. ASSUME NEW u \in Threads, pending'[u] # None
          PROVE  pending'[u] = pending[u]
      BY <1>3, <3>1
    <3> QED
      BY <1>1, <1>5, <2>1, <3>1 DEF StandingPrompt, Thread
  <2>3. ExecutedAtMostOnce'
    BY <2>1 DEF IndInv, ExecutedAtMostOnce
  <2>4. ExecutedAsPreviewed'
    <3>1. ASSUME NEW p \in Requests, confirms[p] # None
          PROVE  /\ p # r /\ confirms[p] \in Requests /\ confirms[p] # r
                 /\ pc[confirms[p]] = "awaiting_confirmation"
      BY <1>1, <1>2, <3>1 DEF IndInv, TypeOK, ExecutedAsPreviewed
    <3> QED
      BY <1>1, <2>1, <3>1 DEF IndInv, ExecutedAsPreviewed, Thread
  <2> QED
    BY <2>2, <2>3, <2>4
<1> QED
  BY <1>6, <1>7

(* A prompt replaces its thread's standing prompt; nobody executes it yet. *)
LEMMA PromptKeepsPrompts ==
  ASSUME IndInv, TypeOK', NEW r \in Requests, Propose(r) \/ Ask(r)
  PROVE  StandingPrompt' /\ ExecutedAtMostOnce' /\ ExecutedAsPreviewed'
<1> DEFINE t == msg[r].thread
<1>1. PICK k \in {"proposal", "clarification"} :
        /\ pending' = [pending EXCEPT ![t] = [kind |-> k, by |-> r, ts |-> now]]
        /\ shown' = [shown EXCEPT ![r] = [at |-> now, boot |-> boots]]
        /\ pc' = [pc EXCEPT ![r] = IF k = "proposal" THEN "awaiting_confirmation"
                                                     ELSE "needs_clarification"]
  BY DEF Propose, Ask, Prompt, SetPending, Reply, Goto, Thread
<1>2. pc[r] \in LLMStates /\ UNCHANGED <<msg, confirms, now, boots>>
  BY DEF Propose, Ask, Resume, envVars, LLMStates
<1>3. t \in Threads
  BY <1>2 DEF IndInv, Arrived, TypeOK, Messages, LLMStates
<1>4. \A p \in Requests : pc[p] \in Final => p # r
  BY <1>2 DEF LLMStates, Final, Statuses
<1>5. \A p \in Requests : confirms[p] # r
  <2> SUFFICES ASSUME NEW p \in Requests, confirms[p] = r PROVE FALSE
    OBVIOUS
  <2>1. pc[r] = "awaiting_confirmation"
    BY ConversationAssumption DEF IndInv, ExecutedAsPreviewed
  <2> QED
    BY <1>2, <2>1 DEF LLMStates
<1>6. StandingPrompt'
  <2>1. ASSUME NEW u \in Threads, pending'[u] # None
        PROVE  /\ pc'[pending'[u].by] = IF pending'[u].kind = "proposal"
                                        THEN "awaiting_confirmation"
                                        ELSE "needs_clarification"
               /\ msg'[pending'[u].by].thread = u
               /\ shown'[pending'[u].by] = [at |-> pending'[u].ts, boot |-> boots']
               /\ pending'[u].ts <= now'
               /\ \A q \in Requests : confirms'[q] # pending'[u].by
    <3>1. CASE u = t
      <4>1. pending'[u] = [kind |-> k, by |-> r, ts |-> now]
        BY <1>1, <1>3, <3>1 DEF IndInv, TypeOK
      <4> QED
        BY <1>1, <1>2, <1>5, <3>1, <4>1 DEF IndInv, TypeOK
    <3>2. CASE u # t
      <4>1. pending'[u] = pending[u] /\ pending[u] # None
        BY <1>1, <2>1, <3>2 DEF IndInv, TypeOK
      <4>2. pending[u].by \in Requests
        BY <4>1 DEF IndInv, TypeOK, Pendings
      <4>3. /\ pc[pending[u].by] = IF pending[u].kind = "proposal"
                                   THEN "awaiting_confirmation" ELSE "needs_clarification"
            /\ msg[pending[u].by].thread = u
            /\ shown[pending[u].by] = [at |-> pending[u].ts, boot |-> boots]
            /\ pending[u].ts <= now
            /\ \A q \in Requests : confirms[q] # pending[u].by
        BY <4>1 DEF IndInv, StandingPrompt, Thread
      <4>4. pending[u].by # r
        BY <1>4, <4>2, <4>3 DEF Final, Statuses
      <4> QED
        BY <1>1, <1>2, <4>1, <4>2, <4>3, <4>4 DEF IndInv, TypeOK
    <3> QED
      BY <3>1, <3>2
  <2> QED
    BY <2>1 DEF StandingPrompt, Thread
<1>7. ExecutedAtMostOnce'
  BY <1>2 DEF IndInv, ExecutedAtMostOnce
<1>8. ExecutedAsPreviewed'
  <2>1. ASSUME NEW p \in Requests, confirms[p] # None
        PROVE  /\ confirms[p] \in Requests
               /\ pc'[confirms[p]] = pc[confirms[p]] /\ shown'[confirms[p]] = shown[confirms[p]]
    BY <1>1, <1>5, <2>1 DEF IndInv, TypeOK
  <2> QED
    BY <1>2, <2>1 DEF IndInv, ExecutedAsPreviewed, Thread
<1> QED
  BY <1>6, <1>7, <1>8

(* A restart drops every prompt; what was executed stays as it was.        *)
LEMMA RestartKeepsPrompts ==
  ASSUME IndInv, TypeOK', Restart
  PROVE  StandingPrompt' /\ ExecutedAtMostOnce' /\ ExecutedAsPreviewed'
<1>1. StandingPrompt'
  BY DEF Restart, StandingPrompt
<1>2. ExecutedAtMostOnce'
  BY DEF Restart, IndInv, ExecutedAtMostOnce
<1>3. ExecutedAsPreviewed'
  <2>1. ASSUME NEW p \in Requests, confirms[p] # None
        PROVE  pc'[confirms[p]] = pc[confirms[p]]
    BY <2>1 DEF Restart, IndInv, TypeOK, ExecutedAsPreviewed, Waiting, LLMStates
  <2> QED
    BY <2>1 DEF Restart, IndInv, ExecutedAsPreviewed, Thread
<1> QED
  BY <1>1, <1>2, <1>3

(* Every step keeps what the invariant says of prompts and executions.     *)
LEMMA NextKeepsPrompts ==
  ASSUME IndInv, TypeOK', [Next]_vars
  PROVE  StandingPrompt' /\ ExecutedAtMostOnce' /\ ExecutedAsPreviewed'
<1>1. CASE UNCHANGED vars
  BY <1>1, PromptsKept DEF vars, turnVars, storeVars, envVars, IndInv, TypeOK
<1>2. ASSUME NEW r \in Requests, Arrive(r)
      PROVE  StandingPrompt' /\ ExecutedAtMostOnce' /\ ExecutedAsPreviewed'
  BY <1>2, ArriveKeepsPrompts
<1>3. ASSUME NEW r \in Requests, Propose(r) \/ Ask(r)
      PROVE  StandingPrompt' /\ ExecutedAtMostOnce' /\ ExecutedAsPreviewed'
  BY <1>3, PromptKeepsPrompts
<1>4. ASSUME NEW r \in Requests, Proceed(r), ~(Propose(r) \/ Ask(r))
      PROVE  StandingPrompt' /\ ExecutedAtMostOnce' /\ ExecutedAsPreviewed'
  <2>1. UNCHANGED <<msg, shown, confirms, boots, now, pending>>
    BY <1>4 DEF Proceed, FollowupResolved, PreRouted, ClassifyFailed, NeedsInput,
                Classified, ValidationFailed, Validated, AnswerRead, GiveUp, SendWrite,
                WriteAnswered, WriteTimedOut, Resume, Tell, envVars, storeVars
  <2>2. pc[r] \notin Final /\ \E s : pc' = [pc EXCEPT ![r] = s]
    BY <1>4 DEF Proceed, FollowupResolved, PreRouted, ClassifyFailed, NeedsInput,
                Classified, ValidationFailed, Validated, AnswerRead, GiveUp, SendWrite,
                WriteAnswered, WriteTimedOut, Resume, Tell, Reply, Goto, Final, Statuses
  <2> QED
    BY <2>1, <2>2, PromptsKept DEF IndInv, TypeOK
<1>5. ASSUME NEW r \in Requests,
             ToolCall(r) \/ OnLlmEnd(r) \/ NodeApply(r) \/ NodeReject(r)
      PROVE  StandingPrompt' /\ ExecutedAtMostOnce' /\ ExecutedAsPreviewed'
  <2>1. UNCHANGED <<pc, msg, shown, confirms, boots, now, pending>>
    BY <1>5 DEF ToolCall, Resume, OnLlmEnd, NodeApply, NodeReject, turnVars, envVars,
                storeVars
  <2> QED
    BY <2>1, PromptsKept DEF IndInv, TypeOK
<1>6. CASE Tick
  <2>1. UNCHANGED <<pc, msg, shown, confirms, boots, pending>> /\ now' = now + 1
    BY <1>6 DEF Tick, turnVars, storeVars
  <2> QED
    BY <2>1, PromptsKept DEF IndInv, TypeOK
<1>7. CASE Restart
  BY <1>7, RestartKeepsPrompts
<1> QED
  BY <1>1, <1>2, <1>3, <1>4, <1>5, <1>6, <1>7 DEF Next

(* Where a request stands tells what it has executed and sent so far.      *)
LEMMA ArriveKeepsTurns ==
  ASSUME IndInv, TypeOK', NEW r \in Requests, Arrive(r)
  PROVE  Arrived' /\ TurnState'
<1> PICK t \in Threads, y \in Replies :
      \/ RejectOverQuota(r, t, y) \/ StartFresh(r, t, y)
      \/ DeclineQuestion(r, t, y) \/ AnswerQuestion(r, t, y)
      \/ Confirm(r, t, y) \/ CancelProposal(r, t, y) \/ DropProposal(r, t, y)
  BY DEF Arrive
<1>1. Receive(r, t, y)
  BY DEF RejectOverQuota, StartFresh, DeclineQuestion, AnswerQuestion, Confirm,
         CancelProposal, DropProposal, Admitted
<1>2. /\ pc[r] = "new" /\ UNCHANGED call
      /\ msg' = [msg EXCEPT ![r] = [thread |-> t, reply |-> y, at |-> now, boot |-> boots]]
  BY <1>1 DEF Receive
<1>3. confirms[r] = None /\ call[r] = "none"
  BY <1>2 DEF IndInv, TurnState
<1>4. \/ /\ UNCHANGED <<confirms, intent>>
         /\ \E s \in {"routing", "followup"} \cup Statuses : pc' = [pc EXCEPT ![r] = s]
      \/ \E q \in Requests : \E i :
           /\ confirms' = [confirms EXCEPT ![r] = q] /\ intent' = [intent EXCEPT ![r] = i]
           /\ pc' = [pc EXCEPT ![r] = "preparing"]
  <2>1. CASE Confirm(r, t, y)
    <3>1. pending[t].by \in Requests
      BY <2>1 DEF Confirm, AliveKind, Alive, IndInv, TypeOK, Pendings
    <3> QED
      BY <2>1, <3>1 DEF Confirm, Goto
  <2>2. CASE ~Confirm(r, t, y)
    BY <2>2 DEF RejectOverQuota, StartFresh, DeclineQuestion, AnswerQuestion,
                CancelProposal, DropProposal, Reply, Goto, Statuses
  <2> QED
    BY <2>1, <2>2
<1>5. Arrived'
  <2>1. msg'[r] # None
    BY <1>2, NoneAssumption DEF IndInv, TypeOK, Messages
  <2>2. pc'[r] # "new" /\ \A q \in Requests \ {r} : pc'[q] = pc[q] /\ msg'[q] = msg[q]
    BY <1>2, <1>4 DEF IndInv, TypeOK, Statuses
  <2> QED
    BY <2>1, <2>2 DEF IndInv, Arrived
<1>6. TurnState'
  <2>1. ASSUME NEW q \in Requests \ {r}
        PROVE  UNCHANGED <<pc[q], confirms[q], intent[q], call[q]>>
    BY <1>2, <1>4 DEF IndInv, TypeOK
  <2>2. /\ pc'[r] \in {"preparing", "posting"} => confirms'[r] # None
        /\ pc'[r] \in {"new"} \cup LLMStates \cup {"validating"} => confirms'[r] = None
        /\ call'[r] = "none"
    BY <1>2, <1>3, <1>4, ConversationAssumption DEF IndInv, TypeOK, LLMStates, Statuses
  <2> QED
    BY <2>1, <2>2 DEF IndInv, TurnState
<1> QED
  BY <1>5, <1>6

(* A resumed request moves on the way its state allows.                    *)
LEMMA ProceedKeepsTurns ==
  ASSUME IndInv, TypeOK', NEW r \in Requests, Proceed(r)
  PROVE  Arrived' /\ TurnState'
<1>1. /\ UNCHANGED <<msg, confirms>>
      /\ \E s \in Waiting \cup Statuses : pc' = [pc EXCEPT ![r] = s]
      /\ pc[r] \in Waiting
  BY DEF Proceed, FollowupResolved, PreRouted, ClassifyFailed, NeedsInput, Classified,
         ValidationFailed, Validated, Propose, Ask, AnswerRead, GiveUp, SendWrite,
         WriteAnswered, WriteTimedOut, Resume, Prompt, Tell, Reply, Goto, Waiting,
         LLMStates, Statuses
<1>2. Arrived'
  BY <1>1 DEF IndInv, TypeOK, Arrived, Waiting, LLMStates, Statuses
<1>3. ASSUME NEW q \in Requests \ {r}
      PROVE  UNCHANGED <<pc[q], confirms[q], intent[q], call[q]>>
  <2>1. UNCHANGED intent \/ \E i : intent' = [intent EXCEPT ![r] = i]
    BY DEF Proceed, FollowupResolved, PreRouted, ClassifyFailed, NeedsInput, Classified,
           ValidationFailed, Validated, Propose, Ask, AnswerRead, GiveUp, SendWrite,
           WriteAnswered, WriteTimedOut, Prompt, Tell, Understand
  <2>2. UNCHANGED call \/ call' = [call EXCEPT ![r] = "sent"]
    BY DEF Proceed, FollowupResolved, PreRouted, ClassifyFailed, NeedsInput, Classified,
           ValidationFailed, Validated, Propose, Ask, AnswerRead, GiveUp, SendWrite,
           WriteAnswered, WriteTimedOut, Prompt, Tell
  <2> QED
    BY <1>1, <2>1, <2>2 DEF IndInv, TypeOK
<1>4. /\ pc'[r] = "posting" => pc[r] = "preparing"
      /\ pc'[r] \in {"routing", "classifying"} =>
           pc[r] \in {"followup", "routing", "classifying"} /\ UNCHANGED call
      /\ pc'[r] \notin {"followup", "preparing"}
      /\ pc'[r] \in LLMStates \cup {"validating"} =>
           pc[r] \in LLMStates \cup {"validating"}
      /\ pc[r] \in {"preparing", "validating", "shaping", "answering"} => UNCHANGED intent
      /\ pc[r] \in {"followup", "routing", "classifying"} => UNCHANGED call
      /\ pc[r] \in {"posting", "validating", "shaping", "answering"} => UNCHANGED call
  BY DEF Proceed, FollowupResolved, PreRouted, ClassifyFailed, NeedsInput, Classified,
         ValidationFailed, Validated, Propose, Ask, AnswerRead, GiveUp, SendWrite,
         WriteAnswered, WriteTimedOut, Resume, Prompt, Tell, Reply, Goto, LLMStates,
         IndInv, TypeOK
<1>5. TurnState'
  <2>1. /\ pc'[r] \in {"preparing", "posting"} => confirms'[r] # None
        /\ pc'[r] \in {"new"} \cup LLMStates \cup {"validating"} => confirms'[r] = None
        /\ pc'[r] \in {"new", "followup", "routing", "classifying", "preparing"}
             => call'[r] = "none"
    BY <1>1, <1>4 DEF IndInv, TypeOK, TurnState, Waiting, LLMStates, Statuses
  <2>2. call'[r] # "none" => confirms'[r] # None \/ intent'[r] = "query"
    BY <1>1, <1>4 DEF IndInv, TypeOK, TurnState, Waiting, LLMStates
  <2> QED
    BY <1>3, <2>1, <2>2 DEF IndInv, TurnState
<1> QED
  BY <1>2, <1>5

(* Every step keeps what a request's state tells of its writes.            *)
LEMMA NextKeepsTurns ==
  ASSUME IndInv, TypeOK', [Next]_vars
  PROVE  Arrived' /\ TurnState'
<1>1. CASE UNCHANGED vars
  BY <1>1 DEF vars, turnVars, IndInv, Arrived, TurnState
<1>2. ASSUME NEW r \in Requests, Arrive(r) PROVE Arrived' /\ TurnState'
  BY <1>2, ArriveKeepsTurns
<1>3. ASSUME NEW r \in Requests, Proceed(r) PROVE Arrived' /\ TurnState'
  BY <1>3, ProceedKeepsTurns
<1>4. ASSUME NEW r \in Requests, ToolCall(r) PROVE Arrived' /\ TurnState'
  <2>1. /\ UNCHANGED <<pc, msg, confirms, intent>> /\ call' = [call EXCEPT ![r] = "sent"]
        /\ pc[r] = "answering" /\ intent[r] = "query"
    BY <1>4 DEF ToolCall, Resume, turnVars
  <2> QED
    BY <2>1 DEF IndInv, TypeOK, Arrived, TurnState
<1>5. ASSUME NEW r \in Requests, OnLlmEnd(r) PROVE Arrived' /\ TurnState'
  BY <1>5 DEF OnLlmEnd, turnVars, IndInv, Arrived, TurnState
<1>6. ASSUME NEW r \in Requests, NodeApply(r) \/ NodeReject(r) PROVE Arrived' /\ TurnState'
  <2>1. /\ UNCHANGED <<pc, msg, confirms, intent>> /\ call[r] = "sent"
        /\ \E c \in {"applied", "duplicate", "rejected"} : call' = [call EXCEPT ![r] = c]
    BY <1>6 DEF NodeApply, NodeReject, turnVars
  <2> QED
    BY <2>1 DEF IndInv, TypeOK, Arrived, TurnState
<1>7. CASE Tick
  BY <1>7 DEF Tick, turnVars, IndInv, Arrived, TurnState
<1>8. CASE Restart
  <2>1. /\ UNCHANGED <<msg, confirms, intent, call>>
        /\ \A r \in Requests : pc'[r] = IF pc[r] \in Waiting THEN "lost" ELSE pc[r]
    BY <1>8 DEF Restart
  <2> QED
    BY <2>1 DEF IndInv, Arrived, TurnState, Waiting, LLMStates
<1> QED
  BY <1>1, <1>2, <1>3, <1>4, <1>5, <1>6, <1>7, <1>8 DEF Next

-----------------------------------------------------------------------------
(* A fresh process satisfies the invariant.                                *)
LEMMA InitIndInv == Init => IndInv
<1> SUFFICES ASSUME Init PROVE IndInv
  OBVIOUS
<1>1. TypeOK
  BY DEF Init, TypeOK, Usage!MeterInit, CallStates
<1>2. Arrived /\ TurnState /\ StandingPrompt /\ ExecutedAtMostOnce /\ ExecutedAsPreviewed
  BY DEF Init, Arrived, TurnState, StandingPrompt, ExecutedAtMostOnce,
         ExecutedAsPreviewed
<1> QED
  BY <1>1, <1>2 DEF IndInv

(* The invariant is inductive.                                             *)
LEMMA NextIndInv == IndInv /\ [Next]_vars => IndInv'
<1> SUFFICES ASSUME IndInv, [Next]_vars PROVE IndInv'
  OBVIOUS
<1>1. TypeOK'
  BY NextTypes DEF IndInv
<1> QED
  BY <1>1, NextKeepsTurns, NextKeepsPrompts DEF IndInv

(* Every reachable state satisfies the inductive invariant of the gate,    *)
(* for any number of concurrent requests, threads, restarts, any TTL and   *)
(* any token cost.                                                         *)
THEOREM GateInvariant == Spec => []IndInv
  BY InitIndInv, NextIndInv, PTL DEF Spec

(* Every variable of the pipeline keeps its type.                          *)
THEOREM TypeCorrect == Spec => []TypeOK
<1>1. IndInv => TypeOK
  BY DEF IndInv
<1> QED
  BY <1>1, GateInvariant, PTL

(* A confirmed proposal is executed by one request, whatever overlaps: the *)
(* pending action is consumed before the executor is awaited.              *)
THEOREM AtMostOneExecution == Spec => []ExecutedAtMostOnce
<1>1. IndInv => ExecutedAtMostOnce
  BY DEF IndInv
<1> QED
  BY <1>1, GateInvariant, PTL

(* Only what was previewed in the same thread and process no longer than   *)
(* the TTL ago, and answered with a yes, is executed.                      *)
THEOREM ConfirmedExecution == Spec => []ExecutedAsPreviewed
<1>1. IndInv => ExecutedAsPreviewed
  BY DEF IndInv
<1> QED
  BY <1>1, GateInvariant, PTL
=============================================================================
