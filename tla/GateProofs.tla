----------------------------- MODULE GateProofs -----------------------------
(* The pipeline implements the confirmation gate and the metering, for     *)
(* every value of its constants: each step of Conversation is a step of    *)
(* ConfirmationGate and one of Metering, or leaves their state alone.      *)
EXTENDS ConversationProofs, FiniteSetTheorems

(* The gate sees a step through the standing offers, the proposals made,   *)
(* the proposals affirmed and the writes Node made.                        *)
LEMMA OffersEqual ==
  ASSUME NEW T \in SUBSET Threads,
         \A t \in Threads : StandingOffer(t)' = IF t \in T THEN None ELSE StandingOffer(t),
         UNCHANGED <<Proposed, Affirmed>>,
         \A p \in Requests : Makers(p)' = Makers(p)
  PROVE  [Gate!Next]_Gate!gateVars
<1>1. [t \in Threads |-> StandingOffer(t)]'
        = [t \in Threads |-> IF t \in T THEN None ELSE [u \in Threads |-> StandingOffer(u)][t]]
  OBVIOUS
<1>2. [p \in Requests |-> Cardinality(Makers(p))]' = [p \in Requests |-> Cardinality(Makers(p))]
  OBVIOUS
<1>3. Gate!Withdraw
  BY <1>1, <1>2 DEF Gate!Withdraw
<1> QED
  BY <1>3 DEF Gate!Next

(* A step that neither proposes nor confirms, and after which Node has     *)
(* made what it had made, is invisible to the gate or withdraws offers.    *)
LEMMA GateUnmoved ==
  ASSUME IndInv, IndInv', UNCHANGED confirms,
         \A t \in Threads : pending'[t] = pending[t] \/ StandingOffer(t)' = None,
         \A r \in Requests : pc'[r] = "awaiting_confirmation"
                               <=> pc[r] = "awaiting_confirmation",
         \A r \in Requests : call'[r] = "applied" <=> call[r] = "applied"
  PROVE  [Gate!Next]_Gate!gateVars
<1> DEFINE T == {t \in Threads : StandingOffer(t)' = None}
<1>1. \A t \in Threads : StandingOffer(t)' = IF t \in T THEN None ELSE StandingOffer(t)
  BY DEF StandingOffer
<1>2. UNCHANGED <<Proposed, Affirmed>> /\ \A p \in Requests : Makers(p)' = Makers(p)
  BY DEF Proposed, Affirmed, Makers
<1> HIDE DEF T
<1>3. T \in SUBSET Threads
  BY DEF T
<1> QED
  BY <1>1, <1>2, <1>3, OffersEqual

-----------------------------------------------------------------------------
(* Confirm grants the standing offer of its thread. *)
LEMMA ConfirmGrants ==
  ASSUME IndInv, IndInv', NEW r \in Requests, NEW t \in Threads, NEW y \in Replies,
         Confirm(r, t, y)
  PROVE  Gate!Grant(t)
<1> DEFINE q == pending[t].by
<1>1. /\ pending[t] # None /\ pending[t].kind = "proposal"
      /\ confirms' = [confirms EXCEPT ![r] = q]
      /\ pending' = [pending EXCEPT ![t] = None]
      /\ pc[r] = "new" /\ pc' = [pc EXCEPT ![r] = "preparing"] /\ UNCHANGED call
  BY DEF Confirm, AliveKind, Alive, Dropped, Admitted, Receive, Goto
<1>2. q \in Requests /\ q # None
  BY <1>1, ConversationAssumption DEF IndInv, TypeOK, Pendings
<1>3. confirms[r] = None /\ call[r] = "none"
  BY <1>1 DEF IndInv, TurnState
<1>4. StandingOffer(t) = q
  BY <1>1 DEF StandingOffer
<1>5. \A u \in Threads : StandingOffer(u)' = IF u = t THEN None ELSE StandingOffer(u)
  BY <1>1 DEF StandingOffer, IndInv, TypeOK
<1>6. Affirmed' = Affirmed \cup {q}
  <2>1. \A p \in Requests : confirms'[p] = IF p = r THEN q ELSE confirms[p]
    BY <1>1 DEF IndInv, TypeOK
  <2> QED
    BY <1>2, <1>3, <2>1, ConversationAssumption DEF Affirmed
<1>7. Proposed' = Proposed
  BY <1>1 DEF Proposed, IndInv, TypeOK
<1>8. \A p \in Requests : Makers(p)' = Makers(p)
  BY <1>1, <1>3 DEF Makers, IndInv, TypeOK
<1>9. [u \in Threads |-> StandingOffer(u)]'
        = [[u \in Threads |-> StandingOffer(u)] EXCEPT ![t] = None]
  BY <1>5
<1>10. [p \in Requests |-> Cardinality(Makers(p))]' = [p \in Requests |-> Cardinality(Makers(p))]
  BY <1>8
<1>11. [u \in Threads |-> StandingOffer(u)][t] = q
  BY <1>4
<1> QED
  BY <1>2, <1>6, <1>7, <1>9, <1>10, <1>11 DEF Gate!Grant

(* Propose offers a proposal never offered before. *)
LEMMA ProposeOffers ==
  ASSUME IndInv, IndInv', NEW r \in Requests, Propose(r)
  PROVE  \E t \in Threads : Gate!Offer(t, r)
<1> DEFINE t == msg[r].thread
<1>1. /\ pc[r] = "shaping" /\ pc' = [pc EXCEPT ![r] = "awaiting_confirmation"]
      /\ pending' = [pending EXCEPT ![t] = [kind |-> "proposal", by |-> r, ts |-> now]]
      /\ UNCHANGED <<confirms, call>>
  BY DEF Propose, Resume, Prompt, SetPending, Reply, Goto, Thread
<1>2. t \in Threads
  BY <1>1 DEF IndInv, Arrived, TypeOK, Messages
<1>3. r \notin Proposed /\ Proposed' = Proposed \cup {r}
  BY <1>1 DEF Proposed, IndInv, TypeOK
<1>4. UNCHANGED Affirmed /\ \A p \in Requests : Makers(p)' = Makers(p)
  BY <1>1 DEF Affirmed, Makers
<1>5. pending'[t] = [kind |-> "proposal", by |-> r, ts |-> now] /\ pending'[t] # None
  BY <1>1, <1>2, NoneAssumption DEF IndInv, TypeOK, Pendings
<1>6. \A u \in Threads : StandingOffer(u)' = IF u = t THEN r ELSE StandingOffer(u)
  BY <1>1, <1>5 DEF StandingOffer, IndInv, TypeOK
<1>7. [u \in Threads |-> StandingOffer(u)]'
        = [[u \in Threads |-> StandingOffer(u)] EXCEPT ![t] = r]
  BY <1>6
<1>8. [p \in Requests |-> Cardinality(Makers(p))]' = [p \in Requests |-> Cardinality(Makers(p))]
  BY <1>4
<1>9. Gate!Offer(t, r)
  BY <1>3, <1>4, <1>7, <1>8 DEF Gate!Offer
<1> QED
  BY <1>2, <1>9

(* Node makes the write of an affirmed proposal, once; what it makes for a *)
(* read agent is not the gate's.                                           *)
LEMMA ApplyMakes ==
  ASSUME IndInv, IndInv', NEW r \in Requests, NodeApply(r)
  PROVE  [Gate!Next]_Gate!gateVars
<1>1. /\ call[r] = "sent" /\ UNCHANGED <<pc, confirms, pending>>
      /\ \E c \in {"applied", "duplicate"} : call' = [call EXCEPT ![r] = c]
  BY DEF NodeApply, turnVars, storeVars
<1>2. /\ \A t \in Threads : StandingOffer(t)' = StandingOffer(t)
      /\ UNCHANGED <<Proposed, Affirmed>>
  BY <1>1 DEF StandingOffer, Proposed, Affirmed
<1>3. CASE confirms[r] = None \/ call'[r] # "applied"
  <2>1. \A p \in Requests : Makers(p)' = Makers(p)
    BY <1>1, <1>3, ConversationAssumption DEF Makers, IndInv, TypeOK
  <2> QED
    BY <1>2, <2>1, OffersEqual, {} \in SUBSET Threads
<1>4. CASE confirms[r] # None /\ call'[r] = "applied"
  <2> PICK p \in Requests : p = confirms[r]
    BY <1>4 DEF IndInv, TypeOK
  <2>1. p \in Affirmed
    BY DEF Affirmed
  <2>2. \A q \in Requests : confirms[q] = p => q = r
    BY <1>4 DEF IndInv, ExecutedAtMostOnce
  <2>3. Makers(p) = {} /\ Makers(p)' = {r}
    BY <1>1, <1>4, <2>2 DEF Makers, IndInv, TypeOK
  <2>4. \A q \in Requests \ {p} : Makers(q)' = Makers(q)
    BY <1>1 DEF Makers, IndInv, TypeOK
  <2>5. Cardinality(Makers(p)) = 0 /\ Cardinality(Makers(p))' = 1
    BY <2>3, FS_EmptySet, FS_Singleton
  <2>6. [q \in Requests |-> Cardinality(Makers(q))]'
          = [[q \in Requests |-> Cardinality(Makers(q))] EXCEPT ![p] = 1]
    BY <2>1, <2>4, <2>5
  <2>7. [q \in Requests |-> Cardinality(Makers(q))][p] = 0
    BY <2>1, <2>5
  <2>8. [t \in Threads |-> StandingOffer(t)]' = [t \in Threads |-> StandingOffer(t)]
    BY <1>2
  <2>9. Gate!Make(p)
    BY <1>2, <2>1, <2>6, <2>7, <2>8 DEF Gate!Make
  <2> QED
    BY <2>1, <2>9 DEF Gate!Next
<1> QED
  BY <1>3, <1>4

-----------------------------------------------------------------------------
(* An arriving request grants its thread's offer or withdraws it.          *)
LEMMA ArriveIsGateStep ==
  ASSUME IndInv, IndInv', NEW r \in Requests, Arrive(r)
  PROVE  [Gate!Next]_Gate!gateVars
<1> PICK t \in Threads, y \in Replies :
      \/ RejectOverQuota(r, t, y) \/ StartFresh(r, t, y)
      \/ DeclineQuestion(r, t, y) \/ AnswerQuestion(r, t, y)
      \/ Confirm(r, t, y) \/ CancelProposal(r, t, y) \/ DropProposal(r, t, y)
  BY DEF Arrive
<1>1. CASE Confirm(r, t, y)
  BY <1>1, ConfirmGrants DEF Gate!Next
<1>2. CASE ~Confirm(r, t, y)
  <2>1. UNCHANGED confirms /\ (UNCHANGED pending \/ pending' = [pending EXCEPT ![t] = None])
    BY <1>2 DEF RejectOverQuota, StartFresh, DeclineQuestion, AnswerQuestion,
                CancelProposal, DropProposal, Dropped, storeVars
  <2>2. /\ pc[r] = "new" /\ UNCHANGED call
        /\ \E s \in {"quota_exceeded", "routing", "cancelled", "followup"} :
             pc' = [pc EXCEPT ![r] = s]
    BY <1>2 DEF RejectOverQuota, StartFresh, DeclineQuestion, AnswerQuestion,
                CancelProposal, DropProposal, Admitted, Receive, Reply, Goto
  <2>3. \A u \in Threads : pending'[u] = pending[u] \/ StandingOffer(u)' = None
    BY <2>1 DEF StandingOffer, IndInv, TypeOK
  <2>4. \A q \in Requests : pc'[q] = "awaiting_confirmation"
                              <=> pc[q] = "awaiting_confirmation"
    BY <2>2 DEF IndInv, TypeOK
  <2> QED
    BY <2>1, <2>2, <2>3, <2>4, GateUnmoved
<1> QED
  BY <1>1, <1>2

(* A resumed request makes an offer or is invisible to the gate.           *)
LEMMA ProceedIsGateStep ==
  ASSUME IndInv, IndInv', NEW r \in Requests, Proceed(r)
  PROVE  [Gate!Next]_Gate!gateVars
<1>1. CASE Propose(r)
  BY <1>1, ProposeOffers DEF Gate!Next
<1>2. CASE ~Propose(r)
  <2>1. UNCHANGED confirms
    BY DEF Proceed, FollowupResolved, PreRouted, ClassifyFailed, NeedsInput, Classified,
           ValidationFailed, Validated, Propose, Ask, AnswerRead, GiveUp, SendWrite,
           WriteAnswered, WriteTimedOut, Resume
  <2>2. /\ pc[r] # "awaiting_confirmation"
        /\ \E s : s # "awaiting_confirmation" /\ pc' = [pc EXCEPT ![r] = s]
    BY <1>2 DEF Proceed, FollowupResolved, PreRouted, ClassifyFailed, NeedsInput,
           Classified, ValidationFailed, Validated, Ask, AnswerRead, GiveUp, SendWrite,
           WriteAnswered, WriteTimedOut, Resume, Prompt, Tell, Reply, Goto
  <2>3. UNCHANGED call \/ (pc[r] = "preparing" /\ call' = [call EXCEPT ![r] = "sent"])
    BY DEF Proceed, FollowupResolved, PreRouted, ClassifyFailed, NeedsInput, Classified,
           ValidationFailed, Validated, Propose, Ask, AnswerRead, GiveUp, SendWrite,
           WriteAnswered, WriteTimedOut, Resume, Prompt, Tell
  <2>4. \/ UNCHANGED pending
        \/ pending' = [pending EXCEPT ![Thread(r)] =
                         [kind |-> "clarification", by |-> r, ts |-> now]]
    BY <1>2 DEF Proceed, FollowupResolved, PreRouted, ClassifyFailed, NeedsInput,
           Classified, ValidationFailed, Validated, Ask, AnswerRead, GiveUp, SendWrite,
           WriteAnswered, WriteTimedOut, Prompt, SetPending, Tell, storeVars
  <2>5. \A t \in Threads : pending'[t] = pending[t] \/ StandingOffer(t)' = None
    BY <2>4 DEF StandingOffer, IndInv, TypeOK
  <2>6. \A q \in Requests : pc'[q] = "awaiting_confirmation"
                              <=> pc[q] = "awaiting_confirmation"
    BY <2>2 DEF IndInv, TypeOK
  <2>7. \A q \in Requests : call'[q] = "applied" <=> call[q] = "applied"
    BY <2>3 DEF IndInv, TypeOK, TurnState
  <2> QED
    BY <2>1, <2>5, <2>6, <2>7, GateUnmoved
<1> QED
  BY <1>1, <1>2

(* Every step of the pipeline is a step of the gate or a stutter of it.    *)
LEMMA NextIsGateStep ==
  ASSUME IndInv, IndInv', [Next]_vars
  PROVE  [Gate!Next]_Gate!gateVars
<1>1. CASE UNCHANGED vars
  BY <1>1, GateUnmoved DEF vars, turnVars, storeVars
<1>2. ASSUME NEW r \in Requests, Arrive(r) PROVE [Gate!Next]_Gate!gateVars
  BY <1>2, ArriveIsGateStep
<1>3. ASSUME NEW r \in Requests, Proceed(r) PROVE [Gate!Next]_Gate!gateVars
  BY <1>3, ProceedIsGateStep
<1>4. ASSUME NEW r \in Requests, ToolCall(r) \/ OnLlmEnd(r) \/ NodeReject(r)
      PROVE  [Gate!Next]_Gate!gateVars
  <2>1. UNCHANGED <<pc, confirms, pending>>
    BY <1>4 DEF ToolCall, OnLlmEnd, NodeReject, turnVars, storeVars
  <2>2. \/ UNCHANGED call
        \/ \E c \in {"sent", "rejected"} :
             call[r] \in {"none", "sent"} /\ call' = [call EXCEPT ![r] = c]
    BY <1>4 DEF ToolCall, OnLlmEnd, NodeReject
  <2>3. \A q \in Requests : call'[q] = "applied" <=> call[q] = "applied"
    BY <2>2 DEF IndInv, TypeOK
  <2> QED
    BY <2>1, <2>3, GateUnmoved
<1>5. ASSUME NEW r \in Requests, NodeApply(r) PROVE [Gate!Next]_Gate!gateVars
  BY <1>5, ApplyMakes
<1>6. CASE Tick
  BY <1>6, GateUnmoved DEF Tick, turnVars, storeVars
<1>7. CASE Restart
  <2>1. UNCHANGED <<confirms, call>> /\ \A t \in Threads : pending'[t] = None
    BY <1>7 DEF Restart
  <2>2. \A q \in Requests : pc'[q] = "awaiting_confirmation"
                              <=> pc[q] = "awaiting_confirmation"
    BY <1>7 DEF Restart, Waiting, LLMStates
  <2> QED
    BY <2>1, <2>2, GateUnmoved DEF StandingOffer
<1> QED
  BY <1>1, <1>2, <1>3, <1>4, <1>5, <1>6, <1>7 DEF Next

(* A fresh process is a gate without offers.                               *)
LEMMA InitIsGateInit == Init => Gate!Init
<1> SUFFICES ASSUME Init PROVE Gate!Init
  OBVIOUS
<1>1. \A t \in Threads : StandingOffer(t) = None
  BY DEF Init, StandingOffer
<1>2. Proposed = {}
  BY DEF Init, Proposed
<1>3. Affirmed = {} /\ \A p \in Requests : Makers(p) = {}
  BY ConversationAssumption DEF Init, Affirmed, Makers
<1>4. \A p \in Requests : Cardinality(Makers(p)) = 0
  BY <1>3, FS_EmptySet
<1> QED
  BY <1>1, <1>2, <1>3, <1>4 DEF Gate!Init

(* Every behaviour of the pipeline is one of the confirmation gate: a      *)
(* write is made for a proposal that stood in its thread when its user     *)
(* affirmed it, and once.                                                  *)
THEOREM GateImplemented == Spec => ImplementsGate
<1>1. IndInv /\ IndInv' /\ [Next]_vars => [Gate!Next]_Gate!gateVars
  BY NextIsGateStep
<1> QED
  BY <1>1, InitIsGateInit, GateInvariant, PTL DEF Spec, ImplementsGate, Gate!Spec

(* What the gate lets a user rely on, the pipeline does too: it is proved  *)
(* of ConfirmationGate and carried over by the refinement.                 *)
THEOREM PipelineIsSafe == Spec => []Gate!Safe
<1> DEFINE Made == [p \in Requests |-> Cardinality(Makers(p))]
           Offers == [t \in Threads |-> StandingOffer(t)]
<1>1. Gate!Init => Gate!Safe
  BY DEF Gate!Init, Gate!Safe
<1>2. Gate!Safe /\ [Gate!Next]_Gate!gateVars => Gate!Safe'
  <2> SUFFICES ASSUME Gate!Safe, [Gate!Next]_Gate!gateVars PROVE Gate!Safe'
    OBVIOUS
  <2>0. /\ Affirmed \subseteq Proposed
        /\ \A p \in Requests : Made[p] \in {0, 1} /\ (Made[p] = 1 => p \in Affirmed)
        /\ \A t \in Threads : Offers[t] # None =>
             /\ Offers[t] \in Proposed \ Affirmed
             /\ \A u \in Threads \ {t} : Offers[u] # Offers[t]
    BY DEF Gate!Safe
  <2>1. CASE UNCHANGED Gate!gateVars
    BY <2>1 DEF Gate!Safe, Gate!gateVars
  <2>2. ASSUME NEW t \in Threads, NEW p \in Requests, Gate!Offer(t, p) PROVE Gate!Safe'
    <3>1. /\ p \notin Proposed /\ Proposed' = Proposed \cup {p}
          /\ Offers' = [Offers EXCEPT ![t] = p] /\ Affirmed' = Affirmed /\ Made' = Made
      BY <2>2 DEF Gate!Offer
    <3>2. \A u \in Threads : Offers'[u] = IF u = t THEN p ELSE Offers[u]
      BY <3>1
    <3> HIDE DEF Made, Offers
    <3> QED
      BY <2>0, <3>1, <3>2 DEF Gate!Safe, Made, Offers
  <2>3. ASSUME NEW t \in Threads, Gate!Grant(t) PROVE Gate!Safe'
    <3>1. /\ Offers[t] # None /\ Affirmed' = Affirmed \cup {Offers[t]}
          /\ Offers' = [Offers EXCEPT ![t] = None] /\ Proposed' = Proposed /\ Made' = Made
      BY <2>3 DEF Gate!Grant
    <3>2. \A u \in Threads : Offers'[u] = IF u = t THEN None ELSE Offers[u]
      BY <3>1
    <3> HIDE DEF Made, Offers
    <3> QED
      BY <2>0, <3>1, <3>2 DEF Gate!Safe, Made, Offers
  <2>4. CASE Gate!Withdraw
    BY <2>4 DEF Gate!Safe, Gate!Withdraw
  <2>5. ASSUME NEW p \in Requests, Gate!Make(p) PROVE Gate!Safe'
    <3>1. /\ p \in Affirmed /\ Made' = [Made EXCEPT ![p] = 1]
          /\ Offers' = Offers /\ Proposed' = Proposed /\ Affirmed' = Affirmed
      BY <2>5 DEF Gate!Make
    <3>2. \A q \in Requests : Made'[q] = IF q = p THEN 1 ELSE Made[q]
      BY <3>1
    <3> HIDE DEF Made, Offers
    <3> QED
      BY <2>0, <3>1, <3>2 DEF Gate!Safe, Made, Offers
  <2> QED
    BY <2>1, <2>2, <2>3, <2>4, <2>5 DEF Gate!Next
<1> QED
  BY <1>1, <1>2, GateImplemented, PTL DEF ImplementsGate, Gate!Spec

-----------------------------------------------------------------------------
(* Metering sees a request's org and how far it is. *)
UsageOrg == [r \in Requests |-> IF msg[r] = None THEN None ELSE OrgOf[msg[r].thread]]
StageOf(s) == CASE s = "new" -> "new"
                [] s \in Waiting -> "running"
                [] s = "quota_exceeded" -> "blocked"
                [] OTHER -> "done"
UsageStage == [r \in Requests |-> StageOf(pc[r])]

(* Where the statuses of the pipeline are for metering.                    *)
LEMMA Stages ==
  /\ StageOf("new") = "new" /\ StageOf("quota_exceeded") = "blocked"
  /\ \A s \in Waiting : StageOf(s) = "running"
  /\ \A s \in Final \ {"quota_exceeded"} : StageOf(s) = "done"
PROOF BY DEF StageOf, Waiting, LLMStates, Final, Statuses

(* An arriving request is counted, and admitted unless its org has spent   *)
(* its quota.                                                              *)
LEMMA ArriveIsMetered ==
  ASSUME IndInv, NEW r \in Requests, Arrive(r)
  PROVE  Usage!Next
<1> PICK t \in Threads, y \in Replies :
      \/ RejectOverQuota(r, t, y) \/ StartFresh(r, t, y)
      \/ DeclineQuestion(r, t, y) \/ AnswerQuestion(r, t, y)
      \/ Confirm(r, t, y) \/ CancelProposal(r, t, y) \/ DropProposal(r, t, y)
  BY DEF Arrive
<1> DEFINE o == OrgOf[t]
<1>1. o \in Orgs
  BY ConversationAssumption
<1>2. Receive(r, t, y)
  BY DEF RejectOverQuota, StartFresh, DeclineQuestion, AnswerQuestion, Confirm, CancelProposal,
         DropProposal, Admitted
<1>3. /\ pc[r] = "new" /\ Usage!CountRequest(o)
      /\ msg' = [msg EXCEPT ![r] = [thread |-> t, reply |-> y, at |-> now, boot |-> boots]]
  BY <1>2 DEF Receive
<1>4. UsageOrg' = [UsageOrg EXCEPT ![r] = o]
  <2>1. [thread |-> t, reply |-> y, at |-> now, boot |-> boots] \in Messages
    BY DEF IndInv, TypeOK, Messages
  <2>2. [thread |-> t, reply |-> y, at |-> now, boot |-> boots] # None
    BY <2>1, NoneAssumption
  <2>3. \A q \in Requests : UsageOrg'[q] = IF q = r THEN o ELSE UsageOrg[q]
    BY <1>3, <2>2 DEF UsageOrg, IndInv, TypeOK
  <2> QED BY <2>3 DEF UsageOrg
<1>5. ASSUME NEW s, pc' = [pc EXCEPT ![r] = s]
      PROVE  UsageStage[r] = "new" /\ UsageStage' = [UsageStage EXCEPT ![r] = StageOf(s)]
  <2>1. \A q \in Requests : UsageStage'[q] = IF q = r THEN StageOf(s) ELSE UsageStage[q]
    BY <1>5 DEF UsageStage, IndInv, TypeOK
  <2>2. UsageStage[r] = "new"
    BY <1>3, Stages DEF UsageStage
  <2> QED BY <2>1, <2>2 DEF UsageStage
<1> HIDE DEF o
<1>6. CASE RejectOverQuota(r, t, y)
  <2>1. pc' = [pc EXCEPT ![r] = "quota_exceeded"] /\ Usage!OverQuota(o)
    BY <1>6 DEF RejectOverQuota, Goto, o
  <2>2. UsageStage[r] = "new" /\ UsageStage' = [UsageStage EXCEPT ![r] = "blocked"]
    BY <1>5, <2>1, Stages
  <2>3. Usage!Block(r, o)
    BY <1>3, <1>4, <2>1, <2>2 DEF Usage!Block, Usage!Arrive, UsageOrg, UsageStage, StageOf
  <2> QED BY <1>1, <2>3 DEF Usage!Next
<1>7. CASE ~RejectOverQuota(r, t, y)
  <2>1. ~Usage!OverQuota(o)
    BY <1>7 DEF StartFresh, DeclineQuestion, AnswerQuestion, Confirm, CancelProposal,
                DropProposal, Admitted, o
  <2>2. PICK s \in Waiting \cup {"cancelled"} : pc' = [pc EXCEPT ![r] = s]
    BY <1>7 DEF StartFresh, DeclineQuestion, AnswerQuestion, Confirm, CancelProposal,
                DropProposal, Reply, Goto, Waiting, LLMStates
  <2>3. StageOf(s) \in {"running", "done"}
    BY <2>2, Stages DEF Final, Statuses
  <2>4. UsageStage[r] = "new" /\ UsageStage' = [UsageStage EXCEPT ![r] = StageOf(s)]
    BY <1>5, <2>2
  <2> DEFINE st == StageOf(s)
  <2> HIDE DEF st
  <2>5. st \in {"running", "done"} /\ UsageStage' = [UsageStage EXCEPT ![r] = st]
    BY <2>3, <2>4 DEF st
  <2>6. Usage!Admit(r, o)
    BY <1>3, <1>4, <2>1, <2>4, <2>5 DEF Usage!Admit, Usage!Arrive, UsageOrg, UsageStage, StageOf
  <2> QED BY <1>1, <2>6 DEF Usage!Next
<1> QED BY <1>6, <1>7

(* A resumed request ends or goes on waiting; nothing of it is being added. *)
LEMMA ProceedIsMetered ==
  ASSUME IndInv, NEW r \in Requests, Proceed(r)
  PROVE  [Usage!Next]_Usage!vars
<1>1. pc[r] \in Waiting /\ Usage!Settled(r) /\ UNCHANGED <<msg, meterVars>>
  BY DEF Proceed, FollowupResolved, PreRouted, ClassifyFailed, NeedsInput, Classified,
         ValidationFailed, Validated, Propose, Ask, AnswerRead, GiveUp, SendWrite,
         WriteAnswered, WriteTimedOut, Resume, Waiting, LLMStates
<1>2. PICK s \in Waiting \cup (Final \ {"quota_exceeded"}) : pc' = [pc EXCEPT ![r] = s]
  BY DEF Proceed, FollowupResolved, PreRouted, ClassifyFailed, NeedsInput, Classified,
         ValidationFailed, Validated, Propose, Ask, AnswerRead, GiveUp, SendWrite,
         WriteAnswered, WriteTimedOut, Prompt, Tell, Reply, Goto, Waiting, LLMStates, Final,
         Statuses
<1>3. UsageOrg' = UsageOrg
  BY <1>1 DEF UsageOrg
<1>4. /\ UsageStage[r] = "running"
      /\ \A q \in Requests : UsageStage'[q] = IF q = r THEN StageOf(s) ELSE UsageStage[q]
  BY <1>1, <1>2, Stages DEF UsageStage, IndInv, TypeOK
<1>5. CASE s \in Waiting
  <2>1. UsageStage' = UsageStage
    BY <1>4, <1>5, Stages DEF UsageStage
  <2> QED BY <1>1, <1>3, <2>1 DEF Usage!vars, Usage!meterVars, meterVars, UsageOrg, UsageStage, StageOf
<1>6. CASE s \notin Waiting
  <2>1. UsageStage' = [UsageStage EXCEPT ![r] = "done"]
    BY <1>2, <1>4, <1>6, Stages DEF UsageStage
  <2>2. Usage!Finish(r)
    BY <1>1, <1>3, <1>4, <2>1
    DEF Usage!Finish, Usage!meterVars, meterVars, UsageOrg, UsageStage, StageOf
  <2> QED BY <2>2 DEF Usage!Next
<1> QED BY <1>5, <1>6

(* Every step of the pipeline is one Metering makes, or none of its.       *)
LEMMA NextIsMetered ==
  ASSUME IndInv, [Next]_vars
  PROVE  [Usage!Next]_Usage!vars
<1>1. CASE UNCHANGED <<pc, msg, meterVars>>
  <2>1. UsageOrg' = UsageOrg /\ UsageStage' = UsageStage
    BY <1>1 DEF UsageOrg, UsageStage
  <2> QED BY <1>1, <2>1 DEF Usage!vars, Usage!meterVars, meterVars, UsageOrg, UsageStage, StageOf
<1>2. ASSUME NEW r \in Requests, Arrive(r) PROVE [Usage!Next]_Usage!vars
  BY <1>2, ArriveIsMetered
<1>3. ASSUME NEW r \in Requests, Proceed(r) PROVE [Usage!Next]_Usage!vars
  BY <1>3, ProceedIsMetered
<1>4. ASSUME NEW r \in Requests, ToolCall(r) \/ NodeApply(r) \/ NodeReject(r)
      PROVE  [Usage!Next]_Usage!vars
  BY <1>1, <1>4 DEF ToolCall, NodeApply, NodeReject, Resume, turnVars
<1>5. ASSUME NEW r \in Requests, OnLlmEnd(r) PROVE [Usage!Next]_Usage!vars
  <2>1. pc[r] \in Waiting /\ msg[r] # None /\ UNCHANGED <<pc, msg>>
    BY <1>5 DEF OnLlmEnd, turnVars, IndInv, Arrived, Waiting, LLMStates
  <2>2. UsageOrg[r] = OrgOf[Thread(r)] /\ UsageStage[r] = "running"
    BY <2>1, Stages DEF UsageOrg, UsageStage, Thread
  <2>3. UsageOrg' = UsageOrg /\ UsageStage' = UsageStage
    BY <2>1 DEF UsageOrg, UsageStage
  <2>4. Usage!AddRead(r, UsageOrg[r]) \/ Usage!AddWrite(r, UsageOrg[r])
    BY <1>5, <2>2 DEF OnLlmEnd
  <2>5. Usage!OnLlmEnd(r)
    BY <2>2, <2>3, <2>4 DEF Usage!OnLlmEnd, UsageOrg, UsageStage, StageOf
  <2> QED BY <2>5 DEF Usage!Next
<1>6. CASE Tick \/ UNCHANGED vars
  BY <1>1, <1>6 DEF Tick, vars, turnVars
<1>7. CASE Restart
  <2>1. /\ Usage!Forget /\ UNCHANGED msg
        /\ pc' = [r \in Requests |-> IF pc[r] \in Waiting THEN "lost" ELSE pc[r]]
    BY <1>7 DEF Restart
  <2>2. UsageOrg' = UsageOrg
    BY <2>1 DEF UsageOrg
  <2>3. UsageStage' = [r \in Requests |-> IF UsageStage[r] = "running" THEN "done"
                                                                    ELSE UsageStage[r]]
    <3>1. \A s : s \in Waiting <=> StageOf(s) = "running"
      BY DEF StageOf, Waiting, LLMStates
    <3>2. StageOf("lost") = "done"
      BY Stages DEF Final, Statuses
    <3> QED BY <2>1, <3>1, <3>2 DEF UsageStage
  <2>4. Usage!Restart
    BY <2>1, <2>2, <2>3 DEF Usage!Restart, UsageOrg, UsageStage, StageOf
  <2> QED BY <2>4 DEF Usage!Next
<1> QED BY <1>2, <1>3, <1>4, <1>5, <1>6, <1>7 DEF Next

(* A fresh process has counted nothing.                                    *)
LEMMA InitIsMetered == Init => Usage!Init
<1> SUFFICES ASSUME Init PROVE Usage!Init
  OBVIOUS
<1>1. \A r \in Requests : UsageOrg[r] = None /\ UsageStage[r] = "new"
  <2>1. \A r \in Requests : msg[r] = None /\ pc[r] = "new"
    BY DEF Init
  <2> QED BY <2>1, Stages DEF UsageOrg, UsageStage
<1>2. UsageOrg = [r \in Requests |-> None] /\ UsageStage = [r \in Requests |-> "new"]
  BY <1>1 DEF UsageOrg, UsageStage
<1> QED
  BY <1>2 DEF Init, Usage!Init, UsageOrg, UsageStage, StageOf

(* Whatever the pipeline does to its requests, it counts, charges and      *)
(* blocks them as Metering says.                                           *)
THEOREM MeteringImplemented == Spec => ImplementsMetering
<1>1. IndInv /\ [Next]_vars => [Usage!Next]_Usage!vars
  BY NextIsMetered
<1> QED
  BY <1>1, InitIsMetered, GateInvariant, PTL DEF Spec, ImplementsMetering, Usage!Spec

-----------------------------------------------------------------------------
(* What is proved of Metering, told of the pipeline. *)
Meter == INSTANCE MeteringProofs WITH org <- UsageOrg, stage <- UsageStage

(* The metering the pipeline implements is the one it is proved of.        *)
LEMMA SameMeter ==
  /\ Usage!Init => Meter!Init
  /\ [Usage!Next]_Usage!vars => [Meter!Next]_Meter!vars
  /\ Meter!NeverOvercharged => Usage!NeverOvercharged
<1>1. Usage!Init => Meter!Init
  BY DEF Usage!Init, Meter!Init, Usage!MeterInit, Meter!MeterInit, UsageOrg, UsageStage, StageOf
<1>2. [Usage!Next]_Usage!vars => [Meter!Next]_Meter!vars
  BY DEF UsageOrg, UsageStage, StageOf,
         Usage!vars, Usage!meterVars, Usage!Next, Usage!Admit, Usage!Block, Usage!OverQuota,
         Usage!Arrive, Usage!CountRequest, Usage!OnLlmEnd, Usage!AddRead, Usage!AddWrite,
         Usage!Settled, Usage!Finish, Usage!Restart, Usage!Forget,
         Meter!vars, Meter!meterVars, Meter!Next, Meter!Admit, Meter!Block, Meter!OverQuota,
         Meter!Arrive, Meter!CountRequest, Meter!OnLlmEnd, Meter!AddRead, Meter!AddWrite,
         Meter!Settled, Meter!Finish, Meter!Restart, Meter!Forget
<1>3. \A o : Meter!Spent(o) = Usage!Spent(o)
  <2>1. \A f, S : Meter!Total(f, S) = Usage!Total(f, S)
    BY DEF Meter!Total, Meter!MapThenSumSet, Meter!MapThenFoldSet,
           Usage!Total, Usage!MapThenSumSet, Usage!MapThenFoldSet
  <2> QED
    BY <2>1 DEF Meter!Spent, Meter!RequestsOf, Usage!Spent, Usage!RequestsOf, UsageOrg
<1> QED
  BY <1>1, <1>2, <1>3 DEF Meter!NeverOvercharged, Usage!NeverOvercharged

(* However requests of /chat and their LLM calls overlap, fail or are lost *)
(* in a restart, an org is charged no more than its requests spent.        *)
THEOREM PipelineNeverOvercharges == Spec => []Usage!NeverOvercharged
<1>1. Meter!MeteringAssumption
  BY ConversationAssumption DEF Meter!MeteringAssumption
<1>2. Meter!Spec => []Meter!NeverOvercharged
  BY <1>1, Meter!OrgsNeverOvercharged
<1> QED
  BY <1>2, SameMeter, MeteringImplemented, PTL DEF ImplementsMetering, Usage!Spec, Meter!Spec
=============================================================================
