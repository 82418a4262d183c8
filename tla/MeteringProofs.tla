--------------------------- MODULE MeteringProofs ---------------------------
(***************************************************************************)
(* Theorems about Metering, for any number of requests, costs and restarts *)
(* and any interleaving of the adds.                                       *)
(***************************************************************************)
EXTENDS Metering, SumProofs

-----------------------------------------------------------------------------
(* What is spent. *)

(* It is a natural number.                                                 *)
LEMMA SpentType ==
  ASSUME TypeOK, NEW o \in Orgs, IsFiniteSet(RequestsOf(o))
  PROVE  Spent(o) \in Nat
PROOF
  <1>1. \A r \in RequestsOf(o) : tokens[r] \in Nat
    BY DEF TypeOK, RequestsOf
  <1> QED BY <1>1, SumType DEF Spent

(* A step that changes neither the tokens nor whose requests are whose.    *)
LEMMA SpentUnchanged ==
  ASSUME UNCHANGED <<tokens, org>>
  PROVE  \A o : Spent(o)' = Spent(o) /\ RequestsOf(o)' = RequestsOf(o)
PROOF
  <1>1. \A o : RequestsOf(o)' = RequestsOf(o)
    BY DEF RequestsOf
  <1> QED BY <1>1 DEF Spent

(* A request that arrives has spent nothing yet.                           *)
LEMMA SpentByNewcomer ==
  ASSUME IndInv, NEW r \in Requests, NEW p \in Orgs, stage[r] = "new",
         org' = [org EXCEPT ![r] = p], UNCHANGED tokens
  PROVE  \A o \in Orgs : Spent(o)' = Spent(o) /\ IsFiniteSet(RequestsOf(o)')
PROOF
  <1>1. TypeOK /\ org[r] = None /\ tokens[r] = 0 /\ None \notin Orgs
    BY MeteringAssumption DEF IndInv
  <1> TAKE o \in Orgs
  <1>2. IsFiniteSet(RequestsOf(o)) /\ r \notin RequestsOf(o)
    BY <1>1 DEF IndInv, RequestsOf
  <1>3. RequestsOf(o)' = IF o = p THEN RequestsOf(o) \cup {r} ELSE RequestsOf(o)
    BY <1>1 DEF RequestsOf, TypeOK
  <1>4. CASE o # p
    BY <1>2, <1>3, <1>4 DEF Spent
  <1>5. CASE o = p
    <2> DEFINE S == RequestsOf(o) \cup {r}
    <2>1. IsFiniteSet(S) /\ S \ {r} = RequestsOf(o)
      BY <1>2, FS_AddElement
    <2>2. \A q \in S : tokens[q] \in Nat
      BY <1>1 DEF TypeOK, RequestsOf
    <2> HIDE DEF S
    <2>3. Total(tokens, S) = tokens[r] + Total(tokens, RequestsOf(o))
      <3>1. r \in S
        BY DEF S
      <3> QED BY <2>1, <2>2, <3>1, SumWithout
    <2>4. Spent(o) \in Nat
      BY <1>1, <1>2, SpentType
    <2>5. Spent(o)' = Total(tokens, S)
      BY <1>3, <1>5, <1>2 DEF S, Spent
    <2> QED BY <1>1, <1>3, <1>5, <2>1, <2>3, <2>4, <2>5 DEF S, Spent
  <1> QED BY <1>4, <1>5

(* What a call cost is spent by the org of its request.                    *)
LEMMA SpentByCall ==
  ASSUME IndInv, NEW r \in Requests, NEW c \in Nat, org[r] \in Orgs, UNCHANGED org,
         \A q \in Requests : tokens'[q] = IF q = r THEN tokens[q] + c ELSE tokens[q]
  PROVE  \A o \in Orgs : /\ Spent(o)' = IF o = org[r] THEN Spent(o) + c ELSE Spent(o)
                         /\ IsFiniteSet(RequestsOf(o)')
PROOF
  <1> TAKE o \in Orgs
  <1>1. IsFiniteSet(RequestsOf(o)) /\ \A q \in RequestsOf(o) : tokens[q] \in Nat
    BY DEF IndInv, TypeOK, RequestsOf
  <1>2. RequestsOf(o)' = RequestsOf(o)
    BY DEF RequestsOf
  <1>3. r \in RequestsOf(o) <=> o = org[r]
    BY DEF RequestsOf
  <1>4. \A q \in RequestsOf(o) : tokens'[q] = IF q = r THEN tokens[q] + c ELSE tokens[q]
    BY DEF RequestsOf
  <1>5. Total(tokens', RequestsOf(o)) = IF r \in RequestsOf(o) THEN Total(tokens, RequestsOf(o)) + c
                                      ELSE Total(tokens, RequestsOf(o))
    BY <1>1, <1>4, SumRaised
  <1> QED BY <1>1, <1>2, <1>3, <1>5 DEF Spent

-----------------------------------------------------------------------------
(* Steps. *)

(* Nothing is spent, added or asked at the start.                          *)
LEMMA InitMeter == Init => IndInv
PROOF
  <1> SUFFICES ASSUME Init PROVE IndInv
    OBVIOUS
  <1>1. TypeOK
    BY DEF Init, MeterInit, TypeOK
  <1>2. \A o \in Orgs : RequestsOf(o) = {}
    BY MeteringAssumption DEF Init, RequestsOf
  <1>3. \A o \in Orgs : IsFiniteSet(RequestsOf(o)) /\ Spent(o) = 0
    BY <1>2, FS_EmptySet, SumEmpty DEF Spent
  <1>4. NeverOvercharged
    BY <1>3 DEF Init, MeterInit, NeverOvercharged
  <1>5. \A r \in Requests : org[r] = None /\ tokens[r] = 0 /\ Settled(r) /\ stage[r] = "new"
    BY DEF Init, MeterInit, Settled
  <1>6. \A o \in Orgs : IsFiniteSet(RequestsOf(o)) /\ \A r \in RequestsOf(o) : FALSE
    BY <1>2, <1>3
  <1> QED BY <1>1, <1>4, <1>5, <1>6 DEF IndInv

(* A request is counted for its org and admitted or blocked.               *)
LEMMA ArriveMeter ==
  ASSUME IndInv, NEW r \in Requests, NEW o \in Orgs,
         NEW s \in {"running", "done", "blocked"}, Arrive(r, o, s)
  PROVE  IndInv'
PROOF
  <1>1. /\ TypeOK /\ stage[r] = "new" /\ adding[r] = None
        /\ UNCHANGED <<usage, tokens, adding>>
        /\ org' = [org EXCEPT ![r] = o] /\ stage' = [stage EXCEPT ![r] = s]
    BY DEF IndInv, Arrive, CountRequest, Settled
  <1>2. TypeOK'
    BY <1>1 DEF TypeOK, Arrive, CountRequest
  <1>3. \A p \in Orgs : Spent(p)' = Spent(p) /\ IsFiniteSet(RequestsOf(p)')
    BY <1>1, SpentByNewcomer
  <1>4. ASSUME NEW q \in Requests
        PROVE  IF stage'[q] = "new" THEN org'[q] = None /\ tokens'[q] = 0 /\ adding'[q] = None
                                    ELSE org'[q] \in Orgs
    BY <1>1 DEF IndInv, Settled, TypeOK
  <1>5. ASSUME NEW p \in Orgs, NEW q \in RequestsOf(p)', adding'[q] # None
        PROVE  adding'[q].seen <= Spent(p)'
    <2>1. q \in RequestsOf(p)
      BY <1>1, <1>5 DEF RequestsOf, TypeOK
    <2> QED BY <1>1, <1>3, <1>5, <2>1 DEF IndInv, Settled
  <1>6. NeverOvercharged'
    BY <1>1, <1>3 DEF IndInv, NeverOvercharged
  <1> QED BY <1>2, <1>3, <1>4, <1>5, <1>6 DEF IndInv, Settled

(* The read of an add sees no more than is spent.                          *)
LEMMA AddReadMeter ==
  ASSUME IndInv, NEW r \in Requests, NEW o \in Orgs, org[r] = o, stage[r] = "running",
         AddRead(r, o), UNCHANGED <<org, stage>>
  PROVE  IndInv'
PROOF
  <1>1. TypeOK
    BY DEF IndInv
  <1>2. PICK c \in TokenCosts :
          /\ adding' = [adding EXCEPT ![r] = [cost |-> c, seen |-> usage[o]]]
          /\ UNCHANGED <<usage, requestCount, tokens>>
    BY DEF AddRead
  <1>3. \A p : Spent(p)' = Spent(p) /\ RequestsOf(p)' = RequestsOf(p)
    BY <1>2, SpentUnchanged
  <1>4. TypeOK'
    BY <1>1, <1>2 DEF TypeOK, Adds
  <1>5. ASSUME NEW p \in Orgs, NEW q \in RequestsOf(p)', adding'[q] # None
        PROVE  adding'[q].seen <= Spent(p)'
    <2>1. CASE q = r
      <3>1. p = o /\ adding'[q].seen = usage[o]
        BY <1>1, <1>2, <2>1 DEF RequestsOf, TypeOK
      <3> QED BY <1>3, <3>1 DEF IndInv, NeverOvercharged
    <2>2. CASE q # r
      <3>1. adding'[q] = adding[q] /\ q \in RequestsOf(p)
        BY <1>1, <1>2, <1>3, <2>2 DEF TypeOK
      <3> QED BY <1>3, <1>5, <3>1 DEF IndInv, Settled
    <2> QED BY <2>1, <2>2
  <1>6. NeverOvercharged' /\ \A p \in Orgs : IsFiniteSet(RequestsOf(p)')
    BY <1>2, <1>3 DEF IndInv, NeverOvercharged
  <1>7. \A q \in Requests : stage[q] = "new" => adding'[q] = None /\ tokens'[q] = 0
    BY <1>1, <1>2 DEF IndInv, Settled, TypeOK
  <1> QED BY <1>4, <1>5, <1>6, <1>7 DEF IndInv, Settled

(* The write of an add charges what its read saw and the cost, which is    *)
(* spent in the same step.                                                 *)
LEMMA AddWriteMeter ==
  ASSUME IndInv, NEW r \in Requests, NEW o \in Orgs, org[r] = o, stage[r] = "running",
         AddWrite(r, o), UNCHANGED <<org, stage>>
  PROVE  IndInv'
PROOF
  <1> DEFINE c == adding[r].cost
             n == adding[r].seen
  <1>1. TypeOK /\ r \in RequestsOf(o)
    BY DEF IndInv, RequestsOf
  <1>2. adding[r] \in Adds /\ n <= Spent(o)
    BY <1>1 DEF IndInv, AddWrite, Settled, TypeOK
  <1>3. c \in Nat /\ n \in Nat
    BY <1>2, MeteringAssumption DEF Adds
  <1>4. /\ usage' = [usage EXCEPT ![o] = n + c]
        /\ tokens' = [tokens EXCEPT ![r] = @ + c]
        /\ adding' = [adding EXCEPT ![r] = None] /\ UNCHANGED requestCount
    BY DEF AddWrite
  <1>5. TypeOK'
    BY <1>1, <1>3, <1>4 DEF TypeOK
  <1> HIDE DEF c, n
  <1>6. \A p \in Orgs : /\ Spent(p)' = IF p = o THEN Spent(p) + c ELSE Spent(p)
                        /\ IsFiniteSet(RequestsOf(p)')
    <2>1. \A q \in Requests : tokens'[q] = IF q = r THEN tokens[q] + c ELSE tokens[q]
      BY <1>1, <1>4 DEF TypeOK
    <2> QED BY <1>1, <1>3, <2>1, SpentByCall
  <1>7. \A p \in Orgs : Spent(p) \in Nat /\ Spent(p)' \in Nat /\ Spent(p) <= Spent(p)'
    <2>1. \A p \in Orgs : Spent(p) \in Nat
      BY <1>1, SpentType DEF IndInv
    <2> QED BY <1>3, <1>6, <2>1
  <1>8. ASSUME NEW p \in Orgs PROVE usage'[p] <= Spent(p)'
    <2>1. CASE p = o
      <3>1. usage'[p] = n + c
        BY <1>1, <1>4, <2>1 DEF TypeOK
      <3>2. Spent(p)' = Spent(o) + c
        BY <1>6, <2>1
      <3> QED BY <1>2, <1>3, <1>7, <3>1, <3>2
    <2>2. CASE p # o
      <3>1. usage'[p] = usage[p] /\ usage[p] <= Spent(p)
        BY <1>1, <1>4, <2>2 DEF IndInv, NeverOvercharged, TypeOK
      <3>2. Spent(p)' = Spent(p)
        BY <1>6, <2>2
      <3> QED BY <3>1, <3>2
    <2> QED BY <2>1, <2>2
  <1>9. ASSUME NEW p \in Orgs, NEW q \in RequestsOf(p)', adding'[q] # None
        PROVE  adding'[q].seen <= Spent(p)'
    <2>1. q # r /\ adding'[q] = adding[q] /\ q \in RequestsOf(p) /\ q \in Requests
      BY <1>1, <1>4, <1>9 DEF TypeOK, RequestsOf
    <2>2. adding[q].seen \in Nat /\ adding[q].seen <= Spent(p)
      BY <1>1, <1>9, <2>1 DEF IndInv, Settled, TypeOK, Adds
    <2> DEFINE k == adding[q].seen
    <2>3. k \in Nat /\ k <= Spent(p) /\ adding'[q].seen = k
      BY <2>1, <2>2
    <2> HIDE DEF k
    <2> QED BY <1>7, <2>3
  <1>10. ASSUME NEW q \in Requests, stage[q] = "new" PROVE adding'[q] = None /\ tokens'[q] = 0
    BY <1>1, <1>4, <1>10 DEF IndInv, Settled, TypeOK
  <1> QED BY <1>5, <1>6, <1>8, <1>9, <1>10 DEF IndInv, Settled, NeverOvercharged

(* A request that ends, or a step of something else.                       *)
LEMMA QuietMeter ==
  ASSUME IndInv, UNCHANGED <<meterVars, org>>,
         stage' \in [Requests -> {"new", "running", "done", "blocked"}],
         \A r \in Requests : stage'[r] = "new" <=> stage[r] = "new"
  PROVE  IndInv'
PROOF
  <1>1. UNCHANGED <<usage, requestCount, tokens, adding, org>>
    BY DEF meterVars
  <1>2. \A p : Spent(p)' = Spent(p) /\ RequestsOf(p)' = RequestsOf(p)
    BY <1>1, SpentUnchanged
  <1>3. TypeOK'
    BY <1>1 DEF IndInv, TypeOK
  <1> QED BY <1>1, <1>2, <1>3 DEF IndInv, Settled, NeverOvercharged

(* A restart zeroes the counters and ends what runs.                       *)
LEMMA RestartMeter ==
  ASSUME IndInv, Restart
  PROVE  IndInv'
PROOF
  <1>1. TypeOK
    BY DEF IndInv
  <1>2. /\ usage' = [o \in Orgs |-> 0] /\ requestCount' = [o \in Orgs |-> 0]
        /\ adding' = [r \in Requests |-> None] /\ UNCHANGED <<tokens, org>>
        /\ stage' = [r \in Requests |-> IF stage[r] = "running" THEN "done" ELSE stage[r]]
    BY DEF Restart, Forget
  <1>3. \A p : Spent(p)' = Spent(p) /\ RequestsOf(p)' = RequestsOf(p)
    BY <1>2, SpentUnchanged
  <1>4. TypeOK'
    BY <1>1, <1>2 DEF TypeOK
  <1>5. NeverOvercharged'
    <2>1. \A p \in Orgs : Spent(p) \in Nat
      BY <1>1, SpentType DEF IndInv
    <2> QED BY <1>2, <1>3, <2>1 DEF NeverOvercharged
  <1>6. \A q \in Requests : (stage'[q] = "new" <=> stage[q] = "new") /\ adding'[q] = None
    BY <1>2
  <1>7. \A p \in Orgs : \A q \in RequestsOf(p)' : adding'[q] = None
    BY <1>6 DEF RequestsOf
  <1> QED BY <1>2, <1>3, <1>4, <1>5, <1>6, <1>7 DEF IndInv, Settled

(* Every step.                                                             *)
LEMMA NextMeter == IndInv /\ [Next]_vars => IndInv'
PROOF
  <1> SUFFICES ASSUME IndInv, [Next]_vars PROVE IndInv'
    OBVIOUS
  <1>1. TypeOK
    BY DEF IndInv
  <1>2. ASSUME NEW r \in Requests, NEW o \in Orgs, Admit(r, o) \/ Block(r, o) PROVE IndInv'
    <2>1. PICK s \in {"running", "done", "blocked"} : Arrive(r, o, s)
      BY <1>2 DEF Admit, Block
    <2> QED BY <2>1, ArriveMeter
  <1>3. ASSUME NEW r \in Requests, OnLlmEnd(r) PROVE IndInv'
    <2>1. stage[r] = "running" /\ UNCHANGED <<org, stage>>
      BY <1>3 DEF OnLlmEnd
    <2>2. PICK o \in Orgs : org[r] = o
      BY <2>1 DEF IndInv
    <2>3. CASE AddRead(r, o)
      BY <2>1, <2>2, <2>3, AddReadMeter
    <2>4. CASE AddWrite(r, o)
      BY <2>1, <2>2, <2>4, AddWriteMeter
    <2> QED BY <1>3, <2>2, <2>3, <2>4 DEF OnLlmEnd
  <1>4. ASSUME NEW r \in Requests, Finish(r) PROVE IndInv'
    <2>1. /\ stage' \in [Requests -> {"new", "running", "done", "blocked"}]
          /\ \A q \in Requests : stage'[q] = "new" <=> stage[q] = "new"
      BY <1>1, <1>4 DEF Finish, TypeOK
    <2> QED BY <1>4, <2>1, QuietMeter DEF Finish
  <1>5. CASE Restart
    BY <1>5, RestartMeter
  <1>6. CASE UNCHANGED vars
    BY <1>1, <1>6, QuietMeter DEF vars, TypeOK
  <1> QED BY <1>2, <1>3, <1>4, <1>5, <1>6 DEF Next

-----------------------------------------------------------------------------
(* Theorems. *)

(* The invariant that bounds what adds have seen.                          *)
THEOREM MeterInvariant == Spec => []IndInv
PROOF BY InitMeter, NextMeter, PTL DEF Spec

(* Every counter keeps its type.                                           *)
THEOREM MeterTypeCorrect == Spec => []TypeOK
PROOF
  <1>1. IndInv => TypeOK
    BY DEF IndInv
  <1> QED BY <1>1, MeterInvariant, PTL

(* However the adds of an org's requests overlap, and whatever a restart   *)
(* forgets, the org is charged no more than its requests report.           *)
THEOREM OrgsNeverOvercharged == Spec => []NeverOvercharged
PROOF
  <1>1. IndInv => NeverOvercharged
    BY DEF IndInv
  <1> QED BY <1>1, MeterInvariant, PTL
=============================================================================
