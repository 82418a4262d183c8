-------------------------- MODULE ConfirmationGate --------------------------
(***************************************************************************)
(* What the confirmation gate promises (agents/supervisor.py:7-9): a write *)
(* is offered to its thread first, at most one offer stands in a thread,   *)
(* only a standing offer is granted, granting consumes it, and a granted   *)
(* write is made at most once.  How replies are read, what the offer       *)
(* expires on and how Node is called is left to the implementation.        *)
(***************************************************************************)
EXTENDS Integers

CONSTANTS Threads, Proposals, None

VARIABLES
  offer,     \* the standing offer of a thread
  spent,     \* proposals that were ever offered
  granted,   \* proposals whose user said yes
  made       \* how often Node made the write of a proposal

gateVars == <<offer, spent, granted, made>>

Init ==
  /\ offer = [t \in Threads |-> None]
  /\ spent = {}
  /\ granted = {}
  /\ made = [p \in Proposals |-> 0]

\* A new proposal replaces the one that stands.
Offer(t, p) ==
  /\ p \notin spent
  /\ offer' = [offer EXCEPT ![t] = p]
  /\ spent' = spent \cup {p}
  /\ UNCHANGED <<granted, made>>

Grant(t) ==
  /\ offer[t] # None
  /\ granted' = granted \cup {offer[t]}
  /\ offer' = [offer EXCEPT ![t] = None]
  /\ UNCHANGED <<spent, made>>

\* Cancelled, expired, dropped for another message, or lost in a restart.
Withdraw ==
  /\ \E T \in SUBSET Threads :
       offer' = [t \in Threads |-> IF t \in T THEN None ELSE offer[t]]
  /\ UNCHANGED <<spent, granted, made>>

Make(p) ==
  /\ p \in granted /\ made[p] = 0
  /\ made' = [made EXCEPT ![p] = 1]
  /\ UNCHANGED <<offer, spent, granted>>

Next ==
  \/ \E t \in Threads, p \in Proposals : Offer(t, p)
  \/ \E t \in Threads : Grant(t)
  \/ Withdraw
  \/ \E p \in Proposals : Make(p)

Spec == Init /\ [][Next]_gateVars

-----------------------------------------------------------------------------
(* What a user may rely on: nothing is made that was not offered and       *)
(* granted, nothing twice, and an offer that stands is for a yes to come:  *)
(* it was neither granted nor made, and stands in no other thread.         *)
Safe ==
  /\ granted \subseteq spent
  /\ \A p \in Proposals : made[p] \in {0, 1} /\ (made[p] = 1 => p \in granted)
  /\ \A t \in Threads : offer[t] # None =>
       /\ offer[t] \in spent \ granted
       /\ \A u \in Threads \ {t} : offer[u] # offer[t]
=============================================================================
