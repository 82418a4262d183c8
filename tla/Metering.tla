------------------------------ MODULE Metering ------------------------------
(***************************************************************************)
(* Per-tenant token accounting: metering/usage.py (UsageStore,             *)
(* RequestTokens), metering/callback.py (UsageCallback.on_llm_end) and the *)
(* quota gate at the head of agents/supervisor.py `run`.                   *)
(*                                                                         *)
(* on_llm_end is a synchronous LangChain handler; every chain is driven    *)
(* with `ainvoke`, and for such a run LangChain hands a synchronous        *)
(* handler to the default thread pool.  UsageStore.add is a read of the    *)
(* org's total followed by a write, without a lock, so two requests of one *)
(* org can overlap inside it: AddRead and AddWrite are separate steps.     *)
(* The LLM call returns to its request only after its handler ended.       *)
(***************************************************************************)
EXTENDS Integers, FiniteSets, Sums

CONSTANTS
  Requests,      \* the /chat calls, one invocation of supervisor.run each
  Orgs,          \* tenants
  None,          \* "no value" (Python's None)
  Quota,         \* settings.ORG_TOKEN_QUOTA, 0 disables the gate
  TokenCosts,    \* what one LLM call may cost
  MaxTokens      \* bound: tokens one request may spend

ASSUME MeteringAssumption ==
  /\ Quota \in Nat
  /\ TokenCosts \subseteq Nat \ {0}   \* on_llm_end drops a count <= 0
  /\ MaxTokens \in Nat
  /\ None \notin Orgs

VARIABLES
  usage,         \* UsageStore._tokens: cumulative tokens of an org
  requestCount,  \* UsageStore._requests: requests of an org
  tokens,        \* RequestTokens.total of a request
  adding,        \* a request's UsageStore.add between its read and its write
  org,           \* the org a request was made for
  stage          \* "new", "running", "done" or "blocked"

meterVars == <<usage, requestCount, tokens, adding>>
vars == <<meterVars, org, stage>>

Adds == [cost : TokenCosts, seen : Nat]

TypeOK ==
  /\ usage \in [Orgs -> Nat]
  /\ requestCount \in [Orgs -> Nat]
  /\ tokens \in [Requests -> Nat]
  /\ adding \in [Requests -> Adds \cup {None}]
  /\ org \in [Requests -> Orgs \cup {None}]
  /\ stage \in [Requests -> {"new", "running", "done", "blocked"}]

MeterInit ==
  /\ usage = [o \in Orgs |-> 0]
  /\ requestCount = [o \in Orgs |-> 0]
  /\ tokens = [r \in Requests |-> 0]
  /\ adding = [r \in Requests |-> None]

Init ==
  /\ MeterInit
  /\ org = [r \in Requests |-> None]
  /\ stage = [r \in Requests |-> "new"]

-----------------------------------------------------------------------------
(* The operations the conversation pipeline calls. *)

OverQuota(o) == Quota > 0 /\ usage[o] >= Quota

CountRequest(o) ==
  /\ requestCount' = [requestCount EXCEPT ![o] = @ + 1]
  /\ UNCHANGED <<usage, tokens, adding>>

\* A running add is awaited by the LLM call it belongs to.
Settled(r) == adding[r] = None

AddRead(r, o) ==
  /\ Settled(r)
  /\ \E c \in TokenCosts :
       /\ tokens[r] + c <= MaxTokens
       /\ adding' = [adding EXCEPT ![r] = [cost |-> c, seen |-> usage[o]]]
  /\ UNCHANGED <<usage, requestCount, tokens>>

\* Mutation: the write adds the cost twice (the store and the caller both add).
AddWriteTwice(r, o) ==
  /\ ~Settled(r)
  /\ usage' = [usage EXCEPT ![o] = adding[r].seen + 2 * adding[r].cost]
  /\ tokens' = [tokens EXCEPT ![r] = @ + adding[r].cost]
  /\ adding' = [adding EXCEPT ![r] = None]
  /\ UNCHANGED requestCount

AddWrite(r, o) ==
  /\ ~Settled(r)
  /\ usage' = [usage EXCEPT ![o] = adding[r].seen + adding[r].cost]
  /\ tokens' = [tokens EXCEPT ![r] = @ + adding[r].cost]
  /\ adding' = [adding EXCEPT ![r] = None]
  /\ UNCHANGED requestCount

\* Mutation: the totals are dropped with their keys.
ForgetKeys ==
  /\ usage' = [o \in {} |-> 0]
  /\ requestCount' = [o \in Orgs |-> 0]
  /\ adding' = [r \in Requests |-> None]
  /\ UNCHANGED tokens

\* The counters live in the process: a restart zeroes them.
Forget ==
  /\ usage' = [o \in Orgs |-> 0]
  /\ requestCount' = [o \in Orgs |-> 0]
  /\ adding' = [r \in Requests |-> None]
  /\ UNCHANGED tokens

-----------------------------------------------------------------------------
(* The life of a request as far as metering sees it. *)

Arrive(r, o, s) ==
  /\ stage[r] = "new"
  /\ org' = [org EXCEPT ![r] = o]
  /\ stage' = [stage EXCEPT ![r] = s]
  /\ CountRequest(o)

\* "done" at once: replies that need no await (a cancelled proposal).
Admit(r, o) == ~OverQuota(o) /\ \E s \in {"running", "done"} : Arrive(r, o, s)

Block(r, o) == OverQuota(o) /\ Arrive(r, o, "blocked")

OnLlmEnd(r) ==
  /\ stage[r] = "running"
  /\ AddRead(r, org[r]) \/ AddWrite(r, org[r])
  /\ UNCHANGED <<org, stage>>

Finish(r) ==
  /\ stage[r] = "running" /\ Settled(r)
  /\ stage' = [stage EXCEPT ![r] = "done"]
  /\ UNCHANGED <<meterVars, org>>

Restart ==
  /\ stage' = [r \in Requests |-> IF stage[r] = "running" THEN "done" ELSE stage[r]]
  /\ Forget
  /\ UNCHANGED org

Next ==
  \/ \E r \in Requests, o \in Orgs : Admit(r, o) \/ Block(r, o)
  \/ \E r \in Requests : OnLlmEnd(r) \/ Finish(r)
  \/ Restart

Spec == Init /\ [][Next]_vars

-----------------------------------------------------------------------------
\* The requests of an org; finitely many have arrived at any time.
RequestsOf(o) == {r \in Requests : org[r] = o}
Spent(o) == Total(tokens, RequestsOf(o))

(* An org is never charged more than its requests report to their callers  *)
(* in "tokens_used": whatever adds overlap or are lost to a restart, the   *)
(* quota never blocks a workspace for tokens nobody spent                  *)
(* (UsageStore.add against RequestTokens.add).                             *)
NeverOvercharged == \A o \in Orgs : usage[o] <= Spent(o)

(* What keeps this so: a request has an org and tokens once it arrived, and *)
(* an add between its read and its write has seen no more than is spent.   *)
IndInv ==
  /\ TypeOK /\ NeverOvercharged
  /\ \A r \in Requests :
       IF stage[r] = "new" THEN org[r] = None /\ tokens[r] = 0 /\ Settled(r)
                           ELSE org[r] \in Orgs
  /\ \A o \in Orgs :
       /\ IsFiniteSet(RequestsOf(o))
       /\ \A r \in RequestsOf(o) : ~Settled(r) => adding[r].seen <= Spent(o)

(* "Cumulative per org" (metering/usage.py:3): an org's total never goes   *)
(* down while the process runs.                                            *)
Cumulative == [][Forget \/ \A o \in Orgs : usage'[o] >= usage[o]]_vars
=============================================================================
