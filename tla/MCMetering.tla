----------------------------- MODULE MCMetering -----------------------------
(* Instances of Metering: three requests of one or two orgs. *)
EXTENDS Metering, TLC

Symmetry == Permutations(Requests) \cup Permutations(Orgs)
=============================================================================
