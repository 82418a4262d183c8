-------------------------------- MODULE Sums --------------------------------
(* Sums over finite sets.                                                  *)
EXTENDS FiniteSetsExt

\* Of the values f has for the elements of S.
Total(f, S) == MapThenSumSet(LAMBDA x : f[x], S)
=============================================================================
