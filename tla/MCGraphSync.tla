----------------------------- MODULE MCGraphSync ------------------------------
(***************************************************************************)
(* An instance of GraphSync: a user who is a member of the project, no     *)
(* issue as yet, and a label that the issue will have.                     *)
(***************************************************************************)
EXTENDS GraphSync

CONSTANTS u1, p1, i1, l1, a, b, s1, e1, t1

MCHome == [y \in Issues \cup Sprints |-> p1]
MCReporter == [i \in Issues |-> u1]
\* What Node's events about an issue carry besides its row.
MCLabelsOf == [i \in Issues |-> IF Labels = {} THEN <<>> ELSE <<l1>>]
MCLinks == [i \in Issues |-> <<>>]
MCAlike == {<<x, y>> \in Texts \X Texts : x # y}
MCRoster == [p \in Projects |-> Users]
MCRows == [i \in Issues |-> None]
=============================================================================
