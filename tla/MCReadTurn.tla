------------------------------ MODULE MCReadTurn ------------------------------
(***************************************************************************)
(* An instance of ReadTurn: a query that names a sprint, that is part of   *)
(* the name of another, and none at all.                                   *)
(***************************************************************************)
EXTENDS ReadTurn

CONSTANTS i1, i2, x1, x2, todo, closed, q1

MCCategory == [c \in Statuses |-> IF c = closed THEN "done" ELSE "todo"]
MCPriority == [i \in Issues |-> IF i = i1 THEN "high" ELSE "none"]
MCExact == [q \in {q1, None} |-> {x1} \ {x \in Sprints : q = None}]
MCWithin == [q \in {q1, None} |-> IF q = None THEN {} ELSE Sprints]
MCRows ==
  [i \in Issues |-> [sprint |-> IF i = i1 THEN x1 ELSE x2, status |-> todo, completed |-> FALSE]]
MCSprints == [x \in Sprints |-> IF x = x1 THEN "planned" ELSE "active"]
=============================================================================
