----------------------------- MODULE GraphMirror ------------------------------
(***************************************************************************)
(* What the knowledge graph promises its readers, whatever overlaps or     *)
(* fails: it holds what Node said at some time and nothing else, a node    *)
(* has one value of each property, and nothing is forgotten but for a      *)
(* newer value.  It does not promise to hold what Node says now.           *)
(***************************************************************************)
EXTENDS Naturals

CONSTANT Single   \* the relations of which a node has one value, its properties

VARIABLES
  said,   \* the facts Node has been right about so far
  held    \* the facts in the graph

mirrorVars == <<said, held>>

\* A membership that ended keeps its edge, marked.
Ended(f) == [f EXCEPT !.rel = "REMOVED"]

\* f gave way to g.
Supersedes(g, f) ==
  /\ g.from = f.from
  /\ \/ g.rel = f.rel /\ g.rel \in Single
     \/ {g.rel, f.rel} = {"MEMBER_OF", "REMOVED"} /\ g.to = f.to

\* No property has two values, no membership both stands and has ended.
OneEach(facts) == \A f, g \in facts : Supersedes(g, f) => f = g

\* What Node has said since is added, or a mark of a membership that ended;
\* what goes gives way to something.
Follows ==
  /\ said \subseteq said'
  /\ \A g \in held' \ held :
       \/ g \in said'
       \/ \E f \in held : f.rel = "MEMBER_OF" /\ g = Ended(f)
  /\ \A f \in held \ held' : \E g \in held' : Supersedes(g, f)

Init == held = {}

Next == Follows /\ OneEach(held')

Spec == Init /\ [][Next]_mirrorVars

-----------------------------------------------------------------------------
(* What a reader of the graph may rely on at any time: each fact is one    *)
(* that Node once said, or marks the end of a membership it once said.     *)
Sound ==
  \A g \in held : g \in said \/ \E f \in said : f.rel = "MEMBER_OF" /\ g = Ended(f)
=============================================================================
