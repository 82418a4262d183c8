--------------------------- MODULE MCConversation ---------------------------
(* Instances of Conversation for TLC. *)
EXTENDS Conversation, TLC

CONSTANT o1

MCOrgOf == [t \in Threads |-> o1]
AllIntents == WriteIntents \cup ReadIntents
FewIntents == {"create_issue", "query"}
CreateOnly == {"create_issue"}

Symmetry == Permutations(Requests)
=============================================================================
