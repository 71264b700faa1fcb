--------------------------- MODULE MCConversation ---------------------------
(* Conversation for TLC: the requests differ only by name.                    *)
EXTENDS Conversation, TLC

Symmetry == Permutations(Requests)
=============================================================================
