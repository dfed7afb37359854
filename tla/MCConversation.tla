--------------------------- MODULE MCConversation ---------------------------
(* Instances of Conversation for TLC. *)
EXTENDS Conversation

C1(name, given) == [name |-> name, given |-> given]
MCResponses == {<<C1("read", TRUE)>>, <<C1("keep", FALSE)>>, <<C1("read", FALSE), C1("read", TRUE)>>}
=============================================================================
