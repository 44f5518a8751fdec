------------------------- MODULE MCConversationRewind -------------------------
(* Two rewinds of a conversation: one to an earlier turn, one to its beginning. *)
EXTENDS ConversationRewind

CONSTANTS back, clear

MCTargetOf == [op \in Ops |-> IF op = clear THEN 0 ELSE 1]

=============================================================================
