--------------------------- MODULE MCApprovalGate ---------------------------
(* Two identities of one conversation. *)
EXTENDS ApprovalGate
CONSTANTS conv
MCConversationOf == [k \in Key |-> conv]
=============================================================================
