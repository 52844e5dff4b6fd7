----------------------------- MODULE MCChatTurn -----------------------------
(***************************************************************************)
(* Two clients' requests, a root and its branch, two POSTs at a time.      *)
(***************************************************************************)
EXTENDS ChatTurn
==============================================================================
