------------------------------ MODULE MCWsChat ------------------------------
(* Three questions, one chunk each, over a socket that is lost once. *)
EXTENDS WsChat
=============================================================================
