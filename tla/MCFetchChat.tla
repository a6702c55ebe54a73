----------------------------- MODULE MCFetchChat -----------------------------
(* Three questions, over either protocol. *)
EXTENDS FetchChat
=============================================================================
