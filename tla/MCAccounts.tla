------------------------------ MODULE MCAccounts ------------------------------
(* Two users, a guest and an admin, and three requests at a time, which are alike. *)
EXTENDS Accounts, TLC

Alike == Permutations(Requests)
=============================================================================
