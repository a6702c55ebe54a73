----------------------------- MODULE MCCagCache -----------------------------
(* Two requests at a time, over and over, on two documents. *)
EXTENDS CagCache, TLC

CONSTANTS j1, j2

MCJobs == {j1, j2}
MCDocs == {1, 2}
JobSymmetry == Permutations(MCJobs)
=============================================================================
