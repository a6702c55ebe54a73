---------------------------- MODULE MCDashboard ----------------------------
(* Each of the three tables, with two saves or removals. *)
EXTENDS Dashboard
=============================================================================
