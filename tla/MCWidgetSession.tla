--------------------------- MODULE MCWidgetSession ---------------------------
(* Two tabs and two accounts in one browser. *)
EXTENDS WidgetSession
=============================================================================
