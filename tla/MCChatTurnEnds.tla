--------------------------- MODULE MCChatTurnEnds ---------------------------
(* Two turns without a symmetry, for the liveness of ChatTurn. *)
EXTENDS ChatTurn

CONSTANTS t1, t2

MCTurns == {t1, t2}
AllDeliveries == {"http", "sse", "ws"}
=============================================================================
