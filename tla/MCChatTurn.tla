----------------------------- MODULE MCChatTurn -----------------------------
(* A small instance of ChatTurn for TLC. *)
EXTENDS ChatTurn, ContextBuilder, TLC

CONSTANTS t1, t2, t3

MCTurns == {t1, t2, t3}
AllDeliveries == {"http", "sse", "ws"}
TurnSymmetry == Permutations(MCTurns)

\* The budget is split fairly, for budgets and texts around its halves.
ASSUME MergeIsFair ==
  \A budget \in 0..9 : \A cag, rag \in 0..11 :
    LET found == [cag |-> cag, rag |-> rag]
    IN /\ Within(budget, Merged(budget, found))
       /\ Fair(budget, found, Merged(budget, found))
=============================================================================
