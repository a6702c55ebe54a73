----------------------------- MODULE ChatLedger -----------------------------
(***************************************************************************)
(* What the chat backend promises about the chats and conversations tables,*)
(* without the pipeline, the sessions or the deliveries: a question and its*)
(* answer are recorded once, in one step, in a chat that exists from that  *)
(* step on at the latest; nothing recorded is moved or taken back; and a   *)
(* turn is acknowledged to the widget only when it is recorded.  ChatTurn  *)
(* is shown to implement it.                                               *)
(***************************************************************************)
CONSTANTS
  Turns,   \* the questions asked; a chat is named by the turn that creates it
  None     \* not a turn

VARIABLES
  ledger,       \* the chat a turn's conversation is recorded in, or None
  acknowledged  \* the turns the widget was told are answered

ledgerVars == <<ledger, acknowledged>>

\* A chat exists once the turn that founds it is recorded in it.
ChatExists(c) == ledger[c] = c

Init ==
  /\ ledger = [t \in Turns |-> None]
  /\ acknowledged = {}

\* The commit of a turn; an acknowledgement may travel with it.
Record(t, c) ==
  /\ ledger[t] = None
  /\ c = t \/ ChatExists(c)
  /\ ledger' = [ledger EXCEPT ![t] = c]
  /\ acknowledged' \in {acknowledged, acknowledged \cup {t}}

Acknowledge(t) ==
  /\ ledger[t] # None
  /\ acknowledged' = acknowledged \cup {t}
  /\ UNCHANGED ledger

Next ==
  \E t \in Turns : Acknowledge(t) \/ \E c \in Turns : Record(t, c)

Spec == Init /\ [][Next]_ledgerVars
=============================================================================
