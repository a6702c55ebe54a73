------------------------------- MODULE WsChat -------------------------------
(***************************************************************************)
(* The chat widget over a WebSocket: the transport with its queue,         *)
(* reconnection and bubbles (WebSocketTransport), the hook that keeps the  *)
(* UI state (useChat, InputBar, the stop button), the network, and the     *)
(* server's loop as the widget sees it.  ChatTurn models the loop itself.  *)
(*                                                                         *)
(* A turn is a question; the n-th question asked is turn n.  A bubble is   *)
(* named by the turn whose meta event opened it, a chat by the turn whose  *)
(* question opened it.  The widget has one socket at a time: a new one is  *)
(* opened only by the timer its predecessor's close event set.  The server *)
(* has a loop for each: that of a lost socket may still read and answer    *)
(* what it had received when its successor's has long begun.               *)
(***************************************************************************)
EXTENDS Naturals, Sequences, FiniteSets, SequencesExt

CONSTANTS
  MaxTurns,              \* bound on the questions asked
  MaxTokens,             \* bound on the chunks of one answer
  MaxReconnectAttempts,
  MaxDrops               \* bound on the open sockets that are lost or stopped

ASSUME TurnsAssumption == MaxTurns \in Nat /\ MaxTokens \in Nat
ASSUME RetryAssumption == MaxReconnectAttempts \in Nat /\ MaxDrops \in Nat

VARIABLES
  \* The hook
  mounted,    \* FALSE once the effect was cleaned up (manuallyDisconnected)
  status,     \* connectionStatus
  typing,     \* isBotTyping
  bubble,     \* each turn: the status of its bubble
  text,       \* each bubble: the chunks in it, each by the turn it answers
  asked,      \* the number of questions asked
  \* The transport
  sock,       \* readyState of this.socket
  attempts,   \* reconnectAttempts
  timer,      \* reconnectTimer is armed
  pending,    \* pendingQueue
  active,     \* activeStreamId, 0 for null
  chat,       \* externalChatId, 0 for null
  \* Network and server
  valid,      \* the token the transport was made with is still accepted
  up, down,   \* frames on their way to the server and to the widget
  serving,    \* the question the loop is answering, 0 for none
  into,       \* the chat that answer is added to, 0 for none
  stage,      \* the loop: "auth", "wait", "answer", "commit", "refused"
  sent,       \* each turn: chunks sent over the widget's socket
  chats,      \* committed chats
  gone,       \* the loops of lost sockets that have something left to do
  drops,      \* sockets lost or stopped so far
  \* History, for the properties only
  rejected,   \* a close event with code 4401 was seen
  cut,        \* bubbles that were streaming when their socket went
  taken,      \* the questions the server read, in order
  named,      \* the chats meta events named
  owed,       \* each turn: the only chat named, when it was asked after an answer
  opened,     \* the number of sockets that opened
  over,       \* each turn: the socket it was sent over, 0 for none yet
  unsaved     \* chats lost, or not yet there when the socket was, after a done event

hook == <<mounted, status, typing, bubble, text, asked>>
transport == <<sock, attempts, timer, pending, active, chat>>
server == <<valid, up, down, serving, into, stage, sent, chats, gone, drops>>
history == <<rejected, cut, taken, named, owed, opened, over, unsaved>>
vars == <<hook, transport, server, history>>

----------------------------------------------------------------------------
Turns == 1..MaxTurns
Frame == [turn : Turns, chat : 0..MaxTurns]
Reply == [event : {"meta", "token", "done", "error"}, turn : Turns, chat : 0..MaxTurns]
Abandoned == [stage : {"auth", "wait", "answer"}, into : 0..MaxTurns, queue : Seq(Frame)]

\* Just after the effect that made the transport and called connect().
Init ==
  /\ mounted = TRUE /\ status = "connecting" /\ typing = FALSE
  /\ bubble = [t \in Turns |-> "none"]
  /\ text = [t \in Turns |-> <<>>]
  /\ asked = 0
  /\ sock = "connecting" /\ attempts = 0 /\ timer = FALSE
  /\ pending = <<>> /\ active = 0 /\ chat = 0
  /\ valid = TRUE
  /\ up = <<>> /\ down = <<>>
  /\ serving = 0 /\ into = 0 /\ stage = "auth"
  /\ sent = [t \in Turns |-> 0]
  /\ chats = {} /\ gone = {} /\ drops = 0
  /\ rejected = FALSE /\ cut = {} /\ taken = <<>> /\ named = {}
  /\ owed = [t \in Turns |-> 0]
  /\ opened = 0 /\ over = [t \in Turns |-> 0] /\ unsaved = {}

----------------------------------------------------------------------------
(* The user *)

\* The input is disabled only by the status "error".
SendMessage ==
  LET t == asked + 1
      frame == [turn |-> t, chat |-> chat]
  IN /\ mounted /\ status # "error"
     /\ asked < MaxTurns
     /\ asked' = t
     /\ typing' = TRUE
     /\ IF sock = "open"
        THEN /\ up' = Append(up, frame)
             /\ over' = [over EXCEPT ![t] = opened]
             /\ UNCHANGED pending
        ELSE pending' = Append(pending, frame) /\ UNCHANGED <<up, over>>
     /\ owed' = [owed EXCEPT ![t] =
                   IF /\ \E b \in Turns : bubble[b] = "complete"
                      /\ Cardinality(named) = 1
                   THEN CHOOSE c \in named : TRUE ELSE 0]
     /\ UNCHANGED <<mounted, status, bubble, text, sock, attempts, timer, active,
                    chat, valid, down, serving, into, stage, sent, chats, gone,
                    drops, rejected, cut, taken, named, opened, unsaved>>

\* The chat of a question: the one it names if it exists, else its own.
ChatFor(frame) == IF frame.chat \in chats THEN frame.chat ELSE frame.turn

\* A loop whose socket was lost, unless it has nothing left to do.
Leaves(at, chatAt, queue) ==
  IF at = "answer" \/ (at \in {"auth", "wait"} /\ queue # <<>>)
  THEN {[stage |-> at, into |-> chatAt, queue |-> queue]} ELSE {}

\* The socket is lost.  What the server has received of the questions is left to
\* its loop, which goes on with the answer under way; the rest never arrives.
LoseSocket ==
  /\ up' = <<>> /\ down' = <<>>
  /\ \E received \in 0..Len(up) :
       gone' = gone \cup Leaves(IF stage = "commit" THEN "answer" ELSE stage, into,
                                SubSeq(up, 1, received))
  /\ unsaved' = IF stage = "commit" THEN unsaved \cup ({into} \ chats) ELSE unsaved
  /\ serving' = 0 /\ into' = 0 /\ stage' = "auth"
  /\ cut' = IF active # 0 THEN cut \cup {active} ELSE cut

\* "Stop generating" is shown while isBotTyping; the socket is closed.
StopGeneration ==
  /\ mounted /\ typing
  /\ typing' = FALSE
  /\ IF sock \in {"connecting", "open"}
     THEN /\ drops < MaxDrops
          /\ drops' = drops + 1
          /\ sock' = "closing"
          /\ LoseSocket
     ELSE UNCHANGED <<drops, sock, up, down, serving, into, stage, gone, cut, unsaved>>
  /\ UNCHANGED <<mounted, status, bubble, text, asked, attempts, timer, pending,
                 active, chat, valid, sent, chats, rejected, taken, named, owed,
                 opened, over>>

\* The effect's cleanup: disconnect().
\* (Mutation: the timer is left armed.)
TimerKept == timer
TimerCleared == FALSE

Unmount ==
  /\ mounted
  /\ mounted' = FALSE
  /\ timer' = TimerCleared
  /\ sock' = IF sock = "closed" THEN "closed" ELSE "closing"
  /\ LoseSocket
  /\ UNCHANGED <<status, typing, bubble, text, asked, attempts, pending, active,
                 chat, valid, sent, chats, drops, rejected, taken, named, owed,
                 opened, over>>

----------------------------------------------------------------------------
(* The socket's events *)

\* onopen: the server accepts before it looks at the token.
\* (Mutation: what was flushed stays queued.)
StillQueued == pending
Flushed == <<>>

Open ==
  /\ sock = "connecting"
  /\ sock' = "open"
  /\ attempts' = 0
  /\ status' = "connected"
  /\ up' = up \o pending
  /\ pending' = Flushed
  /\ opened' = opened + 1
  /\ over' = [t \in Turns |-> IF \E i \in 1..Len(pending) : pending[i].turn = t
                              THEN opened + 1 ELSE over[t]]
  /\ stage' = "auth"
  /\ UNCHANGED <<mounted, typing, bubble, text, asked, timer, active, chat, valid,
                 down, serving, into, sent, chats, gone, drops, rejected, cut, taken,
                 named, owed, unsaved>>

\* (Mutation: no limit.)
NoLimit == FALSE
GivesUp == attempts >= MaxReconnectAttempts

\* What the header shows while the reconnect timer runs.
\* (Mutation: the close's "disconnected" is left there.)
LeftDisconnected == "disconnected"
Reconnecting == "connecting"

\* onclose; typing is what an error event beside it leaves.
\* (Mutation: the chat is reset with the socket.)
ChatReset == 0
ChatKept == chat

Close(code, isTyping) ==
  /\ sock' = "closed"
  /\ chat' = ChatKept
  /\ CASE code = 4401 ->
            /\ status' = "disconnected"
            /\ typing' = FALSE
            /\ UNCHANGED <<attempts, timer>>
       [] code # 4401 /\ ~mounted ->
            /\ typing' = isTyping
            /\ UNCHANGED <<status, attempts, timer>>
       [] code # 4401 /\ mounted /\ GivesUp ->
            /\ status' = "error"
            /\ typing' = FALSE
            /\ UNCHANGED <<attempts, timer>>
       [] OTHER ->
            /\ status' = Reconnecting
            /\ typing' = isTyping
            /\ attempts' = attempts + 1
            /\ timer' = TRUE
  /\ UNCHANGED <<mounted, bubble, text, asked, pending, active>>

\* A connection attempt fails: an error event, then the close event.
ConnectFails ==
  /\ sock = "connecting"
  /\ Close(1006, FALSE)
  /\ UNCHANGED <<server, history>>

\* An open socket is lost, with or without an error event.
Drop ==
  /\ sock = "open"
  /\ drops < MaxDrops
  /\ drops' = drops + 1
  /\ \E isTyping \in {FALSE, typing} : Close(1006, isTyping)
  /\ LoseSocket
  /\ UNCHANGED <<valid, sent, chats, rejected, taken, named, owed, opened, over>>

\* The close event of a socket the widget closed itself.
Closed ==
  /\ sock = "closing"
  /\ \E isTyping \in {FALSE, typing} : Close(1000, isTyping)
  /\ UNCHANGED <<server, history>>

\* The server closed the socket with 4401.
Refused ==
  /\ sock = "open" /\ stage = "refused"
  /\ Close(4401, FALSE)
  /\ rejected' = TRUE
  /\ LoseSocket
  /\ UNCHANGED <<valid, sent, chats, drops, taken, named, owed, opened, over>>

\* The reconnect timer: openSocket().
Reconnect ==
  /\ timer
  /\ timer' = FALSE
  /\ sock' = "connecting"
  /\ status' = "connecting"
  /\ UNCHANGED <<mounted, typing, bubble, text, asked, attempts, pending, active,
                 chat, server, history>>

----------------------------------------------------------------------------
(* Frames: handleFrame; a socket that is closing delivers none *)

Deliver(event) ==
  /\ sock = "open"
  /\ down # <<>> /\ Head(down).event = event
  /\ down' = Tail(down)
  /\ UNCHANGED <<mounted, status, asked, sock, attempts, timer, pending, valid,
                 up, serving, into, stage, sent, chats, gone, drops, rejected, cut,
                 taken, owed, opened, over, unsaved>>

\* An answer gets a bubble unless one is active.
Meta ==
  /\ Deliver("meta")
  /\ chat' = Head(down).chat
  /\ named' = named \cup {Head(down).chat}
  /\ IF active = 0
     THEN /\ active' = Head(down).turn
          /\ bubble' = [bubble EXCEPT ![Head(down).turn] = "streaming"]
          /\ typing' = TRUE
     ELSE UNCHANGED <<active, bubble, typing>>
  /\ UNCHANGED text

Token ==
  /\ Deliver("token")
  /\ text' = IF active # 0 THEN [text EXCEPT ![active] = Append(@, Head(down).turn)]
                           ELSE text
  /\ UNCHANGED <<typing, bubble, active, chat, named>>

\* (Mutation: the finished stream stays the active one.)
StillActive == active
NoneActive == 0

Done ==
  /\ Deliver("done")
  /\ IF active # 0 THEN /\ bubble' = [bubble EXCEPT ![active] = "complete"]
                        /\ typing' = FALSE
                   ELSE UNCHANGED <<bubble, typing>>
  /\ active' = NoneActive
  /\ UNCHANGED <<text, chat, named>>

Error ==
  /\ Deliver("error")
  /\ bubble' = IF active # 0 THEN [bubble EXCEPT ![active] = "error"] ELSE bubble
  /\ typing' = FALSE
  /\ active' = 0
  /\ UNCHANGED <<text, chat, named>>

----------------------------------------------------------------------------
(* The server: rag_chat_ws *)

Serve == UNCHANGED <<hook, transport>>

\* The token the widget holds expires; the transport keeps it.
Expire ==
  /\ valid
  /\ valid' = FALSE
  /\ Serve
  /\ UNCHANGED <<up, down, serving, into, stage, sent, chats, gone, drops, history>>

Authenticate ==
  /\ sock = "open" /\ stage = "auth"
  /\ stage' = IF valid THEN "wait" ELSE "refused"
  /\ Serve
  /\ UNCHANGED <<valid, up, down, serving, into, sent, chats, gone, drops, history>>

\* The next question, up to its meta event (its chat) or an error before it.
Take ==
  /\ sock = "open" /\ stage = "wait" /\ up # <<>>
  /\ up' = Tail(up)
  /\ taken' = Append(taken, Head(up))
  /\ \/ /\ serving' = Head(up).turn
        /\ into' = ChatFor(Head(up))
        /\ stage' = "answer"
        /\ down' = Append(down, [event |-> "meta", turn |-> Head(up).turn,
                                 chat |-> ChatFor(Head(up))])
     \/ /\ down' = Append(down, [event |-> "error", turn |-> Head(up).turn, chat |-> 0])
        /\ UNCHANGED <<serving, into, stage>>
  /\ Serve
  /\ UNCHANGED <<valid, sent, chats, gone, drops, rejected, cut, named, owed, opened,
                 over, unsaved>>

Answer(event) ==
  /\ sock = "open"
  /\ down' = Append(down, [event |-> event, turn |-> serving, chat |-> 0])
  /\ Serve
  /\ UNCHANGED <<valid, up, chats, gone, drops, rejected, cut, taken, named, owed,
                 opened, over>>

SendToken ==
  /\ stage = "answer"
  /\ Answer("token")
  /\ sent[serving] < MaxTokens
  /\ sent' = [sent EXCEPT ![serving] = @ + 1]
  /\ UNCHANGED <<serving, into, stage, unsaved>>

\* The done event is sent before the commit.
SendDone ==
  /\ stage = "answer"
  /\ Answer("done")
  /\ stage' = "commit"
  /\ UNCHANGED <<serving, into, sent, unsaved>>

\* The answer fails, or after its done event the commit does: it is rolled back.
SendError ==
  /\ stage \in {"answer", "commit"}
  /\ Answer("error")
  /\ serving' = 0 /\ into' = 0 /\ stage' = "wait"
  /\ unsaved' = IF stage = "commit" THEN unsaved \cup ({into} \ chats) ELSE unsaved
  /\ UNCHANGED sent

Commit ==
  /\ sock = "open" /\ stage = "commit"
  /\ chats' = chats \cup {into}
  /\ serving' = 0 /\ into' = 0 /\ stage' = "wait"
  /\ Serve
  /\ UNCHANGED <<valid, up, down, sent, gone, drops, history>>

----------------------------------------------------------------------------
(* The loops of lost sockets.  Nobody sees what they send; one that finds its *)
(* socket gone is one that takes no further step.                             *)

Proceeds(loop, at, chatAt, queue) ==
  /\ gone' = (gone \ {loop}) \cup Leaves(at, chatAt, queue)
  /\ Serve
  /\ UNCHANGED <<valid, up, down, serving, into, stage, sent, drops, rejected, cut,
                 named, owed, opened, over, unsaved>>

AuthenticateLate(loop) ==
  /\ loop.stage = "auth"
  /\ Proceeds(loop, IF valid THEN "wait" ELSE "refused", 0, loop.queue)
  /\ UNCHANGED <<taken, chats>>

TakeLate(loop) ==
  /\ loop.stage = "wait"
  /\ taken' = Append(taken, Head(loop.queue))
  /\ \/ Proceeds(loop, "answer", ChatFor(Head(loop.queue)), Tail(loop.queue))
     \/ Proceeds(loop, "wait", 0, Tail(loop.queue))
  /\ UNCHANGED chats

\* The answer is committed, or rolled back by its failure or that of a send.
EndLate(loop) ==
  /\ loop.stage = "answer"
  /\ chats' \in {chats, chats \cup {loop.into}}
  /\ Proceeds(loop, "wait", 0, loop.queue)
  /\ UNCHANGED taken

----------------------------------------------------------------------------
Event == Open \/ ConnectFails \/ Closed \/ Refused \/ Reconnect
HandleFrame == Meta \/ Token \/ Done \/ Error
Loop == Authenticate \/ Take \/ SendToken \/ SendDone \/ SendError \/ Commit
LateLoop == \E loop \in gone : AuthenticateLate(loop) \/ TakeLate(loop) \/ EndLate(loop)

Next ==
  \/ SendMessage \/ StopGeneration \/ Unmount
  \/ Drop \/ Event \/ HandleFrame
  \/ Expire \/ Loop \/ LateLoop

Spec == Init /\ [][Next]_vars

\* The browser fires the events of a socket and of a timer; nothing is assumed
\* of the user, of drops, of the server or of the token.
Fairness == WF_vars(Open \/ ConnectFails) /\ WF_vars(Closed) /\ WF_vars(Reconnect)

FairSpec == Spec /\ Fairness

----------------------------------------------------------------------------
(* Properties *)

TypeOK ==
  /\ mounted \in BOOLEAN /\ typing \in BOOLEAN /\ timer \in BOOLEAN
  /\ status \in {"connecting", "connected", "disconnected", "error"}
  /\ bubble \in [Turns -> {"none", "streaming", "complete", "error"}]
  /\ text \in [Turns -> Seq(Turns)]
  /\ asked \in 0..MaxTurns /\ active \in 0..MaxTurns /\ chat \in 0..MaxTurns
  /\ sock \in {"connecting", "open", "closing", "closed"}
  /\ attempts \in 0..MaxReconnectAttempts
  /\ pending \in Seq(Frame) /\ up \in Seq(Frame) /\ down \in Seq(Reply)
  /\ valid \in BOOLEAN
  /\ serving \in 0..MaxTurns /\ into \in 0..MaxTurns
  /\ stage \in {"auth", "wait", "answer", "commit", "refused"}
  /\ sent \in [Turns -> 0..MaxTokens]
  /\ chats \subseteq Turns /\ gone \subseteq Abandoned /\ drops \in 0..MaxDrops
  /\ rejected \in BOOLEAN /\ cut \subseteq Turns /\ taken \in Seq(Frame)
  /\ named \subseteq Turns /\ owed \in [Turns -> 0..MaxTurns]
  /\ opened \in Nat /\ over \in [Turns -> Nat] /\ unsaved \subseteq Turns

\* A bubble whose socket did not go away under it holds chunks of its own
\* answer only, and all of them once it is complete: drops and reconnects of
\* other sockets, questions asked meanwhile and errors do not mix answers.
AnswerInItsBubble ==
  \A b \in Turns \ cut :
    /\ \A i \in 1..Len(text[b]) : text[b][i] = b
    /\ bubble[b] = "complete" => Len(text[b]) = sent[b]

\* A question is never asked twice of the server, and those of one socket are read
\* in the order they were asked, whatever was queued, flushed, lost and reconnected
\* in between.  Only one that was sent over an earlier socket may still be read
\* after a newer one, by the loop that socket left behind.
AskedOnceInOrder ==
  LET way == taken \o up \o pending
  IN \A i, k \in 1..Len(way) : i < k =>
       \/ way[i].turn < way[k].turn
       \/ over[way[k].turn] \in 1..(over[way[i].turn] - 1)

\* The status the header shows is the transport's: "connected" while the
\* socket is open (or being closed), "connecting" while it or the timer is at
\* it, and after "disconnected" or "error" nothing is left running.
StatusTruthful ==
  mounted =>
    /\ status = "connected" => sock \in {"open", "closing"}
    /\ sock = "open" => status = "connected"
    /\ status = "connecting" => timer \/ sock \in {"connecting", "closing"}
    /\ timer => sock = "closed"
    /\ status \in {"disconnected", "error"} => sock = "closed" /\ ~timer

\* Once the widget is gone or its token was refused no socket is opened.
NoReconnectWhenOver ==
  [][~mounted \/ rejected => sock' # "connecting" \/ sock = "connecting"]_vars

\* A follow-up is answered in the chat whose answer the widget shows, also when it
\* was queued and sent over a later socket, unless the commit behind that answer
\* failed or was still to come when the socket was lost.
AnswerContinues ==
  \A i \in 1..Len(down) :
    LET t == down[i].turn
    IN down[i].event = "meta" /\ owed[t] \notin {0} \cup unsaved
         => down[i].chat = owed[t]

\* A queued question leaves the queue, unless the widget gives up, is removed
\* or its token was refused.
QueueDrains ==
  pending # <<>> ~> pending = <<>> \/ status = "error" \/ ~mounted \/ rejected
=============================================================================
