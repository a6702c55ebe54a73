------------------------------ MODULE FetchChat ------------------------------
(***************************************************************************)
(* The chat widget over fetch: the transport with its abort controller and *)
(* its timers, for whole replies (HttpTransport) or for an event stream    *)
(* (StreamTransport), and the hook that keeps the UI state (useChat, the   *)
(* input, the stop button).  The network and the server are what the       *)
(* transport sees of them: an answer that comes, stops or never comes.     *)
(*                                                                         *)
(* The n-th question asked is turn n; a chat is named by the turn whose    *)
(* question opened it, 0 is no chat.  Nothing keeps the user from asking   *)
(* again while a request is in flight, and this.controller is the newest   *)
(* request's.                                                              *)
(***************************************************************************)
EXTENDS Naturals

CONSTANTS
  Protocols,   \* the protocols considered: the widget is configured with one
  MaxTurns,    \* bound on the questions asked
  MaxTokens    \* bound on the chunks of one answer

ASSUME ProtocolsAssumption == Protocols \subseteq {"http", "stream"}
ASSUME BoundAssumption == MaxTurns \in Nat /\ MaxTokens \in Nat

VARIABLES
  protocol,    \* config.protocol.type
  mounted,     \* FALSE once the effect was cleaned up
  status,      \* connectionStatus
  typing,      \* isBotTyping
  asked,       \* the number of questions asked; this.controller is this turn's
  chat,        \* externalChatId
  request,     \* each turn: its fetch
  timer,       \* each turn: its timeout is off, running, or due: not cleared in time
  aborted,     \* each turn: its controller's signal
  sentChat,    \* each turn: the chat id sent with the question
  bubble,      \* each turn: the status of its answer's bubble
  text,        \* each turn: the chunks in it
  \* History, for the properties only
  astray,      \* turns that the timeout of another turn aborted
  overlapped   \* a question was asked while another was in flight

ui == <<mounted, status, typing, asked>>
transport == <<protocol, chat, request, timer, aborted, sentChat>>
answer == <<bubble, text>>
history == <<astray, overlapped>>
vars == <<ui, transport, answer, history>>

----------------------------------------------------------------------------
Turns == 1..MaxTurns

InFlight(t) == request[t] \in {"fetching", "reading"}

\* Just after the effect that made the transport and called connect().
Init ==
  /\ protocol \in Protocols
  /\ mounted = TRUE /\ status = "connected" /\ typing = FALSE
  /\ asked = 0
  /\ chat = 0
  /\ request = [t \in Turns |-> "none"]
  /\ timer = [t \in Turns |-> "off"]
  /\ aborted = [t \in Turns |-> FALSE]
  /\ sentChat = [t \in Turns |-> 0]
  /\ bubble = [t \in Turns |-> "none"]
  /\ text = [t \in Turns |-> 0]
  /\ astray = {}
  /\ overlapped = FALSE

----------------------------------------------------------------------------
(* The user *)

\* The input is disabled by the status "error".
InputEnabled == status # "error"

\* The timeout runs from the question on, and anew from the data of a stream.
\* (Mutation: it is not armed.)
NotArmed(t) == timer
Armed(t) == [timer EXCEPT ![t] = "running"]

SendMessage ==
  LET t == asked + 1
  IN /\ mounted /\ InputEnabled
     /\ asked < MaxTurns
     /\ asked' = t
     /\ typing' = TRUE
     /\ status' = "connecting"
     /\ request' = [request EXCEPT ![t] = "fetching"]
     /\ timer' = Armed(t)
     /\ sentChat' = [sentChat EXCEPT ![t] = chat]
     /\ bubble' = IF protocol = "stream" THEN [bubble EXCEPT ![t] = "streaming"]
                                         ELSE bubble
     /\ overlapped' = (overlapped \/ \E u \in Turns : InFlight(u))
     /\ UNCHANGED <<mounted, protocol, chat, aborted, text, astray>>

\* this.controller?.abort(): nothing happens to a request that is over.
Abort ==
  aborted' = [t \in Turns |-> IF t = asked /\ InFlight(t) THEN TRUE ELSE aborted[t]]

\* "Stop generating" is shown while isBotTyping.
StopGeneration ==
  /\ mounted /\ typing
  /\ typing' = FALSE
  /\ Abort
  /\ UNCHANGED <<mounted, status, asked, protocol, chat, request, timer, sentChat,
                 answer, history>>

\* The effect's cleanup: disconnect().
Disconnect ==
  /\ mounted
  /\ mounted' = FALSE
  /\ status' = IF protocol = "http" THEN "disconnected" ELSE status
  /\ Abort
  /\ UNCHANGED <<typing, asked, protocol, chat, request, timer, sentChat, answer,
                 history>>

\* timeoutMs pass in which the timer is neither cleared nor started anew.
Idle(t) ==
  /\ timer[t] = "running"
  /\ timer' = [timer EXCEPT ![t] = "due"]
  /\ UNCHANGED <<ui, protocol, chat, request, aborted, sentChat, answer, history>>

\* A request's timeout aborts the controller there is by then.
Timeout(t) ==
  /\ timer[t] = "due"
  /\ timer' = [timer EXCEPT ![t] = "off"]
  /\ Abort
  /\ astray' = astray \cup ({u \in Turns : aborted'[u] /\ ~aborted[u]} \ {t})
  /\ UNCHANGED <<ui, protocol, chat, request, sentChat, answer, overlapped>>

----------------------------------------------------------------------------
(* A request ends *)

\* clearTimeout on every way out.
\* (Mutation: not there.)
TimerLeft(t) == timer
TimerCleared(t) == [timer EXCEPT ![t] = "off"]

Settle(t, outcome) ==
  /\ request' = [request EXCEPT ![t] = outcome]
  /\ timer' = TimerCleared(t)
  /\ UNCHANGED <<mounted, asked, protocol, aborted, sentChat, history>>

\* The catch block; only a stream has a bubble to mark.
\* (Mutation: the status is left as it was.)
StatusLeft == status
FailedStatus == "error"

Fail(t) ==
  /\ Settle(t, "failed")
  /\ typing' = FALSE
  /\ status' = FailedStatus
  /\ bubble' = IF protocol = "stream" THEN [bubble EXCEPT ![t] = "error"] ELSE bubble
  /\ UNCHANGED <<chat, text>>

\* "I don't have an answer for that yet.": a text of its own.
Fallback == 1

\* HTTP: what there is of an answer is shown; the hook leaves isBotTyping as it
\* is.
Reply(t, named, chunks) ==
  /\ Settle(t, "answered")
  /\ status' = "connected"
  /\ chat' = named
  /\ bubble' = [bubble EXCEPT ![t] = "complete"]
  /\ text' = [text EXCEPT ![t] = chunks]
  /\ UNCHANGED typing

\* "Don't leave a blank bubble": the fallback text.
\* (Mutation: it stays blank.)
Blank(chunks) == chunks
Filled(chunks) == IF chunks = 0 THEN Fallback ELSE chunks

\* Stream: onStreamEnd.
End(t) ==
  /\ Settle(t, "answered")
  /\ typing' = FALSE
  /\ bubble' = [bubble EXCEPT ![t] = "complete"]
  /\ text' = [text EXCEPT ![t] = Filled(@)]
  /\ UNCHANGED <<status, chat>>

----------------------------------------------------------------------------
(* What the transport hears *)

\* The response's head, with a status of success; a stream has its connection.
HeadArrives(t) ==
  /\ request[t] = "fetching" /\ ~aborted[t]
  /\ request' = [request EXCEPT ![t] = "reading"]
  /\ status' = IF protocol = "stream" THEN "connected" ELSE status
  /\ UNCHANGED <<mounted, typing, asked, protocol, chat, timer, aborted, sentChat,
                 answer, history>>

\* Any other status (429, 401, 500), or no connection at all.
FetchFails(t) ==
  /\ request[t] = "fetching" /\ ~aborted[t]
  /\ Fail(t)

\* The chat the server answers in: over HTTP the one it was sent, which it named
\* when it had committed it; a stream's chat is not there to be found again.
\* (Mutation: never found.)
ChatNew(t) == t
ChatFor(t) == IF protocol = "http" /\ sentChat[t] # 0 THEN sentChat[t] ELSE t

\* An empty answer is shown as it is, only null is replaced by the fallback.
ReplyArrives(t) ==
  /\ protocol = "http"
  /\ request[t] = "reading" /\ ~aborted[t]
  /\ \E chunks \in 0..MaxTokens \cup {Fallback} : Reply(t, ChatFor(t), chunks)

\* The body breaks off: a reply without one for HTTP, an error for a stream.
BodyFails(t) ==
  /\ request[t] = "reading" /\ ~aborted[t]
  /\ IF protocol = "http" THEN Reply(t, chat, Fallback) ELSE Fail(t)

\* The abort reaches the pending fetch, or the pending read of the body.
AbortArrives(t) ==
  /\ InFlight(t) /\ aborted[t]
  /\ IF protocol = "http" /\ request[t] = "reading" THEN Reply(t, chat, Fallback) ELSE Fail(t)

\* Data of a stream: the idle timer starts anew.
Hear(t) ==
  /\ protocol = "stream"
  /\ request[t] = "reading" /\ ~aborted[t]
  /\ timer' = Armed(t)
  /\ UNCHANGED <<ui, protocol, request, aborted, sentChat, bubble, history>>

\* meta, before the first token.
Meta(t) ==
  /\ Hear(t)
  /\ text[t] = 0
  /\ chat' = ChatFor(t)
  /\ UNCHANGED text

Token(t) ==
  /\ Hear(t)
  /\ text[t] < MaxTokens
  /\ text' = [text EXCEPT ![t] = @ + 1]
  /\ UNCHANGED chat

\* Anything else the reader is given: a part of a frame, the sources, or one of
\* the comments by which EventSourceResponse keeps the connection alive while
\* the server is still at work.
Ping(t) ==
  /\ Hear(t)
  /\ UNCHANGED <<chat, text>>

\* done, or a stream that just ends.
StreamEnds(t) ==
  /\ protocol = "stream"
  /\ request[t] = "reading" /\ ~aborted[t]
  /\ End(t)

----------------------------------------------------------------------------
Hears(t) ==
  \/ HeadArrives(t) \/ FetchFails(t) \/ ReplyArrives(t) \/ BodyFails(t)
  \/ Meta(t) \/ Token(t) \/ Ping(t) \/ StreamEnds(t)

Next ==
  \/ SendMessage \/ StopGeneration \/ Disconnect
  \/ \E t \in Turns : Idle(t) \/ Timeout(t) \/ AbortArrives(t) \/ Hears(t)

Spec == Init /\ [][Next]_vars

\* Time passes, and the browser fires a timeout that stays due and rejects what
\* was aborted; nothing is assumed of the user, the network or the server, which
\* may keep a timer from falling due or may start it anew for ever.
Fairness ==
  \A t \in Turns : WF_vars(Idle(t)) /\ WF_vars(Timeout(t)) /\ WF_vars(AbortArrives(t))

FairSpec == Spec /\ Fairness

----------------------------------------------------------------------------
(* Properties *)

TypeOK ==
  /\ protocol \in Protocols
  /\ mounted \in BOOLEAN /\ typing \in BOOLEAN /\ overlapped \in BOOLEAN
  /\ status \in {"connecting", "connected", "disconnected", "error"}
  /\ asked \in 0..MaxTurns /\ chat \in 0..MaxTurns
  /\ request \in [Turns -> {"none", "fetching", "reading", "answered", "failed"}]
  /\ timer \in [Turns -> {"off", "running", "due"}] /\ aborted \in [Turns -> BOOLEAN]
  /\ sentChat \in [Turns -> 0..MaxTurns]
  /\ bubble \in [Turns -> {"none", "streaming", "complete", "error"}]
  /\ text \in [Turns -> Nat]
  /\ astray \subseteq Turns
  \* No stream that ended well leaves a blank bubble; an empty HTTP answer does.
  /\ protocol = "stream" => \A t \in Turns : bubble[t] = "complete" => text[t] > 0

\* Whatever order requests end in: the widget shows "connecting" only while its
\* newest question has no answer, a stream shows typing only while the newest
\* is in flight, and the widget is in error whenever its last request failed
\* and no other has answered since.
StatusTruthful ==
  mounted =>
    /\ status = "connecting" => asked # 0 /\ InFlight(asked)
    /\ protocol = "stream" /\ typing => asked # 0 /\ InFlight(asked)
    /\ ~overlapped /\ asked # 0 /\ request[asked] = "failed" => status = "error"

\* With one question at a time a timeout aborts only the request that is late:
\* no timer outlives its request, whichever way that one ended.
TimeoutIsItsOwn == overlapped \/ astray = {}

\* With one question at a time every question after the first HTTP reply goes
\* to the chat that reply named, lost bodies and timeouts in between or not.
SameThread ==
  protocol = "http" /\ ~overlapped =>
    \A t, u \in Turns : sentChat[t] # 0 /\ sentChat[u] # 0 => sentChat[t] = sentChat[u]

\* The server keeps a stream going: again and again it sends something, if only
\* to keep the connection alive.
KeptGoing(t) == []<>(protocol = "stream" /\ request[t] = "reading" /\ timer[t] = "running")

\* The newest question does not stay without an end when the server falls silent,
\* before its head, in a body or in the middle of a stream: its timeout sees to
\* it, unless another question takes over the controller.
NewestEnds ==
  \A t \in Turns : KeptGoing(t) \/ (InFlight(t) ~> ~InFlight(t) \/ asked # t)
=============================================================================
