--------------------------- MODULE FetchChatProofs ---------------------------
(***************************************************************************)
(* Proofs about FetchChat, for either protocol and every bound on turns    *)
(* and chunks.                                                             *)
(***************************************************************************)
EXTENDS FetchChat, TLAPS

----------------------------------------------------------------------------
(* The inductive invariant *)

\* The turns asked are the ones that have a request; a timer runs, or is due, only
\* for a request in flight.
RequestInv ==
  \A t \in Turns :
    /\ t > asked <=> request[t] = "none"
    /\ request[t] = "none" => sentChat[t] = 0 /\ ~aborted[t] /\ bubble[t] = "none"
    /\ timer[t] # "off" => InFlight(t)

\* Without an overlap only the newest request is in flight.
NewestInv == ~overlapped => \A t \in Turns : InFlight(t) => t = asked

\* While the newest request is the status's reason: a stream that is being read
\* has a connection.
StatusInv ==
  /\ StatusTruthful
  /\ mounted /\ protocol = "stream" /\ status = "connecting" =>
       asked # 0 /\ request[asked] = "fetching"

\* Over HTTP and without an overlap every question that named a chat named the
\* one remembered now, and the one in flight named it, too, or none.
ThreadInv ==
  protocol = "http" /\ ~overlapped =>
    /\ \A t \in Turns : sentChat[t] # 0 => sentChat[t] = chat
    /\ asked # 0 /\ InFlight(asked) => sentChat[asked] = chat

Inv == TypeOK /\ RequestInv /\ NewestInv /\ StatusInv /\ ThreadInv /\ TimeoutIsItsOwn

----------------------------------------------------------------------------
LEMMA InvInit ==
  ASSUME Init
  PROVE  Inv
<1>1. TypeOK
  <2>1. 0 \in 0..MaxTurns
    BY BoundAssumption
  <2>2. \A t \in Turns : bubble[t] # "complete"
    BY DEF Init
  <2> QED
    BY <2>1, <2>2 DEF Init, TypeOK
<1>2. RequestInv
  BY BoundAssumption DEF Init, RequestInv, InFlight, Turns
<1>3. NewestInv /\ TimeoutIsItsOwn
  BY DEF Init, NewestInv, TimeoutIsItsOwn, InFlight
<1>4. StatusInv
  BY DEF Init, StatusInv, StatusTruthful
<1>5. ThreadInv
  BY DEF Init, ThreadInv
<1> QED
  BY <1>1, <1>2, <1>3, <1>4, <1>5 DEF Inv

\* Every step that ends a request is one of three.
LEMMA EndingSteps ==
  ASSUME NEW t \in Turns,
         FetchFails(t) \/ ReplyArrives(t) \/ BodyFails(t) \/ AbortArrives(t) \/ StreamEnds(t)
  PROVE  /\ InFlight(t)
         /\ \/ Fail(t)
            \/ protocol = "http" /\ \E named \in {chat, ChatFor(t)}, chunks \in Nat :
                                     Reply(t, named, chunks)
            \/ protocol = "stream" /\ request[t] = "reading" /\ End(t)
<1>1. Fallback \in Nat /\ 0..MaxTokens \subseteq Nat
  BY BoundAssumption DEF Fallback
<1> QED
  BY <1>1 DEF FetchFails, ReplyArrives, BodyFails, AbortArrives, StreamEnds, InFlight

\* The newest turn is one of the turns.
LEMMA NewestIsTurn ==
  ASSUME TypeOK, asked # 0
  PROVE  asked \in Turns
BY BoundAssumption DEF TypeOK, Turns

LEMMA SendKeeps ==
  ASSUME Inv, SendMessage
  PROVE  Inv'
<1> DEFINE t == asked + 1
<1> USE BoundAssumption DEF Inv
<1>1. t \in Turns /\ asked' = t /\ request[t] = "none" /\ sentChat[t] = 0
  BY DEF SendMessage, TypeOK, Turns, RequestInv
<1>2. \A u \in Turns : u # t => request'[u] = request[u] /\ sentChat'[u] = sentChat[u]
                              /\ timer'[u] = timer[u] /\ bubble'[u] = bubble[u]
  BY DEF SendMessage, TypeOK, Armed
<1>3. /\ request'[t] = "fetching" /\ sentChat'[t] = chat
      /\ aborted' = aborted /\ chat' = chat /\ protocol' = protocol
  BY <1>1 DEF SendMessage, TypeOK
<1>4. TypeOK'
  <2>1. /\ request' \in [Turns -> {"none", "fetching", "reading", "answered", "failed"}]
        /\ timer' \in [Turns -> {"off", "running", "due"}] /\ sentChat' \in [Turns -> 0..MaxTurns]
        /\ bubble' \in [Turns -> {"none", "streaming", "complete", "error"}]
    BY <1>1 DEF SendMessage, TypeOK, Armed
  <2>2. \A u \in Turns : /\ bubble'[u] = "complete" => bubble[u] = "complete"
                         /\ text'[u] = text[u]
    BY <1>1, <1>2 DEF SendMessage, TypeOK
  <2>3. overlapped' \in BOOLEAN /\ typing' \in BOOLEAN /\ asked' \in 0..MaxTurns
    BY <1>1 DEF SendMessage, TypeOK, Turns
  <2> QED
    BY <2>1, <2>2, <2>3 DEF SendMessage, TypeOK
<1>5. RequestInv'
  BY <1>1, <1>2, <1>3 DEF RequestInv, InFlight, TypeOK, Turns
<1>6. NewestInv'
  BY <1>1, <1>2, <1>3 DEF NewestInv, InFlight, SendMessage
<1>7. StatusInv'
  BY <1>1, <1>3 DEF StatusInv, StatusTruthful, InFlight, SendMessage, Turns
<1>8. ThreadInv'
  BY <1>1, <1>2, <1>3 DEF ThreadInv, SendMessage
<1>9. TimeoutIsItsOwn'
  BY DEF TimeoutIsItsOwn, SendMessage
<1> QED
  BY <1>4, <1>5, <1>6, <1>7, <1>8, <1>9

\* Stopping, leaving and a timeout abort the newest request and end none.
LEMMA AbortKeeps ==
  ASSUME Inv, StopGeneration \/ Disconnect \/ \E t \in Turns : Timeout(t)
  PROVE  Inv'
<1> USE DEF Inv
<1>1. /\ aborted' = [u \in Turns |-> IF u = asked /\ InFlight(u) THEN TRUE ELSE aborted[u]]
      /\ UNCHANGED <<asked, protocol, chat, request, sentChat, answer, overlapped>>
  BY DEF StopGeneration, Disconnect, Timeout, Abort, history, ui
<1>2. /\ timer' \in [Turns -> {"off", "running", "due"}]
      /\ \A u \in Turns : timer[u] = "off" => timer'[u] = "off"
  BY DEF StopGeneration, Disconnect, Timeout, TypeOK
<1>3. /\ status' \in {"connecting", "connected", "disconnected", "error"}
      /\ mounted' \in BOOLEAN /\ typing' \in BOOLEAN
      /\ mounted' => (mounted /\ status' = status /\ (typing' => typing))
  <2>1. CASE StopGeneration
    BY <2>1 DEF StopGeneration, TypeOK
  <2>2. CASE Disconnect
    BY <2>2 DEF Disconnect, TypeOK
  <2>3. CASE \E t \in Turns : Timeout(t)
    BY <2>3 DEF Timeout, TypeOK, ui
  <2> QED
    BY <2>1, <2>2, <2>3
<1>4. astray' \subseteq Turns
  BY DEF StopGeneration, Disconnect, Timeout, TypeOK, history
<1>5. TypeOK'
  BY <1>1, <1>2, <1>3, <1>4 DEF TypeOK, answer
<1>6. RequestInv'
  BY <1>1, <1>2 DEF RequestInv, InFlight, TypeOK, answer
<1>7. NewestInv' /\ ThreadInv'
  BY <1>1 DEF NewestInv, ThreadInv, InFlight
<1>8. StatusInv'
  BY <1>1, <1>3 DEF StatusInv, StatusTruthful, InFlight
<1>9. TimeoutIsItsOwn'
  <2>1. CASE StopGeneration \/ Disconnect
    BY <2>1 DEF StopGeneration, Disconnect, history, TimeoutIsItsOwn
  <2>2. ASSUME NEW t \in Turns, Timeout(t), ~overlapped
        PROVE  astray' = astray
    <3>1. t = asked
      BY <2>2 DEF Timeout, RequestInv, NewestInv
    <3>2. {u \in Turns : aborted'[u] /\ ~aborted[u]} \subseteq {t}
      BY <1>1, <3>1
    <3> QED
      BY <2>2, <3>2 DEF Timeout
  <2> QED
    BY <1>1, <2>1, <2>2 DEF TimeoutIsItsOwn
<1> QED
  BY <1>5, <1>6, <1>7, <1>8, <1>9

\* Ending a request stops its timer, and tells the widget so.
LEMMA EndKeeps ==
  ASSUME Inv, NEW t \in Turns, InFlight(t),
         \/ Fail(t)
         \/ protocol = "http" /\ \E named \in {chat, ChatFor(t)}, chunks \in Nat :
                                  Reply(t, named, chunks)
         \/ protocol = "stream" /\ request[t] = "reading" /\ End(t)
  PROVE  Inv'
<1> USE DEF Inv
<1>1. /\ \/ request' = [request EXCEPT ![t] = "answered"]
         \/ request' = [request EXCEPT ![t] = "failed"]
      /\ timer' = [timer EXCEPT ![t] = "off"]
      /\ UNCHANGED <<mounted, asked, protocol, aborted, sentChat, history>>
  BY DEF Fail, Reply, End, Settle, TimerCleared
<1>2. /\ ~InFlight(t)'
      /\ \A u \in Turns : u # t => request'[u] = request[u] /\ bubble'[u] = bubble[u]
  BY <1>1 DEF InFlight, TypeOK, Fail, Reply, End
<1>3. t <= asked /\ asked # 0 /\ asked \in Turns
  BY BoundAssumption, NewestIsTurn, SMTT(60) DEF InFlight, RequestInv, TypeOK, Turns
<1>4. TypeOK'
  <2>1. request' \in [Turns -> {"none", "fetching", "reading", "answered", "failed"}]
        /\ timer' \in [Turns -> {"off", "running", "due"}]
    BY <1>1 DEF TypeOK
  <2>2. chat' \in 0..MaxTurns
    BY BoundAssumption DEF Fail, Reply, End, ChatFor, TypeOK, Turns
  <2>3. /\ status' \in {"connecting", "connected", "disconnected", "error"}
        /\ typing' \in BOOLEAN
    BY DEF Fail, Reply, End, FailedStatus, TypeOK
  <2>4. bubble' \in [Turns -> {"none", "streaming", "complete", "error"}]
        /\ text' \in [Turns -> Nat]
    BY DEF Fail, Reply, End, Filled, Fallback, TypeOK
  <2>5. ASSUME protocol' = "stream", NEW u \in Turns, bubble'[u] = "complete"
        PROVE  text'[u] > 0
    BY <1>1, <2>5 DEF Fail, End, Filled, Fallback, TypeOK
  <2> QED
    BY <1>1, <2>1, <2>2, <2>3, <2>4, <2>5 DEF TypeOK, history
<1>5. RequestInv'
  BY <1>1, <1>2, <1>3 DEF RequestInv, InFlight, TypeOK, history
<1>6. NewestInv'
  BY <1>1, <1>2 DEF NewestInv, InFlight, history
<1>7. ~overlapped => t = asked
  BY DEF NewestInv
<1>8. StatusInv'
  <2>1. CASE Fail(t)
    BY <1>1, <1>2, <1>3, <2>1 DEF Fail, FailedStatus, StatusInv, StatusTruthful
  <2>2. CASE protocol = "http" /\ status' = "connected" /\ request'[t] = "answered"
    BY <1>1, <1>2, <1>3, <1>7, <2>2 DEF StatusInv, StatusTruthful, history
  <2>3. CASE protocol = "stream" /\ request[t] = "reading" /\ End(t)
    <3>1. request'[t] = "answered" /\ typing' = FALSE /\ status' = status
      BY <2>3 DEF End, Settle, TypeOK
    <3> QED
      BY <1>1, <1>2, <1>3, <1>7, <2>3, <3>1
         DEF StatusInv, StatusTruthful, InFlight, history
  <2> QED
    BY <2>1, <2>2, <2>3 DEF Reply, Settle, TypeOK
<1>9. ThreadInv'
  <2> SUFFICES ASSUME protocol = "http", ~overlapped
               PROVE  \A u \in Turns : sentChat[u] # 0 => sentChat[u] = chat'
    BY <1>1, <1>2, <1>7 DEF ThreadInv, history
  <2>1. CASE chat' = chat
    BY <2>1 DEF ThreadInv
  <2>2. CASE chat' = ChatFor(t)
    <3>1. sentChat[t] = chat
      BY <1>3, <1>7 DEF ThreadInv
    <3> QED
      BY <2>2, <3>1 DEF ThreadInv, ChatFor
  <2> QED
    BY <2>1, <2>2 DEF Fail, Reply
<1>10. TimeoutIsItsOwn'
  BY <1>1 DEF TimeoutIsItsOwn, history
<1> QED
  BY <1>4, <1>5, <1>6, <1>8, <1>9, <1>10

\* Hearing of the server ends nothing.
LEMMA HearKeeps ==
  ASSUME Inv, NEW t \in Turns, HeadArrives(t) \/ Meta(t) \/ Token(t) \/ Ping(t)
  PROVE  Inv'
<1> USE DEF Inv
<1>1. CASE HeadArrives(t)
  <2>1. /\ request' = [request EXCEPT ![t] = "reading"]
        /\ \A u \in Turns : InFlight(u)' <=> InFlight(u)
        /\ request[t] = "fetching"
    BY <1>1 DEF HeadArrives, InFlight, TypeOK
  <2>2. /\ UNCHANGED <<mounted, typing, asked, protocol, chat, timer, aborted, sentChat,
                       answer, history>>
        /\ status' = IF protocol = "stream" THEN "connected" ELSE status
    BY <1>1 DEF HeadArrives
  <2>3. TypeOK'
    BY <2>1, <2>2 DEF TypeOK, answer, history
  <2>4. RequestInv'
    BY <2>1, <2>2 DEF RequestInv, TypeOK, answer
  <2>5. NewestInv' /\ ThreadInv' /\ TimeoutIsItsOwn'
    BY <2>1, <2>2, NewestIsTurn DEF NewestInv, ThreadInv, TimeoutIsItsOwn, history
  <2>6. StatusInv'
    <3>1. asked # 0 => asked \in Turns
      BY NewestIsTurn
    <3>2. asked # 0 => /\ InFlight(asked)' <=> InFlight(asked)
                       /\ request'[asked] = "failed" => request[asked] = "failed"
      BY <2>1, <2>2, <3>1 DEF TypeOK, InFlight
    <3>3. CASE protocol = "stream"
      <4>1. status' = "connected" /\ mounted' = mounted /\ typing' = typing
            /\ asked' = asked /\ overlapped' = overlapped /\ protocol' = protocol
        BY <2>2, <3>3 DEF history
      <4>2. ~overlapped => request'[asked] = "reading"
        BY <2>1 DEF NewestInv, InFlight, TypeOK
      <4> QED
        BY <3>2, <3>3, <4>1, <4>2 DEF StatusInv, StatusTruthful
    <3>4. CASE protocol # "stream"
      BY <2>2, <3>2, <3>4 DEF StatusInv, StatusTruthful, history, InFlight
    <3> QED
      BY <3>3, <3>4
  <2> QED
    BY <2>3, <2>4, <2>5, <2>6
<1>2. CASE Meta(t) \/ Token(t) \/ Ping(t)
  <2>1. /\ protocol = "stream" /\ InFlight(t)
        /\ timer' = [timer EXCEPT ![t] = "running"]
        /\ UNCHANGED <<mounted, status, typing, asked, protocol, request, aborted,
                       sentChat, bubble, astray, overlapped>>
    BY <1>2 DEF Meta, Token, Ping, Hear, Armed, InFlight, ui, history
  <2>2. /\ text' \in [Turns -> Nat]
        /\ \A u \in Turns : text'[u] >= text[u]
        /\ chat' \in 0..MaxTurns
    <3>1. CASE Meta(t)
      BY <3>1, BoundAssumption DEF Meta, ChatFor, TypeOK, Turns
    <3>2. CASE Token(t)
      BY <3>2, BoundAssumption DEF Token, TypeOK
    <3>3. CASE Ping(t)
      BY <3>3 DEF Ping, TypeOK
    <3> QED
      BY <1>2, <3>1, <3>2, <3>3
  <2>3. TypeOK'
    <3>1. ASSUME protocol' = "stream", NEW u \in Turns, bubble'[u] = "complete"
          PROVE  text'[u] > 0
      <4>1. text[u] > 0 /\ text[u] \in Nat
        BY <2>1, <3>1 DEF TypeOK
      <4>2. text'[u] \in Nat /\ text'[u] >= text[u]
        BY <2>2
      <4> QED
        BY <4>1, <4>2
    <3> QED
      BY <2>1, <2>2, <3>1 DEF TypeOK
  <2>4. RequestInv'
    BY <2>1 DEF RequestInv, InFlight, TypeOK
  <2>5. NewestInv' /\ StatusInv' /\ ThreadInv' /\ TimeoutIsItsOwn'
    BY <2>1 DEF NewestInv, StatusInv, StatusTruthful, ThreadInv, TimeoutIsItsOwn, InFlight
  <2> QED
    BY <2>3, <2>4, <2>5
<1> QED
  BY <1>1, <1>2

\* A timeout that falls due is one that was running.
LEMMA IdleKeeps ==
  ASSUME Inv, NEW t \in Turns, Idle(t)
  PROVE  Inv'
<1> USE DEF Inv
<1>1. /\ timer[t] = "running" /\ timer' = [timer EXCEPT ![t] = "due"]
      /\ UNCHANGED <<mounted, status, typing, asked, protocol, chat, request, aborted,
                     sentChat, bubble, text, astray, overlapped>>
  BY DEF Idle, ui, answer, history
<1>2. TypeOK' /\ RequestInv'
  BY <1>1 DEF TypeOK, RequestInv, InFlight
<1>3. NewestInv' /\ StatusInv' /\ ThreadInv' /\ TimeoutIsItsOwn'
  BY <1>1 DEF NewestInv, StatusInv, StatusTruthful, ThreadInv, TimeoutIsItsOwn, InFlight
<1> QED
  BY <1>2, <1>3

LEMMA InvNext ==
  ASSUME Inv, [Next]_vars
  PROVE  Inv'
<1>1. CASE SendMessage
  BY <1>1, SendKeeps
<1>2. CASE StopGeneration \/ Disconnect \/ \E t \in Turns : Timeout(t)
  BY <1>2, AbortKeeps
<1>3. ASSUME NEW t \in Turns, Idle(t) \/ AbortArrives(t) \/ Hears(t)
      PROVE  Inv'
  BY <1>3, EndingSteps, EndKeeps, HearKeeps, IdleKeeps DEF Hears
<1>4. CASE UNCHANGED vars
  BY <1>4 DEF vars, ui, transport, answer, history, Inv, TypeOK, RequestInv, NewestInv,
              StatusInv, StatusTruthful, ThreadInv, TimeoutIsItsOwn, InFlight
<1> QED
  BY <1>1, <1>2, <1>3, <1>4 DEF Next

LEMMA Invariance == Spec => []Inv
BY InvInit, InvNext, PTL DEF Spec

----------------------------------------------------------------------------
(* The theorems *)

\* Every variable keeps its type, and no stream that ended well leaves a blank
\* bubble.
THEOREM TypeCorrect == Spec => []TypeOK
<1>1. Inv => TypeOK
  BY DEF Inv
<1> QED
  BY <1>1, Invariance, PTL

\* In whatever order any number of requests end: "connecting" and the typing
\* indicator of a stream mean the newest question, and a failure is shown.
THEOREM StatusAlwaysTruthful == Spec => []StatusTruthful
<1>1. Inv => StatusTruthful
  BY DEF Inv, StatusInv
<1> QED
  BY <1>1, Invariance, PTL

\* With one question at a time a timeout aborts only the request that is late.
THEOREM TimeoutsAreTheirOwn == Spec => []TimeoutIsItsOwn
<1>1. Inv => TimeoutIsItsOwn
  BY DEF Inv
<1> QED
  BY <1>1, Invariance, PTL

\* With one question at a time every HTTP follow-up goes to the chat that the
\* first reply named.
THEOREM SameThreadAlways == Spec => []SameThread
<1>1. Inv => SameThread
  BY DEF Inv, ThreadInv, SameThread
<1> QED
  BY <1>1, Invariance, PTL

=============================================================================
