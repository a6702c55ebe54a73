----------------------------- MODULE WsChatProofs -----------------------------
(***************************************************************************)
(* WsChat's safety properties, for any number of questions, chunks, drops  *)
(* and attempts.  The inductive invariant has a part for each matter: the  *)
(* socket and what lies on it (LinkInv), what the widget shows of it       *)
(* (StatusInv), the order of the questions (OrderInv), the shape of the    *)
(* frames on their way to the widget (FrameInv), whose bubble they are for *)
(* (BubbleInv), how many chunks they bring (CountInv), and which chat they *)
(* and the questions name (ChatInv).                                       *)
(***************************************************************************)
EXTENDS WsChat, SequenceTheorems, FiniteSetTheorems, TLAPS

\* A question the server read.
Asked(t) == \E i \in 1..Len(taken) : taken[i].turn = t

\* A loop with something left to do.
Busy(loop) == IF loop.stage = "answer" THEN loop.into # 0 ELSE loop.queue # <<>>

\* Only an open socket has frames on it or is answered over, and then none wait.
LinkInv ==
  /\ sock # "open" => up = <<>> /\ down = <<>> /\ serving = 0 /\ stage = "auth"
  /\ sock = "open" => pending = <<>>
  /\ timer => sock = "closed"
  /\ serving # 0 <=> stage \in {"answer", "commit"}
  /\ serving # 0 <=> into # 0
  /\ serving # 0 => Asked(serving)
  /\ \A i \in 1..Len(down) : down[i].event = "meta" => down[i].chat # 0
  /\ \A loop \in gone : Busy(loop)

\* Nothing is left to open a socket once the widget is gone or was refused.
StatusInv ==
  /\ StatusTruthful
  /\ ~mounted => ~timer /\ sock \in {"closing", "closed"}
  /\ rejected => ~timer /\ sock = "closed"

-----------------------------------------------------------------------------
(* Types *)

HookType ==
  /\ mounted \in BOOLEAN /\ typing \in BOOLEAN
  /\ status \in {"connecting", "connected", "disconnected", "error"}
  /\ bubble \in [Turns -> {"none", "streaming", "complete", "error"}]
  /\ text \in [Turns -> Seq(Turns)]
  /\ asked \in 0..MaxTurns

TransportType ==
  /\ active \in 0..MaxTurns /\ chat \in 0..MaxTurns /\ timer \in BOOLEAN
  /\ sock \in {"connecting", "open", "closing", "closed"}
  /\ attempts \in 0..MaxReconnectAttempts
  /\ pending \in Seq(Frame)

ServerType ==
  /\ up \in Seq(Frame) /\ down \in Seq(Reply)
  /\ valid \in BOOLEAN
  /\ serving \in 0..MaxTurns /\ into \in 0..MaxTurns
  /\ stage \in {"auth", "wait", "answer", "commit", "refused"}
  /\ sent \in [Turns -> 0..MaxTokens]
  /\ chats \subseteq Turns /\ gone \subseteq Abandoned /\ drops \in 0..MaxDrops

HistoryType ==
  /\ rejected \in BOOLEAN /\ cut \subseteq Turns /\ taken \in Seq(Frame)
  /\ named \subseteq Turns /\ owed \in [Turns -> 0..MaxTurns]
  /\ opened \in Nat /\ over \in [Turns -> Nat] /\ unsaved \subseteq Turns

TypeInv == HookType /\ TransportType /\ ServerType /\ HistoryType /\ LinkInv

LEMMA Types == TypeInv => TypeOK
BY DEF TypeInv, HookType, TransportType, ServerType, HistoryType, TypeOK

LEMMA Numbers ==
  /\ Turns \subseteq 0..MaxTurns /\ 0 \notin Turns
  /\ 0 \in 0..MaxTurns /\ 0 \in 0..MaxTokens
  /\ 0 \in 0..MaxReconnectAttempts /\ 0 \in 0..MaxDrops
  /\ \A n \in 0..MaxTurns : n # 0 => n \in Turns
  /\ \A n \in 0..MaxDrops : n < MaxDrops => n + 1 \in 0..MaxDrops
  /\ \A n \in 0..MaxTurns : n < MaxTurns => n + 1 \in Turns
  /\ \A n \in 0..MaxTokens : n < MaxTokens => n + 1 \in 0..MaxTokens
  /\ \A n \in 0..MaxReconnectAttempts :
       ~(n >= MaxReconnectAttempts) => n + 1 \in 0..MaxReconnectAttempts
BY TurnsAssumption, RetryAssumption DEF Turns

LEMMA TypeInvInit == Init => TypeInv
<1> SUFFICES ASSUME Init PROVE TypeInv
  OBVIOUS
<1>1. Len(<<>>) = 0 /\ <<>> \in Seq(Frame) /\ <<>> \in Seq(Reply) /\ <<>> \in Seq(Turns)
  OBVIOUS
<1>2. HookType /\ TransportType
  BY <1>1, Numbers DEF Init, HookType, TransportType
<1>3. ServerType /\ HistoryType
  BY <1>1, Numbers DEF Init, ServerType, HistoryType
<1> QED
  BY <1>1, <1>2, <1>3 DEF Init, TypeInv, LinkInv

LEMMA ChatForIs ==
  ASSUME TypeInv, NEW f \in Frame
  PROVE  ChatFor(f) \in Turns
BY DEF TypeInv, ServerType, ChatFor, Frame

LEMMA LeavesIs ==
  ASSUME NEW at \in {"auth", "wait", "answer", "refused"}, NEW c \in 0..MaxTurns,
         NEW queue \in Seq(Frame), at = "answer" => c # 0
  PROVE  \A loop \in Leaves(at, c, queue) :
           loop \in Abandoned /\ Busy(loop) /\ loop.queue = queue
<1> SUFFICES ASSUME NEW loop \in Leaves(at, c, queue)
             PROVE  loop \in Abandoned /\ Busy(loop) /\ loop.queue = queue
  OBVIOUS
<1>1. /\ loop = [stage |-> at, into |-> c, queue |-> queue]
      /\ at = "answer" \/ (at \in {"auth", "wait"} /\ queue # <<>>)
  BY DEF Leaves
<1> QED
  BY <1>1 DEF Abandoned, Busy

LEMMA Losing ==
  ASSUME TypeInv, LoseSocket
  PROVE  /\ up' = <<>> /\ down' = <<>> /\ serving' = 0 /\ into' = 0 /\ stage' = "auth"
         /\ unsaved' \subseteq Turns /\ cut' \subseteq Turns
         /\ \A loop \in gone' :
              /\ loop \in Abandoned /\ Busy(loop)
              /\ \/ loop \in gone
                 \/ /\ Len(loop.queue) \in Nat /\ Len(loop.queue) <= Len(up)
                    /\ \A i \in 1..Len(loop.queue) : i \in 1..Len(up) /\ loop.queue[i] = up[i]
<1>1. cut' \subseteq Turns
  BY DEF LoseSocket, TypeInv, HookType, TransportType, ServerType, HistoryType, Turns
<1>2. unsaved' \subseteq Turns
  <2>1. stage = "commit" => into \in Turns
    BY Numbers DEF TypeInv, LinkInv, ServerType
  <2> QED
    BY <2>1 DEF LoseSocket, TypeInv, HistoryType
<1>3. ASSUME NEW loop \in gone', loop \notin gone
      PROVE  /\ loop \in Abandoned /\ Busy(loop)
             /\ Len(loop.queue) \in Nat /\ Len(loop.queue) <= Len(up)
             /\ \A i \in 1..Len(loop.queue) : i \in 1..Len(up) /\ loop.queue[i] = up[i]
  <2> DEFINE at == IF stage = "commit" THEN "answer" ELSE stage
             q(n) == SubSeq(up, 1, n)
  <2>1. PICK n \in 0..Len(up) : gone' = gone \cup Leaves(at, into, q(n))
    BY DEF LoseSocket
  <2>2. /\ q(n) \in Seq(Frame) /\ Len(q(n)) = n
        /\ \A i \in 1..n : i \in 1..Len(up) /\ q(n)[i] = up[i]
        /\ Len(up) \in Nat
    <3>1. up \in Seq(Frame) /\ Len(up) \in Nat
      BY DEF TypeInv, ServerType
    <3>2. \A i \in 1..n : i \in 1..Len(up) /\ up[i] \in Frame
      BY <3>1, ElementOfSeq
    <3>3. /\ SubSeq(up, 1, n) \in Seq(Frame)
          /\ Len(SubSeq(up, 1, n)) = IF 1 <= n THEN n - 1 + 1 ELSE 0
          /\ \A i \in 1..(n - 1 + 1) : SubSeq(up, 1, n)[i] = up[1 + i - 1]
      BY <3>1, <3>2, SubSeqProperties
    <3>4. n - 1 + 1 = n /\ \A i \in 1..n : 1 + i - 1 = i
      BY <3>1
    <3> QED
      BY <3>1, <3>2, <3>3, <3>4
  <2>3. at \in {"auth", "wait", "answer", "refused"} /\ into \in 0..MaxTurns
        /\ (at = "answer" => into # 0)
    BY DEF TypeInv, ServerType, LinkInv
  <2> HIDE DEF at, q
  <2>4. loop \in Leaves(at, into, q(n))
    BY <1>3, <2>1
  <2>5. loop \in Abandoned /\ Busy(loop) /\ loop.queue = q(n)
    BY <2>2, <2>3, <2>4, LeavesIs
  <2> QED
    BY <2>2, <2>5
<1>4. \A loop \in gone : loop \in Abandoned /\ Busy(loop)
  BY DEF TypeInv, ServerType, LinkInv
<1> QED
  BY <1>1, <1>2, <1>3, <1>4 DEF LoseSocket

LEMMA SendMessageTypes ==
  ASSUME TypeInv, SendMessage
  PROVE  TypeInv'
<1> DEFINE t == asked + 1
           frame == [turn |-> t, chat |-> chat]
<1>1. t \in Turns /\ asked' = t /\ frame \in Frame
  <2>1. asked \in 0..MaxTurns /\ chat \in 0..MaxTurns
    BY DEF TypeInv, HookType, TransportType
  <2> QED
    BY <2>1, Numbers DEF SendMessage, Frame
<1>2. Cardinality(named) = 1 => (CHOOSE c \in named : TRUE) \in named
  BY FS_EmptySet
<1>3. owed' \in [Turns -> 0..MaxTurns]
  <2>1. named \subseteq 0..MaxTurns /\ 0 \in 0..MaxTurns /\ owed \in [Turns -> 0..MaxTurns]
    BY Numbers DEF TypeInv, HistoryType
  <2>2. \E x \in 0..MaxTurns : owed' = [owed EXCEPT ![t] = x]
    BY <1>2, <2>1 DEF SendMessage
  <2> QED
    BY <2>1, <2>2
<1>4. up' \in Seq(Frame) /\ pending' \in Seq(Frame)
  <2>1. up \in Seq(Frame) /\ pending \in Seq(Frame)
    BY DEF TypeInv, TransportType, ServerType
  <2>2. Append(up, frame) \in Seq(Frame) /\ Append(pending, frame) \in Seq(Frame)
    BY <1>1, <2>1, AppendProperties
  <2> HIDE DEF frame
  <2>3. \/ up' = Append(up, frame) /\ pending' = pending
        \/ up' = up /\ pending' = Append(pending, frame)
    BY DEF SendMessage, frame
  <2> QED
    BY <2>1, <2>2, <2>3
<1>5. HookType'
  BY <1>1, Numbers DEF SendMessage, TypeInv, HookType
<1>6. TransportType' /\ ServerType'
  BY <1>4 DEF SendMessage, TypeInv, TransportType, ServerType
<1>7. HistoryType'
  <2>1. over' \in [Turns -> Nat]
    BY <1>1 DEF SendMessage, TypeInv, HistoryType
  <2> QED
    BY <1>3, <2>1 DEF SendMessage, TypeInv, HistoryType
<1>8. LinkInv'
  BY DEF SendMessage, TypeInv, LinkInv, Asked
<1> QED
  BY <1>5, <1>6, <1>7, <1>8 DEF TypeInv

LEMMA LostLinks ==
  ASSUME TypeInv, LoseSocket
  PROVE  /\ serving' # 0 <=> stage' \in {"answer", "commit"}
         /\ serving' # 0 <=> into' # 0
         /\ \A i \in 1..Len(down') : down'[i].event = "meta" => down'[i].chat # 0
         /\ \A loop \in gone' : Busy(loop)
BY Losing

LEMMA LosingTypes ==
  ASSUME TypeInv, LoseSocket, UNCHANGED <<valid, sent, chats, taken, named, owed, opened, over>>,
         drops' \in 0..MaxDrops, rejected' \in BOOLEAN
  PROVE  ServerType' /\ HistoryType'
<1>1. <<>> \in Seq(Frame) /\ <<>> \in Seq(Reply)
  OBVIOUS
<1>2. gone' \subseteq Abandoned
  BY Losing
<1> QED
  BY <1>1, <1>2, Losing, Numbers DEF TypeInv, ServerType, HistoryType

LEMMA UserTypes ==
  ASSUME TypeInv, StopGeneration \/ Unmount
  PROVE  TypeInv'
<1>1. CASE Unmount
  <2>1. HookType' /\ TransportType'
    BY <1>1 DEF Unmount, TypeInv, HookType, TransportType, TimerCleared
  <2>2. ServerType' /\ HistoryType'
    BY <1>1, LosingTypes DEF Unmount, TypeInv, ServerType, HistoryType
  <2>3. LinkInv'
    BY <1>1, Losing, LostLinks DEF Unmount, TypeInv, LinkInv, TimerCleared
  <2> QED
    BY <2>1, <2>2, <2>3 DEF TypeInv
<1>2. CASE StopGeneration /\ sock \in {"connecting", "open"}
  <2>1. HookType' /\ TransportType'
    BY <1>2 DEF StopGeneration, TypeInv, HookType, TransportType
  <2>2. drops' \in 0..MaxDrops
    BY <1>2, Numbers DEF StopGeneration, TypeInv, ServerType
  <2>3. ServerType' /\ HistoryType'
    BY <1>2, <2>2, LosingTypes DEF StopGeneration, TypeInv, HistoryType
  <2>4. LinkInv'
    BY <1>2, Losing, LostLinks DEF StopGeneration, TypeInv, LinkInv
  <2> QED
    BY <2>1, <2>3, <2>4 DEF TypeInv
<1>3. CASE StopGeneration /\ sock \notin {"connecting", "open"}
  <2>1. HookType' /\ TransportType'
    BY <1>3 DEF StopGeneration, TypeInv, HookType, TransportType
  <2>2. ServerType' /\ HistoryType'
    BY <1>3 DEF StopGeneration, TypeInv, ServerType, HistoryType
  <2>3. LinkInv'
    BY <1>3 DEF StopGeneration, TypeInv, LinkInv, Asked
  <2> QED
    BY <2>1, <2>2, <2>3 DEF TypeInv
<1> QED
  BY <1>1, <1>2, <1>3

\* What a close event leaves of the hook and the transport: they are told to end, are
\* gone, give up, or try again.
Goes ==
  /\ sock' = "closed" /\ chat' = chat
  /\ UNCHANGED <<mounted, bubble, text, asked, pending, active>>
Ends == status' = "disconnected" /\ UNCHANGED <<attempts, timer>>
Stays == ~mounted /\ UNCHANGED <<status, attempts, timer>>
Fails == mounted /\ status' = "error" /\ UNCHANGED <<attempts, timer>>
Retries ==
  /\ mounted /\ ~(attempts >= MaxReconnectAttempts)
  /\ status' = "connecting" /\ attempts' = attempts + 1 /\ timer' = TRUE

LEMMA CloseIs ==
  ASSUME NEW code, code # 4401, NEW isTyping \in BOOLEAN, Close(code, isTyping)
  PROVE  Goes /\ typing' \in BOOLEAN /\ (Stays \/ Fails \/ Retries)
<1>1. Goes
  BY DEF Close, Goes, ChatKept
<1>2. CASE ~mounted
  <2>1. UNCHANGED <<status, attempts, timer>> /\ typing' = isTyping
    BY <1>2 DEF Close
  <2> QED
    BY <1>1, <1>2, <2>1 DEF Stays
<1>3. CASE mounted /\ GivesUp
  <2>1. status' = "error" /\ UNCHANGED <<attempts, timer>> /\ typing' = FALSE
    BY <1>3 DEF Close
  <2>2. Fails
    BY <1>3, <2>1 DEF Fails
  <2>3. typing' = FALSE
    BY <2>1
  <2>4. typing' \in BOOLEAN
    BY ONLY <2>3
  <2> QED
    BY <1>1, <2>2, <2>4
<1>4. CASE mounted /\ ~GivesUp
  <2>1. /\ status' = "connecting" /\ attempts' = attempts + 1 /\ timer' = TRUE
        /\ typing' = isTyping
    BY <1>4 DEF Close, Reconnecting
  <2> QED
    BY <1>1, <1>4, <2>1 DEF Retries, GivesUp
<1> QED
  BY <1>2, <1>3, <1>4

LEMMA Closes ==
  ASSUME HookType, ConnectFails \/ Drop \/ Closed
  PROVE  Goes /\ typing' \in BOOLEAN /\ (Stays \/ Fails \/ Retries)
<1>1. CASE ConnectFails
  <2>1. \E isTyping \in BOOLEAN : Close(1006, isTyping)
    <3> WITNESS FALSE \in BOOLEAN
    <3> QED
      BY ZenonT(60), <1>1 DEF ConnectFails
  <2> QED
    BY <2>1, CloseIs
<1>2. CASE Drop
  <2>1. PICK isTyping \in {FALSE, typing} : Close(1006, isTyping)
    BY ZenonT(60), <1>2 DEF Drop
  <2>2. isTyping \in BOOLEAN
    BY DEF HookType
  <2> QED
    BY <2>1, <2>2, CloseIs
<1>3. CASE Closed
  <2>1. PICK isTyping \in {FALSE, typing} : Close(1000, isTyping)
    BY ZenonT(60), <1>3 DEF Closed
  <2>2. isTyping \in BOOLEAN
    BY DEF HookType
  <2> QED
    BY <2>1, <2>2, CloseIs
<1> QED
  BY <1>1, <1>2, <1>3

LEMMA Refuses ==
  ASSUME Refused
  PROVE  Goes /\ typing' = FALSE /\ Ends
<1>1. Goes
  BY DEF Refused, Close, Goes, ChatKept
<1>2. Ends /\ typing' = FALSE
  BY DEF Refused, Close, Ends
<1> QED
  BY <1>1, <1>2

\* With an open socket goes what was on it; the others had lost that before.
Quietly == sock \in {"connecting", "closing"} /\ UNCHANGED <<server, history>>
Openly ==
  /\ sock = "open" /\ LoseSocket
  /\ UNCHANGED <<valid, sent, chats, taken, named, owed, opened, over>>

LEMMA ClosesHow ==
  /\ ConnectFails \/ Closed => Quietly
  /\ Drop => Openly /\ rejected' = rejected /\ drops < MaxDrops /\ drops' = drops + 1
  /\ Refused => Openly /\ rejected' = TRUE /\ drops' = drops
<1>1. ConnectFails => Quietly
  BY DEF ConnectFails, Quietly
<1>2. Closed => Quietly
  BY DEF Closed, Quietly
<1>3. Drop => Openly /\ rejected' = rejected /\ drops < MaxDrops /\ drops' = drops + 1
  BY DEF Drop, Openly
<1>4. Refused => Openly /\ rejected' = TRUE /\ drops' = drops
  BY DEF Refused, Openly
<1> QED
  BY <1>1, <1>2, <1>3, <1>4

LEMMA ClosesTypes ==
  ASSUME TypeInv, ConnectFails \/ Drop \/ Closed \/ Refused
  PROVE  TypeInv'
<1>1. Goes /\ typing' \in BOOLEAN /\ (Stays \/ Fails \/ Retries \/ Ends)
  BY Closes, Refuses DEF TypeInv
<1>2. HookType'
  BY <1>1 DEF TypeInv, HookType, Goes, Stays, Fails, Retries, Ends
<1>3. TransportType'
  <2>1. attempts' \in 0..MaxReconnectAttempts /\ timer' \in BOOLEAN
    BY <1>1, Numbers DEF TypeInv, TransportType, Stays, Fails, Retries, Ends
  <2> QED
    BY <1>1, <2>1 DEF TypeInv, TransportType, Goes
<1>4. CASE Quietly
  <2>1. ServerType' /\ HistoryType'
    BY <1>4 DEF Quietly, TypeInv, ServerType, HistoryType, server, history
  <2>2. LinkInv'
    BY <1>1, <1>4 DEF Quietly, Goes, TypeInv, LinkInv, Asked, server, history
  <2> QED
    BY <1>2, <1>3, <2>1, <2>2 DEF TypeInv
<1>5. CASE Openly /\ drops' \in 0..MaxDrops /\ rejected' \in BOOLEAN
  <2>1. ServerType' /\ HistoryType'
    BY <1>5, LosingTypes DEF Openly
  <2>2. LinkInv'
    BY <1>1, <1>5, Losing, LostLinks DEF Openly, Goes, LinkInv
  <2> QED
    BY <1>2, <1>3, <2>1, <2>2 DEF TypeInv
<1>6. Drop => drops' \in 0..MaxDrops /\ rejected' \in BOOLEAN
  BY ClosesHow, Numbers DEF TypeInv, ServerType, HistoryType
<1>7. Refused => drops' \in 0..MaxDrops /\ rejected' \in BOOLEAN
  BY ClosesHow DEF TypeInv, ServerType
<1> QED
  BY <1>4, <1>5, <1>6, <1>7, ClosesHow

LEMMA OpensTypes ==
  ASSUME TypeInv, Open \/ Reconnect
  PROVE  TypeInv'
<1>1. CASE Open
  <2>1. up' \in Seq(Frame) /\ up' = pending /\ pending' = <<>> /\ pending' \in Seq(Frame)
    BY <1>1, ConcatEmptySeq DEF Open, TypeInv, TransportType, LinkInv, Flushed
  <2>2. HookType' /\ TransportType'
    BY <1>1, <2>1, Numbers DEF Open, TypeInv, HookType, TransportType
  <2>3. ServerType' /\ HistoryType'
    BY <1>1, <2>1 DEF Open, TypeInv, ServerType, HistoryType
  <2>4. LinkInv'
    BY <1>1, <2>1 DEF Open, TypeInv, LinkInv, Asked
  <2> QED
    BY <2>2, <2>3, <2>4 DEF TypeInv
<1>2. CASE Reconnect
  <2>1. HookType' /\ TransportType'
    BY <1>2 DEF Reconnect, TypeInv, HookType, TransportType
  <2>2. ServerType' /\ HistoryType'
    BY <1>2 DEF Reconnect, TypeInv, ServerType, HistoryType, server, history
  <2>3. LinkInv'
    BY <1>2 DEF Reconnect, TypeInv, LinkInv, Asked, server, history
  <2> QED
    BY <2>1, <2>2, <2>3 DEF TypeInv
<1> QED
  BY <1>1, <1>2

LEMMA DeliverIs ==
  ASSUME TypeInv, Meta \/ Token \/ Done \/ Error
  PROVE  /\ sock = "open" /\ down # <<>> /\ Head(down) \in Reply /\ Head(down) = down[1]
         /\ down' = Tail(down) /\ down' \in Seq(Reply)
         /\ Len(down) \in Nat \ {0} /\ Len(down') = Len(down) - 1
         /\ \A i \in 1..Len(down') : i + 1 \in 1..Len(down) /\ down'[i] = down[i + 1]
         /\ UNCHANGED <<mounted, status, asked, sock, attempts, timer, pending, valid,
                        up, serving, into, stage, sent, chats, gone, drops, rejected, cut,
                        taken, owed, opened, over, unsaved>>
<1>1. /\ sock = "open" /\ down # <<>> /\ down' = Tail(down)
      /\ UNCHANGED <<mounted, status, asked, sock, attempts, timer, pending, valid,
                     up, serving, into, stage, sent, chats, gone, drops, rejected, cut,
                     taken, owed, opened, over, unsaved>>
  BY DEF Meta, Token, Done, Error, Deliver
<1>2. down \in Seq(Reply)
  BY DEF TypeInv, ServerType
<1>3. /\ Head(down) \in Reply /\ down' \in Seq(Reply) /\ Len(down') = Len(down) - 1
      /\ \A i \in 1..Len(down') : down'[i] = down[i + 1]
  BY <1>1, <1>2, HeadTailProperties
<1>4. Len(down) \in Nat \ {0} /\ Head(down) = down[1]
  BY <1>1, <1>2, EmptySeq
<1>5. \A i \in 1..Len(down') : i + 1 \in 1..Len(down)
  BY <1>3, <1>4
<1> QED
  BY <1>1, <1>3, <1>4, <1>5

LEMMA FrameTypes ==
  ASSUME TypeInv, Meta \/ Token \/ Done \/ Error
  PROVE  TypeInv'
<1>1. Head(down).turn \in Turns /\ Head(down).chat \in 0..MaxTurns
  BY DeliverIs DEF Reply
<1>2. Meta => Head(down).chat \in Turns
  BY <1>1, DeliverIs, Numbers DEF Meta, Deliver, TypeInv, LinkInv
<1>3. HookType'
  <2>1. mounted' \in BOOLEAN /\ asked' \in 0..MaxTurns
        /\ status' \in {"connecting", "connected", "disconnected", "error"}
    BY DeliverIs DEF TypeInv, HookType
  <2>2. typing' \in BOOLEAN
    BY DEF TypeInv, HookType, Meta, Token, Done, Error
  <2>3. bubble' \in [Turns -> {"none", "streaming", "complete", "error"}]
    BY <1>1 DEF TypeInv, HookType, Meta, Token, Done, Error
  <2>4. text' \in [Turns -> Seq(Turns)]
    <3>1. CASE Token /\ active # 0
      <4>1. active \in Turns /\ text \in [Turns -> Seq(Turns)]
        BY <3>1, Numbers DEF TypeInv, TransportType, HookType
      <4>2. Append(text[active], Head(down).turn) \in Seq(Turns)
        BY <1>1, <4>1, AppendProperties
      <4>3. text' = [text EXCEPT ![active] = Append(text[active], Head(down).turn)]
        BY <3>1 DEF Token
      <4> QED
        BY <4>1, <4>2, <4>3
    <3>2. CASE ~(Token /\ active # 0)
      BY <3>2 DEF TypeInv, HookType, Meta, Token, Done, Error
    <3> QED
      BY <3>1, <3>2
  <2> QED
    BY <2>1, <2>2, <2>3, <2>4 DEF HookType
<1>4. TransportType'
  <2>1. active' \in 0..MaxTurns /\ chat' \in 0..MaxTurns
    BY <1>1, Numbers DEF TypeInv, TransportType, Meta, Token, Done, Error, NoneActive
  <2> QED
    BY <2>1, DeliverIs DEF TypeInv, TransportType
<1>5. ServerType'
  BY DeliverIs DEF TypeInv, ServerType
<1>6. HistoryType'
  <2>1. named' \subseteq Turns
    BY <1>2 DEF TypeInv, HistoryType, Meta, Token, Done, Error
  <2> QED
    BY <2>1, DeliverIs DEF TypeInv, HistoryType
<1>7. LinkInv'
  BY DeliverIs DEF TypeInv, LinkInv, Asked
<1> QED
  BY <1>3, <1>4, <1>5, <1>6, <1>7 DEF TypeInv

\* The server sends one more frame.
LEMMA AppendIs ==
  ASSUME TypeInv, NEW m \in Reply, down' = Append(down, m)
  PROVE  /\ down' \in Seq(Reply) /\ down' # <<>>
         /\ Len(down) \in Nat /\ Len(down') = Len(down) + 1
         /\ down'[Len(down')] = m
         /\ \A i \in 1..Len(down) : down'[i] = down[i]
         /\ \A i \in 1..Len(down') : i = Len(down') \/ i \in 1..Len(down)
<1>1. down \in Seq(Reply)
  BY DEF TypeInv, ServerType
<1>2. Len(down) \in Nat
  BY <1>1
<1> QED
  BY <1>1, <1>2, AppendProperties

\* The next question, and the answer that is given to it at once.
LEMMA TakeIs ==
  ASSUME TypeInv, Take
  PROVE  /\ sock = "open" /\ serving = 0 /\ up # <<>>
         /\ up' = Tail(up) /\ up' \in Seq(Frame) /\ up[1] \in Frame
         /\ Len(up) \in Nat \ {0} /\ Len(up') = Len(up) - 1
         /\ \A i \in 1..Len(up') : i + 1 \in 1..Len(up) /\ up'[i] = up[i + 1]
         /\ taken' = Append(taken, up[1]) /\ taken' \in Seq(Frame) /\ taken' # <<>>
         /\ Len(taken) \in Nat /\ Len(taken') = Len(taken) + 1
         /\ taken'[Len(taken')] = up[1]
         /\ \A i \in 1..Len(taken) : taken'[i] = taken[i]
         /\ \A i \in 1..Len(taken') : i = Len(taken') \/ i \in 1..Len(taken)
         /\ \E m \in Reply :
              /\ down' = Append(down, m) /\ m.turn = up[1].turn
              /\ \/ /\ m.event = "meta" /\ m.chat = ChatFor(up[1]) /\ m.chat # 0
                    /\ serving' = m.turn /\ into' = m.chat /\ stage' = "answer"
                 \/ m.event = "error" /\ serving' = 0 /\ into' = 0 /\ stage' = "wait"
         /\ stage = "wait"
         /\ UNCHANGED <<hook, transport, valid, sent, chats, gone, drops, rejected, cut, named,
                        owed, opened, over, unsaved>>
<1>1. up \in Seq(Frame) /\ taken \in Seq(Frame)
  BY DEF TypeInv, ServerType, HistoryType
<1>2. /\ sock = "open" /\ serving = 0 /\ into = 0 /\ stage = "wait"
      /\ up # <<>> /\ up' = Tail(up)
      /\ taken' = Append(taken, Head(up))
      /\ UNCHANGED <<hook, transport, valid, sent, chats, gone, drops, rejected, cut, named,
                     owed, opened, over, unsaved>>
  BY DEF Take, Serve, TypeInv, LinkInv
<1>3. /\ Head(up) = up[1] /\ up[1] \in Frame /\ up' \in Seq(Frame)
      /\ Len(up) \in Nat \ {0} /\ Len(up') = Len(up) - 1
      /\ \A i \in 1..Len(up') : i + 1 \in 1..Len(up) /\ up'[i] = up[i + 1]
  <2>1. /\ Head(up) \in Frame /\ up' \in Seq(Frame) /\ Len(up') = Len(up) - 1
        /\ \A i \in 1..Len(up') : up'[i] = up[i + 1]
    BY <1>1, <1>2, HeadTailProperties
  <2>2. Len(up) \in Nat \ {0} /\ Head(up) = up[1]
    BY <1>1, <1>2, EmptySeq
  <2> QED
    BY <2>1, <2>2
<1>4. /\ taken' \in Seq(Frame) /\ taken' # <<>>
      /\ Len(taken) \in Nat /\ Len(taken') = Len(taken) + 1
      /\ taken'[Len(taken')] = up[1]
      /\ \A i \in 1..Len(taken) : taken'[i] = taken[i]
      /\ \A i \in 1..Len(taken') : i = Len(taken') \/ i \in 1..Len(taken)
  <2>1. Len(taken) \in Nat
    BY <1>1
  <2> QED
    BY <1>1, <1>2, <1>3, <2>1, AppendProperties
<1>5. \E m \in Reply :
        /\ down' = Append(down, m) /\ m.turn = up[1].turn
        /\ \/ /\ m.event = "meta" /\ m.chat = ChatFor(up[1]) /\ m.chat # 0
              /\ serving' = m.turn /\ into' = m.chat /\ stage' = "answer"
           \/ m.event = "error" /\ serving' = 0 /\ into' = 0 /\ stage' = "wait"
  <2>1. up[1].turn \in Turns /\ ChatFor(up[1]) \in Turns
    BY <1>3, ChatForIs DEF Frame
  <2> DEFINE m(e, c) == [event |-> e, turn |-> up[1].turn, chat |-> c]
  <2>2. m("meta", ChatFor(up[1])) \in Reply /\ m("error", 0) \in Reply
    BY <2>1, Numbers DEF Reply
  <2>3. CASE down' = Append(down, m("meta", ChatFor(up[1])))
             /\ serving' = up[1].turn /\ into' = ChatFor(up[1]) /\ stage' = "answer"
    BY <2>1, <2>2, <2>3, Numbers
  <2>4. CASE down' = Append(down, m("error", 0)) /\ UNCHANGED <<serving, into, stage>>
    BY <1>2, <2>2, <2>4
  <2> QED
    BY <1>3, <2>3, <2>4 DEF Take
<1> QED
  BY <1>2, <1>3, <1>4, <1>5

\* A frame of the answer under way: a chunk, its end, or an error instead of either or
\* instead of the commit.
LEMMA SendIs ==
  ASSUME TypeInv, SendToken \/ SendDone \/ SendError
  PROVE  /\ sock = "open" /\ serving \in Turns /\ into \in Turns
         /\ \E m \in Reply :
              /\ down' = Append(down, m) /\ m.turn = serving
              /\ \/ /\ m.event = "token" /\ sent[serving] < MaxTokens
                    /\ sent' = [sent EXCEPT ![serving] = sent[serving] + 1]
                    /\ stage = "answer"
                    /\ UNCHANGED <<serving, into, stage, unsaved>>
                 \/ /\ m.event = "done" /\ stage = "answer" /\ stage' = "commit"
                    /\ UNCHANGED <<serving, into, sent, unsaved>>
                 \/ /\ m.event = "error" /\ stage \in {"answer", "commit"}
                    /\ serving' = 0 /\ into' = 0 /\ stage' = "wait" /\ sent' = sent
                    /\ stage = "commit" => unsaved' = unsaved \cup ({into} \ chats)
                    /\ stage = "answer" => unsaved' = unsaved
         /\ unsaved' \subseteq Turns
         /\ UNCHANGED <<hook, transport, valid, up, chats, gone, drops, rejected, cut, taken,
                        named, owed, opened, over>>
<1>1. serving \in Turns /\ into \in Turns
  <2>1. serving # 0 /\ into # 0
    BY DEF TypeInv, LinkInv, SendToken, SendDone, SendError
  <2> QED
    BY <2>1, Numbers DEF TypeInv, ServerType
<1>2. sock = "open" /\ UNCHANGED <<hook, transport, valid, up, chats, gone, drops, rejected,
                                  cut, taken, named, owed, opened, over>>
  BY DEF SendToken, SendDone, SendError, Answer, Serve
<1> DEFINE m(e) == [event |-> e, turn |-> serving, chat |-> 0]
<1>3. \A e \in {"token", "done", "error"} : m(e) \in Reply
  BY <1>1, Numbers DEF Reply
<1>4. unsaved' \subseteq Turns
  BY <1>1 DEF SendToken, SendDone, SendError, TypeInv, HistoryType
<1>5. CASE SendToken
  BY <1>1, <1>2, <1>3, <1>4, <1>5 DEF SendToken, Answer
<1>6. CASE SendDone
  BY <1>1, <1>2, <1>3, <1>4, <1>6 DEF SendDone, Answer
<1>7. CASE SendError
  BY <1>1, <1>2, <1>3, <1>4, <1>7 DEF SendError, Answer
<1> QED
  BY <1>5, <1>6, <1>7

\* A step of a loop whose socket is lost: of one of them, which reads a question or not.
LEMMA LateIs ==
  ASSUME TypeInv, LateLoop
  PROVE  /\ UNCHANGED <<hook, transport, valid, up, down, serving, into, stage, sent, drops,
                        rejected, cut, named, owed, opened, over, unsaved>>
         /\ chats \subseteq chats' /\ chats' \subseteq Turns
         /\ \A loop \in gone' : loop \in Abandoned /\ Busy(loop)
         /\ \E loop \in gone, q \in Seq(Frame), new \in SUBSET Abandoned :
              /\ gone' = (gone \ {loop}) \cup new
              /\ \A l, m \in new : l = m /\ l.queue = q
              /\ \/ taken' = taken /\ q = loop.queue
                 \/ /\ loop.queue # <<>> /\ q = Tail(loop.queue)
                    /\ taken' = Append(taken, Head(loop.queue))
<1>1. PICK loop \in gone : AuthenticateLate(loop) \/ TakeLate(loop) \/ EndLate(loop)
  BY DEF LateLoop
<1>2. /\ loop \in Abandoned /\ Busy(loop) /\ loop.queue \in Seq(Frame)
      /\ loop.into \in 0..MaxTurns
      /\ \A l \in gone : l \in Abandoned /\ Busy(l)
  BY <1>1 DEF TypeInv, ServerType, LinkInv, Abandoned
<1>3. PICK at \in {"auth", "wait", "answer", "refused"}, c \in 0..MaxTurns, q \in Seq(Frame) :
        /\ Proceeds(loop, at, c, q) /\ (at = "answer" => c # 0)
        /\ \/ taken' = taken /\ q = loop.queue
           \/ /\ loop.queue # <<>> /\ q = Tail(loop.queue)
              /\ taken' = Append(taken, Head(loop.queue))
  <2>1. CASE AuthenticateLate(loop)
    <3>1. Proceeds(loop, IF valid THEN "wait" ELSE "refused", 0, loop.queue) /\ taken' = taken
      BY <2>1 DEF AuthenticateLate
    <3> DEFINE at == IF valid THEN "wait" ELSE "refused"
    <3>2. at \in {"auth", "wait", "answer", "refused"} /\ at # "answer"
      OBVIOUS
    <3>3. Proceeds(loop, at, 0, loop.queue)
      BY <3>1
    <3> HIDE DEF at
    <3> QED
      BY <1>2, <3>1, <3>2, <3>3, Numbers
  <2>2. CASE EndLate(loop)
    <3>1. Proceeds(loop, "wait", 0, loop.queue) /\ taken' = taken
      BY <2>2 DEF EndLate
    <3> QED
      BY <1>2, <3>1, Numbers
  <2>3. CASE TakeLate(loop)
    <3>1. /\ loop.stage = "wait" /\ taken' = Append(taken, Head(loop.queue))
          /\ \/ Proceeds(loop, "answer", ChatFor(Head(loop.queue)), Tail(loop.queue))
             \/ Proceeds(loop, "wait", 0, Tail(loop.queue))
      BY <2>3 DEF TakeLate
    <3>2. loop.queue # <<>>
      BY <1>2, <3>1 DEF Busy
    <3>3. Tail(loop.queue) \in Seq(Frame) /\ Head(loop.queue) \in Frame
      BY <1>2, <3>2, HeadTailProperties
    <3>4. ChatFor(Head(loop.queue)) \in 0..MaxTurns /\ ChatFor(Head(loop.queue)) # 0
      BY <3>3, ChatForIs, Numbers
    <3> QED
      BY <3>1, <3>2, <3>3, <3>4, Numbers
  <2> QED
    BY <1>1, <2>1, <2>2, <2>3
<1>4. /\ gone' = (gone \ {loop}) \cup Leaves(at, c, q)
      /\ UNCHANGED <<hook, transport, valid, up, down, serving, into, stage, sent, drops,
                     rejected, cut, named, owed, opened, over, unsaved>>
  BY <1>3 DEF Proceeds, Serve
<1>5. \A l \in Leaves(at, c, q) : l \in Abandoned /\ Busy(l) /\ l.queue = q
  BY <1>3, LeavesIs
<1>6. chats \subseteq chats' /\ chats' \subseteq Turns
  <2>1. loop.stage = "answer" => loop.into \in Turns
    BY <1>2, Numbers DEF Busy
  <2> QED
    BY <1>1, <2>1 DEF AuthenticateLate, TakeLate, EndLate, TypeInv, ServerType
<1>7. /\ Leaves(at, c, q) \in SUBSET Abandoned
      /\ \A l, m \in Leaves(at, c, q) : l = m /\ l.queue = q
  BY <1>5 DEF Leaves
<1>8. \A l \in gone' : l \in Abandoned /\ Busy(l)
  BY <1>2, <1>4, <1>5
<1> QED
  BY <1>3, <1>4, <1>6, <1>7, <1>8

LEMMA LoopTypes ==
  ASSUME TypeInv, Expire \/ Loop
  PROVE  TypeInv'
<1>1. CASE Expire \/ Authenticate
  <2>1. UNCHANGED <<hook, transport, up, down, serving, into, sent, chats, gone, drops, history>>
    BY <1>1 DEF Expire, Authenticate, Serve
  <2>2. HookType' /\ TransportType' /\ HistoryType'
    BY <2>1 DEF TypeInv, HookType, TransportType, HistoryType, hook, transport, history
  <2>3. ServerType'
    BY <1>1, <2>1 DEF Expire, Authenticate, TypeInv, ServerType
  <2>4. LinkInv'
    BY <1>1, <2>1 DEF Expire, Authenticate, TypeInv, LinkInv, Asked, transport, history
  <2> QED
    BY <2>2, <2>3, <2>4 DEF TypeInv
<1>2. CASE Take
  <2>1. PICK m \in Reply :
          /\ down' = Append(down, m) /\ m.turn = up[1].turn
          /\ \/ /\ m.event = "meta" /\ m.chat # 0
                /\ serving' = m.turn /\ into' = m.chat /\ stage' = "answer"
             \/ m.event = "error" /\ serving' = 0 /\ into' = 0 /\ stage' = "wait"
    BY <1>2, TakeIs
  <2>2. HookType' /\ TransportType'
    BY <1>2, TakeIs DEF TypeInv, HookType, TransportType, hook, transport
  <2>3. HistoryType'
    BY <1>2, TakeIs DEF TypeInv, HistoryType
  <2>4. m.turn \in Turns /\ m.chat \in 0..MaxTurns
    BY DEF Reply
  <2>5. ServerType'
    BY <1>2, <2>1, <2>4, TakeIs, AppendIs, Numbers DEF TypeInv, ServerType
  <2>6. LinkInv'
    <3>1. \A i \in 1..Len(down') : down'[i].event = "meta" => down'[i].chat # 0
      BY <2>1, AppendIs DEF TypeInv, LinkInv
    <3>2. /\ serving' # 0 <=> stage' \in {"answer", "commit"}
          /\ serving' # 0 <=> into' # 0
      BY <2>1, <2>4, Numbers
    <3>3. serving' # 0 => Asked(serving)'
      <4>1. Len(taken') \in 1..Len(taken')
        BY <1>2, TakeIs
      <4> QED
        BY <1>2, <2>1, <4>1, TakeIs DEF Asked
    <3> QED
      BY <1>2, <3>1, <3>2, <3>3, TakeIs DEF TypeInv, LinkInv, transport
  <2> QED
    BY <2>2, <2>3, <2>5, <2>6 DEF TypeInv
<1>3. CASE SendToken \/ SendDone \/ SendError
  <2>1. PICK m \in Reply :
          /\ down' = Append(down, m) /\ m.turn = serving
          /\ \/ /\ m.event = "token" /\ sent[serving] < MaxTokens
                /\ sent' = [sent EXCEPT ![serving] = sent[serving] + 1]
                /\ UNCHANGED <<serving, into, stage>>
             \/ /\ m.event = "done" /\ stage = "answer" /\ stage' = "commit"
                /\ UNCHANGED <<serving, into, sent>>
             \/ /\ m.event = "error"
                /\ serving' = 0 /\ into' = 0 /\ stage' = "wait" /\ sent' = sent
    BY <1>3, SendIs
  <2>2. HookType' /\ TransportType'
    BY <1>3, SendIs DEF TypeInv, HookType, TransportType, hook, transport
  <2>3. HistoryType'
    BY <1>3, SendIs DEF TypeInv, HistoryType
  <2>4. sent' \in [Turns -> 0..MaxTokens]
    BY <1>3, <2>1, SendIs, Numbers DEF TypeInv, ServerType
  <2>5. ServerType'
    BY <1>3, <2>1, <2>4, SendIs, AppendIs, Numbers DEF TypeInv, ServerType
  <2>6. LinkInv'
    <3>1. \A i \in 1..Len(down') : down'[i].event = "meta" => down'[i].chat # 0
      BY <2>1, AppendIs DEF TypeInv, LinkInv
    <3>2. \A t : Asked(t)' <=> Asked(t)
      BY <1>3, SendIs DEF Asked
    <3>3. /\ serving' # 0 <=> stage' \in {"answer", "commit"}
          /\ serving' # 0 <=> into' # 0
          /\ serving' # 0 => Asked(serving')
      BY <2>1 DEF TypeInv, LinkInv
    <3> QED
      BY <1>3, <3>1, <3>2, <3>3, SendIs DEF TypeInv, LinkInv, transport
  <2> QED
    BY <2>2, <2>3, <2>5, <2>6 DEF TypeInv
<1>4. CASE Commit
  <2>1. /\ UNCHANGED <<hook, transport, valid, up, down, sent, gone, drops, history>>
        /\ sock = "open" /\ stage = "commit" /\ chats' = chats \cup {into}
        /\ serving' = 0 /\ into' = 0 /\ stage' = "wait"
    BY <1>4 DEF Commit, Serve
  <2>2. HookType' /\ TransportType' /\ HistoryType'
    BY <2>1 DEF TypeInv, HookType, TransportType, HistoryType, hook, transport, history
  <2>3. into \in Turns
    BY <2>1, Numbers DEF TypeInv, ServerType, LinkInv
  <2>4. ServerType'
    BY <2>1, <2>3, Numbers DEF TypeInv, ServerType
  <2>5. LinkInv'
    BY <2>1 DEF TypeInv, LinkInv, transport
  <2> QED
    BY <2>2, <2>4, <2>5 DEF TypeInv
<1> QED
  BY <1>1, <1>2, <1>3, <1>4 DEF Loop

LEMMA LateReads ==
  ASSUME TypeInv, LateLoop
  PROVE  taken' \in Seq(Frame) /\ \A t : Asked(t) => Asked(t)'
<1>1. PICK loop \in gone :
        \/ taken' = taken
        \/ loop.queue # <<>> /\ taken' = Append(taken, Head(loop.queue))
  BY LateIs
<1>2. taken \in Seq(Frame) /\ loop.queue \in Seq(Frame)
  BY <1>1 DEF TypeInv, ServerType, HistoryType, Abandoned
<1>3. CASE taken' = taken
  BY <1>2, <1>3 DEF Asked
<1>4. CASE loop.queue # <<>> /\ taken' = Append(taken, Head(loop.queue))
  <2>1. Head(loop.queue) \in Frame
    BY <1>2, <1>4, HeadTailProperties
  <2>2. /\ taken' \in Seq(Frame) /\ Len(taken') = Len(taken) + 1 /\ Len(taken) \in Nat
        /\ \A i \in 1..Len(taken) : taken'[i] = taken[i]
    BY <1>2, <1>4, <2>1, AppendProperties
  <2>3. \A i \in 1..Len(taken) : i \in 1..Len(taken')
    BY <2>2
  <2> QED
    BY <2>2, <2>3 DEF Asked
<1> QED
  BY <1>1, <1>3, <1>4

LEMMA LateTypes ==
  ASSUME TypeInv, LateLoop
  PROVE  TypeInv'
<1>1. taken' \in Seq(Frame) /\ \A t : Asked(t) => Asked(t)'
  BY LateReads
<1>2. HookType' /\ TransportType'
  BY LateIs DEF TypeInv, HookType, TransportType, hook, transport
<1>3. ServerType'
  <2>1. gone' \subseteq Abandoned
    BY LateIs
  <2> QED
    BY <2>1, LateIs DEF TypeInv, ServerType
<1>4. HistoryType'
  BY <1>1, LateIs DEF TypeInv, HistoryType
<1>5. LinkInv'
  <2>1. \A loop \in gone' : Busy(loop)
    BY LateIs
  <2>2. UNCHANGED <<up, down, serving, into, stage>> /\ UNCHANGED transport
    BY LateIs
  <2>3. serving' # 0 => Asked(serving)'
    BY <1>1, <2>2 DEF TypeInv, LinkInv
  <2> QED
    BY <2>1, <2>2, <2>3 DEF TypeInv, LinkInv, transport
<1> QED
  BY <1>2, <1>3, <1>4, <1>5 DEF TypeInv

LEMMA NextTypes == TypeInv /\ [Next]_vars => TypeInv'
<1> SUFFICES ASSUME TypeInv, [Next]_vars PROVE TypeInv'
  OBVIOUS
<1>1. CASE UNCHANGED vars
  <2>1. HookType' /\ TransportType'
    BY <1>1 DEF TypeInv, HookType, TransportType, vars, hook, transport
  <2>2. ServerType' /\ HistoryType' /\ LinkInv'
    BY <1>1 DEF TypeInv, ServerType, HistoryType, LinkInv, Asked, vars, transport, server, history
  <2> QED
    BY <2>1, <2>2 DEF TypeInv
<1> QED
  BY <1>1, SendMessageTypes, UserTypes, ClosesTypes, OpensTypes, FrameTypes, LoopTypes, LateTypes
     DEF Next, Event, HandleFrame

\* The hook's state, the transport's fields (WebSocketTransport.ts) and the frames on the
\* way keep their types; LinkInv is what makes this inductive.
THEOREM TypeCorrect == Spec => []TypeOK
<1>1. Spec => []TypeInv
  BY TypeInvInit, NextTypes, PTL DEF Spec
<1> QED
  BY <1>1, Types, PTL

-----------------------------------------------------------------------------
(* The status, and what may still open a socket *)

LEMMA StatusKeeps == TypeInv /\ StatusInv /\ [Next]_vars => StatusInv'
<1> SUFFICES ASSUME TypeInv, StatusInv, [Next]_vars PROVE StatusInv'
  OBVIOUS
<1>1. CASE UNCHANGED <<mounted, status, sock, timer, rejected>>
  BY <1>1 DEF StatusInv, StatusTruthful
<1>2. CASE StopGeneration
  BY <1>2 DEF StopGeneration, StatusInv, StatusTruthful, TypeInv, LinkInv
<1>3. CASE Unmount
  BY <1>3 DEF Unmount, TimerCleared, StatusInv, StatusTruthful, TypeInv, TransportType
<1>4. CASE Open
  BY <1>4 DEF Open, StatusInv, StatusTruthful, TypeInv, LinkInv
<1>5. CASE Reconnect
  BY <1>5 DEF Reconnect, history, StatusInv, StatusTruthful, TypeInv, LinkInv
<1>6. CASE ConnectFails \/ Drop \/ Closed
  <2>1. sock # "closed" /\ rejected' = rejected
    BY <1>6, ClosesHow DEF Quietly, Openly, history
  <2>2. Goes /\ (Stays \/ Fails \/ Retries)
    BY <1>6, Closes DEF TypeInv
  <2> QED
    BY <2>1, <2>2 DEF Goes, Stays, Fails, Retries, StatusInv, StatusTruthful, TypeInv, LinkInv
<1>7. CASE Refused
  <2>1. Goes /\ Ends /\ sock = "open"
    BY <1>7, Refuses, ClosesHow DEF Openly
  <2> QED
    BY <2>1 DEF Goes, Ends, StatusInv, StatusTruthful, TypeInv, LinkInv
<1>8. CASE SendMessage
  BY <1>1, <1>8 DEF SendMessage
<1>9. CASE HandleFrame
  BY <1>1, <1>9, DeliverIs DEF HandleFrame
<1>10. CASE Expire \/ Loop \/ LateLoop
  <2>1. UNCHANGED <<hook, transport, rejected>>
    BY <1>10, TakeIs, SendIs, LateIs DEF Expire, Loop, Authenticate, Commit, Serve, history
  <2> QED
    BY <1>1, <2>1 DEF hook, transport
<1>11. CASE UNCHANGED vars
  BY <1>1, <1>11 DEF vars, hook, transport, history
<1> QED
  BY <1>2, <1>3, <1>4, <1>5, <1>6, <1>7, <1>8, <1>9, <1>10, <1>11 DEF Next, Event

LEMMA StatusInvAlways == Spec => [](TypeInv /\ StatusInv)
<1>1. Init => TypeInv /\ StatusInv
  BY TypeInvInit DEF Init, StatusInv, StatusTruthful
<1> QED
  BY <1>1, NextTypes, StatusKeeps, PTL DEF Spec

\* The header's status is the transport's, however opens, closes, errors, timers and
\* refusals follow one another (WebSocketTransport.ts, onopen to scheduleReconnect).
THEOREM StatusAlwaysTruthful == Spec => []StatusTruthful
<1>1. StatusInv => StatusTruthful
  BY DEF StatusInv
<1> QED
  BY <1>1, StatusInvAlways, PTL

\* No socket is opened for a widget that is gone or was refused (disconnect, and the
\* close code 4401).
THEOREM NeverReconnectsWhenOver == Spec => NoReconnectWhenOver
<1>1. TypeInv /\ StatusInv /\ [Next]_vars =>
        [~mounted \/ rejected => sock' # "connecting" \/ sock = "connecting"]_vars
  <2> SUFFICES ASSUME TypeInv, StatusInv, Next, ~mounted \/ rejected, sock' = "connecting"
               PROVE  sock = "connecting"
    BY DEF vars
  <2>1. ~timer
    BY DEF StatusInv
  <2>2. CASE ConnectFails \/ Drop \/ Closed \/ Refused
    BY <2>2, Closes, Refuses DEF TypeInv, Goes
  <2>3. CASE HandleFrame
    BY <2>3, DeliverIs DEF HandleFrame
  <2>4. CASE Expire \/ Loop \/ LateLoop
    BY <2>4, TakeIs, SendIs, LateIs DEF Expire, Loop, Authenticate, Commit, Serve, transport
  <2>5. CASE SendMessage \/ StopGeneration \/ Unmount \/ Open \/ Reconnect
    BY <2>1, <2>5 DEF SendMessage, StopGeneration, Unmount, Open, Reconnect
  <2> QED
    BY <2>2, <2>3, <2>4, <2>5 DEF Next, Event
<1> QED
  BY <1>1, StatusInvAlways, PTL DEF Spec, NoReconnectWhenOver

-----------------------------------------------------------------------------
(* The order of the questions *)

Sorted(s) == \A i, k \in 1..Len(s) : i < k => s[i].turn < s[k].turn
Before(s, t) == \A i \in 1..Len(s), k \in 1..Len(t) : s[i].turn < t[k].turn
Within(s, n) == \A i \in 1..Len(s) : s[i].turn <= n

\* f may be followed by g: it was asked before it, or g went over an earlier socket.
MayFollow(f, g) == f.turn < g.turn \/ over[g.turn] \in 1..(over[f.turn] - 1)
InTurn(s) == \A i, k \in 1..Len(s) : i < k => MayFollow(s[i], s[k])
Apart(s, t) == \A i \in 1..Len(s), k \in 1..Len(t) : MayFollow(s[i], t[k])

\* What is left to a loop is sorted and older than what is on the way and queued; it
\* went over a socket that is not open any more.
LeftInOrder(queue) ==
  /\ Sorted(queue) /\ Before(queue, up) /\ Before(queue, pending) /\ Within(queue, asked)
  /\ Apart(taken, queue)
  /\ \A k \in 1..Len(queue) :
       over[queue[k].turn] \in 1..opened /\ (sock = "open" => over[queue[k].turn] # opened)

\* What was read is in turn; what is on the way over the open socket and what is queued
\* is sorted and newer, and so is what is left to each of the other loops.
OrderInv ==
  /\ InTurn(taken) /\ Sorted(up) /\ Sorted(pending)
  /\ Before(taken, up) /\ Before(taken, pending) /\ Before(up, pending)
  /\ Within(taken, asked) /\ Within(up, asked) /\ Within(pending, asked)
  /\ \A i \in 1..Len(up) : over[up[i].turn] = opened
  /\ sock = "open" => opened # 0
  /\ \A l \in gone : LeftInOrder(l.queue)
  /\ \A l, m \in gone : l # m => Apart(l.queue, m.queue)

LEMMA Empty ==
  /\ Sorted(<<>>) /\ (\A n : Within(<<>>, n)) /\ \A s : Before(s, <<>>) /\ Before(<<>>, s)
BY DEF Sorted, Within, Before

LEMMA FrameTurns == \A s \in Seq(Frame) : \A i \in 1..Len(s) : s[i].turn \in Nat
<1>1. \A f \in Frame : f.turn \in Nat
  BY TurnsAssumption DEF Frame, Turns
<1>2. \A s \in Seq(Frame) : \A i \in 1..Len(s) : s[i] \in Frame
  BY ElementOfSeq
<1> QED
  BY <1>1, <1>2

LEMMA InOrder ==
  ASSUME NEW s \in Seq(Frame), NEW t \in Seq(Frame), InTurn(s), InTurn(t), Apart(s, t)
  PROVE  s \o t \in Seq(Frame) /\ InTurn(s \o t)
<1>1. /\ s \o t \in Seq(Frame) /\ Len(s \o t) = Len(s) + Len(t)
      /\ Len(s) \in Nat /\ Len(t) \in Nat
      /\ \A i \in 1..(Len(s) + Len(t)) :
           (s \o t)[i] = IF i <= Len(s) THEN s[i] ELSE t[i - Len(s)]
  BY ConcatProperties
<1>2. ASSUME NEW i \in 1..Len(s \o t), NEW k \in 1..Len(s \o t), i < k
      PROVE  MayFollow((s \o t)[i], (s \o t)[k])
  <2>1. CASE k <= Len(s)
    <3>1. i \in 1..Len(s) /\ k \in 1..Len(s)
      BY <1>1, <1>2, <2>1
    <3> QED
      BY <1>1, <1>2, <3>1 DEF InTurn
  <2>2. CASE i <= Len(s) /\ ~(k <= Len(s))
    <3>1. i \in 1..Len(s) /\ k - Len(s) \in 1..Len(t)
      BY <1>1, <1>2, <2>2
    <3> QED
      BY <1>1, <1>2, <2>2, <3>1 DEF Apart
  <2>3. CASE ~(i <= Len(s))
    <3>1. /\ i - Len(s) \in 1..Len(t) /\ k - Len(s) \in 1..Len(t)
          /\ i - Len(s) < k - Len(s) /\ ~(k <= Len(s))
      BY <1>1, <1>2, <2>3
    <3> QED
      BY <1>1, <1>2, <2>3, <3>1 DEF InTurn
  <2> QED
    BY <2>1, <2>2, <2>3
<1> QED
  BY <1>1, <1>2 DEF InTurn

\* A question newer than all goes to the end.
LEMMA NewestLast ==
  ASSUME NEW n \in Nat, NEW s \in Seq(Frame), NEW f \in Frame, f.turn = n + 1,
         Sorted(s), Within(s, n)
  PROVE  /\ Append(s, f) \in Seq(Frame) /\ Sorted(Append(s, f))
         /\ Within(Append(s, f), n + 1)
         /\ \A r \in Seq(Frame) : Within(r, n) => Before(r, Append(s, f)) \/ ~Before(r, s)
<1> DEFINE t == Append(s, f)
<1>1. /\ t \in Seq(Frame) /\ Len(t) = Len(s) + 1 /\ Len(s) \in Nat /\ t[Len(s) + 1] = f
      /\ \A i \in 1..Len(s) : t[i] = s[i]
  BY AppendProperties
<1>2. \A i \in 1..Len(t) : i = Len(s) + 1 \/ i \in 1..Len(s)
  BY <1>1
<1>3. \A i \in 1..Len(s) : s[i].turn \in Nat /\ s[i].turn <= n
  BY FrameTurns DEF Within
<1> HIDE DEF t
<1>4. Sorted(t)
  BY SMTT(60), <1>1, <1>2, <1>3 DEF Sorted
<1>5. Within(t, n + 1)
  BY <1>1, <1>2, <1>3 DEF Within
<1>6. ASSUME NEW r \in Seq(Frame), Within(r, n), Before(r, s)
      PROVE  Before(r, t)
  <2>1. \A i \in 1..Len(r) : r[i].turn \in Nat /\ r[i].turn <= n
    BY <1>6, FrameTurns DEF Within
  <2> QED
    BY <1>1, <1>2, <1>6, <2>1 DEF Before
<1> QED
  BY <1>1, <1>4, <1>5, <1>6 DEF t

LEMMA StillWithin ==
  ASSUME NEW n \in Nat, NEW s \in Seq(Frame), Within(s, n)
  PROVE  Within(s, n + 1)
<1>1. \A i \in 1..Len(s) : s[i].turn \in Nat
  BY FrameTurns
<1> QED
  BY <1>1 DEF Within

\* Nothing of the order changes, but that the open socket may have gone.
LEMMA OrderStands ==
  ASSUME OrderInv, UNCHANGED <<asked, taken, up, pending, gone, opened, over>>,
         sock' = "open" => sock = "open"
  PROVE  OrderInv'
<1>1. \A f, g : MayFollow(f, g)' <=> MayFollow(f, g)
  BY DEF MayFollow
<1>2. \A s, t : (Apart(s, t)' <=> Apart(s, t)) /\ (InTurn(s)' <=> InTurn(s))
  BY <1>1 DEF Apart, InTurn
<1>3. ASSUME NEW l \in gone PROVE LeftInOrder(l.queue)'
  <2>1. LeftInOrder(l.queue)
    BY <1>3 DEF OrderInv
  <2> QED
    BY <1>2, <2>1 DEF LeftInOrder
<1> QED
  BY <1>2, <1>3 DEF OrderInv

\* The frames of the loops, and what is known of them.
LEMMA LoopsAre ==
  ASSUME TypeInv
  PROVE  /\ taken \in Seq(Frame) /\ up \in Seq(Frame) /\ pending \in Seq(Frame)
         /\ \A l \in gone : l.queue \in Seq(Frame)
         /\ asked \in Nat /\ opened \in Nat /\ over \in [Turns -> Nat]
<1>1. \A l \in Abandoned : l.queue \in Seq(Frame)
  BY DEF Abandoned
<1> QED
  BY <1>1, TurnsAssumption
     DEF TypeInv, HookType, TransportType, ServerType, HistoryType

LEMMA AskingKeepsOrder ==
  ASSUME TypeInv, OrderInv, SendMessage
  PROVE  OrderInv'
<1> DEFINE f == [turn |-> asked + 1, chat |-> chat]
<1>1. f \in Frame /\ f.turn = asked + 1 /\ asked + 1 \in Turns
  <2>1. asked \in 0..MaxTurns /\ chat \in 0..MaxTurns
    BY DEF TypeInv, HookType, TransportType
  <2> QED
    BY <2>1, Numbers DEF SendMessage, Frame
<1>2. /\ asked' = asked + 1 /\ UNCHANGED <<taken, gone, opened, sock>>
      /\ \/ /\ sock = "open" /\ up' = Append(up, f) /\ pending' = pending
            /\ over' = [over EXCEPT ![asked + 1] = opened]
         \/ /\ sock # "open" /\ up' = up /\ pending' = Append(pending, f)
            /\ over' = over
  BY DEF SendMessage
<1> HIDE DEF f
<1>3. \A x \in Turns : x # asked + 1 => over'[x] = over[x]
  BY <1>2, LoopsAre
<1>4. ASSUME NEW s \in Seq(Frame), Within(s, asked)
      PROVE  /\ \A i \in 1..Len(s) : s[i].turn \in Turns /\ over'[s[i].turn] = over[s[i].turn]
             /\ Within(s, asked')
  <2>1. \A i \in 1..Len(s) : s[i].turn \in Turns /\ s[i].turn \in Nat /\ s[i].turn <= asked
    <3>1. \A i \in 1..Len(s) : s[i] \in Frame
      BY ElementOfSeq
    <3> QED
      BY <1>4, <3>1, FrameTurns DEF Frame, Within
  <2> QED
    BY <1>2, <1>3, <2>1, LoopsAre DEF Within
<1>5. ASSUME NEW s \in Seq(Frame), NEW t \in Seq(Frame), Within(s, asked), Within(t, asked)
      PROVE  (Apart(s, t) => Apart(s, t)') /\ (InTurn(s) => InTurn(s)')
  BY <1>4, <1>5 DEF Apart, InTurn, MayFollow
<1>6. InTurn(taken)' /\ Within(taken', asked')
  BY <1>2, <1>4, <1>5, LoopsAre DEF OrderInv
<1>7. /\ Sorted(up') /\ Sorted(pending') /\ Before(up', pending')
      /\ Within(up', asked') /\ Within(pending', asked')
      /\ \A r \in Seq(Frame) : Within(r, asked) /\ Before(r, up) /\ Before(r, pending)
           => Before(r, up') /\ Before(r, pending')
  <2>1. CASE sock = "open"
    <3>1. pending' = <<>> /\ up' = Append(up, f)
      BY <1>2, <2>1 DEF TypeInv, LinkInv
    <3> QED
      BY <1>1, <1>2, <3>1, Empty, NewestLast, LoopsAre DEF OrderInv
  <2>2. CASE sock # "open"
    <3>1. up' = <<>> /\ pending' = Append(pending, f)
      BY <1>2, <2>2 DEF TypeInv, LinkInv
    <3> QED
      BY <1>1, <1>2, <3>1, Empty, NewestLast, LoopsAre DEF OrderInv
  <2> QED
    BY <2>1, <2>2
<1>8. \A i \in 1..Len(up') : over'[up'[i].turn] = opened
  <2>1. CASE sock = "open"
    <3>1. \A i \in 1..Len(up') : up'[i] = f \/ (i \in 1..Len(up) /\ up'[i] = up[i])
      BY <1>1, <1>2, <2>1, LoopsAre, AppendProperties
    <3>2. \A i \in 1..Len(up) : over'[up[i].turn] = opened
      BY <1>4, LoopsAre DEF OrderInv
    <3>3. over'[f.turn] = opened
      BY <1>1, <1>2, <2>1, LoopsAre
    <3> QED
      BY <3>1, <3>2, <3>3
  <2>2. CASE sock # "open"
    <3>1. up' = <<>>
      BY <1>2, <2>2 DEF TypeInv, LinkInv
    <3> QED
      BY <3>1
  <2> QED
    BY <2>1, <2>2
<1>9. ASSUME NEW l \in gone PROVE LeftInOrder(l.queue)'
  <2>1. LeftInOrder(l.queue) /\ l.queue \in Seq(Frame)
    BY <1>9, LoopsAre DEF OrderInv
  <2>2. Sorted(l.queue) /\ Within(l.queue, asked')
        /\ Before(l.queue, up') /\ Before(l.queue, pending')
    BY <1>4, <1>7, <2>1 DEF LeftInOrder
  <2>3. Apart(taken, l.queue)'
    BY <1>2, <1>5, <2>1, LoopsAre DEF LeftInOrder, OrderInv
  <2>4. \A k \in 1..Len(l.queue) : over'[l.queue[k].turn] = over[l.queue[k].turn]
    BY <1>4, <2>1 DEF LeftInOrder
  <2> QED
    BY <1>2, <2>1, <2>2, <2>3, <2>4 DEF LeftInOrder, Sorted, Within, Before
<1>10. ASSUME NEW l \in gone, NEW m \in gone, l # m PROVE Apart(l.queue, m.queue)'
  BY <1>5, <1>10, LoopsAre DEF OrderInv, LeftInOrder
<1>11. Before(taken', up') /\ Before(taken', pending')
  BY <1>2, <1>7, LoopsAre DEF OrderInv
<1> QED
  BY <1>2, <1>6, <1>7, <1>8, <1>9, <1>10, <1>11 DEF OrderInv, Sorted, Within, Before

LEMMA TakingKeepsOrder ==
  ASSUME TypeInv, OrderInv, Take
  PROVE  OrderInv'
<1>1. UNCHANGED <<asked, pending, gone, opened, over, sock>> /\ sock = "open"
  BY TakeIs DEF hook, transport
<1>2. 1 \in 1..Len(up) /\ \A i \in 1..Len(up') : 1 < i + 1
  BY TakeIs
<1>3. \A i \in 1..Len(up') : i + 1 \in 1..Len(up) /\ up'[i] = up[i + 1]
  BY TakeIs
<1>4. \A g, h : MayFollow(g, h)' <=> MayFollow(g, h)
  BY <1>1 DEF MayFollow
<1>5. \A s, t : (Apart(s, t)' <=> Apart(s, t)) /\ (InTurn(s)' <=> InTurn(s))
  BY <1>4 DEF Apart, InTurn
<1>6. Sorted(up') /\ Before(up', pending) /\ Within(up', asked)
  <2>1. \A i, k \in 1..Len(up') : i < k => i + 1 < k + 1
    BY TakeIs
  <2> QED
    BY <1>1, <1>3, <2>1 DEF OrderInv, Sorted, Before, Within
<1>7. \A i \in 1..Len(taken') : taken'[i] = up[1] \/ (i \in 1..Len(taken) /\ taken'[i] = taken[i])
  BY TakeIs
<1>8. InTurn(taken') /\ Before(taken', pending) /\ Within(taken', asked)
  <2>1. \A i \in 1..Len(taken) : taken[i].turn < up[1].turn
    BY <1>2 DEF OrderInv, Before
  <2>2. \A i, k \in 1..Len(taken') : i < k => i \in 1..Len(taken) /\ taken'[i] = taken[i]
    BY TakeIs
  <2>3. ASSUME NEW i \in 1..Len(taken'), NEW k \in 1..Len(taken'), i < k
        PROVE  MayFollow(taken'[i], taken'[k])
    <3>1. CASE k \in 1..Len(taken) /\ taken'[k] = taken[k]
      BY <2>2, <2>3, <3>1 DEF OrderInv, InTurn
    <3>2. CASE taken'[k] = up[1]
      BY <2>1, <2>2, <2>3, <3>2 DEF MayFollow
    <3> QED
      BY <1>7, <3>1, <3>2
  <2> QED
    BY <1>2, <1>7, <2>3 DEF OrderInv, Before, Within, InTurn
<1>9. Before(taken', up')
  <2>1. \A k \in 1..Len(up') : up[1].turn < up'[k].turn
    BY <1>2, <1>3 DEF OrderInv, Sorted
  <2>2. \A i \in 1..Len(taken), k \in 1..Len(up') : taken[i].turn < up'[k].turn
    BY <1>3 DEF OrderInv, Before
  <2> QED
    BY <1>7, <2>1, <2>2 DEF Before
<1>10. ASSUME NEW l \in gone PROVE LeftInOrder(l.queue)'
  <2>1. LeftInOrder(l.queue) /\ l.queue \in Seq(Frame)
    BY <1>10, LoopsAre DEF OrderInv
  <2>2. Before(l.queue, up')
    BY <1>3, <2>1 DEF LeftInOrder, Before
  <2>3. Apart(taken', l.queue)
    <3>1. \A k \in 1..Len(l.queue) : MayFollow(up[1], l.queue[k])
      <4>1. over[up[1].turn] = opened /\ opened \in Nat
        BY <1>2, LoopsAre DEF OrderInv
      <4>2. \A k \in 1..Len(l.queue) : over[l.queue[k].turn] \in 1..(opened - 1)
        BY <1>1, <2>1, LoopsAre DEF LeftInOrder
      <4> QED
        BY <4>1, <4>2 DEF MayFollow
    <3> QED
      BY <1>7, <2>1, <3>1 DEF LeftInOrder, Apart
  <2> QED
    BY <1>1, <1>5, <2>1, <2>2, <2>3 DEF LeftInOrder, Sorted, Within, Before
<1>11. \A i \in 1..Len(up') : over[up'[i].turn] = opened
  BY <1>3 DEF OrderInv
<1> QED
  BY <1>1, <1>5, <1>6, <1>8, <1>9, <1>10, <1>11 DEF OrderInv, Sorted, Before, Within

\* The socket goes: what the server received of the questions is left to its loop.
LEMMA LosingKeepsOrder ==
  ASSUME TypeInv, OrderInv, LoseSocket, UNCHANGED <<asked, taken, pending, opened, over>>,
         sock' # "open"
  PROVE  OrderInv'
<1>1. \A g, h : MayFollow(g, h)' <=> MayFollow(g, h)
  BY DEF MayFollow
<1>2. \A s, t : (Apart(s, t)' <=> Apart(s, t)) /\ (InTurn(s)' <=> InTurn(s))
  BY <1>1 DEF Apart, InTurn
<1>3. up' = <<>>
  BY Losing
<1>4. ASSUME NEW l \in gone', l \notin gone
      PROVE  \A i \in 1..Len(l.queue) : i \in 1..Len(up) /\ l.queue[i] = up[i]
  BY <1>4, Losing
<1>5. \A i \in 1..Len(up) : sock = "open" /\ over[up[i].turn] = opened /\ opened \in Nat \ {0}
  BY LoopsAre DEF OrderInv, TypeInv, LinkInv
<1>6. ASSUME NEW l \in gone' PROVE LeftInOrder(l.queue)'
  <2>1. CASE l \in gone
    <3>1. LeftInOrder(l.queue)
      BY <2>1 DEF OrderInv
    <3> QED
      BY <1>2, <1>3, <3>1, Empty DEF LeftInOrder, Sorted, Within, Before
  <2>2. CASE l \notin gone
    <3>1. Sorted(l.queue) /\ Before(l.queue, pending) /\ Within(l.queue, asked)
      BY <1>4, <1>6, <2>2 DEF OrderInv, Sorted, Before, Within
    <3>2. Apart(taken, l.queue)
      BY <1>4, <1>6, <2>2 DEF OrderInv, Before, Apart, MayFollow
    <3>3. \A k \in 1..Len(l.queue) : over[l.queue[k].turn] \in 1..opened
      BY <1>4, <1>5, <1>6, <2>2
    <3> QED
      BY <1>2, <1>3, <3>1, <3>2, <3>3, Empty DEF LeftInOrder, Sorted, Within, Before
  <2> QED
    BY <2>1, <2>2
<1>7. ASSUME NEW l \in gone', NEW m \in gone', l # m PROVE Apart(l.queue, m.queue)
  <2>1. CASE l \in gone /\ m \in gone
    BY <1>7, <2>1 DEF OrderInv
  <2>2. CASE l \in gone /\ m \notin gone
    <3>1. Before(l.queue, up)
      BY <2>2 DEF OrderInv, LeftInOrder
    <3> QED
      BY <1>4, <1>7, <2>2, <3>1 DEF Before, Apart, MayFollow
  <2>3. CASE l \notin gone /\ m \in gone
    <3>1. \A k \in 1..Len(m.queue) :
            over[m.queue[k].turn] \in 1..opened /\ (sock = "open" => over[m.queue[k].turn] # opened)
      BY <2>3 DEF OrderInv, LeftInOrder
    <3>2. ASSUME NEW i \in 1..Len(l.queue), NEW k \in 1..Len(m.queue)
          PROVE  MayFollow(l.queue[i], m.queue[k])
      <4>1. i \in 1..Len(up) /\ l.queue[i] = up[i]
        BY <1>4, <1>7, <2>3
      <4>2. over[m.queue[k].turn] \in 1..(opened - 1) /\ over[l.queue[i].turn] = opened
        BY <1>5, <3>1, <4>1
      <4> QED
        BY <4>2 DEF MayFollow
    <3> QED
      BY <3>2 DEF Apart
  <2>4. CASE l \notin gone /\ m \notin gone
    <3>1. PICK n \in 0..Len(up) :
            gone' = gone \cup Leaves(IF stage = "commit" THEN "answer" ELSE stage, into,
                                     SubSeq(up, 1, n))
      BY DEF LoseSocket
    <3>2. \A at, c, q : \A x, y \in Leaves(at, c, q) : x = y
      BY DEF Leaves
    <3> QED
      BY <1>7, <2>4, <3>1, <3>2
  <2> QED
    BY <2>1, <2>2, <2>3, <2>4
<1> QED
  BY <1>2, <1>3, <1>6, <1>7, Empty DEF OrderInv, Sorted, Before, Within

\* A loop left behind reads its next question, or goes on without.
LEMMA LateKeepsOrder ==
  ASSUME TypeInv, OrderInv, LateLoop
  PROVE  OrderInv'
<1>1. UNCHANGED <<asked, up, pending, opened, over, sock>>
  BY LateIs DEF hook, transport
<1>2. \A g, h : MayFollow(g, h)' <=> MayFollow(g, h)
  BY <1>1 DEF MayFollow
<1>3. \A s, t : (Apart(s, t)' <=> Apart(s, t)) /\ (InTurn(s)' <=> InTurn(s))
  BY <1>2 DEF Apart, InTurn
<1>4. PICK loop \in gone, q \in Seq(Frame), new \in SUBSET Abandoned :
        /\ gone' = (gone \ {loop}) \cup new
        /\ \A l, m \in new : l = m /\ l.queue = q
        /\ \/ taken' = taken /\ q = loop.queue
           \/ /\ loop.queue # <<>> /\ q = Tail(loop.queue)
              /\ taken' = Append(taken, Head(loop.queue))
  BY LateIs
<1> DEFINE old == loop.queue
<1>5. old \in Seq(Frame) /\ LeftInOrder(old) /\ Len(old) \in Nat /\ taken \in Seq(Frame)
  BY <1>4, LoopsAre DEF OrderInv
\* What is left is the old queue from its first or its second question on, and the
\* first is then the one that was read.
<1>6. PICK d \in {0, 1} :
        /\ \A i \in 1..Len(q) : i + d \in 1..Len(old) /\ q[i] = old[i + d]
        /\ d = 0 => taken' = taken
        /\ d = 1 => 1 \in 1..Len(old) /\ taken' = Append(taken, old[1]) /\ old[1] \in Frame
  <2>1. CASE taken' = taken /\ q = old
    BY <2>1
  <2>2. CASE old # <<>> /\ q = Tail(old) /\ taken' = Append(taken, Head(old))
    <3>1. /\ Len(q) = Len(old) - 1 /\ Head(old) = old[1] /\ Len(old) # 0
          /\ \A i \in 1..Len(q) : q[i] = old[i + 1]
          /\ Head(old) \in Frame
      BY <1>5, <2>2, HeadTailProperties, EmptySeq
    <3>2. 1 \in 1..Len(old) /\ \A i \in 1..Len(q) : i + 1 \in 1..Len(old)
      BY <1>5, <3>1
    <3> QED
      BY <2>2, <3>1, <3>2
  <2> QED
    BY <1>4, <2>1, <2>2
<1> HIDE DEF old
<1>7. /\ \A i \in 1..Len(taken') :
            \/ i \in 1..Len(taken) /\ taken'[i] = taken[i]
            \/ d = 1 /\ 1 \in 1..Len(old) /\ taken'[i] = old[1]
      /\ \A i, k \in 1..Len(taken') : i < k => i \in 1..Len(taken) /\ taken'[i] = taken[i]
  <2>1. CASE d = 0
    BY <1>5, <1>6, <2>1
  <2>2. CASE d = 1
    <3>1. /\ Len(taken') = Len(taken) + 1 /\ Len(taken) \in Nat
          /\ taken'[Len(taken) + 1] = old[1]
          /\ \A i \in 1..Len(taken) : taken'[i] = taken[i]
      BY <1>5, <1>6, <2>2, AppendProperties
    <3> QED
      BY <1>6, <2>2, <3>1
  <2> QED
    BY <2>1, <2>2
<1>8. InTurn(taken')
  <2> SUFFICES ASSUME NEW i \in 1..Len(taken'), NEW k \in 1..Len(taken'), i < k
               PROVE  MayFollow(taken'[i], taken'[k])
    BY DEF InTurn
  <2>1. i \in 1..Len(taken) /\ taken'[i] = taken[i]
    BY <1>7
  <2>2. CASE k \in 1..Len(taken) /\ taken'[k] = taken[k]
    BY <2>1, <2>2 DEF OrderInv, InTurn
  <2>3. CASE 1 \in 1..Len(old) /\ taken'[k] = old[1]
    BY <1>5, <2>1, <2>3 DEF LeftInOrder, Apart
  <2> QED
    BY <1>7, <2>2, <2>3
<1>9. Before(taken', up) /\ Before(taken', pending) /\ Within(taken', asked)
  BY <1>5, <1>7 DEF OrderInv, LeftInOrder, Before, Within
<1>10. /\ Sorted(q) /\ Before(q, up) /\ Before(q, pending) /\ Within(q, asked)
       /\ \A k \in 1..Len(q) :
            over[q[k].turn] \in 1..opened /\ (sock = "open" => over[q[k].turn] # opened)
  <2>1. \A i, k \in 1..Len(q) : i < k => i + d < k + d
    BY <1>6
  <2>2. Sorted(q)
    BY <1>5, <1>6, <2>1 DEF LeftInOrder, Sorted
  <2> QED
    BY <1>5, <1>6, <2>2 DEF LeftInOrder, Before, Within
<1>11. Apart(taken', q)
  <2>1. Apart(taken, q)
    BY <1>5, <1>6 DEF LeftInOrder, Apart
  <2>2. d = 1 => \A k \in 1..Len(q) : MayFollow(old[1], q[k])
    <3>1. \A k \in 1..Len(q) : 1 < k + 1
      OBVIOUS
    <3> QED
      BY <1>5, <1>6, <3>1 DEF LeftInOrder, Sorted, MayFollow
  <2> QED
    BY <1>7, <2>1, <2>2 DEF Apart
<1>12. ASSUME NEW l \in gone, l # loop PROVE LeftInOrder(l.queue)' /\ Apart(l.queue, q) /\ Apart(q, l.queue)
  <2>1. LeftInOrder(l.queue) /\ Apart(l.queue, old) /\ Apart(old, l.queue)
    BY <1>4, <1>12 DEF OrderInv, old
  <2>2. Apart(taken', l.queue)
    BY <1>7, <2>1 DEF LeftInOrder, Apart
  <2>3. Apart(l.queue, q) /\ Apart(q, l.queue)
    BY <1>6, <2>1 DEF Apart
  <2> QED
    BY <1>1, <1>3, <2>1, <2>2, <2>3 DEF LeftInOrder, Sorted, Within, Before
<1>13. ASSUME NEW l \in gone' PROVE LeftInOrder(l.queue)'
  <2>1. CASE l \in gone /\ l # loop
    BY <1>12, <2>1
  <2>2. CASE l.queue = q
    BY <1>1, <1>3, <1>10, <1>11, <2>2 DEF LeftInOrder, Sorted, Within, Before
  <2> QED
    BY <1>4, <2>1, <2>2
<1>14. ASSUME NEW l \in gone', NEW m \in gone', l # m PROVE Apart(l.queue, m.queue)
  BY <1>4, <1>12, <1>14 DEF OrderInv
<1> QED
  BY <1>1, <1>3, <1>8, <1>9, <1>13, <1>14 DEF OrderInv, Sorted, Within, Before

\* What was queued goes over the socket that opens, after all that went before.
LEMMA OpeningKeepsOrder ==
  ASSUME TypeInv, OrderInv, Open
  PROVE  OrderInv'
<1>1. /\ up' = pending /\ pending' = <<>> /\ opened' = opened + 1
      /\ over' = [t \in Turns |-> IF \E i \in 1..Len(pending) : pending[i].turn = t
                                  THEN opened + 1 ELSE over[t]]
      /\ UNCHANGED <<asked, taken, gone>>
  BY ConcatEmptySeq DEF Open, Flushed, TypeInv, TransportType, LinkInv
<1>2. ASSUME NEW s \in Seq(Frame), Before(s, pending)
      PROVE  \A i \in 1..Len(s) : over'[s[i].turn] = over[s[i].turn]
  <2> SUFFICES ASSUME NEW i \in 1..Len(s) PROVE over'[s[i].turn] = over[s[i].turn]
    OBVIOUS
  <2>1. s[i].turn \in Turns /\ s[i].turn \in Nat
    <3>1. s[i] \in Frame
      BY ElementOfSeq
    <3> QED
      BY <3>1, TurnsAssumption DEF Frame, Turns
  <2>2. \A k \in 1..Len(pending) : s[i].turn < pending[k].turn /\ pending[k].turn \in Nat
    BY <1>2, FrameTurns, LoopsAre DEF Before
  <2>3. ~ \E k \in 1..Len(pending) : pending[k].turn = s[i].turn
    BY <2>1, <2>2
  <2> QED
    BY <1>1, <2>1, <2>3
<1>3. ASSUME NEW s \in Seq(Frame), NEW t \in Seq(Frame), Before(s, pending), Before(t, pending)
      PROVE  (Apart(s, t) => Apart(s, t)') /\ (InTurn(s) => InTurn(s)')
  BY <1>2, <1>3 DEF Apart, InTurn, MayFollow
<1>4. InTurn(taken)' /\ taken' = taken
  BY <1>1, <1>3, LoopsAre DEF OrderInv
<1>5. ASSUME NEW l \in gone PROVE LeftInOrder(l.queue)'
  <2>1. LeftInOrder(l.queue) /\ l.queue \in Seq(Frame)
    BY <1>5, LoopsAre DEF OrderInv
  <2>2. Apart(taken, l.queue)'
    BY <1>1, <1>3, <2>1, LoopsAre DEF LeftInOrder, OrderInv
  <2>3. \A k \in 1..Len(l.queue) : over'[l.queue[k].turn] \in 1..opened
    BY <1>2, <2>1 DEF LeftInOrder
  <2>4. opened \in Nat /\ \A n \in 1..opened : n \in 1..opened' /\ n # opened'
    BY <1>1, LoopsAre
  <2> QED
    BY <1>1, <2>1, <2>2, <2>3, <2>4, Empty DEF LeftInOrder, Sorted, Within, Before
<1>6. ASSUME NEW l \in gone, NEW m \in gone, l # m PROVE Apart(l.queue, m.queue)'
  BY <1>3, <1>6, LoopsAre DEF OrderInv, LeftInOrder
<1>7. \A i \in 1..Len(up') : over'[up'[i].turn] = opened'
  <2>1. \A i \in 1..Len(pending) : pending[i].turn \in Turns
    <3>1. \A i \in 1..Len(pending) : pending[i] \in Frame
      BY LoopsAre, ElementOfSeq
    <3> QED
      BY <3>1 DEF Frame
  <2> QED
    BY <1>1, <2>1
<1>8. opened' # 0
  BY <1>1, LoopsAre
<1> QED
  BY <1>1, <1>4, <1>5, <1>6, <1>7, <1>8, Empty DEF OrderInv, Sorted, Within, Before

LEMMA OrderKeeps == TypeInv /\ OrderInv /\ [Next]_vars => OrderInv'
<1> SUFFICES ASSUME TypeInv, OrderInv, [Next]_vars PROVE OrderInv'
  OBVIOUS
<1>1. CASE StopGeneration
  BY <1>1, OrderStands, LosingKeepsOrder DEF StopGeneration
<1>2. CASE Unmount
  <2>1. sock' # "open" /\ LoseSocket /\ UNCHANGED <<asked, taken, pending, opened, over>>
    BY <1>2 DEF Unmount
  <2> QED
    BY <2>1, LosingKeepsOrder
<1>3. CASE ConnectFails \/ Drop \/ Closed \/ Refused
  <2>1. UNCHANGED <<asked, pending>> /\ sock' = "closed"
    BY <1>3, Closes, Refuses DEF TypeInv, Goes
  <2>2. CASE Quietly
    BY <2>1, <2>2, OrderStands DEF Quietly, server, history
  <2>3. CASE Openly
    BY <2>1, <2>3, LosingKeepsOrder DEF Openly
  <2> QED
    BY <1>3, <2>2, <2>3, ClosesHow
<1>4. CASE Reconnect
  BY <1>4, OrderStands DEF Reconnect, server, history
<1>5. CASE HandleFrame
  BY <1>5, OrderStands, DeliverIs DEF HandleFrame
<1>6. CASE SendToken \/ SendDone \/ SendError
  BY <1>6, OrderStands, SendIs DEF hook, transport
<1>7. CASE Expire \/ Authenticate \/ Commit
  BY <1>7, OrderStands DEF Expire, Authenticate, Commit, Serve, hook, transport, history
<1>8. CASE UNCHANGED vars
  BY <1>8, OrderStands DEF vars, hook, transport, server, history
<1> QED
  BY <1>1, <1>2, <1>3, <1>4, <1>5, <1>6, <1>7, <1>8, AskingKeepsOrder, TakingKeepsOrder,
     OpeningKeepsOrder, LateKeepsOrder DEF Next, Event, Loop

LEMMA OrderInvAlways == Spec => [](TypeInv /\ OrderInv)
<1>1. Init => TypeInv /\ OrderInv
  BY TypeInvInit, Empty DEF Init, OrderInv, InTurn
<1> QED
  BY <1>1, NextTypes, OrderKeeps, PTL DEF Spec

\* No question is read twice, nor out of order but over an earlier socket than the ones
\* before it, whatever drops and reconnections (WebSocketTransport.ts, sendMessage and
\* flushPendingQueue; rag_chat_ws).
THEOREM AlwaysAskedOnceInOrder == Spec => []AskedOnceInOrder
<1>1. TypeInv /\ OrderInv => AskedOnceInOrder
  <2> SUFFICES ASSUME TypeInv, OrderInv PROVE AskedOnceInOrder
    OBVIOUS
  <2>1. taken \in Seq(Frame) /\ up \in Seq(Frame) /\ pending \in Seq(Frame)
    BY LoopsAre
  <2>2. \A s, t : (Sorted(s) => InTurn(s)) /\ (Before(s, t) => Apart(s, t))
    BY DEF Sorted, InTurn, Before, Apart, MayFollow
  <2>3. taken \o up \in Seq(Frame) /\ InTurn(taken \o up)
    BY <2>1, <2>2, InOrder DEF OrderInv
  <2>4. Apart(taken \o up, pending)
    <3>1. /\ Len(taken \o up) = Len(taken) + Len(up)
          /\ Len(taken) \in Nat /\ Len(up) \in Nat
          /\ \A i \in 1..(Len(taken) + Len(up)) :
               (taken \o up)[i] = IF i <= Len(taken) THEN taken[i] ELSE up[i - Len(taken)]
      BY <2>1, ConcatProperties
    <3>2. \A i \in 1..Len(taken \o up) :
            \/ i \in 1..Len(taken) /\ (taken \o up)[i] = taken[i]
            \/ /\ i - Len(taken) \in 1..Len(up)
               /\ (taken \o up)[i] = up[i - Len(taken)]
      BY <3>1
    <3>3. Before(taken \o up, pending)
      BY <3>2 DEF OrderInv, Before
    <3> QED
      BY <2>2, <3>3
  <2>5. InTurn((taken \o up) \o pending)
    BY <2>1, <2>2, <2>3, <2>4, InOrder DEF OrderInv
  <2> QED
    BY <2>5 DEF AskedOnceInOrder, InTurn, MayFollow
<1> QED
  BY <1>1, OrderInvAlways, PTL

-----------------------------------------------------------------------------
(* The chunks and their bubbles *)

Runs(f) == f.event \in {"meta", "token"}
Own == active # 0 /\ active \notin cut

\* The question whose answer is not at its end.
Running == IF stage = "answer" THEN serving ELSE 0

\* The frames on the way: the answers to questions read, each from its meta event to
\* its end, of which only the last may still be served.  An error may follow an end, when
\* the commit fails.
FrameInv ==
  /\ \A i \in 1..Len(down) : Asked(down[i].turn)
  /\ \A i, j \in 1..Len(down) : j = i + 1 =>
       /\ Runs(down[i]) => down[j].turn = down[i].turn /\ down[j].event # "meta"
       /\ ~Runs(down[i]) => down[j].event \in {"meta", "error"}
  /\ down # <<>> =>
       Running = IF Runs(down[Len(down)]) THEN down[Len(down)].turn ELSE 0
  /\ \A i \in 1..Len(down) : ~Runs(down[i]) =>
       /\ Running # down[i].turn
       /\ \A j \in 1..Len(down) :
            i < j => down[j].turn # down[i].turn \/ down[j].event = "error"
  /\ \A i, j \in 1..Len(down) :
       i < j /\ down[j].event = "meta" => down[i].turn # down[j].turn

\* The streaming bubble is that of the answer whose frames are next, unless its socket
\* went away under it; a question nobody read has left no trace.
BubbleInv ==
  /\ \A t \in Turns : ~Asked(t) =>
       sent[t] = 0 /\ text[t] = <<>> /\ bubble[t] = "none" /\ active # t /\ t \notin cut
  /\ active # 0 => bubble[active] = "streaming"
  /\ \A b \in cut : Running # b
  /\ down = <<>> /\ active = 0 => Running = 0
  /\ down = <<>> /\ Own => Running = active
  /\ down # <<>> /\ active = 0 => down[1].event \in {"meta", "error"}
  /\ down # <<>> /\ Own => down[1].event # "meta" /\ down[1].turn = active

\* What is in a bubble and what is on its way to it are all the chunks sent.
CountInv ==
  /\ \A i \in 1..Len(down) : down[i].event = "meta" =>
       /\ text[down[i].turn] = <<>> /\ down[i].turn \notin cut /\ active # down[i].turn
       /\ Running = down[i].turn => Len(down) - i = sent[down[i].turn]
       /\ \A j \in 1..Len(down) :
            i < j /\ down[j].event = "done" /\ down[j].turn = down[i].turn
              => j - i - 1 = sent[down[i].turn]
  /\ Own =>
       /\ Running = active => Len(text[active]) + Len(down) = sent[active]
       /\ \A j \in 1..Len(down) :
            down[j].event = "done" /\ down[j].turn = active
              => Len(text[active]) + j - 1 = sent[active]
  /\ \A b \in Turns \ cut :
       /\ \A i \in 1..Len(text[b]) : text[b][i] = b
       /\ bubble[b] = "complete" => Running # b /\ Len(text[b]) = sent[b]

AnswerInv == FrameInv /\ BubbleInv /\ CountInv

LEMMA FrameIs ==
  ASSUME TypeInv
  PROVE  /\ \A i \in 1..Len(down) : down[i] \in Reply /\ down[i].turn \in Turns
         /\ Len(down) \in Nat /\ 0 \notin Turns
         /\ (down = <<>> <=> Len(down) = 0)
<1>1. down \in Seq(Reply)
  BY DEF TypeInv, ServerType
<1>2. \A i \in 1..Len(down) : down[i] \in Reply
  BY <1>1, ElementOfSeq
<1>3. \A f \in Reply : f.turn \in Turns
  BY DEF Reply
<1>4. Len(down) \in Nat /\ (down = <<>> <=> Len(down) = 0)
  BY <1>1, EmptySeq
<1> QED
  BY <1>2, <1>3, <1>4, Numbers

LEMMA LosingKeeps ==
  ASSUME TypeInv, AnswerInv, LoseSocket, UNCHANGED <<taken, sent, text, bubble, active>>
  PROVE  AnswerInv'
<1>1. /\ down' = <<>> /\ Len(<<>>) = 0 /\ Running' = 0 /\ cut' \subseteq Turns
      /\ cut' = IF active # 0 THEN cut \cup {active} ELSE cut
      /\ 0 \notin Turns
  BY Losing, Numbers DEF LoseSocket, Running
<1>2. FrameInv'
  BY <1>1 DEF FrameInv
<1>3. \A t \in Turns : Asked(t)' <=> Asked(t)
  BY DEF Asked
<1>4. BubbleInv'
  BY <1>1, <1>3 DEF AnswerInv, BubbleInv, Own
<1>5. CountInv'
  BY <1>1 DEF AnswerInv, CountInv, Own
<1> QED
  BY <1>2, <1>4, <1>5 DEF AnswerInv

LEMMA TakingKeeps ==
  ASSUME TypeInv, OrderInv, AnswerInv, Take
  PROVE  AnswerInv'
<1> DEFINE t == up[1].turn
           n == Len(down)
<1>1. PICK m \in Reply :
        /\ down' = Append(down, m) /\ m.turn = t
        /\ \/ m.event = "meta" /\ Running' = t
           \/ m.event = "error" /\ Running' = 0
  BY TakeIs DEF Running
<1>2. /\ n \in Nat /\ Len(down') = n + 1 /\ down' # <<>> /\ down'[n + 1] = m
      /\ \A i \in 1..n : down'[i] = down[i]
      /\ \A i \in 1..(n + 1) : i = n + 1 \/ i \in 1..n
  BY <1>1, AppendIs
<1>3. t \in Turns /\ Running = 0 /\ Running' \in {0, t} /\ 0 \notin Turns
  BY <1>1, TakeIs, Numbers DEF Frame, Running
<1>4. ~Asked(t)
  <2>1. \A i \in 1..Len(taken) : taken[i].turn \in Nat /\ taken[i].turn < t
    <3>1. 1 \in 1..Len(up)
      BY TakeIs
    <3> QED
      BY <3>1, FrameTurns DEF OrderInv, Before, TypeInv, HistoryType
  <2> QED
    BY <2>1 DEF Asked
<1>5. UNCHANGED <<sent, text, bubble, active, cut>>
  BY TakeIs DEF hook, transport
<1>6. \A x \in Turns : Asked(x)' <=> Asked(x) \/ x = t
  <2>1. Len(taken') \in 1..Len(taken') /\ \A i \in 1..Len(taken) : i \in 1..Len(taken')
    BY TakeIs
  <2> QED
    BY <2>1, TakeIs DEF Asked
<1>7. \A i \in 1..n : down[i].turn # t /\ down[i].turn \in Turns
  BY <1>4, FrameIs DEF AnswerInv, FrameInv
<1>8. \A i \in 1..n : i = n => ~Runs(down[i])
  BY <1>3, <1>7, FrameIs DEF AnswerInv, FrameInv
<1> HIDE DEF t, n
<1>9. FrameInv'
  <2>1. \A i \in 1..Len(down') : \E k \in 1..Len(taken') : taken'[k].turn = down'[i].turn
    <3>1. \A x \in Turns : Asked(x) \/ x = t => \E k \in 1..Len(taken') : taken'[k].turn = x
      BY <1>6 DEF Asked
    <3>2. \A i \in 1..Len(down') : \/ down'[i].turn = t
                                   \/ i \in 1..n /\ down'[i] = down[i]
      BY <1>1, <1>2
    <3> QED
      BY <1>3, <1>7, <3>1, <3>2 DEF AnswerInv, FrameInv, n
  <2>2. \A i, j \in 1..Len(down') : j = i + 1 =>
          /\ Runs(down'[i]) => down'[j].turn = down'[i].turn /\ down'[j].event # "meta"
          /\ ~Runs(down'[i]) => down'[j].event \in {"meta", "error"}
    BY <1>1, <1>2, <1>8 DEF AnswerInv, FrameInv, n
  <2>3. Running' = IF Runs(down'[Len(down')]) THEN down'[Len(down')].turn ELSE 0
    BY <1>1, <1>2 DEF Runs
  <2>4. \A i \in 1..Len(down') : ~Runs(down'[i]) =>
          /\ Running' # down'[i].turn
          /\ \A j \in 1..Len(down') :
               i < j => down'[j].turn # down'[i].turn \/ down'[j].event = "error"
    BY <1>1, <1>2, <1>3, <1>7 DEF AnswerInv, FrameInv, Runs, n
  <2>5. \A i, j \in 1..Len(down') :
          i < j /\ down'[j].event = "meta" => down'[i].turn # down'[j].turn
    BY <1>1, <1>2, <1>7 DEF AnswerInv, FrameInv, n
  <2> QED
    BY <2>1, <2>2, <2>3, <2>4, <2>5 DEF FrameInv, Runs, Asked
<1>10. BubbleInv'
  BY <1>1, <1>2, <1>3, <1>4, <1>5, <1>6, FrameIs DEF AnswerInv, BubbleInv, Own, n
<1>11. CountInv'
  <2>1. \A i \in 1..Len(down') : down'[i].event = "meta" =>
          /\ text[down'[i].turn] = <<>> /\ down'[i].turn \notin cut
          /\ active # down'[i].turn
          /\ Running' = down'[i].turn => Len(down') - i = sent[down'[i].turn]
          /\ \A j \in 1..Len(down') :
               i < j /\ down'[j].event = "done" /\ down'[j].turn = down'[i].turn
                 => j - i - 1 = sent[down'[i].turn]
    BY SMTT(60), <1>1, <1>2, <1>3, <1>4, <1>7 DEF AnswerInv, BubbleInv, CountInv, n
  <2>2. Own =>
          /\ Running' # active
          /\ \A j \in 1..Len(down') :
               down'[j].event = "done" /\ down'[j].turn = active
                 => Len(text[active]) + j - 1 = sent[active]
    BY <1>1, <1>2, <1>3, <1>4 DEF AnswerInv, BubbleInv, CountInv, Own, n
  <2>3. \A b \in Turns \ cut : bubble[b] = "complete" => Running' # b
    BY <1>3, <1>4 DEF AnswerInv, BubbleInv
  <2> QED
    BY <1>5, <2>1, <2>2, <2>3 DEF AnswerInv, CountInv, Own
<1> QED
  BY <1>9, <1>10, <1>11 DEF AnswerInv

LEMMA SendingKeeps ==
  ASSUME TypeInv, AnswerInv, SendToken \/ SendDone \/ SendError, stage = "answer"
  PROVE  AnswerInv'
<1> DEFINE t == Running
           n == Len(down)
<1>1. PICK m \in Reply :
        /\ down' = Append(down, m) /\ m.turn = t
        /\ \/ /\ m.event = "token" /\ Running' = t
              /\ sent' = [sent EXCEPT ![t] = sent[t] + 1]
           \/ m.event \in {"done", "error"} /\ Running' = 0 /\ sent' = sent
  BY SendIs DEF Running
<1>2. /\ n \in Nat /\ Len(down') = n + 1 /\ down' # <<>> /\ down'[n + 1] = m
      /\ \A i \in 1..n : down'[i] = down[i]
      /\ \A i \in 1..(n + 1) : i = n + 1 \/ i \in 1..n
  BY <1>1, AppendIs
<1>3. t \in Turns /\ t # 0 /\ 0 \notin Turns /\ sent \in [Turns -> Nat]
  BY SendIs, Numbers, TurnsAssumption DEF TypeInv, ServerType, Running
<1>4. Asked(t)
  BY <1>3 DEF TypeInv, LinkInv, Running
<1>5. UNCHANGED <<taken, text, bubble, active, cut>>
  BY SendIs DEF hook, transport
<1>6. \A x \in Turns : (Asked(x)' <=> Asked(x)) /\ (x # t => sent'[x] = sent[x])
  BY <1>1, <1>3, <1>5 DEF Asked
<1>7. \A i \in 1..n : i = n => Runs(down[i]) /\ down[i].turn = t
  BY <1>3, FrameIs DEF AnswerInv, FrameInv
<1>8. \A i \in 1..n : ~Runs(down[i]) => down[i].turn # t
  BY DEF AnswerInv, FrameInv
<1>9. \A i \in 1..n : down[i] \in Reply /\ down[i].turn \in Turns
  BY FrameIs
<1> HIDE DEF t, n
<1>10. FrameInv'
  <2>1. \A i \in 1..Len(down') : \E k \in 1..Len(taken') : taken'[k].turn = down'[i].turn
    <3>1. \A i \in 1..Len(down') : \/ down'[i].turn = t
                                   \/ i \in 1..n /\ down'[i] = down[i]
      BY <1>1, <1>2
    <3> QED
      BY <1>4, <1>5, <3>1 DEF AnswerInv, FrameInv, Asked, n
  <2>2. \A i, j \in 1..Len(down') : j = i + 1 =>
          /\ Runs(down'[i]) => down'[j].turn = down'[i].turn /\ down'[j].event # "meta"
          /\ ~Runs(down'[i]) => down'[j].event \in {"meta", "error"}
    BY <1>1, <1>2, <1>7 DEF AnswerInv, FrameInv, n
  <2>3. Running' = IF Runs(down'[Len(down')]) THEN down'[Len(down')].turn ELSE 0
    BY <1>1, <1>2 DEF Runs
  <2>4. \A i \in 1..Len(down') : ~Runs(down'[i]) =>
          /\ Running' # down'[i].turn
          /\ \A j \in 1..Len(down') :
               i < j => down'[j].turn # down'[i].turn \/ down'[j].event = "error"
    BY <1>1, <1>2, <1>3, <1>8, <1>9 DEF AnswerInv, FrameInv, Runs, n
  <2>5. \A i, j \in 1..Len(down') :
          i < j /\ down'[j].event = "meta" => down'[i].turn # down'[j].turn
    BY <1>1, <1>2 DEF AnswerInv, FrameInv, n
  <2> QED
    BY <2>1, <2>2, <2>3, <2>4, <2>5 DEF FrameInv, Runs, Asked
<1>11. BubbleInv'
  <2>1. \A x \in Turns : ~Asked(x)' =>
          sent'[x] = 0 /\ text[x] = <<>> /\ bubble[x] = "none" /\ active # x /\ x \notin cut
    BY <1>4, <1>6 DEF AnswerInv, BubbleInv
  <2>2. \A b \in cut : Running' # b
    BY <1>1, <1>3 DEF AnswerInv, BubbleInv, TypeInv, HistoryType, t
  <2>3. /\ active = 0 => down'[1].event \in {"meta", "error"}
        /\ Own => down'[1].event # "meta" /\ down'[1].turn = active
    <3>1. CASE down = <<>>
      <4>1. down'[1] = m
        BY <1>2, <3>1 DEF n
      <4> QED
        BY <1>1, <1>3, <3>1, <4>1 DEF AnswerInv, BubbleInv, t
    <3>2. CASE down # <<>>
      <4>1. down'[1] = down[1]
        BY <1>2, <3>2, FrameIs DEF n
      <4> QED
        BY <3>2, <4>1 DEF AnswerInv, BubbleInv
    <3> QED
      BY <3>1, <3>2
  <2> QED
    BY <1>2, <1>5, <2>1, <2>2, <2>3 DEF AnswerInv, BubbleInv, Own
<1>12. CountInv'
  <2>1. \A i \in 1..Len(down') : down'[i].event = "meta" =>
          /\ text[down'[i].turn] = <<>> /\ down'[i].turn \notin cut
          /\ active # down'[i].turn
          /\ Running' = down'[i].turn => Len(down') - i = sent'[down'[i].turn]
          /\ \A j \in 1..Len(down') :
               i < j /\ down'[j].event = "done" /\ down'[j].turn = down'[i].turn
                 => j - i - 1 = sent'[down'[i].turn]
    <3> SUFFICES ASSUME NEW i \in 1..Len(down'), down'[i].event = "meta"
                 PROVE  /\ text[down'[i].turn] = <<>> /\ down'[i].turn \notin cut
                        /\ active # down'[i].turn
                        /\ Running' = down'[i].turn => Len(down') - i = sent'[down'[i].turn]
                        /\ \A j \in 1..Len(down') :
                             i < j /\ down'[j].event = "done" /\ down'[j].turn = down'[i].turn
                               => j - i - 1 = sent'[down'[i].turn]
      OBVIOUS
    <3>1. i \in 1..n /\ down'[i] = down[i]
      BY <1>1, <1>2
    <3>2. /\ text[down[i].turn] = <<>> /\ down[i].turn \notin cut
          /\ active # down[i].turn
          /\ t = down[i].turn => n - i = sent[down[i].turn]
          /\ \A j \in 1..n :
               i < j /\ down[j].event = "done" /\ down[j].turn = down[i].turn
                 => j - i - 1 = sent[down[i].turn]
      BY <3>1 DEF AnswerInv, CountInv, t, n
    <3>3. \A j \in 1..n : down[j].event = "done" => down[j].turn # t
      BY <1>8 DEF Runs
    <3> QED
      BY SMTT(60), <1>1, <1>2, <1>3, <1>6, <1>9, <3>1, <3>2, <3>3
  <2>2. Own =>
          /\ Running' = active => Len(text[active]) + Len(down') = sent'[active]
          /\ \A j \in 1..Len(down') :
               down'[j].event = "done" /\ down'[j].turn = active
                 => Len(text[active]) + j - 1 = sent'[active]
    <3> SUFFICES ASSUME Own
                 PROVE  /\ Running' = active => Len(text[active]) + Len(down') = sent'[active]
                        /\ \A j \in 1..Len(down') :
                             down'[j].event = "done" /\ down'[j].turn = active
                               => Len(text[active]) + j - 1 = sent'[active]
      OBVIOUS
    <3>1. active \in Turns /\ Len(text[active]) \in Nat
      BY Numbers DEF Own, TypeInv, TransportType, HookType
    <3>2. /\ t = active => Len(text[active]) + n = sent[active]
          /\ \A j \in 1..n :
               down[j].event = "done" /\ down[j].turn = active
                 => Len(text[active]) + j - 1 = sent[active]
      BY DEF AnswerInv, CountInv, t, n
    <3>3. \A j \in 1..n : down[j].event = "done" => down[j].turn # t
      BY <1>8 DEF Runs
    <3> QED
      BY SMTT(60), <1>1, <1>2, <1>3, <1>6, <3>1, <3>2, <3>3
  <2>3. \A b \in Turns \ cut : bubble[b] = "complete" => Running' # b /\ Len(text[b]) = sent'[b]
    BY <1>1, <1>3, <1>6 DEF AnswerInv, CountInv, t
  <2> QED
    BY <1>5, <2>1, <2>2, <2>3 DEF AnswerInv, CountInv, Own
<1> QED
  BY <1>10, <1>11, <1>12 DEF AnswerInv

\* The commit fails: an error after the end of the answer.
LEMMA FailingKeeps ==
  ASSUME TypeInv, AnswerInv, SendError, stage = "commit"
  PROVE  AnswerInv'
<1> DEFINE t == serving
           n == Len(down)
<1>1. PICK m \in Reply : down' = Append(down, m) /\ m.turn = t /\ m.event = "error"
  BY SendIs
<1>2. /\ n \in Nat /\ Len(down') = n + 1 /\ down' # <<>> /\ down'[n + 1] = m
      /\ \A i \in 1..n : down'[i] = down[i]
      /\ \A i \in 1..(n + 1) : i = n + 1 \/ i \in 1..n
  BY <1>1, AppendIs
<1>3. t \in Turns /\ 0 \notin Turns /\ Running = 0 /\ Running' = 0
  BY SendIs, Numbers DEF SendError, Running
<1>4. Asked(t)
  BY <1>3 DEF TypeInv, LinkInv
<1>5. UNCHANGED <<taken, sent, text, bubble, active, cut>>
  BY SendIs DEF SendError, hook, transport
<1>6. \A y : Asked(y)' <=> Asked(y)
  BY <1>5 DEF Asked
<1>7. \A i \in 1..n : down[i] \in Reply /\ down[i].turn \in Turns
  BY FrameIs
<1>8. \A i \in 1..n : i = n => ~Runs(down[i])
  BY <1>3, <1>7, FrameIs DEF AnswerInv, FrameInv
<1> HIDE DEF t, n
<1>9. FrameInv'
  <2>1. \A i \in 1..Len(down') : Asked(down'[i].turn)
    <3>1. \A i \in 1..Len(down') : down'[i].turn = t \/ (i \in 1..n /\ down'[i] = down[i])
      BY <1>1, <1>2
    <3> QED
      BY <1>4, <3>1 DEF AnswerInv, FrameInv, n
  <2>2. \A i, j \in 1..Len(down') : j = i + 1 =>
          /\ Runs(down'[i]) => down'[j].turn = down'[i].turn /\ down'[j].event # "meta"
          /\ ~Runs(down'[i]) => down'[j].event \in {"meta", "error"}
    BY <1>1, <1>2, <1>8 DEF AnswerInv, FrameInv, n
  <2>3. Running' = IF Runs(down'[Len(down')]) THEN down'[Len(down')].turn ELSE 0
    BY <1>1, <1>2, <1>3 DEF Runs
  <2>4. \A i \in 1..Len(down') : ~Runs(down'[i]) =>
          /\ Running' # down'[i].turn
          /\ \A j \in 1..Len(down') :
               i < j => down'[j].turn # down'[i].turn \/ down'[j].event = "error"
    BY <1>1, <1>2, <1>3, <1>7 DEF AnswerInv, FrameInv, n
  <2>5. \A i, j \in 1..Len(down') :
          i < j /\ down'[j].event = "meta" => down'[i].turn # down'[j].turn
    BY <1>1, <1>2 DEF AnswerInv, FrameInv, n
  <2>6. \A i \in 1..Len(down') : \E k \in 1..Len(taken') : taken'[k].turn = down'[i].turn
    BY <1>5, <2>1 DEF Asked
  <2> QED
    BY <2>2, <2>3, <2>4, <2>5, <2>6 DEF FrameInv, Runs, Asked
<1>10. BubbleInv'
  <2>1. /\ active = 0 => down'[1].event \in {"meta", "error"}
        /\ Own => down'[1].event # "meta" /\ down'[1].turn = active
    <3>1. CASE down = <<>>
      <4>1. down'[1] = m /\ ~Own
        BY <1>2, <1>3, <3>1 DEF AnswerInv, BubbleInv, Own, n
      <4> QED
        BY <1>1, <4>1
    <3>2. CASE down # <<>>
      <4>1. down'[1] = down[1]
        BY <1>2, <3>2, FrameIs DEF n
      <4> QED
        BY <3>2, <4>1 DEF AnswerInv, BubbleInv
    <3> QED
      BY <3>1, <3>2
  <2> QED
    BY <1>2, <1>3, <1>5, <1>6, <2>1 DEF AnswerInv, BubbleInv, Own
<1>11. CountInv'
  <2>1. \A i \in 1..Len(down') : down'[i].event = "meta" =>
          /\ text[down'[i].turn] = <<>> /\ down'[i].turn \notin cut
          /\ active # down'[i].turn /\ Running' # down'[i].turn
          /\ \A j \in 1..Len(down') :
               i < j /\ down'[j].event = "done" /\ down'[j].turn = down'[i].turn
                 => j - i - 1 = sent[down'[i].turn]
    BY SMTT(60), <1>1, <1>2, <1>3, <1>7 DEF AnswerInv, CountInv, n
  <2>2. Own =>
          /\ Running' # active
          /\ \A j \in 1..Len(down') :
               down'[j].event = "done" /\ down'[j].turn = active
                 => Len(text[active]) + j - 1 = sent[active]
    BY <1>1, <1>2, <1>3 DEF AnswerInv, CountInv, Own, n
  <2> QED
    BY <1>3, <1>5, <2>1, <2>2 DEF AnswerInv, CountInv, Own
<1> QED
  BY <1>9, <1>10, <1>11 DEF AnswerInv

\* A loop left behind may read questions; nobody sees its answers.
LEMMA LateKeeps ==
  ASSUME TypeInv, AnswerInv, LateLoop
  PROVE  AnswerInv'
<1>1. /\ UNCHANGED <<down, sent, text, bubble, active, cut>> /\ Running' = Running
  BY LateIs DEF hook, transport, Running
<1>2. \A t : Asked(t) => Asked(t)'
  BY LateReads
<1>3. FrameInv'
  <2>1. \A i \in 1..Len(down') : \E k \in 1..Len(taken') : taken'[k].turn = down'[i].turn
    <3>1. \A i \in 1..Len(down) : Asked(down[i].turn)
      BY DEF AnswerInv, FrameInv
    <3>2. \A t : Asked(t) => \E k \in 1..Len(taken') : taken'[k].turn = t
      BY <1>2 DEF Asked
    <3> QED
      BY <1>1, <3>1, <3>2
  <2>2. \A i, j \in 1..Len(down') : j = i + 1 =>
          /\ Runs(down'[i]) => down'[j].turn = down'[i].turn /\ down'[j].event # "meta"
          /\ ~Runs(down'[i]) => down'[j].event \in {"meta", "error"}
    BY <1>1 DEF AnswerInv, FrameInv
  <2>3. down' # <<>> =>
          Running' = IF Runs(down'[Len(down')]) THEN down'[Len(down')].turn ELSE 0
    BY <1>1 DEF AnswerInv, FrameInv
  <2>4. \A i \in 1..Len(down') : ~Runs(down'[i]) =>
          /\ Running' # down'[i].turn
          /\ \A j \in 1..Len(down') :
               i < j => down'[j].turn # down'[i].turn \/ down'[j].event = "error"
    BY <1>1 DEF AnswerInv, FrameInv
  <2>5. \A i, j \in 1..Len(down') :
          i < j /\ down'[j].event = "meta" => down'[i].turn # down'[j].turn
    BY <1>1 DEF AnswerInv, FrameInv
  <2> QED
    BY <2>1, <2>2, <2>3, <2>4, <2>5 DEF FrameInv, Runs, Asked
<1>4. BubbleInv'
  BY <1>1, <1>2 DEF AnswerInv, BubbleInv, Own
<1>5. CountInv'
  BY <1>1 DEF AnswerInv, CountInv, Own
<1> QED
  BY <1>3, <1>4, <1>5 DEF AnswerInv

\* The first frame is taken; the others move up.
LEMMA DeliveringShifts ==
  ASSUME TypeInv, AnswerInv, HandleFrame
  PROVE  /\ FrameInv'
         /\ \A x : Asked(x)' <=> Asked(x)
         /\ Len(down) \in Nat /\ Len(down') = Len(down) - 1 /\ 0 \notin Turns
         /\ (down' = <<>> <=> Len(down) = 1)
         /\ 1 \in 1..Len(down) /\ down[1].turn \in Turns /\ Asked(down[1].turn)
         /\ down' # <<>> => 2 \in 1..Len(down) /\ down'[1] = down[2]
         /\ \A i \in 1..Len(down') :
              i + 1 \in 1..Len(down) /\ 1 < i + 1 /\ down'[i] = down[i + 1]
         /\ UNCHANGED <<Running, sent, cut>>
         /\ sent \in [Turns -> Nat] /\ (active = 0 \/ active \in Turns)
<1>1. /\ UNCHANGED <<Running, sent, cut, taken>>
      /\ Len(down) \in Nat \ {0} /\ Len(down') = Len(down) - 1
      /\ \A i \in 1..Len(down') :
           i + 1 \in 1..Len(down) /\ 1 < i + 1 /\ down'[i] = down[i + 1]
  BY DeliverIs DEF HandleFrame, Running
<1>2. down' = <<>> <=> Len(down') = 0
  BY DeliverIs, EmptySeq DEF HandleFrame
<1>3. \A x : Asked(x)' <=> Asked(x)
  BY <1>1 DEF Asked
<1>4. FrameInv'
  <2>1. \A i \in 1..Len(down') : \E k \in 1..Len(taken') : taken'[k].turn = down'[i].turn
    <3>1. \A i \in 1..Len(down) : \E k \in 1..Len(taken) : taken[k].turn = down[i].turn
      BY DEF AnswerInv, FrameInv, Asked
    <3> QED
      BY <1>1, <3>1
  <2>2. \A i, j \in 1..Len(down') : j = i + 1 =>
          /\ Runs(down'[i]) => down'[j].turn = down'[i].turn /\ down'[j].event # "meta"
          /\ ~Runs(down'[i]) => down'[j].event \in {"meta", "error"}
    <3>1. \A i, j \in 1..Len(down') : j = i + 1 => j + 1 = (i + 1) + 1
      OBVIOUS
    <3> QED
      BY SMTT(60), <1>1, <3>1 DEF AnswerInv, FrameInv
  <2>3. down' # <<>> =>
          Running' = IF Runs(down'[Len(down')]) THEN down'[Len(down')].turn ELSE 0
    <3> SUFFICES ASSUME down' # <<>>
                 PROVE  Running' = IF Runs(down'[Len(down')]) THEN down'[Len(down')].turn ELSE 0
      OBVIOUS
    <3>1. Len(down') \in 1..Len(down') /\ Len(down') + 1 = Len(down)
      BY <1>1, <1>2
    <3>2. down'[Len(down')] = down[Len(down)]
      BY <1>1, <3>1
    <3>3. down # <<>>
      BY DeliverIs DEF HandleFrame
    <3> QED
      BY <1>1, <3>2, <3>3 DEF AnswerInv, FrameInv, Runs
  <2>4. \A i \in 1..Len(down') : ~Runs(down'[i]) =>
          /\ Running' # down'[i].turn
          /\ \A j \in 1..Len(down') :
               i < j => down'[j].turn # down'[i].turn \/ down'[j].event = "error"
    <3>1. \A i, j \in 1..Len(down') : i < j => i + 1 < j + 1
      OBVIOUS
    <3> QED
      BY SMTT(60), <1>1, <3>1 DEF AnswerInv, FrameInv, Runs
  <2>5. \A i, j \in 1..Len(down') :
          i < j /\ down'[j].event = "meta" => down'[i].turn # down'[j].turn
    <3>1. \A i, j \in 1..Len(down') : i < j => i + 1 < j + 1
      OBVIOUS
    <3> QED
      BY SMTT(60), <1>1, <3>1 DEF AnswerInv, FrameInv
  <2> QED
    BY <2>1, <2>2, <2>3, <2>4, <2>5 DEF FrameInv, Runs, Asked
<1>5. 1 \in 1..Len(down) /\ (Len(down') # 0 => 2 \in 1..Len(down) /\ 1 \in 1..Len(down'))
  BY <1>1
<1>6. down' # <<>> => down'[1] = down[2]
  BY <1>1, <1>2, <1>5
<1>7. down[1].turn \in Turns /\ Asked(down[1].turn) /\ 0 \notin Turns
  BY <1>5, FrameIs DEF AnswerInv, FrameInv
<1>8. sent \in [Turns -> Nat] /\ (active = 0 \/ active \in Turns)
  BY Numbers, TurnsAssumption DEF TypeInv, ServerType, TransportType
<1> QED
  BY <1>1, <1>2, <1>3, <1>4, <1>5, <1>6, <1>7, <1>8

\* The frames after the first, in the bubble they are for.
LEMMA LaterCounts ==
  ASSUME TypeInv, AnswerInv, HandleFrame
  PROVE  \A i \in 1..Len(down') : down'[i].event = "meta" =>
           /\ down'[i].turn \in Turns /\ down'[i].turn # down[1].turn
           /\ text[down'[i].turn] = <<>> /\ down'[i].turn \notin cut
           /\ active # down'[i].turn
           /\ Running = down'[i].turn => Len(down') - i = sent[down'[i].turn]
           /\ \A j \in 1..Len(down') :
                i < j /\ down'[j].event = "done" /\ down'[j].turn = down'[i].turn
                  => j - i - 1 = sent[down'[i].turn]
<1> SUFFICES ASSUME NEW i \in 1..Len(down'), down'[i].event = "meta"
             PROVE  /\ down'[i].turn \in Turns /\ down'[i].turn # down[1].turn
                    /\ text[down'[i].turn] = <<>> /\ down'[i].turn \notin cut
                    /\ active # down'[i].turn
                    /\ Running = down'[i].turn => Len(down') - i = sent[down'[i].turn]
                    /\ \A j \in 1..Len(down') :
                         i < j /\ down'[j].event = "done" /\ down'[j].turn = down'[i].turn
                           => j - i - 1 = sent[down'[i].turn]
  OBVIOUS
<1>1. /\ i + 1 \in 1..Len(down) /\ 1 < i + 1 /\ down'[i] = down[i + 1]
      /\ 1 \in 1..Len(down) /\ Len(down) \in Nat /\ Len(down') = Len(down) - 1
  BY DeliveringShifts
<1>2. /\ text[down[i + 1].turn] = <<>> /\ down[i + 1].turn \notin cut
      /\ active # down[i + 1].turn
      /\ Running = down[i + 1].turn => Len(down) - (i + 1) = sent[down[i + 1].turn]
      /\ \A j \in 1..Len(down) :
           i + 1 < j /\ down[j].event = "done" /\ down[j].turn = down[i + 1].turn
             => j - (i + 1) - 1 = sent[down[i + 1].turn]
  BY <1>1 DEF AnswerInv, CountInv
<1>3. down[i + 1].turn \in Turns /\ down[i + 1].turn # down[1].turn
  BY <1>1, FrameIs DEF AnswerInv, FrameInv
<1>4. \A j \in 1..Len(down') :
        i < j /\ down'[j].event = "done" /\ down'[j].turn = down'[i].turn
          => j - i - 1 = sent[down'[i].turn]
  <2> SUFFICES ASSUME NEW j \in 1..Len(down'), i < j, down'[j].event = "done",
                      down'[j].turn = down'[i].turn
               PROVE  j - i - 1 = sent[down'[i].turn]
    OBVIOUS
  <2>1. j + 1 \in 1..Len(down) /\ down'[j] = down[j + 1] /\ i + 1 < j + 1
    BY DeliveringShifts
  <2>2. (j + 1) - (i + 1) - 1 = sent[down'[i].turn]
    BY <1>1, <1>2, <2>1
  <2> QED
    BY <1>1, <2>2
<1>5. Running = down'[i].turn => Len(down') - i = sent[down'[i].turn]
  BY <1>1, <1>2
<1> QED
  BY <1>1, <1>2, <1>3, <1>4, <1>5

\* What is due to the streaming bubble once the first frame is off.
LEMMA OwnCounts ==
  ASSUME TypeInv, AnswerInv, HandleFrame, Own
  PROVE  /\ active \in Turns /\ Len(text[active]) \in Nat
         /\ down[1].turn = active /\ down[1].event # "meta"
         /\ Running = active => Len(text[active]) + 1 + Len(down') = sent[active]
         /\ \A j \in 1..Len(down') :
              down'[j].event = "done" /\ down'[j].turn = active
                => Len(text[active]) + 1 + j - 1 = sent[active]
<1>1. active \in Turns /\ Len(text[active]) \in Nat
  BY Numbers DEF Own, TypeInv, TransportType, HookType
<1>2. down # <<>> /\ down[1].turn = active /\ down[1].event # "meta"
  BY DeliverIs DEF HandleFrame, AnswerInv, BubbleInv
<1>3. Running = active => Len(text[active]) + Len(down) = sent[active]
  BY DEF AnswerInv, CountInv
<1>4. \A j \in 1..Len(down') :
        down'[j].event = "done" /\ down'[j].turn = active
          => Len(text[active]) + (j + 1) - 1 = sent[active]
  BY DeliveringShifts DEF AnswerInv, CountInv
<1>5. Len(down) \in Nat /\ Len(down') = Len(down) - 1
  BY DeliveringShifts
<1> QED
  BY <1>1, <1>2, <1>3, <1>4, <1>5

LEMMA MetaKeeps ==
  ASSUME TypeInv, AnswerInv, Meta
  PROVE  AnswerInv'
<1> DEFINE t == down[1].turn
<1>1. /\ down # <<>> /\ down[1].event = "meta" /\ t \in Turns /\ text' = text
      /\ active # 0 => UNCHANGED <<active, bubble>>
      /\ active = 0 => active' = t /\ bubble' = [bubble EXCEPT ![t] = "streaming"]
  BY DeliverIs, DeliveringShifts DEF Meta, Deliver, HandleFrame
<1>2. HandleFrame
  BY DEF HandleFrame
<1>3. bubble \in [Turns -> {"none", "streaming", "complete", "error"}]
  BY DEF TypeInv, HookType
<1>4. active # 0 => active \in cut
  BY <1>1 DEF AnswerInv, BubbleInv, Own
<1>5. \A b \in Turns : bubble'[b] = IF active = 0 /\ b = t THEN "streaming" ELSE bubble[b]
  BY <1>1, <1>3
<1>6. Runs(down[1])
  BY <1>1 DEF Runs
<1>7. text[t] = <<>> /\ t \notin cut
  BY <1>1, <1>2, DeliveringShifts DEF AnswerInv, CountInv
<1> HIDE DEF t
<1>8. Own' => active' = t /\ Running' = Running
  BY <1>1, <1>2, <1>4, DeliveringShifts DEF Own
<1>9. BubbleInv'
  <2>1. \A x \in Turns : ~Asked(x)' =>
          sent[x] = 0 /\ text[x] = <<>> /\ bubble'[x] = "none" /\ active' # x /\ x \notin cut
    BY <1>1, <1>2, <1>5, DeliveringShifts DEF AnswerInv, BubbleInv, t
  <2>2. active' # 0 /\ bubble'[active'] = "streaming"
    BY <1>1, <1>2, <1>5, DeliveringShifts DEF AnswerInv, BubbleInv
  <2>3. \A b \in cut : Running # b
    BY DEF AnswerInv, BubbleInv
  <2>4. Own' => active' = t
    BY <1>8
  <2>5. down' = <<>> => Running = t
    BY <1>1, <1>2, <1>6, DeliveringShifts DEF AnswerInv, FrameInv, t
  <2>6. down' # <<>> => down'[1].event # "meta" /\ down'[1].turn = t
    BY <1>2, <1>6, DeliveringShifts DEF AnswerInv, FrameInv, t
  <2> QED
    BY <1>1, <1>2, <2>1, <2>2, <2>3, <2>4, <2>5, <2>6, DeliveringShifts DEF BubbleInv
<1>10. CountInv'
  <2>1. \A i \in 1..Len(down') : down'[i].event = "meta" => active' # down'[i].turn
    BY <1>1, <1>2, LaterCounts DEF t
  <2>2. Own' =>
          /\ Running' = active' => Len(text[active']) + Len(down') = sent[active']
          /\ \A j \in 1..Len(down') :
               down'[j].event = "done" /\ down'[j].turn = active'
                 => Len(text[active']) + j - 1 = sent[active']
    <3> SUFFICES ASSUME Own'
                 PROVE  /\ Running = t => 0 + Len(down') = sent[t]
                        /\ \A j \in 1..Len(down') :
                             down'[j].event = "done" /\ down'[j].turn = t
                               => 0 + j - 1 = sent[t]
      <4>1. Len(text[t]) = 0 /\ text' = text /\ sent' = sent
        BY <1>1, <1>2, <1>7, DeliveringShifts
      <4> QED
        BY <1>8, <4>1
    <3>1. Running = t => Len(down) - 1 = sent[t]
      BY <1>1, <1>2, DeliveringShifts DEF AnswerInv, CountInv, t
    <3>2. \A j \in 1..Len(down') :
            down'[j].event = "done" /\ down'[j].turn = t => (j + 1) - 1 - 1 = sent[t]
      BY <1>1, <1>2, DeliveringShifts DEF AnswerInv, CountInv, t
    <3>3. Len(down) \in Nat /\ Len(down') = Len(down) - 1
      BY <1>2, DeliveringShifts
    <3> QED
      BY <3>1, <3>2, <3>3
  <2>3. \A b \in Turns \ cut :
          /\ \A i \in 1..Len(text[b]) : text[b][i] = b
          /\ bubble'[b] = "complete" => Running # b /\ Len(text[b]) = sent[b]
    BY <1>5 DEF AnswerInv, CountInv
  <2> QED
    BY <1>1, <1>2, <2>1, <2>2, <2>3, LaterCounts, DeliveringShifts DEF CountInv
<1> QED
  BY <1>2, <1>9, <1>10, DeliveringShifts DEF AnswerInv

LEMMA TokenKeeps ==
  ASSUME TypeInv, AnswerInv, Token
  PROVE  AnswerInv'
<1> DEFINE t == down[1].turn
           more == Append(text[active], t)
<1>1. /\ down # <<>> /\ down[1].event = "token" /\ t \in Turns
      /\ UNCHANGED <<bubble, active>>
  BY DeliverIs, DeliveringShifts DEF Token, Deliver, HandleFrame
<1>2. HandleFrame
  BY DEF HandleFrame
<1>3. active \in Turns /\ active # 0
  BY <1>1, <1>2, DeliveringShifts DEF AnswerInv, BubbleInv
<1>4. text[active] \in Seq(Turns) /\ text \in [Turns -> Seq(Turns)]
  BY <1>3 DEF TypeInv, HookType
<1>5. text' = [text EXCEPT ![active] = more]
  BY <1>3, DeliverIs DEF Token
<1>6. /\ Len(text[active]) \in Nat /\ Len(more) = Len(text[active]) + 1
      /\ more[Len(text[active]) + 1] = t
      /\ \A i \in 1..Len(text[active]) : more[i] = text[active][i]
      /\ \A i \in 1..Len(more) : i = Len(text[active]) + 1 \/ i \in 1..Len(text[active])
  BY <1>1, <1>4, AppendProperties
<1>7. Runs(down[1])
  BY <1>1 DEF Runs
<1> HIDE DEF t, more
<1>8. \A b \in Turns : text'[b] = IF b = active THEN more ELSE text[b]
  BY <1>3, <1>4, <1>5
<1>9. BubbleInv'
  <2>1. \A x \in Turns : ~Asked(x)' =>
          sent[x] = 0 /\ text'[x] = <<>> /\ bubble[x] = "none" /\ active # x /\ x \notin cut
    BY <1>2, <1>8, DeliveringShifts DEF AnswerInv, BubbleInv
  <2>2. bubble[active] = "streaming" /\ \A b \in cut : Running # b
    BY <1>3 DEF AnswerInv, BubbleInv
  <2>3. Own => active = t
    BY <1>2, OwnCounts DEF t
  <2>4. down' = <<>> => Running = t
    BY <1>1, <1>2, <1>7, DeliveringShifts DEF AnswerInv, FrameInv, t
  <2>5. down' # <<>> => down'[1].event # "meta" /\ down'[1].turn = t
    BY <1>2, <1>7, DeliveringShifts DEF AnswerInv, FrameInv, t
  <2> QED
    BY <1>1, <1>2, <1>3, <2>1, <2>2, <2>3, <2>4, <2>5, DeliveringShifts DEF BubbleInv, Own
<1>10. CountInv'
  <2>1. \A i \in 1..Len(down') : down'[i].event = "meta" => text'[down'[i].turn] = <<>>
    BY <1>2, <1>8, LaterCounts
  <2>2. Own =>
          /\ Running = active => Len(more) + Len(down') = sent[active]
          /\ \A j \in 1..Len(down') :
               down'[j].event = "done" /\ down'[j].turn = active
                 => Len(more) + j - 1 = sent[active]
    BY <1>2, <1>6, OwnCounts
  <2>3. \A b \in Turns \ cut :
          /\ \A i \in 1..Len(text'[b]) : text'[b][i] = b
          /\ bubble[b] = "complete" => Running # b /\ Len(text'[b]) = sent[b]
    <3> SUFFICES ASSUME NEW b \in Turns \ cut
                 PROVE  /\ \A i \in 1..Len(text'[b]) : text'[b][i] = b
                        /\ bubble[b] = "complete" => Running # b /\ Len(text'[b]) = sent[b]
      OBVIOUS
    <3>1. CASE b # active
      BY <1>8, <3>1 DEF AnswerInv, CountInv
    <3>2. CASE b = active
      <4>1. Own /\ t = active /\ bubble[b] = "streaming"
        BY <1>2, <1>3, <3>2, OwnCounts DEF Own, t, AnswerInv, BubbleInv
      <4>2. \A i \in 1..Len(text[active]) : text[active][i] = active
        BY <3>2 DEF AnswerInv, CountInv
      <4> QED
        BY <1>6, <1>8, <3>2, <4>1, <4>2
    <3> QED
      BY <3>1, <3>2
  <2> QED
    BY SMTT(60), <1>1, <1>2, <1>3, <1>8, <2>1, <2>2, <2>3, LaterCounts, DeliveringShifts
       DEF CountInv, Own
<1> QED
  BY <1>2, <1>9, <1>10, DeliveringShifts DEF AnswerInv

LEMMA EndKeeps ==
  ASSUME TypeInv, AnswerInv, Done \/ Error
  PROVE  AnswerInv'
<1>1. /\ down # <<>> /\ down[1].event \in {"done", "error"} /\ active' = 0 /\ text' = text
      /\ \E s \in {"complete", "error"} :
           /\ s = "complete" => down[1].event = "done"
           /\ bubble' = IF active # 0 THEN [bubble EXCEPT ![active] = s] ELSE bubble
  BY DeliverIs DEF Done, Error, Deliver, NoneActive
<1>2. HandleFrame
  BY DEF HandleFrame
<1>3. ~Runs(down[1])
  BY <1>1 DEF Runs
<1>4. PICK s \in {"complete", "error"} :
        /\ s = "complete" => down[1].event = "done"
        /\ bubble' = IF active # 0 THEN [bubble EXCEPT ![active] = s] ELSE bubble
  BY <1>1
<1>5. \A b \in Turns : bubble'[b] = IF b = active THEN s ELSE bubble[b]
  BY <1>2, <1>4, DeliveringShifts DEF TypeInv, HookType
<1>6. BubbleInv'
  <2>1. \A x \in Turns : ~Asked(x)' =>
          sent[x] = 0 /\ text[x] = <<>> /\ bubble'[x] = "none" /\ 0 # x /\ x \notin cut
    BY <1>2, <1>5, DeliveringShifts DEF AnswerInv, BubbleInv
  <2>2. \A b \in cut : Running # b
    BY DEF AnswerInv, BubbleInv
  <2>3. down' = <<>> => Running = 0
    BY <1>1, <1>2, <1>3, DeliveringShifts DEF AnswerInv, FrameInv
  <2>4. down' # <<>> => down'[1].event \in {"meta", "error"}
    BY <1>2, <1>3, DeliveringShifts DEF AnswerInv, FrameInv
  <2> QED
    BY <1>1, <1>2, <2>1, <2>2, <2>3, <2>4, DeliveringShifts DEF BubbleInv, Own
<1>7. CountInv'
  <2>1. \A i \in 1..Len(down') : down'[i].event = "meta" => 0 # down'[i].turn
    BY <1>2, LaterCounts, DeliveringShifts
  <2>2. \A b \in Turns \ cut :
          bubble'[b] = "complete" => Running # b /\ Len(text[b]) = sent[b]
    <3> SUFFICES ASSUME NEW b \in Turns \ cut, bubble'[b] = "complete"
                 PROVE  Running # b /\ Len(text[b]) = sent[b]
      OBVIOUS
    <3>1. CASE b # active
      BY <1>5, <3>1 DEF AnswerInv, CountInv
    <3>2. CASE b = active
      <4>1. Own /\ down[1].event = "done"
        BY <1>2, <1>4, <1>5, <3>2, DeliveringShifts DEF Own
      <4>2. down[1].turn = active /\ Len(text[active]) \in Nat
        BY <1>2, <4>1, OwnCounts
      <4>3. Len(text[active]) + 1 - 1 = sent[active]
        BY <1>2, <4>1, <4>2, DeliveringShifts DEF AnswerInv, CountInv
      <4>4. Running # active
        BY <1>2, <1>3, <4>2, DeliveringShifts DEF AnswerInv, FrameInv
      <4> QED
        BY <3>2, <4>2, <4>3, <4>4
    <3> QED
      BY <3>1, <3>2
  <2>3. \A b \in Turns \ cut : \A i \in 1..Len(text[b]) : text[b][i] = b
    BY DEF AnswerInv, CountInv
  <2> QED
    BY <1>1, <1>2, <2>1, <2>2, <2>3, LaterCounts, DeliveringShifts DEF CountInv, Own
<1> QED
  BY <1>2, <1>6, <1>7, DeliveringShifts DEF AnswerInv

LEMMA AnswerKeeps == TypeInv /\ OrderInv /\ AnswerInv /\ [Next]_vars => AnswerInv'
<1> SUFFICES ASSUME TypeInv, OrderInv, AnswerInv, [Next]_vars PROVE AnswerInv'
  OBVIOUS
<1>1. CASE UNCHANGED <<taken, down, Running, sent, text, bubble, active, cut>>
  BY <1>1 DEF AnswerInv, FrameInv, BubbleInv, CountInv, Asked, Own, Runs
<1>2. CASE StopGeneration \/ Unmount
  BY <1>1, <1>2, LosingKeeps DEF StopGeneration, Unmount, Running
<1>3. CASE ConnectFails \/ Drop \/ Closed \/ Refused
  <2>1. UNCHANGED <<text, bubble, active>>
    BY <1>3, Closes, Refuses DEF TypeInv, Goes
  <2>2. CASE Quietly
    BY <1>1, <2>1, <2>2 DEF Quietly, Running, server, history
  <2>3. CASE Openly
    BY <2>1, <2>3, LosingKeeps DEF Openly
  <2> QED
    BY <1>3, <2>2, <2>3, ClosesHow
<1>4. CASE Open \/ Reconnect \/ SendMessage
  BY <1>1, <1>4 DEF Open, Reconnect, SendMessage, Running, TypeInv, LinkInv, server, history
<1>5. CASE HandleFrame
  BY <1>5, MetaKeeps, TokenKeeps, EndKeeps DEF HandleFrame
<1>6. CASE Expire \/ Authenticate \/ Commit
  <2>1. UNCHANGED <<taken, down, sent, text, bubble, active, cut>>
    BY <1>6 DEF Expire, Authenticate, Commit, Serve, hook, transport, history
  <2>2. Running' = Running
    BY <1>6 DEF Expire, Authenticate, Commit, Running
  <2> QED
    BY <1>1, <2>1, <2>2
<1>7. CASE UNCHANGED vars
  BY <1>1, <1>7 DEF vars, Running, hook, transport, server, history
<1>8. CASE SendToken \/ SendDone \/ SendError
  <2>1. stage = "answer" \/ (SendError /\ stage = "commit")
    BY <1>8 DEF SendToken, SendDone, SendError
  <2> QED
    BY <1>8, <2>1, SendingKeeps, FailingKeeps
<1> QED
  BY <1>2, <1>3, <1>4, <1>5, <1>6, <1>7, <1>8, TakingKeeps, LateKeeps DEF Next, Event, Loop

\* A bubble whose socket did not go away under it holds its own answer only, and all of
\* it once complete (WebSocketTransport.ts, handleFrame and the close event).
THEOREM AnswersStayInTheirBubbles == Spec => []AnswerInItsBubble
<1>1. Init => AnswerInv
  BY Numbers DEF Init, AnswerInv, FrameInv, BubbleInv, CountInv, Own, Running, Asked, Runs
<1>2. TypeInv /\ OrderInv /\ AnswerInv => AnswerInItsBubble
  BY DEF AnswerInv, CountInv, AnswerInItsBubble
<1>3. Spec => []AnswerInv
  BY <1>1, OrderInvAlways, AnswerKeeps, PTL DEF Spec
<1> QED
  BY <1>2, <1>3, OrderInvAlways, PTL

-----------------------------------------------------------------------------
(* The chat of a follow-up *)

\* The chats that are committed, about to be, or were lost.
Kept == chats \cup unsaved \cup {c \in {into} : stage = "commit"}
Committed == \E c \in named : c \in Kept
Owing(f) == owed[f.turn] # 0 => f.chat = owed[f.turn] /\ f.chat \in Kept
Owings ==
  /\ \A i \in 1..Len(up) : Owing(up[i])
  /\ \A i \in 1..Len(pending) : Owing(pending[i])

\* An answer that was shown whole, or of which the end is on its way, is in a kept
\* chat the widget knows, or will know by the meta event before that end.
ChatInv ==
  /\ named # {} => chat \in named
  /\ (\E b \in Turns : bubble[b] = "complete") => Committed
  /\ Owings
  /\ \A j \in 1..Len(down) : down[j].event = "done" =>
       \/ Committed
       \/ \E i \in 1..Len(down) :
            i < j /\ down[i].event = "meta" /\ down[i].chat \in Kept
  /\ into # 0 =>
       \/ into \in named
       \/ \E i \in 1..Len(down) : down[i].event = "meta" /\ down[i].chat = into
  /\ AnswerContinues

\* The questions asked and the frames of their answers.
LEMMA OldTurns ==
  ASSUME TypeInv, OrderInv, FrameInv
  PROVE  /\ \A i \in 1..Len(up) : up[i] \in Frame /\ up[i].turn \in Turns /\ up[i].turn <= asked
         /\ \A i \in 1..Len(pending) :
              pending[i] \in Frame /\ pending[i].turn \in Turns /\ pending[i].turn <= asked
         /\ \A i \in 1..Len(down) : down[i].turn \in Turns /\ down[i].turn <= asked
<1>1. /\ up \in Seq(Frame) /\ pending \in Seq(Frame) /\ taken \in Seq(Frame)
  BY DEF TypeInv, TransportType, ServerType, HistoryType
<1>2. \A f \in Frame : f.turn \in Turns
  BY DEF Frame
<1>3. \A i \in 1..Len(up) : up[i] \in Frame /\ up[i].turn <= asked
  BY <1>1, ElementOfSeq DEF OrderInv, Within
<1>4. \A i \in 1..Len(pending) : pending[i] \in Frame /\ pending[i].turn <= asked
  BY <1>1, ElementOfSeq DEF OrderInv, Within
<1>5. \A i \in 1..Len(down) : down[i].turn \in Turns /\ down[i].turn <= asked
  BY FrameIs DEF FrameInv, Asked, OrderInv, Within
<1> QED
  BY <1>2, <1>3, <1>4, <1>5

LEMMA AskingContinues ==
  ASSUME TypeInv, OrderInv, FrameInv, ChatInv, SendMessage
  PROVE  ChatInv'
<1> DEFINE t == asked + 1
           f == [turn |-> t, chat |-> chat]
<1>1. /\ UNCHANGED <<chat, named, bubble, chats, down, into, stage, unsaved>>
      /\ \/ up' = Append(up, f) /\ pending' = pending
         \/ up' = up /\ pending' = Append(pending, f)
  BY DEF SendMessage
<1>2. up \in Seq(Frame) /\ pending \in Seq(Frame) /\ asked \in Nat /\ t \in Turns
      /\ chat \in 0..MaxTurns /\ owed \in [Turns -> 0..MaxTurns] /\ named \subseteq Turns
  BY SMTT(60), Numbers, TurnsAssumption
     DEF SendMessage, TypeInv, HookType, TransportType, ServerType, HistoryType
<1>3. f \in Frame /\ f.turn = t /\ f.chat = chat
  BY <1>2 DEF Frame
<1>4. PICK x \in 0..MaxTurns :
        owed' = [owed EXCEPT ![t] = x] /\ (x # 0 => x = chat /\ chat \in Kept)
  <2>1. CASE (\E b \in Turns : bubble[b] = "complete") /\ Cardinality(named) = 1
    <3>1. named # {}
      BY <2>1, FS_EmptySet
    <3>2. PICK c : named = {c}
      <4>1. IsFiniteSet(named)
        <5>1. IsFiniteSet(Turns)
          BY FS_Interval, TurnsAssumption DEF Turns
        <5> QED
          BY <1>2, <5>1, FS_Subset
      <4> QED
        BY <2>1, <4>1, FS_Singleton
    <3>3. chat = c /\ chat \in Kept /\ (CHOOSE y \in named : TRUE) = c
      BY <2>1, <3>1, <3>2 DEF ChatInv, Committed
    <3>4. owed' = [owed EXCEPT ![t] = c]
      BY <2>1, <3>3 DEF SendMessage
    <3> QED
      BY <1>2, <3>3, <3>4
  <2>2. CASE ~((\E b \in Turns : bubble[b] = "complete") /\ Cardinality(named) = 1)
    <3>1. owed' = [owed EXCEPT ![t] = 0]
      BY <2>2 DEF SendMessage
    <3> QED
      BY <3>1, Numbers
  <2> QED
    BY <2>1, <2>2
<1>5. owed'[t] = x /\ \A y \in Turns : y <= asked => owed'[y] = owed[y]
  BY <1>2, <1>4
<1>6. \A y \in Turns : y <= asked => y # t
  BY <1>2
<1> HIDE DEF t, f
<1>7. \A s \in Seq(Frame) :
        (\A i \in 1..Len(s) : s[i].turn \in Turns /\ s[i].turn <= asked /\ Owing(s[i]))
          => /\ \A i \in 1..Len(s) : owed'[s[i].turn] # 0 =>
                  s[i].chat = owed'[s[i].turn] /\ s[i].chat \in Kept
             /\ \A i \in 1..Len(Append(s, f)) :
                  owed'[Append(s, f)[i].turn] # 0 =>
                     /\ Append(s, f)[i].chat = owed'[Append(s, f)[i].turn]
                     /\ Append(s, f)[i].chat \in Kept
  <2> SUFFICES ASSUME NEW s \in Seq(Frame),
                      \A i \in 1..Len(s) : s[i].turn \in Turns /\ s[i].turn <= asked /\ Owing(s[i])
               PROVE  /\ \A i \in 1..Len(s) : owed'[s[i].turn] # 0 =>
                           s[i].chat = owed'[s[i].turn] /\ s[i].chat \in Kept
                      /\ \A i \in 1..Len(Append(s, f)) :
                           owed'[Append(s, f)[i].turn] # 0 =>
                              /\ Append(s, f)[i].chat = owed'[Append(s, f)[i].turn]
                              /\ Append(s, f)[i].chat \in Kept
    OBVIOUS
  <2>1. \A i \in 1..Len(s) : owed'[s[i].turn] # 0 =>
          s[i].chat = owed'[s[i].turn] /\ s[i].chat \in Kept
    BY <1>5 DEF Owings, Owing
  <2>2. \A i \in 1..Len(Append(s, f)) :
          Append(s, f)[i] = f \/ (i \in 1..Len(s) /\ Append(s, f)[i] = s[i])
    BY <1>3, AppendProperties
  <2> QED
    BY <1>3, <1>4, <1>5, <2>1, <2>2
<1>8. \A i \in 1..Len(up') : owed'[up'[i].turn] # 0 =>
        up'[i].chat = owed'[up'[i].turn] /\ up'[i].chat \in Kept
  <2>1. \A i \in 1..Len(up) :
          up[i].turn \in Turns /\ up[i].turn <= asked /\ Owing(up[i])
    BY OldTurns DEF ChatInv, Owings
  <2>2. CASE up' = up
    BY <1>2, <1>7, <2>1, <2>2
  <2>3. CASE up' = Append(up, f)
    BY <1>2, <1>7, <2>1, <2>3
  <2> QED
    BY <1>1, <2>2, <2>3
<1>9. \A i \in 1..Len(pending') : owed'[pending'[i].turn] # 0 =>
        pending'[i].chat = owed'[pending'[i].turn] /\ pending'[i].chat \in Kept
  <2>1. \A i \in 1..Len(pending) :
          pending[i].turn \in Turns /\ pending[i].turn <= asked /\ Owing(pending[i])
    BY OldTurns DEF ChatInv, Owings
  <2>2. CASE pending' = pending
    BY <1>2, <1>7, <2>1, <2>2
  <2>3. CASE pending' = Append(pending, f)
    BY <1>2, <1>7, <2>1, <2>3
  <2> QED
    BY <1>1, <2>2, <2>3
<1>10. AnswerContinues'
  BY <1>1, <1>5, OldTurns DEF ChatInv, AnswerContinues
<1>11. Kept' = Kept /\ (Committed' <=> Committed)
  BY <1>1 DEF Kept, Committed
<1>12. \A j \in 1..Len(down') : down'[j].event = "done" =>
        \/ Committed'
        \/ \E i \in 1..Len(down') :
             i < j /\ down'[i].event = "meta" /\ down'[i].chat \in Kept'
  BY <1>1, <1>11 DEF ChatInv
<1>13. Owings'
  BY <1>8, <1>9, <1>11 DEF Owings, Owing
<1> QED
  BY <1>1, <1>10, <1>11, <1>12, <1>13 DEF ChatInv

\* A step that delivers no frame, asks and takes no question: what was kept stays so, and
\* where the socket is lost all that lies on it is.
LEMMA StandingContinues ==
  ASSUME TypeInv, ChatInv, UNCHANGED <<bubble, chat, named, owed>>,
         Kept \subseteq Kept', unsaved \subseteq unsaved',
         \/ up' = up /\ pending' = pending
         \/ up' = <<>> /\ pending' = pending
         \/ up' = pending /\ pending' = <<>>,
         \/ down' = down
         \/ down' = <<>>,
         into' = 0 \/ (into' = into /\ down' = down)
  PROVE  ChatInv'
<1>1. Committed => Committed'
  BY DEF Committed
<1>2. Owings'
  <2>1. Len(<<>>) = 0
    OBVIOUS
  <2> QED
    BY <2>1 DEF ChatInv, Owings, Owing
<1>3. \A j \in 1..Len(down') : down'[j].event = "done" =>
        \/ Committed'
        \/ \E i \in 1..Len(down') :
             i < j /\ down'[i].event = "meta" /\ down'[i].chat \in Kept'
  <2>1. CASE down' = <<>>
    BY <2>1
  <2>2. CASE down' = down
    BY <1>1, <2>2 DEF ChatInv
  <2> QED
    BY <2>1, <2>2
<1>4. into' # 0 =>
       \/ into' \in named'
       \/ \E i \in 1..Len(down') : down'[i].event = "meta" /\ down'[i].chat = into'
  BY DEF ChatInv
<1>5. AnswerContinues'
  BY DEF ChatInv, AnswerContinues
<1> QED
  BY <1>1, <1>2, <1>3, <1>4, <1>5 DEF ChatInv

LEMMA LosingContinues ==
  ASSUME TypeInv, ChatInv, LoseSocket, UNCHANGED <<bubble, chat, pending, named, owed, chats>>
  PROVE  ChatInv'
<1>1. /\ up' = <<>> /\ down' = <<>> /\ into' = 0
      /\ unsaved' = IF stage = "commit" THEN unsaved \cup ({into} \ chats) ELSE unsaved
  BY Losing DEF LoseSocket
<1>2. Kept \subseteq Kept' /\ unsaved \subseteq unsaved'
  BY <1>1 DEF Kept
<1> QED
  BY <1>1, <1>2, StandingContinues

LEMMA TakingContinues ==
  ASSUME TypeInv, ChatInv, Take
  PROVE  ChatInv'
<1>1. /\ UNCHANGED <<bubble, chat, pending, named, owed, chats, unsaved>>
      /\ stage = "wait" /\ 1 \in 1..Len(up)
  BY TakeIs DEF hook, transport
<1>2. PICK m \in Reply :
        /\ down' = Append(down, m) /\ m.turn = up[1].turn
        /\ \/ /\ m.event = "meta" /\ m.chat = ChatFor(up[1])
              /\ into' = m.chat /\ stage' = "answer"
           \/ m.event = "error" /\ into' = 0 /\ stage' = "wait"
  BY TakeIs
<1>3. /\ Len(down) \in Nat /\ Len(down') = Len(down) + 1 /\ down'[Len(down')] = m
      /\ \A i \in 1..Len(down) : down'[i] = down[i]
      /\ \A i \in 1..Len(down') : i = Len(down') \/ i \in 1..Len(down)
      /\ Len(down') \in 1..Len(down')
  BY <1>2, AppendIs
<1>4. Kept' = Kept /\ Kept = chats \cup unsaved
  BY <1>1, <1>2 DEF Kept
<1>5. m.event = "meta" /\ owed[m.turn] \notin {0} \cup unsaved => m.chat = owed[m.turn]
  BY <1>1, <1>2, <1>4 DEF ChatInv, Owings, Owing, ChatFor
<1>6. AnswerContinues'
  BY <1>1, <1>3, <1>5 DEF ChatInv, AnswerContinues
<1>7. \A j \in 1..Len(down') : down'[j].event = "done" =>
        \/ Committed
        \/ \E i \in 1..Len(down') :
             i < j /\ down'[i].event = "meta" /\ down'[i].chat \in Kept
  <2> SUFFICES ASSUME NEW j \in 1..Len(down'), down'[j].event = "done", ~Committed
               PROVE  \E i \in 1..Len(down') :
                        i < j /\ down'[i].event = "meta" /\ down'[i].chat \in Kept
    OBVIOUS
  <2>1. j \in 1..Len(down) /\ down'[j] = down[j]
    BY <1>2, <1>3
  <2>2. PICK i \in 1..Len(down) :
          i < j /\ down[i].event = "meta" /\ down[i].chat \in Kept
    BY <2>1 DEF ChatInv
  <2>3. i \in 1..Len(down') /\ down'[i] = down[i]
    BY <1>3
  <2> QED
    BY <2>2, <2>3
<1>8. into' # 0 =>
        \E i \in 1..Len(down') : down'[i].event = "meta" /\ down'[i].chat = into'
  BY <1>2, <1>3
<1>9. \A i \in 1..Len(up') : Owing(up'[i])
  BY TakeIs DEF ChatInv, Owings
<1>10. Owings'
  BY <1>1, <1>4, <1>9 DEF ChatInv, Owings, Owing
<1>11. Committed' <=> Committed
  BY <1>1, <1>4 DEF Committed
<1> QED
  BY <1>1, <1>4, <1>6, <1>7, <1>8, <1>10, <1>11 DEF ChatInv

LEMMA SendingContinues ==
  ASSUME TypeInv, ChatInv, SendToken \/ SendDone \/ SendError
  PROVE  ChatInv'
<1>1. UNCHANGED <<bubble, chat, pending, up, named, owed, chats>> /\ into # 0
  BY SendIs, Numbers DEF hook, transport
<1>2. PICK m \in Reply :
        /\ down' = Append(down, m) /\ m.event # "meta"
        /\ \/ m.event = "token" /\ UNCHANGED <<into, stage, unsaved>>
           \/ /\ m.event = "done" /\ stage = "answer" /\ stage' = "commit"
              /\ UNCHANGED <<into, unsaved>>
           \/ /\ m.event = "error" /\ into' = 0
              /\ stage = "commit" => unsaved' = unsaved \cup ({into} \ chats)
              /\ stage # "commit" => unsaved' = unsaved
  BY SendIs
<1>3. /\ Len(down) \in Nat /\ Len(down') = Len(down) + 1 /\ down'[Len(down')] = m
      /\ \A i \in 1..Len(down) : down'[i] = down[i] /\ i \in 1..Len(down') /\ i < Len(down')
      /\ \A i \in 1..Len(down') : i = Len(down') \/ i \in 1..Len(down)
  BY <1>2, AppendIs
<1>4. \/ into \in named
      \/ \E i \in 1..Len(down) : down[i].event = "meta" /\ down[i].chat = into
  BY <1>1 DEF ChatInv
<1>5. /\ Kept \subseteq Kept' /\ unsaved \subseteq unsaved'
      /\ m.event = "done" => into \in Kept'
  BY <1>1, <1>2 DEF Kept
<1>6. Committed => Committed'
  BY <1>1, <1>5 DEF Committed
<1>7. \A j \in 1..Len(down') : down'[j].event = "done" =>
        \/ Committed'
        \/ \E i \in 1..Len(down') :
             i < j /\ down'[i].event = "meta" /\ down'[i].chat \in Kept'
  <2> SUFFICES ASSUME NEW j \in 1..Len(down'), down'[j].event = "done", ~Committed'
               PROVE  \E i \in 1..Len(down') :
                        i < j /\ down'[i].event = "meta" /\ down'[i].chat \in Kept'
    OBVIOUS
  <2>1. CASE j \in 1..Len(down)
    <3>1. PICK i \in 1..Len(down) :
            i < j /\ down[i].event = "meta" /\ down[i].chat \in Kept
      BY <1>3, <1>6, <2>1 DEF ChatInv
    <3> QED
      BY <1>3, <1>5, <3>1
  <2>2. CASE j = Len(down')
    <3>1. into \in Kept'
      BY <1>3, <1>5, <2>2
    <3>2. into \notin named
      BY <1>1, <3>1 DEF Committed
    <3>3. PICK i \in 1..Len(down) : down[i].event = "meta" /\ down[i].chat = into
      BY <1>4, <3>2
    <3> QED
      BY <1>3, <2>2, <3>1, <3>3
  <2> QED
    BY <1>3, <2>1, <2>2
<1>8. into' # 0 =>
        \/ into' \in named'
        \/ \E i \in 1..Len(down') : down'[i].event = "meta" /\ down'[i].chat = into'
  BY <1>1, <1>2, <1>3, <1>4
<1>9. AnswerContinues'
  BY <1>1, <1>2, <1>3, <1>5 DEF ChatInv, AnswerContinues
<1>10. Owings'
  BY <1>1, <1>5 DEF ChatInv, Owings, Owing
<1> QED
  BY <1>1, <1>6, <1>7, <1>8, <1>9, <1>10 DEF ChatInv

LEMMA DeliveringContinues ==
  ASSUME TypeInv, AnswerInv, ChatInv, HandleFrame
  PROVE  ChatInv'
<1>1. UNCHANGED <<pending, up, chats, into, stage, unsaved, owed>>
  BY DeliverIs DEF HandleFrame
<1>2. /\ 1 \in 1..Len(down) /\ Len(down) \in Nat
      /\ \A i \in 1..Len(down') :
           i + 1 \in 1..Len(down) /\ 1 < i + 1 /\ down'[i] = down[i + 1]
      /\ \A i \in 1..Len(down) : i # 1 => i - 1 \in 1..Len(down') /\ down'[i - 1] = down[i]
  BY SMTT(60), DeliveringShifts
<1>3. /\ named \subseteq named'
      /\ down[1].event = "meta" => chat' = down[1].chat /\ down[1].chat \in named'
      /\ down[1].event # "meta" => UNCHANGED <<chat, named>>
  BY DeliverIs DEF HandleFrame, Meta, Token, Done, Error, Deliver
<1>4. Kept' = Kept
  BY <1>1 DEF Kept
<1>5. Committed => Committed'
  BY <1>3, <1>4 DEF Committed
<1>6. (\E b \in Turns : bubble'[b] = "complete") => Committed'
  <2> SUFFICES ASSUME NEW b \in Turns, bubble'[b] = "complete" PROVE Committed'
    OBVIOUS
  <2>1. CASE bubble[b] = "complete"
    BY <1>5, <2>1 DEF ChatInv
  <2>2. CASE bubble[b] # "complete"
    <3>1. down[1].event = "done"
      BY <2>2, DeliverIs DEF HandleFrame, Meta, Token, Done, Error, Deliver, TypeInv, HookType
    <3>2. ~ \E i \in 1..Len(down) : i < 1
      BY <1>2
    <3> QED
      BY <1>2, <1>5, <3>1, <3>2 DEF ChatInv
  <2> QED
    BY <2>1, <2>2
<1>7. \A j \in 1..Len(down') : down'[j].event = "done" =>
        \/ Committed'
        \/ \E i \in 1..Len(down') :
             i < j /\ down'[i].event = "meta" /\ down'[i].chat \in Kept'
  <2> SUFFICES ASSUME NEW j \in 1..Len(down'), down'[j].event = "done", ~Committed'
               PROVE  \E i \in 1..Len(down') :
                        i < j /\ down'[i].event = "meta" /\ down'[i].chat \in Kept'
    OBVIOUS
  <2>1. PICK i \in 1..Len(down) :
          i < j + 1 /\ down[i].event = "meta" /\ down[i].chat \in Kept
    BY <1>2, <1>5 DEF ChatInv
  <2>2. i # 1
    BY <1>3, <1>4, <2>1 DEF Committed
  <2>3. i - 1 \in 1..Len(down') /\ i - 1 < j
    BY <1>2, <2>1, <2>2
  <2> QED
    BY <1>2, <1>4, <2>1, <2>2, <2>3
<1>8. into' # 0 =>
        \/ into' \in named'
        \/ \E i \in 1..Len(down') : down'[i].event = "meta" /\ down'[i].chat = into'
  <2> SUFFICES ASSUME into # 0, into \notin named'
               PROVE  \E i \in 1..Len(down') :
                        down'[i].event = "meta" /\ down'[i].chat = into
    BY <1>1
  <2>1. PICK i \in 1..Len(down) : down[i].event = "meta" /\ down[i].chat = into
    BY <1>3 DEF ChatInv
  <2>2. i # 1
    BY <1>3, <2>1
  <2> QED
    BY <1>2, <2>1, <2>2
<1>9. AnswerContinues'
  <2>1. \A i \in 1..Len(down) :
          down[i].event = "meta" /\ owed[down[i].turn] \notin {0} \cup unsaved
            => down[i].chat = owed[down[i].turn]
    BY DEF ChatInv, AnswerContinues
  <2>2. \A i \in 1..Len(down') : \E k \in 1..Len(down) : down'[i] = down[k]
    BY <1>2
  <2>3. \A i \in 1..Len(down') :
          down'[i].event = "meta" /\ owed[down'[i].turn] \notin {0} \cup unsaved
            => down'[i].chat = owed[down'[i].turn]
    BY <2>1, <2>2
  <2> QED
    BY <1>1, <2>3 DEF AnswerContinues
<1>10. named' # {} => chat' \in named'
  BY <1>3 DEF ChatInv
<1>11. Owings'
  BY <1>1, <1>4 DEF ChatInv, Owings, Owing
<1> QED
  BY <1>6, <1>7, <1>8, <1>9, <1>10, <1>11 DEF ChatInv

LEMMA ChatKeeps ==
  TypeInv /\ OrderInv /\ AnswerInv /\ ChatInv /\ [Next]_vars => ChatInv'
<1> SUFFICES ASSUME TypeInv, OrderInv, AnswerInv, ChatInv, [Next]_vars PROVE ChatInv'
  OBVIOUS
<1> DEFINE Idle == UNCHANGED <<bubble, chat, pending, up, down, into, stage, chats, named,
                               owed, unsaved>>
<1>1. CASE Idle
  <2>1. Kept' = Kept
    BY <1>1 DEF Kept
  <2> QED
    BY <1>1, <2>1, StandingContinues
<1>2. CASE StopGeneration \/ Unmount
  <2>1. CASE LoseSocket
    BY <1>2, <2>1, LosingContinues DEF StopGeneration, Unmount
  <2>2. CASE ~LoseSocket
    BY <1>1, <1>2, <2>2 DEF StopGeneration, Unmount
  <2> QED
    BY <2>1, <2>2
<1>3. CASE ConnectFails \/ Drop \/ Closed \/ Refused
  <2>1. UNCHANGED <<bubble, chat, pending>>
    BY <1>3, Closes, Refuses DEF TypeInv, Goes
  <2>2. CASE Quietly
    BY <1>1, <2>1, <2>2 DEF Quietly, server, history
  <2>3. CASE Openly
    BY <2>1, <2>3, LosingContinues DEF Openly
  <2> QED
    BY <1>3, <2>2, <2>3, ClosesHow
<1>4. CASE Open
  <2>1. /\ up' = pending /\ pending' = <<>> /\ stage' = "auth" /\ stage = "auth"
        /\ UNCHANGED <<bubble, chat, down, into, chats, named, owed, unsaved>>
    BY <1>4, ConcatEmptySeq DEF Open, Flushed, TypeInv, TransportType, LinkInv
  <2>2. Kept' = Kept
    BY <2>1 DEF Kept
  <2> QED
    BY <2>1, <2>2, StandingContinues
<1>5. CASE Reconnect
  BY <1>1, <1>5 DEF Reconnect, server, history
<1>6. CASE Expire \/ Authenticate
  <2>1. /\ UNCHANGED <<bubble, chat, pending, up, down, into, chats, named, owed, unsaved>>
        /\ stage' = stage \/ (stage = "auth" /\ stage' \in {"wait", "refused"})
    BY <1>6 DEF Expire, Authenticate, Serve, hook, transport, history
  <2>2. Kept' = Kept
    BY <2>1 DEF Kept
  <2> QED
    BY <2>1, <2>2, StandingContinues
<1>7. CASE Commit
  <2>1. /\ UNCHANGED <<bubble, chat, pending, up, down, named, owed, unsaved>>
        /\ into' = 0 /\ chats' = chats \cup {into}
    BY <1>7 DEF Commit, Serve, hook, transport, history
  <2>2. Kept \subseteq Kept'
    BY <2>1 DEF Kept
  <2> QED
    BY <2>1, <2>2, StandingContinues
<1>8. CASE LateLoop
  <2>1. /\ UNCHANGED <<bubble, chat, pending, up, down, into, stage, named, owed, unsaved>>
        /\ chats \subseteq chats'
    BY <1>8, LateIs DEF hook, transport
  <2>2. Kept \subseteq Kept'
    BY <2>1 DEF Kept
  <2> QED
    BY <2>1, <2>2, StandingContinues
<1>9. CASE UNCHANGED vars
  BY <1>1, <1>9 DEF vars, hook, transport, server, history
<1>10. CASE SendMessage
  BY <1>10, AskingContinues DEF AnswerInv
<1>11. CASE Take \/ SendToken \/ SendDone \/ SendError
  BY <1>11, TakingContinues, SendingContinues
<1>12. CASE HandleFrame
  BY <1>12, DeliveringContinues
<1> QED
  BY <1>2, <1>3, <1>4, <1>5, <1>6, <1>7, <1>8, <1>9, <1>10, <1>11, <1>12 DEF Next, Event, Loop

\* A follow-up continues the chat whose answer the widget shows, over drops and
\* reconnections (WebSocketTransport.ts, externalChatId; rag_chat_ws), unless the commit
\* behind that answer failed or was still to come when the socket was lost.
THEOREM AnswersAlwaysContinue == Spec => []AnswerContinues
<1>1. Init => AnswerInv
  BY Numbers DEF Init, AnswerInv, FrameInv, BubbleInv, CountInv, Own, Running, Asked, Runs
<1>2. Init => ChatInv
  BY DEF Init, ChatInv, Owings, AnswerContinues
<1>3. Spec => [](AnswerInv /\ ChatInv)
  BY <1>1, <1>2, OrderInvAlways, AnswerKeeps, ChatKeeps, PTL DEF Spec
<1>4. ChatInv => AnswerContinues
  BY DEF ChatInv
<1> QED
  BY <1>3, <1>4, PTL
=============================================================================
