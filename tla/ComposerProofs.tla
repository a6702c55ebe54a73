--------------------------- MODULE ComposerProofs ---------------------------
(***************************************************************************)
(* Composer's properties, for any number of words, mountings, recordings   *)
(* and demo turns.  The step relation leaves three of the four groups of   *)
(* variables alone in most actions, so the inductive invariant has a part  *)
(* for each: PageInv, InputInv, VoiceInv and DemoInv.                      *)
(***************************************************************************)
EXTENDS Composer, TLAPS

PageInv ==
  /\ shell \in Shells /\ element \in {"new", "connected", "removed"}
  /\ config \in 0..MaxConfigs /\ rendered \in 0..MaxConfigs
  /\ isOpen \in BOOLEAN /\ failed \in BOOLEAN
  /\ element = "connected" => rendered = config

InputInv ==
  /\ bars \in 0..MaxBars /\ bar \in 0..bars /\ words \in 0..MaxWords
  /\ draft \subseteq 1..words /\ sent \subseteq 1..words /\ erased \subseteq 1..words
  /\ WordsKept

VoiceType ==
  /\ status \in [Bars -> {"idle", "recording", "transcribing", "error"}]
  /\ recorderRef \in [Bars -> 0..MaxRecordings]
  /\ streamRef \in [Bars -> 0..MaxRecordings]
  /\ started \in 0..MaxRecordings /\ barOf \in [Recordings -> 0..MaxBars]
  /\ recording \in [Recordings ->
       {"none", "asking", "recording", "stopping", "uploading", "over"}]
  /\ live \subseteq Recordings /\ stuck \subseteq Recordings /\ crossed \subseteq Bars
  /\ before \in [Recordings -> SUBSET Words]

\* A microphone that is as shown is that of the recorder and of the stream of its bar,
\* where no other recording is under way.
VoiceInv ==
  /\ VoiceType
  /\ \A r \in Recordings : r > started => recording[r] = "none"
  /\ \A r \in Recordings : recording[r] # "none" => barOf[r] \in Bars
  /\ \A r \in live : recording[r] # "none"
  /\ \A q, r \in Recordings :
       Busy(q) /\ Busy(r) /\ barOf[q] = barOf[r] /\ barOf[r] \notin crossed => q = r
  /\ \A r \in live : barOf[r] \notin crossed /\ r \notin stuck =>
       /\ recording[r] \in {"recording", "stopping"}
       /\ status[barOf[r]] = "recording"
       /\ recorderRef[barOf[r]] = r /\ streamRef[barOf[r]] = r

DemoType ==
  /\ stopped \in BOOLEAN /\ typing \in BOOLEAN
  /\ reply \in [Turns -> {"none", "thinking", "streaming", "ended"}]
  /\ got \in [Turns -> 0..ReplyWords] /\ stoppedAt \in [Turns -> 0..None]
  /\ resumed \subseteq Turns /\ outlived \subseteq Turns

\* A turn that was stopped is under way only until its loop looks at the flag.
DemoInv ==
  /\ DemoType
  /\ \A t \in Turns :
       /\ reply[t] \in {"none", "thinking"} => got[t] = 0
       /\ reply[t] = "streaming" => got[t] < ReplyWords
       /\ reply[t] = "none" => stoppedAt[t] = None
       /\ stoppedAt[t] # None /\ t \notin resumed /\ UnderWay(t) =>
            stopped /\ got[t] = stoppedAt[t]
  /\ StopTruthful

Inv == PageInv /\ InputInv /\ VoiceInv /\ DemoInv

-----------------------------------------------------------------------------
LEMMA InvInit == Init => Inv
<1> SUFFICES ASSUME Init PROVE Inv
  OBVIOUS
<1>1. PageInv
  <2>1. 0 \in 0..MaxConfigs
    BY BoundAssumption
  <2> QED
    BY <2>1 DEF Init, PageInv
<1>2. InputInv
  BY BoundAssumption DEF Init, InputInv, WordsKept
<1>3. VoiceInv
  BY BoundAssumption DEF Init, VoiceInv, VoiceType, Bars, Recordings, Busy
<1>4. DemoInv
  <2>1. None \in 0..None /\ 0 \in 0..ReplyWords
    BY BoundAssumption DEF None
  <2> QED
    BY <2>1, BoundAssumption DEF Init, DemoInv, DemoType, Turns, UnderWay, StopTruthful
<1> QED
  BY <1>1, <1>2, <1>3, <1>4 DEF Inv

\* Which groups a step leaves alone.
LEMMA Frames ==
  ASSUME [Next]_vars
  PROVE  /\ UNCHANGED page \/ Toggle \/ ChatFails \/ SetConfig \/ Connected \/ Disconnected
         /\ \/ UNCHANGED input
            \/ Toggle \/ Connected \/ Disconnected \/ Type \/ Erase \/ Send
            \/ \E r \in Recordings : Transcribed(r)
         /\ \/ UNCHANGED voice
            \/ ToggleRecording
            \/ \E r \in Recordings :
                 \/ RecorderStarts(r) \/ RecorderRefused(r) \/ Denied(r) \/ Revoked(r)
                 \/ \E someData \in BOOLEAN : OnStop(r, someData)
                 \/ \E outcome \in {"idle", "error"} : TranscriptionEnds(r, outcome)
         /\ \/ UNCHANGED demo
            \/ (\E t \in Turns : Ask(t)) \/ StopGeneration \/ (\E t \in Turns : Delay(t))
BY ZenonT(60) DEF Next, vars, page, input, voice, demo, Toggle, ChatFails, SetConfig, Connected,
       Disconnected, Type, Erase, Send, ToggleRecording, StopGeneration, RecorderStarts,
       RecorderRefused, Denied, Revoked, OnStop, Answered, Transcribed, NotTranscribed,
       TranscriptionEnds, Delay, Thought, Chunk

LEMMA PageKeeps ==
  ASSUME PageInv, [Next]_vars
  PROVE  PageInv'
<1>1. CASE UNCHANGED page
  BY <1>1 DEF PageInv, page
<1>2. CASE Toggle \/ ChatFails \/ Connected \/ Disconnected
  BY <1>2 DEF PageInv, Toggle, ChatFails, Connected, Disconnected, Show
<1>3. CASE SetConfig
  BY <1>3, BoundAssumption DEF PageInv, SetConfig, Rendered
<1> QED
  BY <1>1, <1>2, <1>3, Frames

-----------------------------------------------------------------------------
(* The words *)

LEMMA InputKeeps ==
  ASSUME InputInv, [Next]_vars
  PROVE  InputInv'
<1>1. /\ bars \in Nat /\ words \in Nat /\ bars + 1 \in Nat /\ words + 1 \in Nat
      /\ MaxBars \in Nat /\ MaxWords \in Nat
      /\ words + 1 \in 1..(words + 1) /\ words + 1 \notin 1..words
      /\ 1..(words + 1) = 1..words \cup {words + 1}
  BY BoundAssumption DEF InputInv
<1>2. CASE UNCHANGED input
  BY <1>2 DEF InputInv, WordsKept, input
<1>3. CASE Toggle \/ Connected \/ Disconnected
  <2>1. UNCHANGED input \/ ((Mount \/ Unmount) /\ UNCHANGED <<words, sent>>)
    BY <1>3 DEF Toggle, Connected, Disconnected, Show, input
  <2>2. ASSUME Mount, UNCHANGED <<words, sent>>
        PROVE  InputInv'
    BY <1>1, <2>2 DEF InputInv, WordsKept, Mount
  <2>3. ASSUME Unmount, UNCHANGED <<words, sent>>
        PROVE  InputInv'
    BY <1>1, <2>3 DEF InputInv, WordsKept, Unmount
  <2> QED
    BY <1>2, <2>1, <2>2, <2>3
<1>4. CASE Type
  <2>1. /\ words' = words + 1 /\ draft' = draft \cup {words + 1} /\ words < MaxWords
        /\ UNCHANGED <<bars, bar, sent, erased>>
    BY <1>4 DEF Type
  <2>2. words' \in 0..MaxWords
    BY <1>1, <2>1
  <2> QED
    BY <1>1, <2>1, <2>2 DEF InputInv, WordsKept
<1>5. CASE Erase
  BY <1>5 DEF InputInv, WordsKept, Erase
<1>6. CASE Send
  BY <1>6 DEF InputInv, WordsKept, Send, DraftSent
<1>7. CASE \E r \in Recordings : Transcribed(r)
  <2>1. PICK r \in Recordings : Transcribed(r)
    BY <1>7
  <2>2. /\ words' = words + 1 /\ words + 1 \in Words
        /\ UNCHANGED <<bars, bar, sent>>
        /\ \/ draft' = draft \cup {words + 1} /\ erased' = erased
           \/ draft' = draft /\ erased' = erased \cup {words + 1}
    BY <2>1 DEF Transcribed, TranscriptionEnds, Heard
  <2>3. words' \in 0..MaxWords
    BY <1>1, <2>2 DEF Words
  <2> QED
    BY <1>1, <2>2, <2>3 DEF InputInv, WordsKept
<1> QED
  BY <1>2, <1>3, <1>4, <1>5, <1>6, <1>7, Frames

-----------------------------------------------------------------------------
(* The demo's replies *)

LEMMA DemoKeeps ==
  ASSUME DemoInv, [Next]_vars
  PROVE  DemoInv'
<1>1. /\ ReplyWords \in Nat \ {0} /\ None = ReplyWords + 1
      /\ \A n \in 0..ReplyWords : n \in 0..None /\ n # None
      /\ None \in 0..None
  BY BoundAssumption DEF None
<1>2. CASE UNCHANGED demo
  BY <1>2 DEF DemoInv, DemoType, StopTruthful, UnderWay, demo
<1>3. ASSUME NEW t \in Turns, Ask(t)
      PROVE  DemoInv'
  <2>1. /\ reply[t] = "none" /\ reply' = [reply EXCEPT ![t] = "thinking"]
        /\ stopped' = FALSE /\ typing' = TRUE /\ outlived' = {}
        /\ resumed' = resumed \cup {u \in Turns : UnderWay(u) /\ stoppedAt[u] # None}
        /\ got' = got /\ stoppedAt' = stoppedAt
    BY <1>3 DEF Ask, FlagReset
  <2>2. DemoType'
    BY <2>1 DEF DemoInv, DemoType
  <2>3. \A u \in Turns : reply'[u] = IF u = t THEN "thinking" ELSE reply[u]
    BY <2>1 DEF DemoInv, DemoType
  <2>4. \A u \in Turns : UnderWay(u)' <=> u = t \/ UnderWay(u)
    BY <2>3 DEF UnderWay
  <2>5. /\ stoppedAt[t] = None
        /\ \A u \in Turns : UnderWay(u) /\ stoppedAt[u] # None => u \in resumed'
    BY <2>1 DEF DemoInv
  <2>6. \A u \in Turns :
          /\ reply'[u] \in {"none", "thinking"} => got'[u] = 0
          /\ reply'[u] = "streaming" => got'[u] < ReplyWords
          /\ reply'[u] = "none" => stoppedAt'[u] = None
          /\ stoppedAt'[u] # None /\ u \notin resumed' /\ UnderWay(u)' =>
               stopped' /\ got'[u] = stoppedAt'[u]
    BY <2>1, <2>3, <2>4, <2>5 DEF DemoInv
  <2>7. StopTruthful'
    <3>1. \E u \in Turns : UnderWay(u)' /\ ~stopped'
      BY <2>1, <2>4
    <3>2. \A u \in Turns :
            stoppedAt'[u] # None /\ u \notin resumed' => got'[u] <= stoppedAt'[u] + 1
      BY <2>1 DEF DemoInv, StopTruthful
    <3> QED
      BY <2>1, <3>1, <3>2 DEF StopTruthful
  <2> QED
    BY <2>2, <2>6, <2>7 DEF DemoInv
<1>4. CASE StopGeneration
  <2>1. /\ stopped' = TRUE /\ typing' = FALSE
        /\ stoppedAt' = [t \in Turns |-> IF UnderWay(t) THEN got[t] ELSE stoppedAt[t]]
        /\ resumed' = {t \in resumed : ~UnderWay(t)}
        /\ UNCHANGED <<reply, got, outlived>>
    BY <1>4 DEF StopGeneration
  <2>2. \A t \in Turns : stoppedAt'[t] = IF UnderWay(t) THEN got[t] ELSE stoppedAt[t]
    BY <2>1
  <2>3. \A t \in Turns : got[t] \in 0..ReplyWords /\ stoppedAt[t] \in 0..None
    BY DEF DemoInv, DemoType
  <2>4. stoppedAt' \in [Turns -> 0..None] /\ resumed' \subseteq Turns
    BY <1>1, <2>1, <2>3 DEF DemoInv, DemoType
  <2>5. DemoType'
    BY <2>1, <2>4 DEF DemoInv, DemoType
  <2>6. \A t \in Turns : UnderWay(t)' <=> UnderWay(t)
    BY <2>1 DEF UnderWay
  <2>7. \A t \in Turns :
          /\ reply'[t] \in {"none", "thinking"} => got'[t] = 0
          /\ reply'[t] = "streaming" => got'[t] < ReplyWords
          /\ reply'[t] = "none" => stoppedAt'[t] = None
          /\ stoppedAt'[t] # None /\ t \notin resumed' /\ UnderWay(t)' =>
               stopped' /\ got'[t] = stoppedAt'[t]
    BY <2>1, <2>2, <2>6 DEF DemoInv, UnderWay
  <2>8. StopTruthful'
    <3>1. ASSUME NEW t \in Turns, stoppedAt'[t] # None, t \notin resumed'
          PROVE  got'[t] <= stoppedAt'[t] + 1
      <4>1. CASE UnderWay(t)
        BY <1>1, <2>1, <2>2, <2>3, <4>1
      <4>2. CASE ~UnderWay(t)
        <5>1. t \notin resumed /\ stoppedAt'[t] = stoppedAt[t]
          BY <2>1, <2>2, <3>1, <4>2
        <5> QED
          BY <2>1, <3>1, <5>1 DEF DemoInv, StopTruthful
      <4> QED
        BY <4>1, <4>2
    <3> QED
      BY <2>1, <3>1 DEF StopTruthful
  <2> QED
    BY <2>1, <2>5, <2>7, <2>8 DEF DemoInv
<1>5. ASSUME NEW t \in Turns, Delay(t)
      PROVE  DemoInv'
  <2> DEFINE n == IF reply[t] = "thinking" THEN 0 ELSE got[t] + 1
  <2>1. /\ UnderWay(t) /\ got[t] \in 0..ReplyWords
        /\ \A u \in Turns : got[u] \in 0..ReplyWords /\ stoppedAt[u] \in 0..None
        /\ n \in 0..ReplyWords
        /\ UNCHANGED <<stopped, stoppedAt, resumed>>
        /\ got' = [got EXCEPT ![t] = n]
    BY <1>1, <1>5 DEF Delay, Thought, Chunk, DemoInv, DemoType, UnderWay
  <2>11. (reply[t] = "thinking" => n = 0) /\ (reply[t] = "streaming" => n = got[t] + 1)
    OBVIOUS
  <2> HIDE DEF n
  <2>2. \/ LoopEnds(t, n) /\ reply' = [reply EXCEPT ![t] = "ended"] /\ typing' = FALSE
             /\ outlived' = {u \in Turns \ {t} : UnderWay(u)}
        \/ ~LoopEnds(t, n) /\ reply' = [reply EXCEPT ![t] = "streaming"]
             /\ \/ typing' = TRUE /\ outlived' = {}
                \/ reply[t] = "streaming" /\ typing' = typing /\ outlived' = outlived
    <3>1. CASE Thought(t)
      <4>1. reply[t] = "thinking" /\ n = 0
        BY <2>11, <3>1 DEF Thought
      <4>2. LoopEnds(t, n) <=> LoopEnds(t, 0)
        BY <4>1 DEF LoopEnds
      <4>3. CASE LoopEnds(t, 0)
        BY <3>1, <4>2, <4>3 DEF Thought, Ends
      <4>4. CASE ~LoopEnds(t, 0)
        <5>1. Streams(t)
          BY <3>1, <4>4 DEF Thought
        <5>2. reply' = [reply EXCEPT ![t] = "streaming"] /\ typing' = TRUE /\ outlived' = {}
          BY <5>1 DEF Streams
        <5> QED
          BY <4>2, <4>4, <5>2 DEF LoopEnds
      <4> QED
        BY <4>3, <4>4
    <3>2. CASE Chunk(t)
      <4>1. reply[t] = "streaming" /\ n = got[t] + 1
        BY <2>11, <3>2 DEF Chunk
      <4>2. reply' = reply => reply' = [reply EXCEPT ![t] = "streaming"]
        BY <4>1 DEF DemoInv, DemoType
      <4> QED
        BY <3>2, <4>1, <4>2 DEF Chunk, Ends
    <3> QED
      BY <1>5, <3>1, <3>2 DEF Delay
  <2>3. DemoType'
    BY <2>1, <2>2 DEF DemoInv, DemoType
  <2>4. /\ \A u \in Turns \ {t} : reply'[u] = reply[u] /\ got'[u] = got[u]
        /\ got'[t] = n
        /\ reply'[t] = IF LoopEnds(t, n) THEN "ended" ELSE "streaming"
    BY <2>1, <2>2 DEF DemoInv, DemoType
  <2>5. /\ \A u \in Turns \ {t} : UnderWay(u)' <=> UnderWay(u)
        /\ UnderWay(t)' <=> ~LoopEnds(t, n)
    BY <2>4 DEF UnderWay
  <2>6. ~LoopEnds(t, n) => ~stopped /\ n < ReplyWords
    BY <1>1, <2>1 DEF LoopEnds
  <2>7. stoppedAt[t] # None /\ t \notin resumed =>
          /\ stopped /\ LoopEnds(t, n)
          /\ n <= stoppedAt[t] + 1
    BY <1>1, <2>1, <2>11 DEF DemoInv, LoopEnds, UnderWay
  <2>8. \A u \in Turns :
          /\ reply'[u] \in {"none", "thinking"} => got'[u] = 0
          /\ reply'[u] = "streaming" => got'[u] < ReplyWords
          /\ reply'[u] = "none" => stoppedAt'[u] = None
          /\ stoppedAt'[u] # None /\ u \notin resumed' /\ UnderWay(u)' =>
               stopped' /\ got'[u] = stoppedAt'[u]
    <3>1. ASSUME NEW u \in Turns, u # t
          PROVE  /\ reply'[u] \in {"none", "thinking"} => got'[u] = 0
                 /\ reply'[u] = "streaming" => got'[u] < ReplyWords
                 /\ reply'[u] = "none" => stoppedAt'[u] = None
                 /\ stoppedAt'[u] # None /\ u \notin resumed' /\ UnderWay(u)' =>
                      stopped' /\ got'[u] = stoppedAt'[u]
      BY <2>1, <2>4, <2>5, <3>1 DEF DemoInv
    <3>2. /\ reply'[t] \notin {"none", "thinking"}
          /\ reply'[t] = "streaming" => got'[t] < ReplyWords
          /\ ~(stoppedAt'[t] # None /\ t \notin resumed' /\ UnderWay(t)')
      BY <2>1, <2>4, <2>5, <2>6, <2>7
    <3> QED
      BY <3>1, <3>2
  <2>9. StopTruthful'
    <3>1. typing' => \E u \in Turns : UnderWay(u)' /\ ~stopped'
      BY <2>1, <2>2, <2>5, <2>6
    <3>2. ASSUME ~typing', ~stopped', NEW u \in Turns, UnderWay(u)'
          PROVE  u \in outlived'
      BY <2>1, <2>2, <2>5, <3>2 DEF DemoInv, StopTruthful
    <3>3. \A u \in Turns :
            stoppedAt'[u] # None /\ u \notin resumed' => got'[u] <= stoppedAt'[u] + 1
      BY <2>1, <2>4, <2>7 DEF DemoInv, StopTruthful
    <3> QED
      BY <3>1, <3>2, <3>3 DEF StopTruthful
  <2> QED
    BY <2>3, <2>8, <2>9 DEF DemoInv
<1> QED
  BY <1>2, <1>3, <1>4, <1>5, Frames

-----------------------------------------------------------------------------
(* The microphone *)

\* A recording moves on, alone in its bar unless the bar was crossed: the others stay as
\* they are.
LEMMA OneRecording ==
  ASSUME VoiceInv, NEW r \in Recordings, Busy(r), VoiceType',
         NEW phase, recording'[r] = phase, phase # "none",
         \A q \in Recordings \ {r} :
           \/ recording'[q] = recording[q]
           \/ recording[q] = "recording" /\ recording'[q] = "stopping",
         UNCHANGED <<started, barOf, crossed>>,
         \A b \in Bars \ {barOf[r]} :
           /\ status'[b] = status[b] /\ recorderRef'[b] = recorderRef[b]
           /\ streamRef'[b] = streamRef[b],
         \A q \in Recordings \ {r} :
           q \in live' => q \in live /\ (q \notin stuck' => q \notin stuck),
         r \in live' /\ barOf[r] \notin crossed /\ r \notin stuck' =>
           /\ phase \in {"recording", "stopping"}
           /\ status'[barOf[r]] = "recording"
           /\ recorderRef'[barOf[r]] = r /\ streamRef'[barOf[r]] = r
  PROVE  VoiceInv'
<1>1. \A q \in Recordings \ {r} :
        /\ Busy(q)' <=> Busy(q)
        /\ recording'[q] = "none" <=> recording[q] = "none"
  BY DEF Busy
<1>2. \A q \in Recordings : q > started' => recording'[q] = "none"
  BY <1>1 DEF VoiceInv, Busy
<1>3. \A q \in Recordings : recording'[q] # "none" => barOf'[q] \in Bars
  BY <1>1 DEF VoiceInv, Busy
<1>4. \A q \in live' : recording'[q] # "none"
  BY <1>1 DEF VoiceInv, VoiceType
<1>5. \A q, p \in Recordings :
        Busy(q)' /\ Busy(p)' /\ barOf'[q] = barOf'[p] /\ barOf'[p] \notin crossed' => q = p
  BY <1>1 DEF VoiceInv, Busy
<1>6. ASSUME NEW q \in live', barOf'[q] \notin crossed', q \notin stuck'
      PROVE  /\ recording'[q] \in {"recording", "stopping"}
             /\ status'[barOf'[q]] = "recording"
             /\ recorderRef'[barOf'[q]] = q /\ streamRef'[barOf'[q]] = q
  <2>1. CASE q = r
    BY <1>1, <1>6, <2>1
  <2>2. CASE q # r
    <3>1. /\ q \in live /\ q \in Recordings /\ barOf[q] \notin crossed /\ q \notin stuck
      BY <1>6, <2>2 DEF VoiceType
    <3>2. /\ recording[q] \in {"recording", "stopping"} /\ barOf[q] \in Bars
          /\ status[barOf[q]] = "recording"
          /\ recorderRef[barOf[q]] = q /\ streamRef[barOf[q]] = q
      BY <3>1 DEF VoiceInv
    <3>3. barOf[q] # barOf[r]
      BY <2>2, <3>1, <3>2 DEF VoiceInv, Busy
    <3> QED
      BY <1>1, <2>2, <3>1, <3>2, <3>3
  <2> QED
    BY <2>1, <2>2
<1> QED
  BY <1>2, <1>3, <1>4, <1>5, <1>6 DEF VoiceInv

\* The button.
LEMMA ToggleRecordingKeeps ==
  ASSUME VoiceInv, InputInv, ToggleRecording
  PROVE  VoiceInv'
<1>1. bar \in Bars
  BY BoundAssumption DEF InputInv, ToggleRecording, MicEnabled, Bars
<1>2. CASE Stop(bar)
  <2>1. /\ \A r \in Recordings :
             \/ recording'[r] = recording[r]
             \/ recording[r] = "recording" /\ recording'[r] = "stopping"
        /\ UNCHANGED <<status, recorderRef, streamRef, started, barOf, live, before,
                       crossed, stuck>>
    BY <1>2 DEF Stop
  <2>2. VoiceType'
    <3>1. recording' \in [Recordings ->
            {"none", "asking", "recording", "stopping", "uploading", "over"}]
      BY <1>2 DEF Stop, VoiceInv, VoiceType
    <3> QED
      BY <2>1, <3>1 DEF VoiceInv, VoiceType
  <2>3. \A r \in Recordings : Busy(r)' <=> Busy(r)
    BY <2>1 DEF Busy
  <2>4. \A q, r \in Recordings :
          Busy(q)' /\ Busy(r)' /\ barOf'[q] = barOf'[r] /\ barOf'[r] \notin crossed' => q = r
    BY <2>1, <2>3 DEF VoiceInv
  <2>5. \A r \in live' : r \in Recordings
    BY <2>2 DEF VoiceType
  <2> QED
    BY <2>1, <2>2, <2>4, <2>5 DEF VoiceInv
<1>3. CASE Start(bar)
  <2> DEFINE r == started + 1
  <2>1. /\ r \in Recordings /\ r > started /\ started' = r /\ r \in 0..MaxRecordings
        /\ \A q \in Recordings : q > r => q > started
        /\ recording' = [recording EXCEPT ![r] = "asking"]
        /\ barOf' = [barOf EXCEPT ![r] = bar]
        /\ UNCHANGED <<status, recorderRef, streamRef, live, stuck>>
    BY <1>3, BoundAssumption DEF Start, Recordings, VoiceInv, VoiceType
  <2>2. /\ crossed \subseteq crossed' /\ crossed' \subseteq Bars
        /\ (\E q \in Recordings : Busy(q) /\ barOf[q] = bar) => bar \in crossed'
    BY <1>1, <1>3 DEF Start, VoiceInv, VoiceType
  <2>3. before' \in [Recordings -> SUBSET Words]
    <3>1. draft \subseteq Words
      BY BoundAssumption DEF InputInv, Words
    <3> QED
      BY <1>3, <3>1 DEF Start, VoiceInv, VoiceType
  <2>4. VoiceType'
    <3>1. bar \in 0..MaxBars
      BY <1>1, BoundAssumption DEF Bars
    <3> QED
      BY <2>1, <2>2, <2>3, <3>1 DEF VoiceInv, VoiceType
  <2> HIDE DEF r
  <2>5. recording[r] = "none" /\ r \notin live
    BY <2>1 DEF VoiceInv
  <2>6. /\ recording'[r] = "asking" /\ barOf'[r] = bar
        /\ \A q \in Recordings \ {r} : recording'[q] = recording[q] /\ barOf'[q] = barOf[q]
    BY <2>1 DEF VoiceInv, VoiceType
  <2>7. /\ \A q \in Recordings : q > started' => recording'[q] = "none"
        /\ \A q \in Recordings : recording'[q] # "none" => barOf'[q] \in Bars
        /\ \A q \in live' : recording'[q] # "none"
    <3>1. \A q \in Recordings : q > r => q # r
      BY <2>1 DEF Recordings
    <3> QED
      BY <1>1, <2>1, <2>6, <3>1 DEF VoiceInv, VoiceType
  <2>8. \A q, p \in Recordings :
          Busy(q)' /\ Busy(p)' /\ barOf'[q] = barOf'[p] /\ barOf'[p] \notin crossed' => q = p
    BY <2>2, <2>6 DEF VoiceInv, Busy
  <2>9. ASSUME NEW q \in live', barOf'[q] \notin crossed', q \notin stuck'
        PROVE  /\ recording'[q] \in {"recording", "stopping"}
               /\ status'[barOf'[q]] = "recording"
               /\ recorderRef'[barOf'[q]] = q /\ streamRef'[barOf'[q]] = q
    <3>1. q \in live /\ q \in Recordings /\ q # r /\ q \notin stuck
      BY <2>1, <2>5, <2>9 DEF VoiceInv, VoiceType
    <3>2. barOf'[q] = barOf[q] /\ recording'[q] = recording[q] /\ barOf[q] \notin crossed
      BY <2>2, <2>6, <2>9, <3>1
    <3> QED
      BY <2>1, <3>1, <3>2 DEF VoiceInv
  <2> QED
    BY <2>4, <2>7, <2>8, <2>9 DEF VoiceInv
<1>4. CASE status[bar] # "recording" /\ status' = [status EXCEPT ![bar] = "error"]
           /\ UNCHANGED <<recorderRef, streamRef, started, recording, barOf, live, before,
                          crossed, stuck>>
  <2>1. VoiceType'
    BY <1>4 DEF VoiceInv, VoiceType
  <2>2. \A b \in Bars : status[b] = "recording" => status'[b] = status[b]
    BY <1>4 DEF VoiceInv, VoiceType
  <2>3. \A r \in live : r \in Recordings /\ barOf[r] \in Bars
    BY DEF VoiceInv, VoiceType
  <2>4. \A r \in live' : barOf'[r] \notin crossed' /\ r \notin stuck' =>
          /\ recording'[r] \in {"recording", "stopping"}
          /\ status'[barOf'[r]] = "recording"
          /\ recorderRef'[barOf'[r]] = r /\ streamRef'[barOf'[r]] = r
    BY <1>4, <2>2, <2>3 DEF VoiceInv
  <2>5. \A q, r \in Recordings :
          Busy(q)' /\ Busy(r)' /\ barOf'[q] = barOf'[r] /\ barOf'[r] \notin crossed' => q = r
    BY <1>4 DEF VoiceInv, Busy
  <2> QED
    BY <1>4, <2>1, <2>4, <2>5 DEF VoiceInv
<1> QED
  BY <1>2, <1>3, <1>4 DEF ToggleRecording

LEMMA RecordingKeeps ==
  ASSUME VoiceInv, NEW r \in Recordings,
         \/ RecorderStarts(r) \/ RecorderRefused(r) \/ Denied(r)
         \/ \E outcome \in {"idle", "error"} : TranscriptionEnds(r, outcome)
         \/ \E someData \in BOOLEAN : OnStop(r, someData)
  PROVE  VoiceInv'
<1>1. /\ Busy(r) /\ barOf[r] \in Bars /\ r \in 0..MaxRecordings
      /\ \A q \in live : q \in Recordings
  BY BoundAssumption DEF RecorderStarts, RecorderRefused, Denied, Granted, TranscriptionEnds, OnStop,
     Busy, VoiceInv, VoiceType, Recordings
\* Until it is recording, and once it has stopped, it is not live but in a crossed bar.
<1>2. recording[r] \notin {"recording", "stopping"} =>
        r \notin live \/ barOf[r] \in crossed \/ r \in stuck
  BY DEF VoiceInv
<1>3. CASE RecorderStarts(r)
  <2>1. VoiceType'
    BY <1>1, <1>3 DEF RecorderStarts, Granted, VoiceInv, VoiceType
  <2>2. /\ recording'[r] = "recording"
        /\ \A q \in Recordings \ {r} : recording'[q] = recording[q]
        /\ status'[barOf[r]] = "recording" /\ recorderRef'[barOf[r]] = r
        /\ streamRef'[barOf[r]] = r
        /\ \A b \in Bars \ {barOf[r]} :
             /\ status'[b] = status[b] /\ recorderRef'[b] = recorderRef[b]
             /\ streamRef'[b] = streamRef[b]
        /\ live' = live \cup {r}
        /\ UNCHANGED <<started, barOf, crossed, stuck>>
    BY <1>1, <1>3 DEF RecorderStarts, Granted, VoiceInv, VoiceType
  <2> QED
    BY <1>1, <2>1, <2>2, OneRecording
<1>4. CASE RecorderRefused(r)
  <2>1. VoiceType'
    BY <1>1, <1>4 DEF RecorderRefused, Granted, VoiceInv, VoiceType
  <2>2. /\ recording'[r] = "over"
        /\ \A q \in Recordings \ {r} : recording'[q] = recording[q]
        /\ \A b \in Bars \ {barOf[r]} :
             /\ status'[b] = status[b] /\ recorderRef'[b] = recorderRef[b]
             /\ streamRef'[b] = streamRef[b]
        /\ live' = live \cup {r} /\ stuck' = stuck \cup {r}
        /\ UNCHANGED <<started, barOf, crossed>>
    BY <1>1, <1>4 DEF RecorderRefused, Granted, VoiceInv, VoiceType
  <2> QED
    BY <1>1, <2>1, <2>2, OneRecording
<1>5. CASE Denied(r) \/ \E outcome \in {"idle", "error"} : TranscriptionEnds(r, outcome)
  <2>1. VoiceType'
    <3>1. PICK outcome \in {"idle", "error"} :
            /\ status' = [status EXCEPT ![barOf[r]] = outcome]
            /\ recording' = [recording EXCEPT ![r] = "over"]
            /\ UNCHANGED <<recorderRef, streamRef, started, barOf, live, before, crossed,
                           stuck>>
      BY <1>5 DEF Denied, TranscriptionEnds
    <3> QED
      BY <3>1 DEF VoiceInv, VoiceType
  <2>2. /\ recording'[r] = "over" /\ recording[r] \notin {"recording", "stopping"}
        /\ \A q \in Recordings \ {r} : recording'[q] = recording[q]
        /\ \A b \in Bars \ {barOf[r]} : status'[b] = status[b]
        /\ UNCHANGED <<recorderRef, streamRef, live, stuck, started, barOf, crossed>>
    BY <1>1, <1>5 DEF Denied, TranscriptionEnds, VoiceInv, VoiceType
  <2> QED
    BY <1>1, <1>2, <2>1, <2>2, OneRecording
<1>6. CASE \E someData \in BOOLEAN : OnStop(r, someData)
  <2>1. PICK someData \in BOOLEAN : OnStop(r, someData)
    BY <1>6
  <2>2. /\ recording' = [q \in Recordings |->
             IF q = r THEN IF someData THEN "uploading" ELSE "over"
             ELSE IF q = streamRef[barOf[r]] /\ recording[q] = "recording" THEN "stopping"
             ELSE recording[q]]
        /\ status' = [status EXCEPT ![barOf[r]] = IF someData THEN "transcribing" ELSE "idle"]
        /\ streamRef' = [streamRef EXCEPT ![barOf[r]] = 0]
        /\ live' = live \ {streamRef[barOf[r]]}
        /\ recording[r] = "stopping"
        /\ UNCHANGED <<recorderRef, started, barOf, before, crossed, stuck>>
    BY <2>1 DEF OnStop, TracksStopped
  <2>3. /\ recording'[r] \in {"uploading", "over"}
        /\ \A q \in Recordings \ {r} :
             \/ recording'[q] = recording[q]
             \/ recording[q] = "recording" /\ recording'[q] = "stopping"
        /\ \A b \in Bars \ {barOf[r]} :
             status'[b] = status[b] /\ streamRef'[b] = streamRef[b]
    BY <2>2 DEF VoiceInv, VoiceType
  <2>4. VoiceType'
    <3>1. recording' \in [Recordings ->
            {"none", "asking", "recording", "stopping", "uploading", "over"}]
      BY <2>2 DEF VoiceInv, VoiceType
    <3>2. 0 \in 0..MaxRecordings
      BY BoundAssumption
    <3>3. streamRef' \in [Bars -> 0..MaxRecordings]
      BY <2>2, <3>2 DEF VoiceInv, VoiceType
    <3>4. status' \in [Bars -> {"idle", "recording", "transcribing", "error"}]
      BY <2>2 DEF VoiceInv, VoiceType
    <3> QED
      BY <2>2, <3>1, <3>3, <3>4 DEF VoiceInv, VoiceType
  <2>5. r \in live' => barOf[r] \in crossed \/ r \in stuck'
    BY <2>2 DEF VoiceInv
  <2> QED
    BY <1>1, <2>2, <2>3, <2>4, <2>5, OneRecording
<1> QED
  BY <1>3, <1>4, <1>5, <1>6

LEMMA RevokedKeeps ==
  ASSUME VoiceInv, NEW r \in Recordings, Revoked(r)
  PROVE  VoiceInv'
<1>1. /\ \A q \in Recordings :
           \/ recording'[q] = recording[q]
           \/ recording[q] = "recording" /\ recording'[q] = "stopping"
      /\ live' \subseteq live
      /\ UNCHANGED <<status, recorderRef, streamRef, started, barOf, before, crossed, stuck>>
  BY DEF Revoked, VoiceInv, VoiceType
<1>2. VoiceType'
  BY DEF Revoked, VoiceInv, VoiceType
<1>3. \A q \in Recordings : Busy(q)' <=> Busy(q)
  BY <1>1 DEF Busy
<1>4. \A q, p \in Recordings :
        Busy(q)' /\ Busy(p)' /\ barOf'[q] = barOf'[p] /\ barOf'[p] \notin crossed' => q = p
  BY <1>1, <1>3 DEF VoiceInv
<1>5. \A q \in live' : q \in live /\ q \in Recordings
  BY <1>1 DEF VoiceInv, VoiceType
<1> QED
  BY <1>1, <1>2, <1>4, <1>5 DEF VoiceInv

LEMMA VoiceKeeps ==
  ASSUME VoiceInv, InputInv, [Next]_vars
  PROVE  VoiceInv'
<1>1. CASE UNCHANGED voice
  BY <1>1 DEF VoiceInv, VoiceType, Busy, voice
<1> QED
  BY <1>1, Frames, ToggleRecordingKeeps, RecordingKeeps, RevokedKeeps

-----------------------------------------------------------------------------
LEMMA InvAlways == Spec => []Inv
<1>1. Inv /\ [Next]_vars => Inv'
  BY PageKeeps, InputKeeps, VoiceKeeps, DemoKeeps DEF Inv
<1> QED
  BY <1>1, InvInit, PTL DEF Spec

\* The types, and that an element in the page shows the latest config whenever it was set
\* (embed/ChatWidgetElement.tsx).
THEOREM TypeCorrect == Spec => []TypeOK
<1>1. Inv => TypeOK
  <2>1. ASSUME Inv
        PROVE  draft \subseteq Words /\ sent \subseteq Words /\ erased \subseteq Words
    BY <2>1, BoundAssumption DEF Inv, InputInv, Words
  <2> QED
    BY <2>1 DEF Inv, TypeOK, PageInv, InputInv, VoiceInv, VoiceType, DemoInv, DemoType
<1> QED
  BY <1>1, InvAlways, PTL

\* A microphone that is on while its input is on the screen is shown to be, and the next
\* click stops it (useVoiceRecorder.ts, MicButton.tsx).
THEOREM MicAsShownEver == Spec => []MicAsShown
<1>1. Inv => MicAsShown
  BY DEF Inv, VoiceInv, MicAsShown
<1> QED
  BY <1>1, InvAlways, PTL

\* No typed or dictated word is lost or sent twice (InputBar.tsx, onTranscribed).
THEOREM WordsKeptEver == Spec => []WordsKept
<1>1. Inv => WordsKept
  BY DEF Inv, InputInv
<1> QED
  BY <1>1, InvAlways, PTL

\* "Stop generating" is shown only for a reply there is to stop, and for each one
\* that no other's end has hidden (useChat.ts); a stopped demo reply gets one more
\* word at the most, unless the next question took the stop back
\* (MockTransport.ts).
THEOREM StopTruthfulEver == Spec => []StopTruthful
<1>1. Inv => StopTruthful
  BY DEF Inv, DemoInv
<1> QED
  BY <1>1, InvAlways, PTL
=============================================================================
