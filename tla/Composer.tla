------------------------------ MODULE Composer ------------------------------
(***************************************************************************)
(* The widget's input: the draft and its Send (InputBar), the microphone   *)
(* that dictates into it (MicButton, useVoiceRecorder, voiceApi), and what *)
(* it is mounted in: the authenticated shell, whose chat is a server's, or *)
(* the <chat-widget> element of a page, which has no token and shows the   *)
(* demo chat of MockTransport.                                             *)
(*                                                                         *)
(* Words are numbered as they are typed or dictated.  Each mounting of     *)
(* InputBar is a bar with hooks of its own; recordings and their streams   *)
(* carry one number.  A callback runs in one step, up to its next await.   *)
(***************************************************************************)
EXTENDS Naturals

CONSTANTS
  Shells,         \* the shells considered: the page has one
  MaxWords, MaxBars, MaxRecordings, MaxTurns, MaxConfigs,   \* bounds
  ReplyWords      \* the words of a demo reply

ASSUME ShellsAssumption == Shells \subseteq {"authenticated", "element"}
ASSUME BoundAssumption ==
  /\ MaxWords \in Nat /\ MaxBars \in Nat /\ MaxRecordings \in Nat
  /\ MaxTurns \in Nat /\ MaxConfigs \in Nat
  /\ ReplyWords \in Nat \ {0}

VARIABLES
  \* The shell
  shell,
  element,      \* <chat-widget>: not in the page yet, in it, or taken out
  config,       \* _config: the latest set, 0 is DEFAULT_CONFIG
  rendered,     \* the config ChatWidget was rendered with last
  isOpen,
  failed,       \* connectionStatus is "error"
  \* InputBar
  bars,         \* how many were mounted
  bar,          \* the one on the screen, 0 is none
  words,        \* how many words there were
  draft,        \* value: the words in it
  sent,         \* the words given to sendMessage
  \* useVoiceRecorder, each bar's
  status,
  recorderRef, streamRef,   \* a recording, 0 is null
  \* The browser's media
  started,      \* how many recordings startRecording began
  recording,    \* each: where it is
  barOf,        \* each: the bar that began it
  live,         \* the recordings whose microphone is on
  \* MockTransport and its chat
  stopped,      \* the flag
  reply,        \* each turn: where its sendMessage is
  got,          \* each turn: the words in its bubble
  typing,       \* isBotTyping
  \* History, for the properties only
  erased,       \* words the user deleted, or that had no input to go to
  before,       \* each recording: the draft when it began
  crossed,      \* bars where a recording began before the last one was over
  stuck,        \* recordings whose recorder could not be made
  stoppedAt,    \* each turn: the words it had when the user last stopped it, or none
  resumed,      \* stopped turns that the next question took the stop from
  outlived      \* turns under way when the end of another turned isBotTyping off

page == <<shell, element, config, rendered, isOpen, failed>>
input == <<bars, bar, words, draft, sent, erased>>
voice == <<status, recorderRef, streamRef, started, recording, barOf, live,
           before, crossed, stuck>>
demo == <<stopped, reply, got, typing, stoppedAt, resumed, outlived>>
vars == <<page, input, voice, demo>>

----------------------------------------------------------------------------
Words == 1..MaxWords
Bars == 1..MaxBars
Recordings == 1..MaxRecordings
Turns == 1..MaxTurns
None == ReplyWords + 1

\* extractAccessToken: ChatWidget passes none.
HasToken == shell = "authenticated"

\* The textarea and Send.
Enabled == bar # 0 /\ ~failed

UnderWay(t) == reply[t] \in {"thinking", "streaming"}

Asked == {t \in Turns : reply[t] # "none"}

Init ==
  /\ shell \in Shells
  /\ element = "new" /\ config = 0 /\ rendered = 0
  /\ isOpen = FALSE /\ failed = FALSE
  /\ bars = 0 /\ bar = 0 /\ words = 0
  /\ draft = {} /\ sent = {} /\ erased = {}
  /\ status = [b \in Bars |-> "idle"]
  /\ recorderRef = [b \in Bars |-> 0] /\ streamRef = [b \in Bars |-> 0]
  /\ started = 0
  /\ recording = [r \in Recordings |-> "none"]
  /\ barOf = [r \in Recordings |-> 0]
  /\ live = {}
  /\ before = [r \in Recordings |-> {}]
  /\ crossed = {} /\ stuck = {}
  /\ stopped = FALSE /\ typing = FALSE
  /\ reply = [t \in Turns |-> "none"]
  /\ got = [t \in Turns |-> 0]
  /\ stoppedAt = [t \in Turns |-> None]
  /\ resumed = {} /\ outlived = {}

----------------------------------------------------------------------------
(* The shell *)

\* InputBar appears with the window, and goes with it and its draft.
Mount ==
  /\ bars < MaxBars
  /\ bars' = bars + 1 /\ bar' = bars + 1
  /\ UNCHANGED <<draft, erased>>

Unmount ==
  /\ bar' = 0
  /\ draft' = {} /\ erased' = erased \cup draft
  /\ UNCHANGED bars

Show(openNow) ==
  /\ isOpen' = openNow
  /\ IF openNow THEN Mount ELSE Unmount
  /\ UNCHANGED <<words, sent>>

\* The launcher, the header's button; for the authenticated shell signing out
\* and in again is the same to ChatBody, which is made anew with its chat.
Toggle ==
  /\ shell = "authenticated" \/ element = "connected"
  /\ Show(~isOpen)
  /\ failed' = FALSE
  /\ UNCHANGED <<shell, element, config, rendered, voice, demo>>

\* A question of the server's chat failed (FetchChat, WsChat).
ChatFails ==
  /\ shell = "authenticated" /\ bar # 0 /\ sent # {} /\ ~failed
  /\ failed' = TRUE
  /\ UNCHANGED <<shell, element, config, rendered, isOpen, input, voice, demo>>

\* set config: rendered if there is a root to render in.
\* (Mutation: it is not rendered again.)
NotRendered(c) == rendered
Rendered(c) == IF element = "connected" THEN c ELSE rendered

SetConfig ==
  /\ shell = "element" /\ config < MaxConfigs
  /\ config' = config + 1
  /\ rendered' = Rendered(config + 1)
  /\ UNCHANGED <<shell, element, isOpen, failed, input, voice, demo>>

\* connectedCallback; config.startOpen is read at the first mounting.
Connected ==
  /\ shell = "element" /\ element = "new"
  /\ element' = "connected"
  /\ rendered' = config
  /\ \E startOpen \in BOOLEAN :
       IF startOpen THEN Show(TRUE) ELSE UNCHANGED <<isOpen, input>>
  /\ UNCHANGED <<shell, config, failed, voice, demo>>

\* disconnectedCallback.  Put back into the page the element cannot attach a
\* second shadow root, and stays blank.
Disconnected ==
  /\ element = "connected"
  /\ element' = "removed"
  /\ Show(FALSE)
  /\ UNCHANGED <<shell, config, rendered, failed, voice, demo>>

----------------------------------------------------------------------------
(* InputBar *)

Type ==
  /\ Enabled /\ words < MaxWords
  /\ words' = words + 1
  /\ draft' = draft \cup {words + 1}
  /\ UNCHANGED <<page, bars, bar, sent, erased, voice, demo>>

Erase ==
  /\ Enabled /\ draft # {}
  /\ draft' = {} /\ erased' = erased \cup draft
  /\ UNCHANGED <<page, bars, bar, words, sent, voice, demo>>

\* (Mutation: the input is not cleared.)
DraftLeft == draft
DraftSent == {}

\* MockTransport.sendMessage up to its first delay.
\* (Mutation: the flag is not reset.)
FlagLeft == stopped
FlagReset == FALSE

Ask(t) ==
  /\ reply[t] = "none" /\ \A u \in Turns : u < t => u \in Asked
  /\ reply' = [reply EXCEPT ![t] = "thinking"]
  /\ stopped' = FlagReset
  /\ typing' = TRUE
  /\ resumed' = resumed \cup {u \in Turns : UnderWay(u) /\ stoppedAt[u] # None}
  /\ outlived' = {}
  /\ UNCHANGED <<got, stoppedAt>>

\* handleSend, and useChat.sendMessage.
Send ==
  /\ Enabled /\ draft # {}
  /\ sent' = sent \cup draft
  /\ draft' = DraftSent
  /\ IF shell = "element" THEN \E t \in Turns : Ask(t) ELSE UNCHANGED demo
  /\ UNCHANGED <<page, bars, bar, words, erased, voice>>

----------------------------------------------------------------------------
(* useVoiceRecorder *)

Busy(r) == recording[r] \in {"asking", "recording", "stopping", "uploading"}

Start(b) ==
  LET r == started + 1
  IN /\ r \in Recordings
     /\ started' = r
     /\ recording' = [recording EXCEPT ![r] = "asking"]
     /\ barOf' = [barOf EXCEPT ![r] = b]
     /\ before' = [before EXCEPT ![r] = draft]
     /\ crossed' = IF \E q \in Recordings : Busy(q) /\ barOf[q] = b
                   THEN crossed \cup {b} ELSE crossed
     /\ UNCHANGED <<status, recorderRef, streamRef, live, stuck>>

\* MediaRecorder.stop does nothing to a recorder that is inactive.
Stop(b) ==
  /\ recording' = [r \in Recordings |->
       IF r = recorderRef[b] /\ recording[r] = "recording" THEN "stopping"
                                                           ELSE recording[r]]
  /\ UNCHANGED <<status, recorderRef, streamRef, started, barOf, live, before,
                 crossed, stuck>>

\* The microphone button, which works in a disabled input too.
MicEnabled == bar # 0 /\ status[bar] # "transcribing"

ToggleRecording ==
  /\ MicEnabled
  /\ CASE status[bar] = "recording" -> Stop(bar)
       [] status[bar] # "recording" /\ HasToken -> Start(bar)
       [] OTHER ->
            /\ status' = [status EXCEPT ![bar] = "error"]
            /\ UNCHANGED <<recorderRef, streamRef, started, recording, barOf, live,
                           before, crossed, stuck>>
  /\ UNCHANGED <<page, input, demo>>

\* getUserMedia resolves: the microphone is on.
Granted(r) ==
  /\ recording[r] = "asking"
  /\ streamRef' = [streamRef EXCEPT ![barOf[r]] = r]
  /\ live' = live \cup {r}

RecorderStarts(r) ==
  /\ Granted(r)
  /\ recorderRef' = [recorderRef EXCEPT ![barOf[r]] = r]
  /\ recording' = [recording EXCEPT ![r] = "recording"]
  /\ status' = [status EXCEPT ![barOf[r]] = "recording"]
  /\ UNCHANGED <<started, barOf, before, crossed, stuck, page, input, demo>>

\* A browser that records no webm: the catch leaves the stream as it is.
RecorderRefused(r) ==
  /\ Granted(r)
  /\ recording' = [recording EXCEPT ![r] = "over"]
  /\ status' = [status EXCEPT ![barOf[r]] = "error"]
  /\ stuck' = stuck \cup {r}
  /\ UNCHANGED <<recorderRef, started, barOf, before, crossed, page, input, demo>>

Denied(r) ==
  /\ recording[r] = "asking"
  /\ recording' = [recording EXCEPT ![r] = "over"]
  /\ status' = [status EXCEPT ![barOf[r]] = "error"]
  /\ UNCHANGED <<recorderRef, streamRef, started, barOf, live, before, crossed,
                 stuck, page, input, demo>>

\* stopStreamTracks.
\* (Mutation: it only forgets the stream.)
TracksLeft(b) == live
TracksStopped(b) == live \ {streamRef[b]}

\* onstop, with the data the recorder had.  A recorder whose tracks were
\* stopped under it stops as well.
OnStop(r, someData) ==
  LET b == barOf[r]
  IN /\ recording[r] = "stopping"
     /\ live' = TracksStopped(b)
     /\ streamRef' = [streamRef EXCEPT ![b] = 0]
     /\ recording' = [q \in Recordings |->
          IF q = r THEN IF someData THEN "uploading" ELSE "over"
          ELSE IF q = streamRef[b] /\ recording[q] = "recording" THEN "stopping"
          ELSE recording[q]]
     /\ status' = [status EXCEPT ![b] = IF someData THEN "transcribing" ELSE "idle"]
     /\ UNCHANGED <<recorderRef, started, barOf, before, crossed, stuck, page, input,
                    demo>>

\* The device is unplugged or the permission withdrawn.
Revoked(r) ==
  /\ r \in live
  /\ live' = live \ {r}
  /\ recording' = [recording EXCEPT ![r] = IF @ = "recording" THEN "stopping" ELSE @]
  /\ UNCHANGED <<status, recorderRef, streamRef, started, barOf, before, crossed,
                 stuck, page, input, demo>>

\* onTranscribed, which the recording captured when it began.
\* (Mutation: it appends to the draft of then.)
HeardThen(r, w) == before[r] \cup {w}
Heard(r, w) == draft \cup {w}

TranscriptionEnds(r, outcome) ==
  /\ recording[r] = "uploading"
  /\ recording' = [recording EXCEPT ![r] = "over"]
  /\ status' = [status EXCEPT ![barOf[r]] = outcome]
  /\ UNCHANGED <<recorderRef, streamRef, started, barOf, live, before, crossed,
                 stuck, page, bars, bar, sent, demo>>

\* transcribeAudio returns a text; the bar it is for may be gone.
Transcribed(r) ==
  LET w == words + 1
  IN /\ TranscriptionEnds(r, "idle")
     /\ w \in Words /\ words' = w
     /\ IF barOf[r] = bar
        THEN draft' = Heard(r, w) /\ UNCHANGED erased
        ELSE erased' = erased \cup {w} /\ UNCHANGED draft

\* It returns no text, or throws.
NotTranscribed(r) ==
  /\ \E outcome \in {"idle", "error"} : TranscriptionEnds(r, outcome)
  /\ UNCHANGED <<words, draft, erased>>

----------------------------------------------------------------------------
(* MockTransport *)

\* markComplete, also when another reply is still under way.
Ends(t) ==
  /\ reply' = [reply EXCEPT ![t] = "ended"]
  /\ typing' = FALSE
  /\ outlived' = {u \in Turns \ {t} : UnderWay(u)}

Streams(t) ==
  /\ reply' = [reply EXCEPT ![t] = "streaming"]
  /\ typing' = TRUE
  /\ outlived' = {}

\* The flag ends the loop before the next delay.
\* (Mutation: the loop does not look at it.)
ToTheEnd(t, n) == n = ReplyWords
LoopEnds(t, n) == n = ReplyWords \/ stopped

\* The bubble appears, and the loop is entered.
Thought(t) ==
  /\ reply[t] = "thinking"
  /\ IF LoopEnds(t, 0) THEN Ends(t) ELSE Streams(t)
  /\ UNCHANGED <<stopped, got, stoppedAt, resumed, page, input, voice>>

\* A delay is over: the next word; typing stays as it is until the end.
Chunk(t) ==
  /\ reply[t] = "streaming"
  /\ got' = [got EXCEPT ![t] = @ + 1]
  /\ IF LoopEnds(t, got[t] + 1) THEN Ends(t) ELSE UNCHANGED <<reply, typing, outlived>>
  /\ UNCHANGED <<stopped, stoppedAt, resumed, page, input, voice>>

\* "Stop generating" is shown while isBotTyping.
StopGeneration ==
  /\ bar # 0 /\ typing
  /\ stopped' = TRUE
  /\ typing' = FALSE
  /\ stoppedAt' = [t \in Turns |-> IF UnderWay(t) THEN got[t] ELSE stoppedAt[t]]
  /\ resumed' = {t \in resumed : ~UnderWay(t)}
  /\ UNCHANGED <<reply, got, outlived, page, input, voice>>

----------------------------------------------------------------------------
Answered(r) == Transcribed(r) \/ NotTranscribed(r)

Delay(t) == Thought(t) \/ Chunk(t)

Next ==
  \/ Toggle \/ ChatFails \/ SetConfig \/ Connected \/ Disconnected
  \/ Type \/ Erase \/ Send \/ ToggleRecording \/ StopGeneration
  \/ \E r \in Recordings :
       \/ RecorderStarts(r) \/ RecorderRefused(r) \/ Denied(r) \/ Revoked(r)
       \/ \E someData \in BOOLEAN : OnStop(r, someData)
       \/ Answered(r)
  \/ \E t \in Turns : Delay(t)

Spec == Init /\ [][Next]_vars

----------------------------------------------------------------------------
(* Properties *)

TypeOK ==
  /\ shell \in Shells /\ element \in {"new", "connected", "removed"}
  /\ config \in 0..MaxConfigs /\ rendered \in 0..MaxConfigs
  /\ isOpen \in BOOLEAN /\ failed \in BOOLEAN
  /\ bars \in 0..MaxBars /\ bar \in 0..bars /\ words \in 0..MaxWords
  /\ draft \subseteq Words /\ sent \subseteq Words /\ erased \subseteq Words
  /\ status \in [Bars -> {"idle", "recording", "transcribing", "error"}]
  /\ recorderRef \in [Bars -> 0..MaxRecordings]
  /\ streamRef \in [Bars -> 0..MaxRecordings]
  /\ started \in 0..MaxRecordings /\ barOf \in [Recordings -> 0..MaxBars]
  /\ recording \in [Recordings ->
       {"none", "asking", "recording", "stopping", "uploading", "over"}]
  /\ live \subseteq Recordings /\ stuck \subseteq Recordings /\ crossed \subseteq Bars
  /\ before \in [Recordings -> SUBSET Words]
  /\ stopped \in BOOLEAN /\ typing \in BOOLEAN
  /\ reply \in [Turns -> {"none", "thinking", "streaming", "ended"}]
  /\ got \in [Turns -> 0..ReplyWords] /\ stoppedAt \in [Turns -> 0..None]
  /\ resumed \subseteq Turns /\ outlived \subseteq Turns
  \* An element in the page shows the latest config, whenever it was set.
  /\ element = "connected" => rendered = config

\* While its bar is on the screen a microphone is on only when the button shows
\* recording and the next click stops that very recording, unless a recording
\* was begun over another or the browser refused the recorder.  Of the
\* microphone of a bar that is gone (the window was closed while it recorded)
\* nothing is said: the hook has no cleanup, and leaves it on.
MicAsShown ==
  \A r \in live : barOf[r] = bar /\ bar \notin crossed /\ r \notin stuck =>
    status[bar] = "recording" /\ recorderRef[bar] = r

\* No word is lost or sent twice: what was typed or dictated is in the draft or
\* was sent, unless the user deleted it or its input went away, however typing,
\* sending and late transcriptions interleave.
WordsKept ==
  /\ 1..words \subseteq draft \cup sent \cup erased
  /\ draft \cap sent = {}

\* "Stop generating" is shown only while there is a reply to stop, and whenever
\* there is one, unless the end of another reply has hidden it.  A stopped reply
\* gets one word more at the most, unless the next question took the stop back
\* before the loop had looked at the flag.
StopTruthful ==
  /\ typing => \E t \in Turns : UnderWay(t) /\ ~stopped
  /\ ~typing /\ ~stopped => \A t \in Turns : UnderWay(t) => t \in outlived
  /\ \A t \in Turns :
       stoppedAt[t] # None /\ t \notin resumed => got[t] <= stoppedAt[t] + 1
=============================================================================
