------------------------------ MODULE ChatTurn ------------------------------
(***************************************************************************)
(* The chat pipeline of the backend (RagChatService) under its three       *)
(* deliveries, for one widget: plain HTTP, a server-sent-event stream, and *)
(* a WebSocket that carries many turns.  A turn is one question.  Every    *)
(* await of the pipeline is a step boundary, so turns interleave, the      *)
(* connection may drop and any step may raise in between.                  *)
(*                                                                         *)
(* The database is the set of committed rows; what a turn has flushed and  *)
(* not committed is its own (newChat, newConv) and nobody else's query     *)
(* sees it.  Chat and conversation ids are fresh uuids: a chat is named by *)
(* the turn that creates it.                                               *)
(***************************************************************************)
EXTENDS Naturals, Sequences, FiniteSets, SequencesExt

CONSTANTS
  Turns,         \* the questions the widget asks
  Deliveries,    \* the deliveries considered: the widget is configured with one
  MaxTokens,     \* bound on the chunks of one answer
  HistoryLimit,  \* CHAT_HISTORY_NO_OF_MSGS
  MaxFailures,   \* bound on the turns that raise
  MaxDrops,      \* bound on the turns whose connection is down when one drops
  None

ASSUME TurnsAssumption == None \notin Turns
ASSUME DeliveriesAssumption == Deliveries \subseteq {"http", "sse", "ws"}
ASSUME MaxTokensAssumption == MaxTokens \in Nat \ {0}
ASSUME HistoryAssumption == HistoryLimit \in Nat \ {0}
ASSUME FaultAssumption == MaxFailures \in Nat /\ MaxDrops \in Nat

VARIABLES
  mode,      \* the delivery of this widget
  known,     \* the widget: the chat id it sends with its next question
  pc,        \* each turn: the next step of the server
  req,       \* each turn: the chat id sent with the question
  linked,    \* each turn: is its connection up
  ahead,     \* each turn: the turns sent before it on the same socket
  seen,      \* history: the turns the widget had the answer of when it sent
  chatOf,    \* each turn: the chat _get_or_create_chat resolved
  hist,      \* each turn: the turns whose conversations the memory step read
  llm,       \* each turn: "idle", "canned" (blocked), "running", "complete"
  chunks,    \* each turn: how many chunks of the answer were collected
  newChat,   \* each turn: its open transaction inserted the chat
  newConv,   \* each turn: the conversation its open transaction inserted
  chats,     \* committed rows of chat
  convs,     \* committed rows of conversations
  nextSeq,   \* the serial id of the next conversation row
  events     \* each turn: what the widget received of it

widget == <<known, req, ahead, seen>>
pipeline == <<chatOf, hist, llm, chunks>>
session == <<newChat, newConv, nextSeq>>
database == <<chats, convs>>

vars == <<mode, pc, linked, events, widget, pipeline, session, database>>

----------------------------------------------------------------------------
(* States *)

Conversation == [turn : Turns, chat : Turns, seq : Nat, answer : Nat]

Over == {"over", "failed", "lost"}
\* The steps in which the handler of a turn runs and an exception can be raised.
Running == {"release", "resolve", "guard", "ground", "meta", "generate",
            "persist", "done", "commit"}
Steps == {"unsent", "queued"} \cup Running \cup Over

Event == {"meta", "token", "sources", "done", "reply", "error"}

Recorded(t) == \E c \in convs : c.turn = t

\* The widget holds the whole answer of a turn: the reply, or the done event.
Answered(t) == \E i \in 1..Len(events[t]) : events[t][i] \in {"reply", "done"}

\* The last HistoryLimit rows in the order of Conversation.id.
\* (Mutation: the question being asked is counted as one of them.)
CountsItself(rows) ==
  {c \in rows : Cardinality({d \in rows : d.seq > c.seq}) + 1 < HistoryLimit}
MostRecent(rows) ==
  {c \in rows : Cardinality({d \in rows : d.seq > c.seq}) < HistoryLimit}

Init ==
  /\ mode \in Deliveries
  /\ known = None
  /\ pc = [t \in Turns |-> "unsent"]
  /\ req = [t \in Turns |-> None]
  /\ linked = [t \in Turns |-> FALSE]
  /\ ahead = [t \in Turns |-> {}]
  /\ seen = [t \in Turns |-> {}]
  /\ chatOf = [t \in Turns |-> None]
  /\ hist = [t \in Turns |-> {}]
  /\ llm = [t \in Turns |-> "idle"]
  /\ chunks = [t \in Turns |-> 0]
  /\ newChat = [t \in Turns |-> FALSE]
  /\ newConv = [t \in Turns |-> {}]
  /\ chats = {}
  /\ convs = {}
  /\ nextSeq = 1
  /\ events = [t \in Turns |-> <<>>]

Goto(t, step) == pc' = [pc EXCEPT ![t] = step]

\* An event reaches the widget while the turn's connection is up.
Emit(t, e) ==
  events' = IF linked[t] THEN [events EXCEPT ![t] = Append(@, e)] ELSE events

----------------------------------------------------------------------------
(* The widget *)

\* The question goes out with the chat id known by then.
Send(t) ==
  /\ pc[t] = "unsent"
  /\ Goto(t, CASE mode = "http" -> "resolve"
               [] mode = "sse" -> "release"
               [] mode = "ws" -> "queued")
  /\ req' = [req EXCEPT ![t] = known]
  /\ linked' = [linked EXCEPT ![t] = TRUE]
  /\ ahead' = [ahead EXCEPT ![t] =
                 IF mode = "ws" THEN {u \in Turns : linked[u]} ELSE {}]
  /\ seen' = [seen EXCEPT ![t] = {u \in Turns : Answered(u)}]
  /\ UNCHANGED <<mode, known, events, pipeline, session, database>>

\* The connection of a turn goes away; a socket goes away for all its turns.
Drop(t) ==
  /\ linked[t]
  /\ Cardinality({u \in Turns : pc[u] # "unsent" /\ ~linked[u]}) < MaxDrops
  /\ linked' = IF mode = "ws" THEN [u \in Turns |-> FALSE]
                              ELSE [linked EXCEPT ![t] = FALSE]
  /\ UNCHANGED <<mode, pc, events, widget, pipeline, session, database>>

----------------------------------------------------------------------------
(* Deliveries: how a question reaches the pipeline *)

\* POST /stream returns its EventSourceResponse at once.  FastAPI 0.115 leaves
\* the get_db dependency before it sends the body, so the request's session is
\* committed and closed here; the generator goes on with it afterwards, in a
\* transaction nobody commits.
ReleaseSession(t) ==
  /\ pc[t] = "release"
  /\ Goto(t, "resolve")
  /\ UNCHANGED <<mode, linked, events, widget, pipeline, session, database>>

\* The socket loop takes the next message when the one before it is over.
\* (Mutation: it waits for the answers only.)
AfterAnswers(t) == \A u \in ahead[t] : pc[u] = "over"
TurnToReceive(t) == \A u \in ahead[t] : pc[u] \in Over

Receive(t) ==
  /\ pc[t] = "queued"
  /\ TurnToReceive(t)
  /\ Goto(t, "resolve")
  /\ UNCHANGED <<mode, linked, events, widget, pipeline, session, database>>

\* A message that had not reached the server when the socket went away.
Lose(t) ==
  /\ pc[t] = "queued"
  /\ ~linked[t]
  /\ Goto(t, "lost")
  /\ UNCHANGED <<mode, linked, events, widget, pipeline, session, database>>

----------------------------------------------------------------------------
(* _prepare: steps 1 to 5 *)

\* A chat id the database does not have is ignored: the turn gets a new chat.
\* (Mutations: the id sent is used unchecked; it is looked up in vain.)
ChatSent(t) == req[t]
ChatNew(t) == t
ChatFor(t) == IF req[t] \in chats THEN req[t] ELSE t

Resolve(t) ==
  /\ pc[t] = "resolve"
  /\ chatOf' = [chatOf EXCEPT ![t] = ChatFor(t)]
  /\ newChat' = [newChat EXCEPT ![t] = ChatFor(t) = t]
  /\ Goto(t, "guard")
  /\ UNCHANGED <<mode, linked, events, widget, hist, llm, chunks, newConv,
                 nextSeq, database>>

\* An HTTP answer is generated, a stream starts with its meta event.
AnswerStart == IF mode = "http" THEN "generate" ELSE "meta"

\* The classifier blocks, or allows; it also allows when it fails.
GuardBlocks(t) ==
  /\ pc[t] = "guard"
  /\ llm' = [llm EXCEPT ![t] = "canned"]
  /\ Goto(t, AnswerStart)
  /\ UNCHANGED <<mode, linked, events, widget, chatOf, hist, chunks, session,
                 database>>

GuardAllows(t) ==
  /\ pc[t] = "guard"
  /\ Goto(t, "ground")
  /\ UNCHANGED <<mode, linked, events, widget, pipeline, session, database>>

\* Only a question that came with a chat id has a history; retrieval then reads
\* what this model does not hold, and the prompt is ready.
Ground(t) ==
  /\ pc[t] = "ground"
  /\ hist' = [hist EXCEPT ![t] =
       IF req[t] = None THEN {}
       ELSE {c.turn : c \in MostRecent({d \in convs : d.chat = chatOf[t]})}]
  /\ llm' = [llm EXCEPT ![t] = "running"]
  /\ Goto(t, AnswerStart)
  /\ UNCHANGED <<mode, linked, events, widget, chatOf, chunks, session,
                 database>>

----------------------------------------------------------------------------
(* The answer *)

\* The meta event tells the widget its chat id, of a chat not yet committed.
Meta(t) ==
  /\ pc[t] = "meta"
  /\ Emit(t, "meta")
  /\ known' = IF linked[t] THEN chatOf[t] ELSE known
  /\ Goto(t, "generate")
  /\ UNCHANGED <<mode, linked, req, ahead, seen, pipeline, session, database>>

\* HTTP: the whole answer at once; blocked: the canned text, one chunk.
Generate(t) ==
  /\ pc[t] = "generate"
  /\ mode = "http"
  /\ \E n \in 0..MaxTokens :
       /\ llm[t] = "canned" => n = 1
       /\ chunks' = [chunks EXCEPT ![t] = n]
  /\ llm' = [llm EXCEPT ![t] = "complete"]
  /\ Goto(t, "persist")
  /\ UNCHANGED <<mode, linked, events, widget, chatOf, hist, session, database>>

\* Streams: a chunk is collected and sent on.
Token(t) ==
  /\ pc[t] = "generate"
  /\ mode # "http"
  /\ chunks[t] < IF llm[t] = "canned" THEN 1 ELSE MaxTokens
  /\ chunks' = [chunks EXCEPT ![t] = @ + 1]
  /\ Emit(t, "token")
  /\ UNCHANGED <<mode, pc, linked, widget, chatOf, hist, llm, session, database>>

\* Streams: the model's stream ended; the sources follow.
Sources(t) ==
  /\ pc[t] = "generate"
  /\ mode # "http"
  /\ llm[t] = "canned" => chunks[t] = 1
  /\ llm' = [llm EXCEPT ![t] = "complete"]
  /\ Emit(t, "sources")
  /\ Goto(t, "persist")
  /\ UNCHANGED <<mode, linked, widget, chatOf, hist, chunks, session, database>>

\* _persist flushes the conversation and its sources; nothing is committed.
Row(t) ==
  [turn |-> t, chat |-> chatOf[t], seq |-> nextSeq, answer |-> chunks[t]]

\* (Mutation: also a stream that has not ended, as in a finally block.)
PersistsAnyAnswer(t) == pc[t] \in {"generate", "persist"}
ReadyToPersist(t) == pc[t] = "persist"

Persist(t) ==
  /\ ReadyToPersist(t)
  /\ newConv' = [newConv EXCEPT ![t] = {Row(t)}]
  /\ nextSeq' = nextSeq + 1
  /\ Goto(t, IF mode = "http" THEN "commit" ELSE "done")
  /\ UNCHANGED <<mode, linked, events, widget, pipeline, newChat, database>>

\* The last event of a stream; on a socket the commit is still to come.
\* (Mutation: it never comes.)
NothingAfterDone == "over"
AfterDone == IF mode = "sse" THEN "over" ELSE "commit"

Done(t) ==
  /\ pc[t] = "done"
  /\ Emit(t, "done")
  /\ Goto(t, AfterDone)
  /\ UNCHANGED <<mode, linked, widget, pipeline, session, database>>

----------------------------------------------------------------------------
(* Transactions *)

\* (Mutation: the conversation is left out.)
CommitChat(t) ==
  /\ chats' = IF newChat[t] THEN chats \cup {t} ELSE chats
  /\ UNCHANGED convs

CommitRows(t) ==
  /\ chats' = IF newChat[t] THEN chats \cup {t} ELSE chats
  /\ convs' = convs \cup newConv[t]

ForgetRows(t) ==
  /\ newChat' = [newChat EXCEPT ![t] = FALSE]
  /\ newConv' = [newConv EXCEPT ![t] = {}]
  /\ UNCHANGED nextSeq

\* HTTP: get_db commits as the endpoint returns, then the reply is sent.
\* WebSocket: the loop commits after the done event.
Commit(t) ==
  /\ pc[t] = "commit"
  /\ CommitRows(t)
  /\ ForgetRows(t)
  /\ Goto(t, "over")
  /\ IF mode = "http"
     THEN /\ Emit(t, "reply")
          /\ known' = IF linked[t] THEN chatOf[t] ELSE known
     ELSE UNCHANGED <<events, known>>
  /\ UNCHANGED <<mode, linked, req, ahead, seen, pipeline>>

\* What an exception leaves in the database.
NoRows(t) == UNCHANGED database

\* Any exception of the pipeline.  HTTP and WebSocket roll back; the SSE
\* generator only sends the error event.
Fail(t) ==
  /\ pc[t] \in Running
  /\ Cardinality({u \in Turns : pc[u] = "failed"}) < MaxFailures
  /\ Emit(t, "error")
  /\ Goto(t, "failed")
  /\ IF mode = "sse" THEN UNCHANGED session ELSE ForgetRows(t)
  /\ NoRows(t)
  /\ UNCHANGED <<mode, linked, widget, pipeline>>

\* WebSocket: a send after the drop raises WebSocketDisconnect, which rolls
\* back and ends the loop: what is queued behind the turn is never read.
NoticeDrop(t) ==
  /\ mode = "ws"
  /\ pc[t] \in {"meta", "generate", "done"}
  /\ ~linked[t]
  /\ ForgetRows(t)
  /\ pc' = [u \in Turns |-> IF u = t THEN "failed"
                            ELSE IF pc[u] = "queued" /\ t \in ahead[u] THEN "lost"
                            ELSE pc[u]]
  /\ UNCHANGED <<mode, linked, events, widget, pipeline, database>>

\* SSE: the response task is cancelled after the drop.
Cancel(t) ==
  /\ mode = "sse"
  /\ pc[t] \in Running
  /\ ~linked[t]
  /\ Goto(t, "failed")
  /\ UNCHANGED <<mode, linked, events, widget, pipeline, session, database>>

\* SSE: the session of a finished generator is collected, its transaction
\* rolled back with it.
Collect(t) ==
  /\ mode = "sse"
  /\ pc[t] \in Over
  /\ newChat[t] \/ newConv[t] # {}
  /\ ForgetRows(t)
  /\ UNCHANGED <<mode, pc, linked, events, widget, pipeline, database>>

----------------------------------------------------------------------------
Handle(t) ==
  \/ ReleaseSession(t) \/ Receive(t) \/ Resolve(t)
  \/ GuardBlocks(t) \/ GuardAllows(t) \/ Ground(t)
  \/ Meta(t) \/ Generate(t) \/ Token(t) \/ Sources(t)
  \/ Persist(t) \/ Done(t) \/ Commit(t)

Next ==
  \E t \in Turns : \/ Send(t) \/ Drop(t) \/ Lose(t) \/ Handle(t)
                   \/ Fail(t) \/ NoticeDrop(t) \/ Cancel(t) \/ Collect(t)

Spec == Init /\ [][Next]_vars

\* The event loop runs every handler on, and a socket that is down loses what
\* it has not delivered.  Nothing is assumed of the widget, of failures or of
\* drops.
Fairness == \A t \in Turns : WF_vars(Handle(t)) /\ WF_vars(Lose(t))

FairSpec == Spec /\ Fairness

----------------------------------------------------------------------------
(* Properties *)

TypeOK ==
  /\ mode \in Deliveries
  /\ known \in Turns \cup {None}
  /\ pc \in [Turns -> Steps]
  /\ req \in [Turns -> Turns \cup {None}]
  /\ linked \in [Turns -> BOOLEAN]
  /\ ahead \in [Turns -> SUBSET Turns]
  /\ seen \in [Turns -> SUBSET Turns]
  /\ chatOf \in [Turns -> Turns \cup {None}]
  /\ hist \in [Turns -> SUBSET Turns]
  /\ llm \in [Turns -> {"idle", "canned", "running", "complete"}]
  /\ chunks \in [Turns -> Nat]
  /\ newChat \in [Turns -> BOOLEAN]
  /\ newConv \in [Turns -> SUBSET Conversation]
  /\ chats \subseteq Turns
  /\ convs \subseteq Conversation
  /\ nextSeq \in Nat
  /\ events \in [Turns -> Seq(Event)]

\* No partial answer is ever committed: a stored answer is all the model (or
\* the guardrail) produced for the turn, whatever dropped or failed meanwhile.
NoPartialAnswer ==
  \A c \in convs : llm[c.turn] = "complete" /\ c.answer = chunks[c.turn]

\* A chat is committed only together with the conversation of the turn that
\* created it, and a committed conversation's chat is committed: a failed or
\* abandoned first turn leaves no empty chat in the list.
NoEmptyChat ==
  /\ \A t \in chats : \E c \in convs : c.turn = t /\ c.chat = t
  /\ \A c \in convs : c.chat \in chats

\* Over HTTP a reply the widget got is in the database, in the chat the reply
\* named, once; over a socket so is every done event whose turn then ended
\* without an error.
ReplyIsDurable ==
  \A t \in Turns :
    \/ mode = "http" /\ Answered(t)
    \/ mode = "ws" /\ pc[t] = "over"
    => \E c \in convs : /\ c.turn = t
                        /\ c.chat = chatOf[t]
                        /\ \A d \in convs : d.turn = t => d = c

\* A question asked with the id of a chat whose answer the widget has seen (on
\* the same socket, for WebSocket) continues that chat.
ThreadKept ==
  \A t \in Turns :
    /\ chatOf[t] # None
    /\ req[t] # None
    /\ \/ mode = "http"
       \/ mode = "ws" /\ req[t] \in ahead[t] /\ pc[req[t]] = "over"
    => chatOf[t] = req[t]

\* The memory of a follow-up holds every turn of its chat that the widget had
\* the answer of when it asked, up to the limit.
HistoryComplete ==
  \A t \in Turns : \A u \in seen[t] :
    /\ llm[t] = "running"
    /\ chatOf[u] = chatOf[t]
    /\ \/ mode = "http"
       \/ mode = "ws" /\ u \in ahead[t] /\ pc[u] = "over"
    => u \in hist[t] \/ Cardinality(hist[t]) = HistoryLimit

\* Over SSE and WebSocket the widget gets the done event only for a turn that
\* is persisted.
DonePersisted == \A t \in Turns : mode # "http" /\ Answered(t) => Recorded(t)

\* Every question ends, for a widget whose connection stays up, in its reply,
\* its done event or an error.
EveryQuestionEnds ==
  \A t \in Turns :
    pc[t] # "unsent" ~> \/ ~linked[t]
                        \/ Answered(t)
                        \/ events[t] # <<>> /\ Last(events[t]) = "error"

\* The pipeline implements the ledger: a turn is recorded when its row is
\* committed, and acknowledged by an HTTP reply or when its socket turn is
\* over after the done event.
Ledger == INSTANCE ChatLedger WITH
  ledger <- [t \in Turns |-> IF Recorded(t) THEN chatOf[t] ELSE None],
  acknowledged <- {t \in Turns : Answered(t) /\ mode # "sse" /\ pc[t] = "over"}

ImplementsLedger == Ledger!Spec
=============================================================================
