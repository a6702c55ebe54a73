--------------------------- MODULE ChatTurnProofs ---------------------------
(***************************************************************************)
(* Proofs about ChatTurn, for every set of turns, every mix of deliveries  *)
(* and every bound; and about the context of its prompts.                  *)
(***************************************************************************)
EXTENDS ChatTurn, ContextBuilder, FiniteSetTheorems, TLAPS

----------------------------------------------------------------------------
(* The inductive invariant *)

\* Before its chat is resolved a turn has touched nothing; afterwards it has a
\* chat; past the answer the answer is complete.
Unresolved == {"unsent", "queued", "release", "resolve"}
Resolved == {"guard", "ground", "meta", "generate", "persist", "done", "commit",
             "over"}
Generated == {"persist", "done", "commit", "over"}

PhaseInv ==
  \A t \in Turns :
    /\ pc[t] \in Unresolved => chatOf[t] = None /\ ~newChat[t]
    /\ pc[t] \in Resolved => chatOf[t] \in Turns
    /\ pc[t] \in Generated => llm[t] = "complete"
    /\ pc[t] = "commit" => mode # "sse"
    /\ pc[t] \in {"meta", "done"} => mode # "http"
    /\ pc[t] = "release" => mode = "sse"

\* What the open transaction of a turn holds.
SessionOf(t) ==
  /\ newChat[t] => chatOf[t] = t
  /\ mode # "sse" /\ pc[t] \in Resolved /\ pc[t] # "over"
       => newChat[t] \/ chatOf[t] \in chats
  /\ pc[t] \in Steps \ {"done", "commit", "over", "failed"} => newConv[t] = {}
  /\ mode # "sse" /\ pc[t] \in {"over", "failed"} => newConv[t] = {}
  /\ pc[t] \in {"done", "commit"} => newConv[t] # {}
  /\ \A r \in newConv[t] : /\ r.turn = t
                           /\ r.chat = chatOf[t]
                           /\ r.answer = chunks[t]
                           /\ newConv[t] = {r}

SessionInv == \A t \in Turns : SessionOf(t)

\* What the database holds, and which turns are in it.
StoreInv ==
  /\ \A c \in convs : /\ mode # "sse"
                      /\ pc[c.turn] = "over"
                      /\ c.chat = chatOf[c.turn]
                      /\ c.chat \in chats
                      /\ c.answer = chunks[c.turn]
  /\ \A c, d \in convs : c.turn = d.turn => c = d
  /\ \A t \in chats : \E c \in convs : c.turn = t /\ c.chat = t
  /\ \A t \in Turns : mode # "sse" /\ pc[t] = "over" =>
                       \E c \in convs : c.turn = t

\* Over HTTP only a turn that is over has its reply.
ReplyInv == \A t \in Turns : mode = "http" /\ Answered(t) => pc[t] = "over"

\* The chat ids that travel: each names a turn that resolved to its own chat.
ThreadInv ==
  /\ known # None => chatOf[known] = known
  /\ \A t \in Turns : /\ req[t] # None => chatOf[req[t]] = req[t]
                      /\ chatOf[t] # None => chatOf[chatOf[t]] = chatOf[t]
  /\ mode = "http" => /\ known # None => known \in chats
                      /\ \A t \in Turns : req[t] # None => req[t] \in chats
  /\ mode = "ws" => \A t \in Turns : pc[t] = "resolve" \/ chatOf[t] # None =>
                      \A u \in ahead[t] : pc[u] \in Over
  /\ ThreadKept

Inv == TypeOK /\ PhaseInv /\ SessionInv /\ StoreInv /\ ReplyInv /\ ThreadInv

----------------------------------------------------------------------------
(* Each part is kept by every step *)

\* An event keeps what the widget heard a sequence of events.
LEMMA EmitType ==
  ASSUME TypeOK, NEW t \in Turns, NEW e \in Event, Emit(t, e)
  PROVE  events' \in [Turns -> Seq(Event)]
<1>1. Append(events[t], e) \in Seq(Event)
  BY DEF TypeOK
<1> QED
  BY <1>1 DEF TypeOK, Emit

\* What the memory step reads are rows of conversations.
LEMMA MostRecentType ==
  ASSUME TypeOK, NEW chat
  PROVE  \A c \in MostRecent({d \in convs : d.chat = chat}) : c.turn \in Turns
<1>1. \A c \in convs : c.turn \in Turns
  BY DEF TypeOK, Conversation
<1>2. MostRecent({d \in convs : d.chat = chat}) \subseteq convs
  BY DEF MostRecent
<1> QED
  BY <1>1, <1>2

LEMMA TypeStep ==
  ASSUME TypeOK, PhaseInv, [Next]_vars
  PROVE  TypeOK'
<1> USE MaxTokensAssumption
<1> QED
  <2> USE DEF Steps, Running, Over
  <2>1. ASSUME NEW t \in Turns, Send(t) PROVE TypeOK'
    BY <2>1, DeliveriesAssumption DEF TypeOK, Send, Goto, pipeline, session, database
  <2>2. ASSUME NEW t \in Turns, Drop(t) PROVE TypeOK'
    BY <2>2 DEF TypeOK, Drop, widget, pipeline, session, database
  <2>3. ASSUME NEW t \in Turns, Lose(t) PROVE TypeOK'
    BY <2>3 DEF TypeOK, Lose, Goto, widget, pipeline, session, database
  <2>4. ASSUME NEW t \in Turns, ReleaseSession(t) PROVE TypeOK'
    BY <2>4 DEF TypeOK, ReleaseSession, Goto, widget, pipeline, session,
       database
  <2>5. ASSUME NEW t \in Turns, Receive(t) PROVE TypeOK'
    BY <2>5 DEF TypeOK, Receive, TurnToReceive, Goto, widget, pipeline,
       session, database
  <2>6. ASSUME NEW t \in Turns, Resolve(t) PROVE TypeOK'
    BY <2>6 DEF TypeOK, Resolve, ChatFor, Goto, widget, database
  <2>7. ASSUME NEW t \in Turns, GuardBlocks(t) PROVE TypeOK'
    BY <2>7 DEF TypeOK, GuardBlocks, AnswerStart, Goto, widget, session,
       database
  <2>8. ASSUME NEW t \in Turns, GuardAllows(t) PROVE TypeOK'
    BY <2>8 DEF TypeOK, GuardAllows, Goto, widget, pipeline, session, database
  <2>9. ASSUME NEW t \in Turns, Ground(t) PROVE TypeOK'
    <3> DEFINE read == {c.turn : c \in MostRecent({d \in convs : d.chat = chatOf[t]})}
    <3>1. read \in SUBSET Turns
      BY MostRecentType
    <3>2. hist' \in [Turns -> SUBSET Turns]
      <4>1. hist' = [hist EXCEPT ![t] = IF req[t] = None THEN {} ELSE read]
        BY <2>9 DEF Ground
      <4> HIDE DEF read
      <4> QED
        BY <3>1, <4>1 DEF TypeOK
    <3>3. pc' \in [Turns -> Steps]
      BY <2>9 DEF TypeOK, Ground, Goto, AnswerStart
    <3>4. llm' \in [Turns -> {"idle", "canned", "running", "complete"}]
      BY <2>9 DEF TypeOK, Ground
    <3>5. UNCHANGED <<mode, linked, events, widget, chatOf, chunks, session, database>>
      BY <2>9 DEF Ground
    <3> QED
      BY <3>2, <3>3, <3>4, <3>5 DEF TypeOK, widget, session, database
  <2>10. ASSUME NEW t \in Turns, Meta(t) PROVE TypeOK'
    <3>1. events' \in [Turns -> Seq(Event)]
      BY <2>10, EmitType DEF TypeOK, Meta, Event
    <3> QED
      BY <2>10, <3>1 DEF TypeOK, Meta, Goto, pipeline, session, database
  <2>11. ASSUME NEW t \in Turns, Generate(t) PROVE TypeOK'
    BY <2>11 DEF TypeOK, Generate, Goto, widget, session, database
  <2>12. ASSUME NEW t \in Turns, Token(t) PROVE TypeOK'
    <3>1. events' \in [Turns -> Seq(Event)]
      BY <2>12, EmitType DEF TypeOK, Token, Event
    <3>2. chunks' \in [Turns -> Nat]
      BY <2>12 DEF TypeOK, Token
    <3>3. UNCHANGED <<mode, pc, linked, widget, chatOf, hist, llm, session, database>>
      BY <2>12 DEF Token
    <3> QED
      BY <3>1, <3>2, <3>3 DEF TypeOK, widget, session, database
  <2>13. ASSUME NEW t \in Turns, Sources(t) PROVE TypeOK'
    <3>1. events' \in [Turns -> Seq(Event)]
      BY <2>13, EmitType DEF TypeOK, Sources, Event
    <3> QED
      BY <2>13, <3>1 DEF TypeOK, Sources, Goto, widget, session, database
  <2>14. ASSUME NEW t \in Turns, Persist(t) PROVE TypeOK'
    <3>1. chatOf[t] \in Turns
      BY <2>14 DEF PhaseInv, Resolved, Persist, ReadyToPersist
    <3>2. Row(t) \in Conversation
      BY <3>1 DEF TypeOK, Row, Conversation
    <3> QED
      BY <2>14, <3>2 DEF TypeOK, Persist, ReadyToPersist, Goto, widget, pipeline, database
  <2>15. ASSUME NEW t \in Turns, Done(t) PROVE TypeOK'
    <3>1. events' \in [Turns -> Seq(Event)]
      BY <2>15, EmitType DEF TypeOK, Done, Event
    <3> QED
      BY <2>15, <3>1 DEF TypeOK, Done, AfterDone, Goto, widget, pipeline, session, database
  <2>16. ASSUME NEW t \in Turns, Commit(t) PROVE TypeOK'
    <3>1. events' \in [Turns -> Seq(Event)]
      BY <2>16, EmitType DEF TypeOK, Commit, Event
    <3> QED
      BY <2>16, <3>1 DEF TypeOK, Commit, CommitRows, ForgetRows, Goto, pipeline
  <2>17. ASSUME NEW t \in Turns, Fail(t) PROVE TypeOK'
    <3>1. events' \in [Turns -> Seq(Event)]
      BY <2>17, EmitType DEF TypeOK, Fail, Event
    <3> QED
      BY <2>17, <3>1 DEF TypeOK, Fail, NoRows, ForgetRows, Goto, widget, pipeline, session, database
  <2>18. ASSUME NEW t \in Turns, NoticeDrop(t) PROVE TypeOK'
    BY <2>18 DEF TypeOK, NoticeDrop, ForgetRows, widget, pipeline, database
  <2>19. ASSUME NEW t \in Turns, Cancel(t) PROVE TypeOK'
    BY <2>19 DEF TypeOK, Cancel, Goto, widget, pipeline, session, database
  <2>20. ASSUME NEW t \in Turns, Collect(t) PROVE TypeOK'
    BY <2>20 DEF TypeOK, Collect, ForgetRows, widget, pipeline, database
  <2>21. CASE UNCHANGED vars
    BY <2>21 DEF TypeOK, vars, widget, pipeline, session, database
  <2> QED
    BY <2>1, <2>2, <2>3, <2>4, <2>5, <2>6, <2>7, <2>8, <2>9, <2>10, <2>11,
       <2>12, <2>13, <2>14, <2>15, <2>16, <2>17, <2>18, <2>19, <2>20, <2>21 DEF
       Next, Handle

LEMMA PhaseStep ==
  ASSUME TypeOK, PhaseInv, [Next]_vars
  PROVE  PhaseInv'
<1> QED
  <2> USE DEF Steps, Running, Over, Unresolved, Resolved, Generated
  <2>1. ASSUME NEW t \in Turns, Send(t) PROVE PhaseInv'
    BY <2>1, DeliveriesAssumption DEF TypeOK, PhaseInv, Send, Goto, pipeline, session, database
  <2>2. ASSUME NEW t \in Turns, Drop(t) PROVE PhaseInv'
    BY <2>2 DEF TypeOK, PhaseInv, Drop, widget, pipeline, session, database
  <2>3. ASSUME NEW t \in Turns, Lose(t) PROVE PhaseInv'
    BY <2>3 DEF TypeOK, PhaseInv, Lose, Goto, widget, pipeline, session,
       database
  <2>4. ASSUME NEW t \in Turns, ReleaseSession(t) PROVE PhaseInv'
    BY <2>4 DEF TypeOK, PhaseInv, ReleaseSession, Goto, widget, pipeline,
       session, database
  <2>5. ASSUME NEW t \in Turns, Receive(t) PROVE PhaseInv'
    BY <2>5 DEF TypeOK, PhaseInv, Receive, TurnToReceive, Goto, widget,
       pipeline, session, database
  <2>6. ASSUME NEW t \in Turns, Resolve(t) PROVE PhaseInv'
    BY <2>6 DEF TypeOK, PhaseInv, Resolve, ChatFor, Goto, widget, database
  <2>7. ASSUME NEW t \in Turns, GuardBlocks(t) PROVE PhaseInv'
    BY <2>7 DEF TypeOK, PhaseInv, GuardBlocks, AnswerStart, Goto, widget,
       session, database
  <2>8. ASSUME NEW t \in Turns, GuardAllows(t) PROVE PhaseInv'
    BY <2>8 DEF TypeOK, PhaseInv, GuardAllows, Goto, widget, pipeline, session,
       database
  <2>9. ASSUME NEW t \in Turns, Ground(t) PROVE PhaseInv'
    BY <2>9 DEF TypeOK, PhaseInv, Ground, AnswerStart, Goto, widget, session,
       database
  <2>10. ASSUME NEW t \in Turns, Meta(t) PROVE PhaseInv'
    BY <2>10 DEF TypeOK, PhaseInv, Meta, Goto, pipeline, session, database
  <2>11. ASSUME NEW t \in Turns, Generate(t) PROVE PhaseInv'
    BY <2>11 DEF TypeOK, PhaseInv, Generate, Goto, widget, session, database
  <2>12. ASSUME NEW t \in Turns, Token(t) PROVE PhaseInv'
    BY <2>12 DEF TypeOK, PhaseInv, Token, widget, session, database
  <2>13. ASSUME NEW t \in Turns, Sources(t) PROVE PhaseInv'
    BY <2>13 DEF TypeOK, PhaseInv, Sources, Goto, widget, session, database
  <2>14. ASSUME NEW t \in Turns, Persist(t) PROVE PhaseInv'
    BY <2>14 DEF TypeOK, PhaseInv, Persist, ReadyToPersist, Goto, widget,
       pipeline, database
  <2>15. ASSUME NEW t \in Turns, Done(t) PROVE PhaseInv'
    BY <2>15 DEF TypeOK, PhaseInv, Done, AfterDone, Goto, widget, pipeline,
       session, database
  <2>16. ASSUME NEW t \in Turns, Commit(t) PROVE PhaseInv'
    BY <2>16 DEF TypeOK, PhaseInv, Commit, CommitRows, ForgetRows, Goto,
       pipeline
  <2>17. ASSUME NEW t \in Turns, Fail(t) PROVE PhaseInv'
    BY <2>17 DEF TypeOK, PhaseInv, Fail, NoRows, ForgetRows, Goto, widget,
       pipeline, session, database
  <2>18. ASSUME NEW t \in Turns, NoticeDrop(t) PROVE PhaseInv'
    BY <2>18 DEF TypeOK, PhaseInv, NoticeDrop, ForgetRows, widget, pipeline,
       database
  <2>19. ASSUME NEW t \in Turns, Cancel(t) PROVE PhaseInv'
    BY <2>19 DEF TypeOK, PhaseInv, Cancel, Goto, widget, pipeline, session,
       database
  <2>20. ASSUME NEW t \in Turns, Collect(t) PROVE PhaseInv'
    BY <2>20 DEF TypeOK, PhaseInv, Collect, ForgetRows, widget, pipeline,
       database
  <2>21. CASE UNCHANGED vars
    BY <2>21 DEF TypeOK, PhaseInv, vars, widget, pipeline, session, database
  <2> QED
    BY <2>1, <2>2, <2>3, <2>4, <2>5, <2>6, <2>7, <2>8, <2>9, <2>10, <2>11,
       <2>12, <2>13, <2>14, <2>15, <2>16, <2>17, <2>18, <2>19, <2>20, <2>21 DEF
       Next, Handle

LEMMA SessionStep ==
  ASSUME TypeOK, PhaseInv, SessionInv, [Next]_vars
  PROVE  SessionInv'
<1> QED
  <2> USE DEF Steps, Running, Over, Unresolved, Resolved, Generated
  <2>1. ASSUME NEW t \in Turns, Send(t) PROVE SessionInv'
    BY <2>1, DeliveriesAssumption DEF TypeOK, PhaseInv, SessionInv, SessionOf, Send, Goto, pipeline, session, database
  <2>2. ASSUME NEW t \in Turns, Drop(t) PROVE SessionInv'
    BY <2>2 DEF TypeOK, PhaseInv, SessionInv, SessionOf, Drop, widget,
       pipeline, session, database
  <2>3. ASSUME NEW t \in Turns, Lose(t) PROVE SessionInv'
    BY <2>3 DEF TypeOK, PhaseInv, SessionInv, SessionOf, Lose, Goto, widget,
       pipeline, session, database
  <2>4. ASSUME NEW t \in Turns, ReleaseSession(t) PROVE SessionInv'
    BY <2>4 DEF TypeOK, PhaseInv, SessionInv, SessionOf, ReleaseSession, Goto,
       widget, pipeline, session, database
  <2>5. ASSUME NEW t \in Turns, Receive(t) PROVE SessionInv'
    BY <2>5 DEF TypeOK, PhaseInv, SessionInv, SessionOf, Receive,
       TurnToReceive, Goto, widget, pipeline, session, database
  <2>6. ASSUME NEW t \in Turns, Resolve(t) PROVE SessionInv'
    <3>1. chatOf'[t] = ChatFor(t) /\ newChat'[t] = (ChatFor(t) = t)
      BY <2>6 DEF TypeOK, Resolve
    <3>2. ChatFor(t) = t \/ ChatFor(t) \in chats
      BY DEF ChatFor
    <3>3. newConv[t] = {}
      BY <2>6 DEF SessionInv, SessionOf, TypeOK, Resolve
    <3>4. \A u \in Turns \ {t} : chatOf'[u] = chatOf[u] /\ newChat'[u] = newChat[u]
      BY <2>6 DEF TypeOK, Resolve
    <3>5. pc' = [pc EXCEPT ![t] = "guard"]
      BY <2>6 DEF Resolve, Goto
    <3>6. UNCHANGED <<mode, newConv, chats, chunks>>
      BY <2>6 DEF Resolve, database
    <3>7. SessionOf(t)'
      BY <3>1, <3>2, <3>3, <3>5, <3>6 DEF TypeOK, SessionOf
    <3>8. \A u \in Turns \ {t} : SessionOf(u)'
      BY <3>4, <3>5, <3>6 DEF TypeOK, SessionInv, SessionOf
    <3> QED
      BY <3>7, <3>8 DEF SessionInv
  <2>7. ASSUME NEW t \in Turns, GuardBlocks(t) PROVE SessionInv'
    BY <2>7 DEF TypeOK, PhaseInv, SessionInv, SessionOf, GuardBlocks,
       AnswerStart, Goto, widget, session, database
  <2>8. ASSUME NEW t \in Turns, GuardAllows(t) PROVE SessionInv'
    BY <2>8 DEF TypeOK, PhaseInv, SessionInv, SessionOf, GuardAllows, Goto,
       widget, pipeline, session, database
  <2>9. ASSUME NEW t \in Turns, Ground(t) PROVE SessionInv'
    BY <2>9 DEF TypeOK, PhaseInv, SessionInv, SessionOf, Ground, AnswerStart,
       Goto, widget, session, database
  <2>10. ASSUME NEW t \in Turns, Meta(t) PROVE SessionInv'
    BY <2>10 DEF TypeOK, PhaseInv, SessionInv, SessionOf, Meta, Goto, pipeline,
       session, database
  <2>11. ASSUME NEW t \in Turns, Generate(t) PROVE SessionInv'
    BY <2>11 DEF TypeOK, PhaseInv, SessionInv, SessionOf, Generate, Goto,
       widget, session, database
  <2>12. ASSUME NEW t \in Turns, Token(t) PROVE SessionInv'
    BY <2>12 DEF TypeOK, PhaseInv, SessionInv, SessionOf, Token, widget,
       session, database
  <2>13. ASSUME NEW t \in Turns, Sources(t) PROVE SessionInv'
    BY <2>13 DEF TypeOK, PhaseInv, SessionInv, SessionOf, Sources, Goto,
       widget, session, database
  <2>14. ASSUME NEW t \in Turns, Persist(t) PROVE SessionInv'
    <3>1. newConv' = [newConv EXCEPT ![t] = {Row(t)}]
      BY <2>14 DEF Persist
    <3>2. /\ Row(t).turn = t
          /\ Row(t).chat = chatOf[t]
          /\ Row(t).answer = chunks[t]
      BY DEF Row
    <3>3. pc' = [pc EXCEPT ![t] = IF mode = "http" THEN "commit" ELSE "done"]
      BY <2>14 DEF Persist, Goto
    <3>4. UNCHANGED <<mode, newChat, chats, chatOf, chunks>>
      BY <2>14 DEF Persist, database, pipeline
    <3>5. pc[t] = "persist"
      BY <2>14 DEF Persist, ReadyToPersist
    <3> HIDE DEF Row
    <3> QED
      BY <3>1, <3>2, <3>3, <3>4, <3>5 DEF TypeOK, SessionInv, SessionOf
  <2>15. ASSUME NEW t \in Turns, Done(t) PROVE SessionInv'
    <3>1. newConv[t] # {}
      BY <2>15 DEF Done, SessionInv, SessionOf
    <3> QED
      BY <2>15, <3>1 DEF TypeOK, PhaseInv, SessionInv, SessionOf, Done, AfterDone, Goto, widget, pipeline, session, database
  <2>16. ASSUME NEW t \in Turns, Commit(t) PROVE SessionInv'
    BY <2>16 DEF TypeOK, PhaseInv, SessionInv, SessionOf, Commit, CommitRows,
       ForgetRows, Goto, pipeline
  <2>17. ASSUME NEW t \in Turns, Fail(t) PROVE SessionInv'
    BY <2>17 DEF TypeOK, PhaseInv, SessionInv, SessionOf, Fail, NoRows,
       ForgetRows, Goto, widget, pipeline, session, database
  <2>18. ASSUME NEW t \in Turns, NoticeDrop(t) PROVE SessionInv'
    BY <2>18 DEF TypeOK, PhaseInv, SessionInv, SessionOf, NoticeDrop,
       ForgetRows, widget, pipeline, database
  <2>19. ASSUME NEW t \in Turns, Cancel(t) PROVE SessionInv'
    BY <2>19 DEF TypeOK, PhaseInv, SessionInv, SessionOf, Cancel, Goto, widget,
       pipeline, session, database
  <2>20. ASSUME NEW t \in Turns, Collect(t) PROVE SessionInv'
    BY <2>20 DEF TypeOK, PhaseInv, SessionInv, SessionOf, Collect, ForgetRows,
       widget, pipeline, database
  <2>21. CASE UNCHANGED vars
    BY <2>21 DEF TypeOK, PhaseInv, SessionInv, SessionOf, vars, widget, pipeline, session, database
  <2> QED
    BY <2>1, <2>2, <2>3, <2>4, <2>5, <2>6, <2>7, <2>8, <2>9, <2>10, <2>11,
       <2>12, <2>13, <2>14, <2>15, <2>16, <2>17, <2>18, <2>19, <2>20, <2>21 DEF
       Next, Handle

\* Only a commit touches the database; a turn that is over stays as it is.
StoreFrame ==
  /\ UNCHANGED <<mode, chats, convs>>
  /\ \A u \in Turns :
       /\ pc[u] = "over" => /\ pc'[u] = "over"
                            /\ chatOf'[u] = chatOf[u]
                            /\ chunks'[u] = chunks[u]
       /\ mode # "sse" /\ pc'[u] = "over" => pc[u] = "over"

LEMMA StoreUntouched ==
  ASSUME TypeOK, StoreInv, StoreFrame
  PROVE  StoreInv'
<1>1. \A c \in convs : c.turn \in Turns
  BY DEF TypeOK, Conversation
<1> QED
  BY <1>1 DEF StoreInv, StoreFrame

LEMMA OnlyCommitStores ==
  ASSUME TypeOK, PhaseInv, SessionInv, [Next]_vars,
         ~ \E t \in Turns : Commit(t)
  PROVE  StoreFrame
<1> QED
  <2> USE DEF Steps, Running, Over
  <2>1. ASSUME NEW t \in Turns, Send(t) PROVE StoreFrame
    BY <2>1, DeliveriesAssumption DEF TypeOK, StoreFrame, Send, Goto, pipeline, session, database
  <2>2. ASSUME NEW t \in Turns, Drop(t) PROVE StoreFrame
    BY <2>2 DEF TypeOK, StoreFrame, Drop, widget, pipeline, session, database
  <2>3. ASSUME NEW t \in Turns, Lose(t) PROVE StoreFrame
    BY <2>3 DEF TypeOK, StoreFrame, Lose, Goto, widget, pipeline, session,
       database
  <2>4. ASSUME NEW t \in Turns, ReleaseSession(t) PROVE StoreFrame
    BY <2>4 DEF TypeOK, StoreFrame, ReleaseSession, Goto, widget, pipeline,
       session, database
  <2>5. ASSUME NEW t \in Turns, Receive(t) PROVE StoreFrame
    BY <2>5 DEF TypeOK, StoreFrame, Receive, TurnToReceive, Goto, widget,
       pipeline, session, database
  <2>6. ASSUME NEW t \in Turns, Resolve(t) PROVE StoreFrame
    BY <2>6 DEF TypeOK, StoreFrame, Resolve, ChatFor, Goto, widget, database
  <2>7. ASSUME NEW t \in Turns, GuardBlocks(t) PROVE StoreFrame
    BY <2>7 DEF TypeOK, StoreFrame, GuardBlocks, AnswerStart, Goto, widget,
       session, database
  <2>8. ASSUME NEW t \in Turns, GuardAllows(t) PROVE StoreFrame
    BY <2>8 DEF TypeOK, StoreFrame, GuardAllows, Goto, widget, pipeline,
       session, database
  <2>9. ASSUME NEW t \in Turns, Ground(t) PROVE StoreFrame
    BY <2>9 DEF TypeOK, StoreFrame, Ground, AnswerStart, Goto, widget, session,
       database
  <2>10. ASSUME NEW t \in Turns, Meta(t) PROVE StoreFrame
    BY <2>10 DEF TypeOK, StoreFrame, Meta, Goto, pipeline, session, database
  <2>11. ASSUME NEW t \in Turns, Generate(t) PROVE StoreFrame
    BY <2>11 DEF TypeOK, StoreFrame, Generate, Goto, widget, session, database
  <2>12. ASSUME NEW t \in Turns, Token(t) PROVE StoreFrame
    BY <2>12 DEF TypeOK, StoreFrame, Token, widget, session, database
  <2>13. ASSUME NEW t \in Turns, Sources(t) PROVE StoreFrame
    BY <2>13 DEF TypeOK, StoreFrame, Sources, Goto, widget, session, database
  <2>14. ASSUME NEW t \in Turns, Persist(t) PROVE StoreFrame
    BY <2>14 DEF TypeOK, StoreFrame, Persist, ReadyToPersist, Goto, widget,
       pipeline, database
  <2>15. ASSUME NEW t \in Turns, Done(t) PROVE StoreFrame
    BY <2>15 DEF TypeOK, StoreFrame, Done, AfterDone, Goto, widget, pipeline,
       session, database
  <2>16. ASSUME NEW t \in Turns, Commit(t) PROVE StoreFrame
    BY <2>16
  <2>17. ASSUME NEW t \in Turns, Fail(t) PROVE StoreFrame
    BY <2>17 DEF TypeOK, StoreFrame, Fail, NoRows, ForgetRows, Goto, widget,
       pipeline, session, database
  <2>18. ASSUME NEW t \in Turns, NoticeDrop(t) PROVE StoreFrame
    BY <2>18 DEF TypeOK, StoreFrame, NoticeDrop, ForgetRows, widget, pipeline,
       database
  <2>19. ASSUME NEW t \in Turns, Cancel(t) PROVE StoreFrame
    BY <2>19 DEF TypeOK, StoreFrame, Cancel, Goto, widget, pipeline, session,
       database
  <2>20. ASSUME NEW t \in Turns, Collect(t) PROVE StoreFrame
    BY <2>20 DEF TypeOK, StoreFrame, Collect, ForgetRows, widget, pipeline,
       database
  <2>21. CASE UNCHANGED vars
    BY <2>21 DEF TypeOK, StoreFrame, vars, widget, pipeline, session, database
  <2> QED
    BY <2>1, <2>2, <2>3, <2>4, <2>5, <2>6, <2>7, <2>8, <2>9, <2>10, <2>11,
       <2>12, <2>13, <2>14, <2>15, <2>16, <2>17, <2>18, <2>19, <2>20, <2>21 DEF
       Next, Handle

LEMMA StoreStep ==
  ASSUME TypeOK, PhaseInv, SessionInv, StoreInv, [Next]_vars
  PROVE  StoreInv'
<1>1. CASE ~ \E t \in Turns : Commit(t)
  BY <1>1, OnlyCommitStores, StoreUntouched
<1>2. ASSUME NEW t \in Turns, Commit(t) PROVE StoreInv'
  <2>1. PICK r \in newConv[t] : newConv[t] = {r}
    BY <1>2 DEF SessionInv, SessionOf, Commit
  <2>2. r \in Conversation /\ r.turn = t /\ r.chat = chatOf[t] /\ r.answer = chunks[t]
    BY <2>1 DEF SessionInv, SessionOf, TypeOK
  <2>3. convs' = convs \cup {r}
    BY <1>2, <2>1 DEF Commit, CommitRows
  <2>4. chats' = IF newChat[t] THEN chats \cup {t} ELSE chats
    BY <1>2 DEF Commit, CommitRows
  <2>5. mode # "sse" /\ pc[t] = "commit"
    BY <1>2 DEF Commit, PhaseInv
  <2>6. pc' = [pc EXCEPT ![t] = "over"]
    BY <1>2 DEF Commit, Goto
  <2>7. UNCHANGED <<mode, chatOf, chunks>>
    BY <1>2 DEF Commit, pipeline
  <2>8. chatOf[t] \in chats'
    BY <2>4, <2>5 DEF SessionInv, SessionOf, Resolved
  <2>9. \A c \in convs : c.turn \in Turns \ {t}
    BY <2>5 DEF StoreInv, TypeOK, Conversation
  <2>10. newChat[t] => r.chat = t
    BY <2>2 DEF SessionInv, SessionOf
  <2>11. \A c \in convs' : /\ mode' # "sse"
                           /\ pc'[c.turn] = "over"
                           /\ c.chat = chatOf'[c.turn]
                           /\ c.chat \in chats'
                           /\ c.answer = chunks'[c.turn]
    BY <2>2, <2>3, <2>4, <2>5, <2>6, <2>7, <2>8, <2>9 DEF StoreInv, TypeOK
  <2>12. \A c, d \in convs' : c.turn = d.turn => c = d
    BY <2>2, <2>3, <2>9 DEF StoreInv
  <2>13. \A u \in chats' : \E c \in convs' : c.turn = u /\ c.chat = u
    BY <2>2, <2>3, <2>4, <2>10 DEF StoreInv
  <2>14. \A u \in Turns : mode' # "sse" /\ pc'[u] = "over" =>
                          \E c \in convs' : c.turn = u
    BY <2>2, <2>3, <2>6, <2>7 DEF StoreInv, TypeOK
  <2> QED
    BY <2>11, <2>12, <2>13, <2>14 DEF StoreInv
<1> QED
  BY <1>1, <1>2

\* An error event answers nothing.
LEMMA ErrorIsNoAnswer ==
  ASSUME TypeOK, NEW t \in Turns, Emit(t, "error"), NEW u \in Turns, Answered(u)'
  PROVE  Answered(u)
<1>1. events[u] \in Seq(Event)
  BY DEF TypeOK
<1>2. events'[u] = events[u] \/ events'[u] = Append(events[u], "error")
  BY DEF TypeOK, Emit
<1>3. PICK i \in 1..Len(events'[u]) : events'[u][i] \in {"reply", "done"}
  BY DEF Answered
<1>4. CASE events'[u] = events[u]
  BY <1>3, <1>4 DEF Answered
<1>5. CASE events'[u] = Append(events[u], "error")
  <2>1. i \in 1..Len(events[u]) /\ events[u][i] = events'[u][i]
    BY <1>1, <1>3, <1>5
  <2> QED
    BY <1>3, <2>1 DEF Answered
<1> QED
  BY <1>2, <1>4, <1>5

LEMMA ReplyStep ==
  ASSUME TypeOK, PhaseInv, ReplyInv, [Next]_vars
  PROVE  ReplyInv'
<1> SUFFICES ASSUME mode = "http", NEW u \in Turns, Answered(u)'
             PROVE  pc'[u] = "over"
  <2>1. mode' = mode
    BY DEF Next, Handle, Send, Drop, Lose, ReleaseSession, Receive, Resolve,
           GuardBlocks, GuardAllows, Ground, Meta, Generate, Token, Sources,
           Persist, Done, Commit, Fail, NoticeDrop, Cancel, Collect, vars
  <2> QED
    BY <2>1 DEF ReplyInv
<1> USE DEF Running, Over
<1>1. pc[u] = "over" => pc'[u] = "over"
  BY ZenonT(60) DEF TypeOK, Next, Handle, Send, Drop, Lose, ReleaseSession, Receive, Resolve,
         GuardBlocks, GuardAllows, Ground, Meta, Generate, Token, Sources,
         Persist, ReadyToPersist, Done, Commit, Fail, NoticeDrop, Cancel, Collect,
         Goto, vars
<1>2. CASE events' = events
  BY <1>1, <1>2 DEF ReplyInv, Answered
<1>3. ASSUME NEW t \in Turns, Fail(t) PROVE pc'[u] = "over"
  BY <1>1, <1>3, ErrorIsNoAnswer DEF ReplyInv, Fail
<1>4. ASSUME NEW t \in Turns, Commit(t) PROVE pc'[u] = "over"
  <2>1. CASE u = t
    BY <1>4, <2>1 DEF Commit, Goto, TypeOK
  <2>2. CASE u # t
    <3>1. events'[u] = events[u]
      BY <1>4, <2>2 DEF Commit, Emit, TypeOK
    <3>2. Answered(u)
      BY <3>1 DEF Answered
    <3> QED
      BY <1>1, <3>2 DEF ReplyInv
  <2> QED
    BY <2>1, <2>2
<1>5. ASSUME NEW t \in Turns, Meta(t) \/ Done(t) PROVE FALSE
  BY <1>5 DEF Meta, Done, PhaseInv
<1>6. \/ events' = events
      \/ \E t \in Turns : \/ Fail(t) \/ Commit(t) \/ Meta(t) \/ Done(t)
  BY DEF Next, Handle, Send, Drop, Lose, ReleaseSession, Receive, Resolve,
         GuardBlocks, GuardAllows, Ground, Generate, Token, Sources,
         Persist, NoticeDrop, Cancel, Collect, vars
<1> QED
  BY <1>2, <1>3, <1>4, <1>5, <1>6

\* Most steps move no chat id, leave what is over as it is, and on a socket
\* bring no turn to its resolution.
ThreadFrame ==
  /\ UNCHANGED <<mode, known, req, ahead, chatOf, chats>>
  /\ \A u \in Turns : /\ pc[u] \in Over => pc'[u] = pc[u]
                      /\ mode = "ws" /\ pc'[u] = "resolve" => pc[u] = "resolve"

LEMMA ThreadUntouched ==
  ASSUME TypeOK, ThreadInv, ThreadFrame
  PROVE  ThreadInv'
<1>1. \A u \in Turns : /\ ahead[u] \subseteq Turns
                       /\ req[u] # None => req[u] \in Turns
  BY DEF TypeOK
<1>2. mode = "ws" => \A u \in Turns : chatOf[u] # None =>
                       \A v \in ahead[u] : pc'[v] = pc[v]
  BY <1>1 DEF ThreadInv, ThreadFrame
<1>3. ThreadKept'
  BY <1>1, <1>2 DEF ThreadInv, ThreadFrame, ThreadKept
<1>4. mode' = "ws" => \A u \in Turns : pc'[u] = "resolve" \/ chatOf'[u] # None =>
                        \A v \in ahead'[u] : pc'[v] \in Over
  BY <1>1 DEF ThreadInv, ThreadFrame
<1> QED
  BY <1>3, <1>4 DEF ThreadInv, ThreadFrame

LEMMA ThreadStep ==
  ASSUME TypeOK, PhaseInv, SessionInv, StoreInv, ThreadInv, [Next]_vars
  PROVE  ThreadInv'
<1> USE DEF Over
<1>1. ASSUME NEW t \in Turns, Send(t) PROVE ThreadInv'
  BY <1>1, DeliveriesAssumption DEF TypeOK, PhaseInv, Unresolved, StoreInv, ThreadInv,
     ThreadKept, Send, Goto, pipeline, session, database
<1>2. ASSUME NEW t \in Turns, Receive(t) PROVE ThreadInv'
  BY <1>2 DEF TypeOK, ThreadInv, ThreadKept, Receive, TurnToReceive, Goto, widget,
     pipeline, session, database
<1>3. ASSUME NEW t \in Turns, Resolve(t) PROVE ThreadInv'
  <2> DEFINE c == ChatFor(t)
  <2>1. pc[t] = "resolve" /\ chatOf[t] = None
    BY <1>3 DEF Resolve, PhaseInv, Unresolved
  <2>2. chatOf' = [chatOf EXCEPT ![t] = c]
    BY <1>3 DEF Resolve
  <2>3. pc' = [pc EXCEPT ![t] = "guard"]
    BY <1>3 DEF Resolve, Goto
  <2>4. UNCHANGED <<mode, known, req, ahead, chats>>
    BY <1>3 DEF Resolve, widget, database
  <2>5. c \in Turns /\ (c = t \/ c \in chats)
    BY DEF ChatFor, TypeOK
  <2>6. \A x \in Turns : chatOf[x] = x => x # t /\ chatOf'[x] = x
    BY <2>1, <2>2, TurnsAssumption DEF TypeOK
  <2>7. \A x \in chats : chatOf[x] = x
    BY ZenonT(60) DEF StoreInv, TypeOK
  <2>8. chatOf'[t] = c /\ chatOf'[c] = c
    BY <2>2, <2>5, <2>6, <2>7 DEF TypeOK
  <2>9. /\ req[t] # None
        /\ \/ mode = "http"
           \/ mode = "ws" /\ req[t] \in ahead[t] /\ pc'[req[t]] = "over"
        => c = req[t]
    <3>1. ASSUME mode = "ws", req[t] # None, req[t] \in ahead[t], pc'[req[t]] = "over"
          PROVE  c = req[t]
      <4>1. req[t] \in Turns /\ chatOf[req[t]] = req[t]
        BY <3>1 DEF TypeOK, ThreadInv
      <4>2. pc[req[t]] = "over"
        BY <2>3, <3>1, <4>1 DEF TypeOK
      <4>3. PICK row \in convs : row.turn = req[t]
        BY <3>1, <4>1, <4>2 DEF StoreInv
      <4>4. req[t] \in chats
        BY <4>1, <4>3 DEF StoreInv
      <4> QED
        BY <4>4 DEF ChatFor
    <3>2. ASSUME mode = "http", req[t] # None PROVE c = req[t]
      BY <3>2 DEF ThreadInv, ChatFor
    <3> QED
      BY <3>1, <3>2
  <2> HIDE DEF c
  <2>10. ThreadKept'
    <3>1. \A u \in Turns \ {t} : chatOf'[u] = chatOf[u]
      BY <2>2 DEF TypeOK
    <3>2. \A u \in Turns : pc'[u] = "over" => pc[u] = "over"
      BY <2>3 DEF TypeOK
    <3>3. \A u \in Turns : req[u] # None => req[u] \in Turns
      BY DEF TypeOK
    <3>4. mode' = mode /\ req' = req /\ ahead' = ahead
      BY <2>4
    <3> SUFFICES ASSUME NEW u \in Turns,
                          chatOf'[u] # None,
                          req[u] # None,
                          \/ mode = "http"
                          \/ mode = "ws" /\ req[u] \in ahead[u] /\ pc'[req[u]] = "over"
                   PROVE  chatOf'[u] = req[u]
      BY <3>4 DEF ThreadKept
    <3>5. CASE u = t
      BY <2>8, <2>9, <3>5
    <3>6. CASE u # t
      <4>1. mode = "http" \/ (mode = "ws" /\ req[u] \in ahead[u] /\ pc[req[u]] = "over")
        BY <3>2, <3>3
      <4> QED
        BY <3>1, <3>6, <4>1 DEF ThreadInv, ThreadKept
    <3> QED
      BY <3>5, <3>6
  <2>11. \A u \in Turns : /\ req'[u] # None => chatOf'[req'[u]] = req'[u]
                          /\ chatOf'[u] # None => chatOf'[chatOf'[u]] = chatOf'[u]
    BY <2>2, <2>4, <2>5, <2>6, <2>8 DEF TypeOK, ThreadInv
  <2>12. known' # None => chatOf'[known'] = known'
    BY <2>4, <2>6 DEF TypeOK, ThreadInv
  <2>13. mode' = "ws" => \A u \in Turns : pc'[u] = "resolve" \/ chatOf'[u] # None =>
                           \A v \in ahead'[u] : pc'[v] \in Over
    BY <2>1, <2>2, <2>3, <2>4 DEF TypeOK, ThreadInv
  <2> QED
    BY <2>4, <2>10, <2>11, <2>12, <2>13 DEF ThreadInv
<1>4. ASSUME NEW t \in Turns, Meta(t) PROVE ThreadInv'
  <2>1. pc[t] = "meta" /\ pc' = [pc EXCEPT ![t] = "generate"]
    BY <1>4 DEF Meta, Goto
  <2>2. UNCHANGED <<mode, req, ahead, chatOf, chats>>
    BY <1>4 DEF Meta, pipeline, database
  <2>3. mode # "http" /\ chatOf[t] \in Turns
    BY <2>1 DEF PhaseInv, Resolved
  <2>4. known' = chatOf[t] \/ known' = known
    BY <1>4 DEF Meta
  <2>5. known' # None => chatOf'[known'] = known'
    BY <2>2, <2>3, <2>4, TurnsAssumption DEF ThreadInv
  <2>6. ThreadKept'
    BY <2>1, <2>2 DEF TypeOK, ThreadInv, ThreadKept
  <2>7. mode' = "ws" => \A u \in Turns : pc'[u] = "resolve" \/ chatOf'[u] # None =>
                          \A v \in ahead'[u] : pc'[v] \in Over
    BY <2>1, <2>2 DEF TypeOK, ThreadInv
  <2> QED
    BY <2>2, <2>3, <2>5, <2>6, <2>7 DEF ThreadInv
<1>5. ASSUME NEW t \in Turns, Commit(t) PROVE ThreadInv'
  <2>1. pc[t] = "commit" /\ pc' = [pc EXCEPT ![t] = "over"]
    BY <1>5 DEF Commit, Goto
  <2>2. UNCHANGED <<mode, req, ahead, chatOf>>
    BY <1>5 DEF Commit, pipeline
  <2>3. (mode = "http" /\ known' = chatOf[t]) \/ known' = known
    BY <1>5 DEF Commit
  <2>4. chats \subseteq chats' /\ chatOf[t] \in chats'
    BY <1>5 DEF Commit, CommitRows, PhaseInv, Resolved, SessionInv, SessionOf
  <2>5. chatOf[t] \in Turns
    BY <2>1 DEF PhaseInv, Resolved
  <2>6. \A u, v \in Turns : mode = "ws" /\ chatOf[u] # None /\ v \in ahead[u] => v # t
    BY <2>1 DEF ThreadInv
  <2>7. ThreadKept'
    BY <2>1, <2>2, <2>6 DEF TypeOK, ThreadInv, ThreadKept
  <2>8. mode' = "ws" => \A u \in Turns : pc'[u] = "resolve" \/ chatOf'[u] # None =>
                          \A v \in ahead'[u] : pc'[v] \in Over
    BY <2>1, <2>2 DEF TypeOK, ThreadInv
  <2> QED
    BY <2>2, <2>3, <2>4, <2>5, <2>7, <2>8 DEF ThreadInv, TypeOK
<1>6. ASSUME NEW t \in Turns, Drop(t) PROVE ThreadFrame
  BY <1>6 DEF ThreadFrame, Drop, widget, pipeline, database
<1>7. ASSUME NEW t \in Turns, Lose(t) PROVE ThreadFrame
  BY <1>7 DEF ThreadFrame, TypeOK, Lose, Goto, widget, pipeline, database
<1>8. ASSUME NEW t \in Turns, ReleaseSession(t) PROVE ThreadFrame
  BY <1>8 DEF ThreadFrame, TypeOK, PhaseInv, ReleaseSession, Goto, widget, pipeline, database
<1>9. ASSUME NEW t \in Turns, GuardBlocks(t) PROVE ThreadFrame
  BY <1>9 DEF ThreadFrame, TypeOK, GuardBlocks, AnswerStart, Goto, widget, database
<1>10. ASSUME NEW t \in Turns, GuardAllows(t) PROVE ThreadFrame
  BY <1>10 DEF ThreadFrame, TypeOK, GuardAllows, Goto, widget, pipeline, database
<1>11. ASSUME NEW t \in Turns, Ground(t) PROVE ThreadFrame
  BY <1>11 DEF ThreadFrame, TypeOK, Ground, AnswerStart, Goto, widget, database
<1>12. ASSUME NEW t \in Turns, Generate(t) PROVE ThreadFrame
  BY <1>12 DEF ThreadFrame, TypeOK, Generate, Goto, widget, database
<1>13. ASSUME NEW t \in Turns, Token(t) PROVE ThreadFrame
  BY <1>13 DEF ThreadFrame, Token, widget, database
<1>14. ASSUME NEW t \in Turns, Sources(t) PROVE ThreadFrame
  BY <1>14 DEF ThreadFrame, TypeOK, Sources, Goto, widget, database
<1>15. ASSUME NEW t \in Turns, Persist(t) PROVE ThreadFrame
  BY <1>15 DEF ThreadFrame, TypeOK, Persist, ReadyToPersist, Goto, widget, pipeline, database
<1>16. ASSUME NEW t \in Turns, Done(t) PROVE ThreadFrame
  BY <1>16 DEF ThreadFrame, TypeOK, Done, AfterDone, Goto, widget, pipeline, database
<1>17. ASSUME NEW t \in Turns, Fail(t) PROVE ThreadFrame
  BY <1>17 DEF ThreadFrame, TypeOK, Fail, Running, NoRows, Goto, widget, pipeline, database
<1>18. ASSUME NEW t \in Turns, NoticeDrop(t) PROVE ThreadFrame
  BY <1>18 DEF ThreadFrame, TypeOK, NoticeDrop, widget, pipeline, database
<1>19. ASSUME NEW t \in Turns, Cancel(t) PROVE ThreadFrame
  BY <1>19 DEF ThreadFrame, TypeOK, Cancel, Running, Goto, widget, pipeline, database
<1>20. ASSUME NEW t \in Turns, Collect(t) PROVE ThreadFrame
  BY <1>20 DEF ThreadFrame, Collect, widget, pipeline, database
<1>21. CASE UNCHANGED vars
  BY <1>21, ThreadUntouched DEF ThreadFrame, vars, widget, pipeline, database
<1> QED
  BY <1>1, <1>2, <1>3, <1>4, <1>5, <1>6, <1>7, <1>8, <1>9, <1>10, <1>11,
     <1>12, <1>13, <1>14, <1>15, <1>16, <1>17, <1>18, <1>19, <1>20, <1>21, ThreadUntouched DEF
     Next, Handle

----------------------------------------------------------------------------
(* The theorems *)

LEMMA InitInv == Init => Inv
<1> SUFFICES ASSUME Init PROVE Inv
  OBVIOUS
<1>1. TypeOK
  BY DeliveriesAssumption DEF Init, TypeOK, Steps
<1>2. PhaseInv
  BY DEF Init, PhaseInv, Unresolved, Resolved, Generated
<1>3. SessionInv
  BY DEF Init, SessionInv, SessionOf, Resolved
<1>4. StoreInv
  BY DEF Init, StoreInv
<1>5. ReplyInv
  BY DEF Init, ReplyInv, Answered
<1>6. ThreadInv
  BY DEF Init, ThreadInv, ThreadKept
<1> QED
  BY <1>1, <1>2, <1>3, <1>4, <1>5, <1>6 DEF Inv

LEMMA StepInv == Inv /\ [Next]_vars => Inv'
  BY TypeStep, PhaseStep, SessionStep, StoreStep, ReplyStep, ThreadStep DEF Inv

LEMMA Invariance == Spec => []Inv
  BY InitInv, StepInv, PTL DEF Spec

\* Every variable keeps its type, in particular every row that is ever flushed
\* names the chat its turn resolved.
THEOREM TypeCorrect == Spec => []TypeOK
<1>1. Inv => TypeOK
  BY DEF Inv
<1> QED
  BY <1>1, Invariance, PTL

\* No partial answer is ever committed, whatever drops or raises, and however
\* the turns interleave ("no partial answers in the DB").
THEOREM NoPartialAnswerEver == Spec => []NoPartialAnswer
<1>1. Inv => NoPartialAnswer
  BY DEF Inv, TypeOK, Conversation, PhaseInv, Generated, StoreInv, NoPartialAnswer
<1> QED
  BY <1>1, Invariance, PTL

\* A chat and its first conversation are committed together or not at all.
THEOREM NoEmptyChatEver == Spec => []NoEmptyChat
<1>1. Inv => NoEmptyChat
  BY DEF Inv, StoreInv, NoEmptyChat
<1> QED
  BY <1>1, Invariance, PTL

\* An HTTP reply, and a socket turn that ended without an error, is in the
\* database exactly once, under the chat the widget was told.
THEOREM ReplyIsAlwaysDurable == Spec => []ReplyIsDurable
<1>1. ASSUME Inv PROVE ReplyIsDurable
  <2> SUFFICES ASSUME NEW t \in Turns,
                      \/ mode = "http" /\ Answered(t)
                      \/ mode = "ws" /\ pc[t] = "over"
               PROVE  \E c \in convs : /\ c.turn = t
                                      /\ c.chat = chatOf[t]
                                      /\ \A d \in convs : d.turn = t => d = c
    BY DEF ReplyIsDurable
  <2>1. mode # "sse" /\ pc[t] = "over"
    BY <1>1 DEF Inv, ReplyInv
  <2>2. PICK c \in convs : c.turn = t
    BY <1>1, <2>1 DEF Inv, StoreInv
  <2> QED
    BY <1>1, <2>2 DEF Inv, StoreInv
<1> QED
  BY <1>1, Invariance, PTL

\* A follow-up continues the chat whose answer the widget has seen: its id is
\* never silently replaced by a new chat.
THEOREM ThreadAlwaysKept == Spec => []ThreadKept
<1>1. Inv => ThreadKept
  BY DEF Inv, ThreadInv
<1> QED
  BY <1>1, Invariance, PTL

----------------------------------------------------------------------------
(* The pipeline implements the ledger *)

\* The two variables of the ledger, as the pipeline's state gives them.
LedgerOf == [t \in Turns |-> IF Recorded(t) THEN chatOf[t] ELSE None]
Acked == {t \in Turns : Answered(t) /\ mode # "sse" /\ pc[t] = "over"}

\* A turn that is over hears nothing more.
LEMMA OverIsSilent ==
  ASSUME TypeOK, [Next]_vars, NEW u \in Turns, pc[u] = "over"
  PROVE  events'[u] = events[u]
<1>1. CASE events' = events
  BY <1>1
<1>2. ASSUME NEW t \in Turns,
             \/ Meta(t) \/ Token(t) \/ Sources(t) \/ Done(t) \/ Commit(t) \/ Fail(t)
      PROVE  events'[u] = events[u]
  <2>1. pc[t] # "over"
    BY <1>2 DEF Meta, Token, Sources, Done, Commit, Fail, Running
  <2>2. events' = events \/ \E e \in Event : Emit(t, e)
    BY <1>2 DEF Meta, Token, Sources, Done, Commit, Fail, Event
  <2> QED
    BY <2>1, <2>2 DEF TypeOK, Emit
<1>3. \/ events' = events
      \/ \E t \in Turns : \/ Meta(t) \/ Token(t) \/ Sources(t) \/ Done(t)
                          \/ Commit(t) \/ Fail(t)
  BY DEF Next, Handle, Send, Drop, Lose, ReleaseSession, Receive, Resolve,
         GuardBlocks, GuardAllows, Ground, Generate,
         Persist, NoticeDrop, Cancel, Collect, vars
<1> QED
  BY <1>1, <1>2, <1>3

\* The chat of a turn in the database, or of a chat's founder, is a chat of the
\* ledger.
LEMMA ChatsAreFounded ==
  ASSUME TypeOK, StoreInv, NEW c \in chats
  PROVE  c \in Turns /\ LedgerOf[c] = c
<1>1. PICK row \in convs : row.turn = c /\ row.chat = c
  BY DEF StoreInv
<1>2. c \in Turns /\ chatOf[c] = c
  BY <1>1 DEF TypeOK, StoreInv
<1> QED
  BY <1>1, <1>2 DEF LedgerOf, Recorded

\* A step without a commit is none of the ledger's.
LEMMA QuietLedger ==
  ASSUME TypeOK, StoreInv, StoreFrame, [Next]_vars
  PROVE  LedgerOf' = LedgerOf /\ Acked' = Acked
<1>1. \A u \in Turns : Recorded(u)' <=> Recorded(u)
  BY DEF StoreFrame, Recorded
<1>2. \A u \in Turns : Recorded(u) => chatOf'[u] = chatOf[u]
  BY DEF StoreFrame, StoreInv, Recorded
<1>3. LedgerOf' = LedgerOf
  BY <1>1, <1>2 DEF LedgerOf
<1>4. mode' = mode
  BY DEF StoreFrame
<1>5. \A u \in Turns : mode # "sse" => (pc'[u] = "over" <=> pc[u] = "over")
  BY DEF StoreFrame
<1>6. \A u \in Turns : pc[u] = "over" => (Answered(u)' <=> Answered(u))
  BY OverIsSilent DEF Answered
<1>7. Acked' = Acked
  BY <1>4, <1>5, <1>6 DEF Acked
<1> QED
  BY <1>3, <1>7

\* A commit records one turn, in its own chat or one that exists, and
\* acknowledges at most that turn.
LEMMA CommitRecords ==
  ASSUME Inv, NEW t \in Turns, Commit(t), [Next]_vars
  PROVE  /\ LedgerOf[t] = None
         /\ chatOf[t] \in Turns
         /\ chatOf[t] = t \/ LedgerOf[chatOf[t]] = chatOf[t]
         /\ LedgerOf' = [LedgerOf EXCEPT ![t] = chatOf[t]]
         /\ Acked' \in {Acked, Acked \cup {t}}
<1>1. TypeOK /\ PhaseInv /\ SessionInv /\ StoreInv
  BY DEF Inv
<1>2. pc[t] = "commit" /\ pc' = [pc EXCEPT ![t] = "over"] /\ mode' = mode /\ chatOf' = chatOf
  BY DEF Commit, Goto, pipeline
<1>3. ~Recorded(t)
  BY <1>1, <1>2 DEF StoreInv, Recorded
<1>4. chatOf[t] \in Turns /\ mode # "sse"
  BY <1>1, <1>2 DEF PhaseInv, Resolved
<1>5. chatOf[t] = t \/ chatOf[t] \in chats
  BY <1>1, <1>2, <1>4 DEF SessionInv, SessionOf, Resolved
<1>6. PICK r \in newConv[t] : newConv[t] = {r} /\ r.turn = t
  BY <1>1, <1>2 DEF SessionInv, SessionOf
<1>7. convs' = convs \cup {r}
  BY <1>6 DEF Commit, CommitRows
<1>8. \A u \in Turns : Recorded(u)' <=> Recorded(u) \/ u = t
  BY <1>6, <1>7 DEF Recorded
<1>9. LedgerOf' = [LedgerOf EXCEPT ![t] = chatOf[t]]
  BY <1>2, <1>4, <1>8 DEF LedgerOf
<1>10. \A u \in Turns : u # t => (pc'[u] = "over" <=> pc[u] = "over")
  BY <1>1, <1>2 DEF TypeOK
<1>11. \A u \in Turns : pc[u] = "over" => (Answered(u)' <=> Answered(u))
  BY <1>1, OverIsSilent DEF Answered
<1>12. t \notin Acked
  BY <1>2 DEF Acked
<1>13. \A u \in Turns : u # t => (u \in Acked' <=> u \in Acked)
  BY <1>2, <1>10, <1>11 DEF Acked
<1>14. Acked' \subseteq Turns /\ Acked \subseteq Turns
  BY DEF Acked
<1>15. Acked' = Acked \/ Acked' = Acked \cup {t}
  BY <1>12, <1>13, <1>14
<1>16. LedgerOf[t] = None
  BY <1>3 DEF LedgerOf
<1>17. chatOf[t] \in chats => LedgerOf[chatOf[t]] = chatOf[t]
  BY <1>1, ChatsAreFounded
<1> QED
  BY <1>4, <1>5, <1>9, <1>15, <1>16, <1>17

LEMMA LedgerInit == Init => Ledger!Init
  BY DEF Init, Ledger!Init, Recorded, Answered

LEMMA LedgerStep ==
  Inv /\ [Next]_vars => [Ledger!Next]_(Ledger!ledgerVars)
<1> SUFFICES ASSUME Inv, [Next]_vars
             PROVE  [Ledger!Next]_(Ledger!ledgerVars)
  OBVIOUS
<1>1. TypeOK /\ PhaseInv /\ SessionInv /\ StoreInv
  BY DEF Inv
<1>2. CASE ~ \E t \in Turns : Commit(t)
  <2>1. LedgerOf' = LedgerOf /\ Acked' = Acked
    BY <1>1, <1>2, OnlyCommitStores, QuietLedger
  <2> QED
    BY <2>1 DEF LedgerOf, Acked, Ledger!ledgerVars
<1>3. ASSUME NEW t \in Turns, Commit(t) PROVE Ledger!Next
  <2>1. PICK c \in Turns : c = chatOf[t]
    BY <1>3, CommitRecords
  <2>2. Ledger!Record(t, c)
    BY <1>3, <2>1, CommitRecords DEF LedgerOf, Acked, Ledger!Record, Ledger!ChatExists
  <2> QED
    BY <2>2 DEF Ledger!Next
<1> QED
  BY <1>2, <1>3

\* The pipeline, under every delivery, implements the ledger: what is recorded
\* is recorded once, in one step, in a chat that exists from then on, is never
\* moved or taken back, and no turn is acknowledged that is not recorded.
THEOREM PipelineImplementsLedger == Spec => ImplementsLedger
<1>1. Init => Ledger!Init
  BY LedgerInit
<1>2. Inv /\ [Next]_vars => [Ledger!Next]_(Ledger!ledgerVars)
  BY LedgerStep
<1> QED
  BY <1>1, <1>2, Invariance, PTL DEF Spec, Ledger!Spec, ImplementsLedger

----------------------------------------------------------------------------
(* What the memory query returns *)

\* The rows that come after a row, by Conversation.id, and how many they are.
Later(rows, c) == {d \in rows : d.seq > c.seq}
Rank(rows, c) == Cardinality(Later(rows, c))

\* Rows with ids of their own, of which there are finitely many.
Numbered(rows) ==
  /\ IsFiniteSet(rows)
  /\ \A r \in rows : r.seq \in Nat
  /\ \A r, s \in rows : r.seq = s.seq => r = s

LEMMA RankType ==
  ASSUME NEW rows, Numbered(rows), NEW c \in rows
  PROVE  Rank(rows, c) \in 0..(Cardinality(rows) - 1)
<1>1. IsFiniteSet(rows) /\ Later(rows, c) \subseteq rows /\ c \notin Later(rows, c)
  BY DEF Numbered, Later
<1>2. /\ IsFiniteSet(Later(rows, c))
      /\ Cardinality(Later(rows, c)) <= Cardinality(rows)
      /\ Cardinality(Later(rows, c)) = Cardinality(rows) => Later(rows, c) = rows
  BY <1>1, FS_Subset
<1>3. Cardinality(rows) \in Nat /\ Cardinality(Later(rows, c)) \in Nat
  BY <1>1, <1>2, FS_CardinalityType
<1> QED
  BY <1>1, <1>2, <1>3 DEF Rank

\* A later row has fewer rows after it.
LEMMA RankOrder ==
  ASSUME NEW rows, Numbered(rows), NEW c \in rows, NEW d \in rows, d.seq < c.seq
  PROVE  Rank(rows, c) < Rank(rows, d)
<1>1. IsFiniteSet(Later(rows, d))
  BY FS_Subset DEF Numbered, Later
<1>2. /\ Later(rows, c) \subseteq Later(rows, d)
      /\ c \in Later(rows, d)
      /\ c \notin Later(rows, c)
  BY DEF Numbered, Later
<1>3. /\ IsFiniteSet(Later(rows, c))
      /\ Cardinality(Later(rows, c)) <= Cardinality(Later(rows, d))
      /\ Cardinality(Later(rows, c)) # Cardinality(Later(rows, d))
  BY <1>1, <1>2, FS_Subset
<1>4. Cardinality(Later(rows, c)) \in Nat /\ Cardinality(Later(rows, d)) \in Nat
  BY <1>1, <1>3, FS_CardinalityType
<1> QED
  BY <1>3, <1>4 DEF Rank

\* The ranks of n rows are 0 to n-1, each once.
LEMMA RanksAreAll ==
  ASSUME NEW rows, Numbered(rows)
  PROVE  /\ \A c, d \in rows : Rank(rows, c) = Rank(rows, d) => c = d
         /\ \A i \in 0..(Cardinality(rows) - 1) : \E c \in rows : Rank(rows, c) = i
<1> DEFINE n == Cardinality(rows)
           f == [c \in rows |-> Rank(rows, c)]
<1>1. \A c \in rows : Rank(rows, c) \in 0..(n - 1)
  BY RankType
<1>2. \A c, d \in rows : Rank(rows, c) = Rank(rows, d) => c = d
  <2> SUFFICES ASSUME NEW c \in rows, NEW d \in rows, Rank(rows, c) = Rank(rows, d)
               PROVE  c = d
    OBVIOUS
  <2>1. c.seq \in Nat /\ d.seq \in Nat
    BY DEF Numbered
  <2>2. Rank(rows, c) \in Int /\ Rank(rows, d) \in Int
    BY <1>1
  <2>3. ~(c.seq < d.seq) /\ ~(d.seq < c.seq)
    BY <2>2, RankOrder
  <2> QED
    BY <2>1, <2>3 DEF Numbered
<1>3. n \in Nat
  BY FS_CardinalityType DEF Numbered
<1>4. IsFiniteSet(0..(n - 1)) /\ Cardinality(0..(n - 1)) = n
  BY SMTT(60), <1>3, FS_Interval
<1>5. f \in Injection(rows, 0..(n - 1))
  <2>1. f \in [rows -> 0..(n - 1)]
    BY <1>1
  <2>2. \A c, d \in rows : f[c] = f[d] => c = d
    BY <1>2
  <2> HIDE DEF f
  <2> QED
    BY <2>1, <2>2 DEF Injection, IsInjective
<1>6. f \in Surjection(rows, 0..(n - 1))
  BY <1>4, <1>5, FS_Injection
<1>7. \A i \in 0..(n - 1) : \E c \in rows : f[c] = i
  BY <1>6 DEF Surjection
<1> QED
  BY <1>2, <1>7

\* When a row is not among the most recent, there are HistoryLimit of them.
LEMMA MostRecentIsFull ==
  ASSUME NEW rows, Numbered(rows), NEW c \in rows, c \notin MostRecent(rows)
  PROVE  Cardinality(MostRecent(rows)) = HistoryLimit
<1> DEFINE recent == MostRecent(rows)
           n == Cardinality(rows)
           f == [r \in recent |-> Rank(rows, r)]
<1>1. recent = {r \in rows : Rank(rows, r) < HistoryLimit}
  BY DEF MostRecent, Rank, Later
<1>2. HistoryLimit \in Nat /\ n \in Nat
  BY HistoryAssumption, FS_CardinalityType DEF Numbered
<1>3. \A r \in rows : Rank(rows, r) \in 0..(n - 1)
  BY RankType
<1>4. HistoryLimit <= n - 1
  BY <1>1, <1>2, <1>3
<1>5. IsFiniteSet(recent)
  BY <1>1, FS_Subset DEF Numbered
<1> HIDE DEF recent
<1>6. f \in [recent -> 0..(HistoryLimit - 1)]
  BY <1>1, <1>2, <1>3
<1>7. \A r, s \in recent : f[r] = f[s] => r = s
  BY <1>1, RanksAreAll
<1>8. \A i \in 0..(HistoryLimit - 1) : \E r \in recent : f[r] = i
  <2> SUFFICES ASSUME NEW i \in 0..(HistoryLimit - 1)
               PROVE  \E r \in recent : f[r] = i
    OBVIOUS
  <2>1. i \in 0..(n - 1) /\ i < HistoryLimit
    BY <1>2, <1>4
  <2>2. PICK r \in rows : Rank(rows, r) = i
    BY <2>1, RanksAreAll
  <2> QED
    BY <1>1, <2>1, <2>2
<1>9. f \in Bijection(recent, 0..(HistoryLimit - 1))
  <2> HIDE DEF f
  <2> QED
    BY <1>6, <1>7, <1>8 DEF Bijection, Injection, IsInjective, Surjection
<1>10. Cardinality(0..(HistoryLimit - 1)) = Cardinality(recent)
  BY <1>5, <1>9, FS_Bijection DEF ExistsBijection
<1>11. Cardinality(0..(HistoryLimit - 1)) = HistoryLimit
  BY <1>2, FS_Interval
<1> QED
  BY <1>10, <1>11 DEF recent

\* Each of its rows is of another turn, so that it names as many turns.
LEMMA TurnsOfRows ==
  ASSUME NEW rows, IsFiniteSet(rows), \A r, s \in rows : r.turn = s.turn => r = s
  PROVE  Cardinality({r.turn : r \in rows}) = Cardinality(rows)
<1> DEFINE f == [r \in rows |-> r.turn]
           T == {r.turn : r \in rows}
<1>1. f \in [rows -> T] /\ \A r, s \in rows : f[r] = f[s] => r = s
  OBVIOUS
<1>2. \A u \in T : \E r \in rows : f[r] = u
  OBVIOUS
<1>3. f \in Bijection(rows, T)
  <2> HIDE DEF f, T
  <2> QED
    BY <1>1, <1>2 DEF Bijection, Injection, IsInjective, Surjection
<1> HIDE DEF f, T
<1>4. Cardinality(T) = Cardinality(rows)
  BY <1>3, FS_Bijection DEF ExistsBijection
<1> QED
  BY <1>4 DEF T

----------------------------------------------------------------------------
(* Rows have ids of their own *)

\* The rows that are committed and those that are only flushed.
Rows == convs \cup UNION {newConv[t] : t \in Turns}

RowInv ==
  /\ IsFiniteSet(convs)
  /\ \A r \in Rows : r.seq < nextSeq
  /\ \A r, s \in Rows : r.seq = s.seq => r = s

\* Most steps flush no row, and commit at most one.
RowFrame ==
  /\ nextSeq' = nextSeq
  /\ \A t \in Turns : newConv'[t] \subseteq newConv[t]
  /\ convs' = convs \/ \E r \in Rows : convs' = convs \cup {r}

LEMMA RowsKept ==
  ASSUME RowInv, RowFrame
  PROVE  RowInv'
<1>1. Rows' \subseteq Rows
  BY DEF Rows, RowFrame
<1>2. IsFiniteSet(convs')
  BY FS_AddElement DEF RowInv, RowFrame
<1> QED
  BY <1>1, <1>2 DEF RowInv, RowFrame

LEMMA RowStep ==
  ASSUME TypeOK, SessionInv, RowInv, [Next]_vars
  PROVE  RowInv'
<1>1. ASSUME NEW t \in Turns, Persist(t) PROVE RowInv'
  <2>1. /\ nextSeq' = nextSeq + 1 /\ convs' = convs
        /\ newConv' = [newConv EXCEPT ![t] = {Row(t)}]
    BY <1>1 DEF Persist, database
  <2>2. Rows' \subseteq Rows \cup {Row(t)}
    BY <2>1 DEF Rows, TypeOK
  <2>3. Row(t).seq = nextSeq /\ nextSeq \in Nat
    BY DEF Row, TypeOK
  <2>4. \A r \in Rows : r.seq \in Nat /\ r.seq < nextSeq
    BY DEF Rows, RowInv, TypeOK, Conversation
  <2>5. \A r \in Rows' : r.seq < nextSeq'
    BY <2>1, <2>2, <2>3, <2>4
  <2>6. \A r, s \in Rows' : r.seq = s.seq => r = s
    BY <2>2, <2>3, <2>4 DEF RowInv
  <2> QED
    BY <2>1, <2>5, <2>6 DEF RowInv
<1>2. ASSUME NEW t \in Turns, Commit(t) PROVE RowFrame
  <2>1. PICK r \in newConv[t] : newConv[t] = {r}
    BY <1>2 DEF SessionInv, SessionOf, Commit
  <2>2. convs' = convs \cup {r} /\ r \in Rows
    BY <1>2, <2>1 DEF Commit, CommitRows, Rows
  <2>3. nextSeq' = nextSeq /\ newConv' = [newConv EXCEPT ![t] = {}]
    BY <1>2 DEF Commit, ForgetRows
  <2> QED
    BY <2>2, <2>3 DEF RowFrame, TypeOK
<1>3. ASSUME NEW t \in Turns, Fail(t) PROVE RowFrame
  BY <1>3 DEF RowFrame, Fail, NoRows, ForgetRows, session, database, TypeOK
<1>4. ASSUME NEW t \in Turns, NoticeDrop(t) \/ Collect(t) PROVE RowFrame
  BY <1>4 DEF RowFrame, NoticeDrop, Collect, ForgetRows, database, TypeOK
<1>5. \/ UNCHANGED <<newConv, nextSeq, convs>>
      \/ \E t \in Turns : \/ Persist(t) \/ Commit(t) \/ Fail(t)
                          \/ NoticeDrop(t) \/ Collect(t)
  BY ZenonT(60) DEF Next, Handle, Send, Drop, Lose, ReleaseSession, Receive, Resolve,
         GuardBlocks, GuardAllows, Ground, Meta, Generate, Token, Sources,
         Done, Cancel, session, database, vars
<1>6. CASE UNCHANGED <<newConv, nextSeq, convs>>
  BY <1>6, RowsKept DEF RowFrame
<1> QED
  BY <1>1, <1>2, <1>3, <1>4, <1>5, <1>6, RowsKept

\* The rows of one chat, at any moment, are numbered.
LEMMA ChatRowsNumbered ==
  ASSUME TypeOK, RowInv, NEW chat
  PROVE  Numbered({d \in convs : d.chat = chat})
<1>1. IsFiniteSet({d \in convs : d.chat = chat})
  BY FS_Subset DEF RowInv
<1>2. \A r \in convs : r.seq \in Nat /\ r \in Rows
  BY DEF TypeOK, Conversation, Rows
<1> QED
  BY <1>1, <1>2 DEF Numbered, RowInv

----------------------------------------------------------------------------
(* The memory of a follow-up *)

MemoryInv ==
  /\ \A t \in Turns :
       /\ llm[t] # "idle" => chatOf[t] # None
       /\ chatOf[t] # None /\ req[t] = None => chatOf[t] = t
       /\ mode = "http" => \A u \in seen[t] : pc[u] = "over"
  /\ HistoryComplete

\* What no step does to a turn.
TurnFrame(u) ==
  /\ pc[u] \in Over => pc'[u] = pc[u]
  /\ chatOf[u] # None => chatOf'[u] = chatOf[u]
  /\ pc[u] # "unsent" => /\ pc'[u] # "unsent"
                         /\ req'[u] = req[u]
                         /\ ahead'[u] = ahead[u]
                         /\ seen'[u] = seen[u]
  /\ seen'[u] # seen[u] => seen'[u] = {v \in Turns : Answered(v)}
  /\ chatOf'[u] # chatOf[u] => pc[u] = "resolve" /\ chatOf'[u] = ChatFor(u)
  /\ llm'[u] # llm[u] => pc[u] \in Resolved
  /\ llm'[u] = "running" => \/ Ground(u)
                            \/ llm[u] = "running" /\ hist'[u] = hist[u]

LEMMA TurnFrames ==
  ASSUME TypeOK, PhaseInv, [Next]_vars
  PROVE  mode' = mode /\ \A u \in Turns : TurnFrame(u)
<1> USE DEF Steps, Running, Over, Unresolved, Resolved
<1>1. ASSUME NEW t \in Turns, Send(t) PROVE mode' = mode /\ \A u \in Turns : TurnFrame(u)
  BY <1>1, DeliveriesAssumption DEF TypeOK, TurnFrame, Send, Goto, pipeline
<1>2. ASSUME NEW t \in Turns, Drop(t) PROVE mode' = mode /\ \A u \in Turns : TurnFrame(u)
  BY <1>2 DEF TurnFrame, Drop, widget, pipeline
<1>3. ASSUME NEW t \in Turns, Lose(t) PROVE mode' = mode /\ \A u \in Turns : TurnFrame(u)
  BY <1>3 DEF TypeOK, TurnFrame, Lose, Goto, widget, pipeline
<1>4. ASSUME NEW t \in Turns, ReleaseSession(t)
      PROVE  mode' = mode /\ \A u \in Turns : TurnFrame(u)
  BY <1>4 DEF TypeOK, TurnFrame, ReleaseSession, Goto, widget, pipeline
<1>5. ASSUME NEW t \in Turns, Receive(t) PROVE mode' = mode /\ \A u \in Turns : TurnFrame(u)
  BY <1>5 DEF TypeOK, TurnFrame, Receive, Goto, widget, pipeline
<1>6. ASSUME NEW t \in Turns, Resolve(t) PROVE mode' = mode /\ \A u \in Turns : TurnFrame(u)
  BY <1>6 DEF TypeOK, PhaseInv, TurnFrame, Resolve, Goto, widget
<1>7. ASSUME NEW t \in Turns, GuardBlocks(t)
      PROVE  mode' = mode /\ \A u \in Turns : TurnFrame(u)
  BY <1>7 DEF TypeOK, TurnFrame, GuardBlocks, AnswerStart, Goto, widget
<1>8. ASSUME NEW t \in Turns, GuardAllows(t)
      PROVE  mode' = mode /\ \A u \in Turns : TurnFrame(u)
  BY <1>8 DEF TypeOK, TurnFrame, GuardAllows, Goto, widget, pipeline
<1>9. ASSUME NEW t \in Turns, Ground(t) PROVE mode' = mode /\ \A u \in Turns : TurnFrame(u)
  <2>1. \A u \in Turns \ {t} : hist'[u] = hist[u] /\ llm'[u] = llm[u]
    BY <1>9 DEF TypeOK, Ground
  <2>2. pc[t] = "ground" /\ pc' = [pc EXCEPT ![t] = AnswerStart] /\ mode' = mode
        /\ chatOf' = chatOf /\ UNCHANGED widget
    BY <1>9 DEF Ground, Goto
  <2> QED
    BY <1>9, <2>1, <2>2 DEF TypeOK, TurnFrame, AnswerStart, widget
<1>10. ASSUME NEW t \in Turns, Meta(t) PROVE mode' = mode /\ \A u \in Turns : TurnFrame(u)
  BY <1>10 DEF TypeOK, TurnFrame, Meta, Goto, pipeline
<1>11. ASSUME NEW t \in Turns, Generate(t)
       PROVE  mode' = mode /\ \A u \in Turns : TurnFrame(u)
  BY <1>11 DEF TypeOK, TurnFrame, Generate, Goto, widget
<1>12. ASSUME NEW t \in Turns, Token(t) PROVE mode' = mode /\ \A u \in Turns : TurnFrame(u)
  BY <1>12 DEF TurnFrame, Token, widget
<1>13. ASSUME NEW t \in Turns, Sources(t) PROVE mode' = mode /\ \A u \in Turns : TurnFrame(u)
  BY <1>13 DEF TypeOK, TurnFrame, Sources, Goto, widget
<1>14. ASSUME NEW t \in Turns, Persist(t) PROVE mode' = mode /\ \A u \in Turns : TurnFrame(u)
  BY <1>14 DEF TypeOK, TurnFrame, Persist, ReadyToPersist, Goto, widget, pipeline
<1>15. ASSUME NEW t \in Turns, Done(t) PROVE mode' = mode /\ \A u \in Turns : TurnFrame(u)
  BY <1>15 DEF TypeOK, TurnFrame, Done, AfterDone, Goto, widget, pipeline
<1>16. ASSUME NEW t \in Turns, Commit(t) PROVE mode' = mode /\ \A u \in Turns : TurnFrame(u)
  BY <1>16 DEF TypeOK, TurnFrame, Commit, Goto, pipeline
<1>17. ASSUME NEW t \in Turns, Fail(t) PROVE mode' = mode /\ \A u \in Turns : TurnFrame(u)
  BY <1>17 DEF TypeOK, TurnFrame, Fail, Goto, widget, pipeline
<1>18. ASSUME NEW t \in Turns, NoticeDrop(t)
       PROVE  mode' = mode /\ \A u \in Turns : TurnFrame(u)
  BY <1>18 DEF TypeOK, TurnFrame, NoticeDrop, widget, pipeline
<1>19. ASSUME NEW t \in Turns, Cancel(t) PROVE mode' = mode /\ \A u \in Turns : TurnFrame(u)
  BY <1>19 DEF TypeOK, TurnFrame, Cancel, Goto, widget, pipeline
<1>20. ASSUME NEW t \in Turns, Collect(t) PROVE mode' = mode /\ \A u \in Turns : TurnFrame(u)
  BY <1>20 DEF TurnFrame, Collect, widget, pipeline
<1>21. CASE UNCHANGED vars
  BY <1>21 DEF TurnFrame, vars, widget, pipeline
<1> QED
  BY <1>1, <1>2, <1>3, <1>4, <1>5, <1>6, <1>7, <1>8, <1>9, <1>10, <1>11, <1>12,
     <1>13, <1>14, <1>15, <1>16, <1>17, <1>18, <1>19, <1>20, <1>21 DEF Next, Handle

\* At the memory step every turn that counts is in the database under its chat,
\* so that it is read or left out for HistoryLimit later ones.
LEMMA GroundReadsAll ==
  ASSUME Inv, RowInv, MemoryInv,
         NEW t \in Turns, Ground(t),
         NEW u \in seen[t], pc[u] = "over", mode # "sse", chatOf[u] = chatOf[t]
  PROVE  u \in hist'[t] \/ Cardinality(hist'[t]) = HistoryLimit
<1> DEFINE rows == {d \in convs : d.chat = chatOf[t]}
<1>1. TypeOK /\ PhaseInv /\ StoreInv
  BY DEF Inv
<1>2. pc[t] = "ground" /\ chatOf[t] \in Turns /\ u \in Turns
  BY <1>1 DEF Ground, PhaseInv, Resolved, TypeOK
<1>3. PICK c \in convs : c.turn = u /\ c.chat = chatOf[t] /\ c.chat \in chats
  BY <1>1, <1>2 DEF StoreInv
<1>4. req[t] # None
  <2> SUFFICES ASSUME req[t] = None PROVE FALSE
    OBVIOUS
  <2>1. chatOf[t] = t
    BY <1>2, TurnsAssumption DEF MemoryInv
  <2>2. PICK d \in convs : d.turn = t
    BY <1>1, <1>3, <2>1 DEF StoreInv
  <2>3. pc[t] = "over"
    BY <1>1, <2>2 DEF StoreInv
  <2> QED
    BY <1>2, <2>3
<1>5. hist'[t] = {d.turn : d \in MostRecent(rows)}
  BY <1>1, <1>4 DEF Ground, TypeOK
<1>6. c \in rows
  BY <1>3
<1>7. CASE c \in MostRecent(rows)
  BY <1>3, <1>5, <1>7
<1>8. CASE c \notin MostRecent(rows)
  <2>1. Numbered(rows)
    BY <1>1, ChatRowsNumbered
  <2>2. MostRecent(rows) \subseteq rows
    BY DEF MostRecent
  <2>3. \A d, e \in MostRecent(rows) : d.turn = e.turn => d = e
    BY <1>1, <2>2 DEF StoreInv
  <2>4. IsFiniteSet(MostRecent(rows))
    BY <2>1, <2>2, FS_Subset DEF Numbered
  <2> HIDE DEF rows
  <2>5. Cardinality(MostRecent(rows)) = HistoryLimit
    BY <1>6, <1>8, <2>1, MostRecentIsFull
  <2>6. Cardinality({d.turn : d \in MostRecent(rows)}) = Cardinality(MostRecent(rows))
    BY <2>3, <2>4, TurnsOfRows
  <2> QED
    BY <1>5, <2>5, <2>6
<1> QED
  BY <1>7, <1>8

LEMMA MemoryStep ==
  ASSUME Inv, RowInv, MemoryInv, [Next]_vars
  PROVE  MemoryInv'
<1>1. TypeOK /\ PhaseInv /\ StoreInv /\ ReplyInv /\ ThreadInv
  BY DEF Inv
<1>2. mode' = mode /\ \A u \in Turns : TurnFrame(u)
  BY <1>1, TurnFrames
<1>3. ASSUME NEW t \in Turns, llm'[t] # "idle"
      PROVE  chatOf[t] # None /\ chatOf'[t] = chatOf[t]
  <2>1. chatOf[t] # None
    BY <1>1, <1>2, <1>3, TurnsAssumption DEF TurnFrame, MemoryInv, PhaseInv
  <2> QED
    BY <1>2, <2>1 DEF TurnFrame
<1>4. \A t \in Turns : pc[t] # "unsent" => req'[t] = req[t] /\ seen'[t] = seen[t] /\ ahead'[t] = ahead[t]
  BY <1>2 DEF TurnFrame
<1>5. ASSUME NEW t \in Turns, chatOf'[t] # None, req'[t] = None
      PROVE  chatOf'[t] = t
  <2>1. CASE chatOf[t] # None
    <3>1. pc[t] # "unsent"
      BY <1>1, <2>1 DEF PhaseInv, Unresolved
    <3> QED
      BY <1>2, <1>4, <1>5, <2>1, <3>1 DEF TurnFrame, MemoryInv
  <2>2. CASE chatOf[t] = None
    <3>1. pc[t] = "resolve" /\ chatOf'[t] = ChatFor(t)
      BY <1>2, <1>5, <2>2 DEF TurnFrame
    <3>2. req[t] = None
      BY <1>4, <1>5, <3>1
    <3>3. None \notin chats
      BY <1>1, TurnsAssumption DEF TypeOK
    <3> QED
      BY <3>1, <3>2, <3>3 DEF ChatFor
  <2> QED
    BY <2>1, <2>2
<1>6. ASSUME NEW t \in Turns, mode = "http", NEW u \in seen'[t]
      PROVE  pc'[u] = "over"
  <2>1. seen[t] \subseteq Turns
    BY <1>1 DEF TypeOK
  <2>2. CASE u \in seen[t]
    BY <1>2, <1>6, <2>1, <2>2 DEF MemoryInv, TurnFrame, Over
  <2>3. CASE u \notin seen[t]
    <3>1. pc[t] = "unsent"
      BY <1>4, <1>6, <2>3
    <3>2. u \in Turns /\ Answered(u)
      BY <1>2, <1>6, <2>3 DEF TurnFrame
    <3>3. pc[u] = "over"
      BY <1>1, <1>6, <3>2 DEF ReplyInv
    <3> QED
      BY <1>2, <3>2, <3>3 DEF TurnFrame, Over
  <2> QED
    BY <2>2, <2>3
<1>7. ASSUME NEW t \in Turns, NEW u \in seen'[t],
             llm'[t] = "running",
             chatOf'[u] = chatOf'[t],
             \/ mode = "http"
             \/ mode = "ws" /\ u \in ahead'[t] /\ pc'[u] = "over"
      PROVE  u \in hist'[t] \/ Cardinality(hist'[t]) = HistoryLimit
  <2>1. chatOf[t] # None /\ chatOf'[t] = chatOf[t]
    BY <1>3, <1>7
  <2>2. pc[t] # "unsent"
    BY <1>1, <2>1 DEF PhaseInv, Unresolved
  <2>3. u \in seen[t] /\ ahead'[t] = ahead[t]
    BY <1>4, <1>7, <2>2
  <2>4. u \in Turns
    BY <1>1, <2>3 DEF TypeOK
  <2>5. pc[u] = "over" /\ mode # "sse"
    <3>1. CASE mode = "http"
      BY <2>3, <3>1 DEF MemoryInv
    <3>2. CASE mode = "ws" /\ u \in ahead'[t] /\ pc'[u] = "over"
      <4>1. pc[u] \in Over
        BY <1>1, <2>1, <2>3, <3>2 DEF ThreadInv
      <4> QED
        BY <1>2, <2>4, <3>2, <4>1 DEF TurnFrame
    <3> QED
      BY <1>7, <3>1, <3>2
  <2>6. chatOf'[u] = chatOf[u]
    BY <1>1, <1>2, <2>4, <2>5, TurnsAssumption DEF TurnFrame, PhaseInv, Resolved
  <2>7. CASE Ground(t)
    BY <1>7, <2>1, <2>3, <2>5, <2>6, <2>7, GroundReadsAll
  <2>8. CASE llm[t] = "running" /\ hist'[t] = hist[t]
    <3>1. mode = "http" \/ (mode = "ws" /\ u \in ahead[t] /\ pc[u] = "over")
      BY <1>7, <2>3, <2>5
    <3> QED
      BY <1>7, <2>1, <2>3, <2>6, <2>8, <3>1 DEF MemoryInv, HistoryComplete
  <2> QED
    BY <1>2, <1>7, <2>7, <2>8 DEF TurnFrame
<1> QED
  BY <1>2, <1>3, <1>5, <1>6, <1>7 DEF MemoryInv, HistoryComplete

LEMMA MemoryInvariance == Spec => [](RowInv /\ MemoryInv)
<1>1. Init => RowInv /\ MemoryInv
  <2>1. Init => RowInv
    BY FS_EmptySet DEF Init, RowInv, Rows
  <2>2. Init => MemoryInv
    BY DEF Init, MemoryInv, HistoryComplete
  <2> QED
    BY <2>1, <2>2
<1>2. Inv /\ RowInv /\ MemoryInv /\ [Next]_vars => (RowInv /\ MemoryInv)'
  BY RowStep, MemoryStep DEF Inv
<1> QED
  BY <1>1, <1>2, Invariance, PTL DEF Spec

\* The memory step of a follow-up reads every turn of its chat that the widget
\* had the answer of when it asked, or as many later ones as the limit allows,
\* however turns interleave, fail and drop.
THEOREM HistoryAlwaysComplete == Spec => []HistoryComplete
<1>1. MemoryInv => HistoryComplete
  BY DEF MemoryInv
<1> QED
  BY <1>1, MemoryInvariance, PTL

----------------------------------------------------------------------------
(* The context of a prompt *)

\* merge keeps no more than the budget, and splits it fairly between the cached and the
\* retrieved context; it cuts only what does not fit, and then leaves at most one character
\* of the budget unused (services/context_builder.py: "a fair share of the budget instead
\* of letting whichever comes first starve the other").
THEOREM MergeIsFairAlways ==
  ASSUME NEW budget \in Nat, NEW found \in Contexts
  PROVE  LET kept == Merged(budget, found)
         IN  /\ kept \in Contexts /\ kept.cag <= found.cag /\ kept.rag <= found.rag
             /\ Within(budget, kept) /\ Fair(budget, found, kept)
             /\ found.cag + found.rag <= budget => kept = found
             /\ found.cag + found.rag > budget => kept.cag + kept.rag >= budget - 1
<1> DEFINE half == budget \div 2
           kept == Merged(budget, found)
<1>1. half \in Nat /\ 2 * half <= budget /\ budget <= 2 * half + 1
  OBVIOUS
<1>2. found.cag \in Nat /\ found.rag \in Nat /\ found = [cag |-> found.cag, rag |-> found.rag]
  BY DEF Contexts
<1>3. kept = IF found.cag > half /\ found.rag > half
             THEN [cag |-> half, rag |-> half]
             ELSE IF found.cag + found.rag <= budget THEN found
             ELSE IF found.cag <= half THEN [found EXCEPT !.rag = budget - found.cag]
             ELSE [found EXCEPT !.cag = budget - found.rag]
  BY DEF Merged
<1> HIDE DEF half, kept
<1>4. \/ /\ kept.cag = half /\ kept.rag = half
         /\ found.cag > half /\ found.rag > half
         /\ kept \in Contexts
      \/ found.cag + found.rag <= budget /\ kept = found
      \/ /\ kept.cag = found.cag /\ kept.rag = budget - found.cag /\ kept \in Contexts
         /\ found.cag <= half /\ found.cag + found.rag > budget
      \/ /\ kept.rag = found.rag /\ kept.cag = budget - found.rag /\ kept \in Contexts
         /\ found.rag <= half /\ found.cag + found.rag > budget
  <2>1. CASE found.cag > half /\ found.rag > half
    BY <1>1, <1>3, <2>1 DEF Contexts
  <2>2. CASE ~(found.cag > half /\ found.rag > half) /\ found.cag + found.rag <= budget
    BY <1>3, <2>2
  <2>3. CASE /\ ~(found.cag > half /\ found.rag > half) /\ found.cag + found.rag > budget
             /\ found.cag <= half
    <3>1. kept = [found EXCEPT !.rag = budget - found.cag] /\ budget - found.cag \in Nat
      BY <1>1, <1>2, <1>3, <2>3
    <3> QED
      BY <1>2, <2>3, <3>1 DEF Contexts
  <2>4. CASE /\ ~(found.cag > half /\ found.rag > half) /\ found.cag + found.rag > budget
             /\ found.cag > half
    <3>1. /\ kept = [found EXCEPT !.cag = budget - found.rag] /\ budget - found.rag \in Nat
          /\ found.rag <= half
      BY <1>1, <1>2, <1>3, <2>4
    <3> QED
      BY <1>2, <2>4, <3>1 DEF Contexts
  <2> QED
    BY <1>1, <1>2, <2>1, <2>2, <2>3, <2>4
<1>5. kept.cag \in Nat /\ kept.rag \in Nat
  BY <1>2, <1>4 DEF Contexts
<1>6. /\ kept \in Contexts /\ kept.cag <= found.cag /\ kept.rag <= found.rag
      /\ found.cag + found.rag <= budget => kept = found
      /\ found.cag + found.rag > budget => kept.cag + kept.rag >= budget - 1
  BY <1>1, <1>2, <1>4, <1>5
<1>7. Within(budget, kept)
  BY <1>1, <1>2, <1>4 DEF Within
<1>8. Fair(budget, found, kept)
  BY <1>1, <1>2, <1>4, <1>5 DEF Fair
<1> QED
  BY <1>6, <1>7, <1>8 DEF kept
=============================================================================
