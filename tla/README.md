# A verification development for cb-chatbot

cb-chatbot is a multi-tenant RAG chatbot: a FastAPI backend (`src/backend`), a
React chat widget that talks to it over one of three transports
(`src/frontend/chatbot`), and an admin dashboard (`src/frontend/dashboard`).
This directory holds TLA+ models of the parts that have state and concurrency,
the TLC configurations that check them on small instances, and proofs that
TLAPS checks for every instance. `PROJECT.json` maps every definition to the
lines it stands for.

## 1. The system

### Components, their state, and how they interact

| component | code | state it keeps | operations |
|---|---|---|---|
| RAG chat turn | `services/rag_chat_service.py`, `api/v1/chat.py`, `infrastructure/db/session.py`, `services/memory_service.py`, `services/guardrail_service.py` | rows of `chats` and `conversations`; one open transaction per turn; the answer collected so far | `POST /chat`, `POST /chat/stream` (SSE), `WS /chat/ws` (a loop over many turns) |
| CAG cache | `infrastructure/cache/cag_cache.py`, `services/cag_service.py`, `rag/ingest/providers/cag_s3.py`, `api/v1/cag_ingest.py`, `app.py` | S3 objects of a tenant, their copies in Redis, the index set in Redis | `select_context` (a question), ingest, reload, preload |
| WebSocket transport | `core/transports/WebSocketTransport.ts`, `hooks/useChat.ts` | socket, queue, back-off, active bubble, chat id; the messages and status of the hook | send, stop, open, close, frames, reconnect, unmount |
| Fetch transports | `HttpTransport.ts`, `StreamTransport.ts`, `useChat.ts`, `ChatBody.tsx` | the newest request's abort controller, a timer per request, chat id | send, stop, timeout, reply or stream |
| Sign-in and session | `core/auth/AuthContext.tsx`, `session.ts` | tokens in memory and in storage, a refresh timer | boot, login, refresh, logout |
| Authentication, RBAC | `core/auth.py`, `core/cognito.py`, `api/v1/auth.py` | the JWKS cache | verify, sign-up, sign-in, refresh |
| Provisioning and sessions | `core/provisioning.py`, `core/auth.py` | `users`, the default organisation's rows, `user_sessions` | lazily on the first request |
| Rate limit | `core/ratelimit.py` | a counter in Redis per user and minute | count, refuse |
| Ingestion | `services/ingestion_service.py`, `rag/vectorstore` | ingestion records, chunks | create, list |
| Context builder | `services/context_builder.py` | none | share a budget of characters between the cached and the retrieved context |
| Feedback, analytics | `services/chat_service.py`, `analytics_service.py` | feedback on conversations; a cached summary | submit, list, summarise |
| Widget's composer | `InputBar.tsx`, `MicButton.tsx`, `core/voice/useVoiceRecorder.ts`, `ChatWidget.tsx`, `embed/` | the draft; the recorder's status, recorder and stream; the element's configuration | type, send, dictate, open and close, set the configuration |
| Mock transport | `core/transports/MockTransport.ts` | one flag that stops replies | send, stop, the words of a reply |
| Dashboard | `frontend/dashboard` | a token in localStorage; the query cache; the open dialogs; the arrays of a mock API | sign in and out, navigate, add, edit and remove users and roles, ingest |

A widget sends a question through one transport (its `protocol.type`) and the
id of the chat the server named last. The server resolves the user and the
session, then the chat; it asks the guardrail, reads the history of the chat,
takes the context from the vector store or from the CAG cache, runs the model
and writes the conversation. The three endpoints share this pipeline but not
its transaction: `POST /chat` commits in the `get_db` dependency, before the
reply is sent; the SSE endpoint's dependency commits before the generator has
run; the WebSocket opens a session for each message and commits after `done`.
The CAG cache is shared by all requests of a tenant. The widget's hook keeps
the UI state and hears the transport through callbacks. Before any of
this a request is authenticated: its user, the default organisation and a
session are looked up or inserted in the request's own transaction, and a chat
is counted against its user's limit. The dashboard's users and roles live in a
mock adapter inside the browser; its ingestions are the backend's.

### What is hard

* Turns interleave at every `await`: what one has flushed is not seen by
  another until it commits; any step may raise; a client may leave in the
  middle and the handler is then cancelled, or raises, or never notices.
* The CAG cache has no transactions and no versions: a question that fetched a
  document from S3 may store it after an ingest has stored a newer one; a
  reload deletes keys and then the index; every Redis error is swallowed.
* The widget's socket closes, is refused or reconnects while questions are
  queued and an answer is streaming into a bubble; the server's loop of a lost
  socket may go on for a while with what it had received.
* A fetch transport has one abort controller, a timer for each request, and
  nothing that keeps two requests from being in flight.
* First requests provision at once, each not seeing what the others have
  flushed; some of the rows have a unique constraint to wait on and some not.
  A limit is counted outside the transaction that may be rolled back.
* The microphone is asked for and answers late, while the input may be gone, or
  another recording begun; one flag stops every demo reply.
* A save in the dashboard, the fetch that follows it and a poll answer in any
  order, while its dialog or its page is closed and another is opened; the mock
  hands out the very array it later changes.

### What makes each component correct

* Chat turn: no truncated answer and no empty chat is ever committed; what a
  client was told is in the database; a follow-up stays in its chat and sees
  its history; one socket's turns are served in order; every question ends.
* Cache: what S3 no longer has is not served; what it has is not missing; what
  an ingest has stored is served until a newer one; a reload repairs.
* Transports: a question is asked once, and one socket's in order; an answer goes to its own
  bubble; the status tells the truth; the thread is kept; timeouts abort what
  is late; nothing reconnects once it is over; the newest question ends.
* Sign-in: the chat is asked as the account the widget shows; localStorage is
  what a tab last put there; nobody stays signed in with an expired token.
* Provisioning: one row of each name; a socket's turns refer to a session that
  is committed. Rate limit: of a user's counted HTTP chats no more than the
  quota pass in a minute; a socket's turns are not limited, and what passes
  while Redis fails is not counted.
* Ingestion: a record listed as completed was added: with pgvector its chunks
  are stored, with bedrock_kb a sync was started for it, however that ends.
* Context: neither source starves the other of the budget.
* Composer: while its bar is on the screen a microphone is on only when the
  button says so; no word is lost or sent twice; a stop that no later question
  takes back stops, and its button is not there for nothing.
* Dashboard: a save closes its own form only; what was saved is shown.

## 2. The modules

| module | models | lines |
|---|---|---|
| `ChatLedger` | what the chat tables promise, abstractly | a turn is recorded once, in an existing chat, before it is acknowledged |
| `ChatTurn` | the chat pipeline under its three deliveries | extends nothing of the project; refines `ChatLedger` |
| `ContextBuilder` | how `merge` splits a prompt's budget | a function; stands alone |
| `CagCache` | questions, ingests and reloads over S3 and Redis | a step for each S3 or Redis call |
| `WsChat` | WebSocket transport, hook, network, and the server's loop seen from outside | a step for each event the browser delivers |
| `FetchChat` | HTTP and SSE transports and the hook | a step for each event the browser delivers |
| `WidgetSession` | the sign-in of each tab, the localStorage they share, the token a chat's transport keeps | a step for each event of a tab: a click, a timer, an answer |
| `Accounts` | provisioning, sessions and the rate limit, for HTTP requests and sockets | a step for each query, insert or Redis call; the transaction of each request |
| `Composer` | the input, the microphone, the element and the demo chat | a step for each event of the page or its media |
| `Dashboard` | the dashboard's session, pages, dialogs, query cache and mock, and the ingestion behind it | a step for each click, timer or answer |
| `ChatTurnProofs`, `CagCacheProofs`, `FetchChatProofs`, `WidgetSessionProofs`, `AccountsProofs`, `ComposerProofs`, `DashboardProofs`, `WsChatProofs` | the theorems about the eight | |
| `MC*` | the instances for TLC | |

### ChatTurn

A turn is one question of one widget. `pc[t]` is the next step of its handler,
and each step is one stretch of code between two awaits that another turn can
see: `Receive` (the loop takes the next message), `ReleaseSession` (the SSE
endpoint returns, and `get_db` commits an empty transaction), `Resolve`
(`_get_or_create_chat`), `GuardBlocks`/`GuardAllows`, `Ground` (memory,
retrieval, prompt), `Meta`, `Generate` or `Token`s, `Persist`, `Sources`,
`Done`, `Commit`. `newChat` and `newConv` are the turn's open transaction:
rows flushed and not committed. `chats` and `convs` are the committed rows.
Errors: `Fail` (any step raises: rollback, and an `error` event or a 500),
`NoticeDrop` (a send into a dead socket raises), `Cancel` (the SSE response is
cancelled), `Collect` (the abandoned session of an SSE generator is collected,
which rolls it back). `Drop` takes the connection down. The widget's part is
`known` and `req`, the chat id it sends. Texts are counted, not spelled: an
answer is its number of chunks; scores, titles and `is_regenerate` are left out.

### ContextBuilder

`merge` has no state: `Merged` is what it keeps of two texts, and a text is its
length. `Fair` does not follow the code's cases: it says of every other split
within the budget that it gives a source more than one further character only
at the expense of one that kept no more. The one character is what an odd
budget leaves when both texts are halved. `MAX_CONTEXT_CHARS` bounds what is
kept; the headings and the mark of a cut come on top of it.

### CagCache

Redis and S3 hold for each document the number of its upload (0 for none). A
job is a question (`select_context` over the listing), an ingest, or a reload
(`warm_load_tenant`), and `pc` names its next call. Every Redis call may fail
and is swallowed as the code does; S3 may fail a load; Redis may restart
empty; an operator may delete an object. History variables record which jobs
raced and which writes were lost, so that the properties can say exactly when
staleness is excused.

### WsChat and FetchChat

The n-th question is turn n. The hook's state is `status`, `typing` and the
bubbles; the transport's is its fields. The server of `WsChat` is the loop of
`rag_chat_ws` at the granularity of frames (accept, authenticate, refuse with
4401, take, answer, `done`, commit, error) and `ChatTurn` has its inside; the
server of `FetchChat` is external: an answer comes, breaks off or never comes.

In `WsChat` frames are delivered in order until the socket goes. `done` and the
commit are two steps: the commit may fail after the widget has been told
`done`, and then an `error` frame follows and the chat of that answer, if it
was new, does not exist (`unsaved`). When the socket goes (`LoseSocket`), the
frames on their way to the widget are lost; of the questions, a first part has
been received by the server, any part, and is left to that socket's loop in
`gone`, which goes on with it: it may finish and commit the answer under way,
authenticate, and read what it had received, while the widget's next socket is
long served by a loop of its own. Nobody sees what such a loop sends; that it
finds out at last, at any step, is its taking no further step.
`AskedOnceInOrder` therefore promises order within a socket only, and
`AnswerContinues` excuses the chats in `unsaved`.

In `FetchChat` an aborted request ends by a later, separate step (the rejected
promise), so other events come in between. A timer is `running`, then `due`;
whatever a stream's reader is given starts it anew, a `Ping` too, by which
`EventSourceResponse` keeps the connection alive (every 15 s, half the
timeout) while the server is still at work. An HTTP reply whose answer is empty
is shown as the blank bubble it is; a stream that ends with nothing is filled
with a sentence.

### WidgetSession

Access tokens are numbered as the server issues them and a session is named by
its token; `renewable` ones came with a refresh token. The tab's state is
`AuthContext`'s `status` and `accessToken`, the session its armed timer has
captured, the requests under way, whether the window is open, and the token
`ChatBody`'s transport was made with. `Persist` is `persist` with what React
runs after it: the effect on `[status, accessToken]` clears the timer and arms
one for the new session, and the chat appears if the window is open. That is
one step: a tab that stores its session exactly between another tab's
`saveSession` and that tab's effect is left out. `Expire` makes any token
expire at any time, before its refresh or after. A refresh is not cancelled by
anything, so one in flight at a sign-out signs the tab in again, and a late
answer to a login leaves the mounted chat with the earlier account's
transport; `ChatAsShown` is therefore stated of tabs that did not sign in or
out over a pending request (`overlapped`), and these are modelled all the
same. The login form is busy while its login is under way, but switching to
sign-up and back makes a new one, so `Login` may come at any time. Another tab's refresh may store its session over this tab's, so
`StorageAgrees` speaks of the last writer.

### Accounts

A request goes through `provision` (`_get_or_create` for each row in `Order`,
a select and then, if it found none, an insert), `session`
(`get_or_create_session`), `limit` (chats only) and `handler`, and then
commits or rolls back. `mine` are the rows its transaction has flushed.
Isolation is Postgres's default, READ COMMITTED: `Seen` is what is committed
when the statement runs, and what the transaction has flushed itself. An insert of a
name that must be unique waits for a transaction that has flushed the same
(`Blocked`), and then succeeds or fails with `Clash`; the designation, the
division and the brand have no constraint and do not wait. `OneOfEach` holds
all the same, because the tenant is looked for first and has one: whoever
would insert a second division must first insert a second tenant. A socket
authenticates in a session that is closed without a commit, so `AuthEnds`
drops what it flushed. Limits are counted under the `users.id` that the
request has seen, and `QuotaKept` is about the chats that were counted: those
that Redis failed to count pass, as the code has it, and a Redis that restarts
within the minute is left out.

### Composer

`bars` are mountings of `InputBar`, each with a recorder hook of its own;
recordings, their streams and their recorders carry one number. A recording is
`asking` for permission, `recording`, `stopping` (the browser will call
`onstop`), `uploading`, and `over`. `MicAsShown` excuses three cases, which the
code has: a click while the permission is still asked for begins a second
recording over the first, whose microphone nothing can turn off any more
(`crossed`); a browser that grants the microphone and then refuses the recorder
leaves it on (`stuck`); and a window that is closed while it records takes the
bar and its button away and leaves the microphone on, since the hook has no
cleanup (`barOf[r] # bar`). `StopTruthful` excuses two:
`sendMessage` clears the one flag, so a stopped reply whose loop has not looked
yet goes on (`resumed`, only of replies that had been stopped, and until they
are stopped again); and `markComplete` turns `isBotTyping` off whichever reply
ends, so one that is still under way then goes on without the button
(`outlived`). The button is never there for nothing: that conjunct has no
excuse. The page has one of two shells; the element
`<chat-widget>` has no token and chats with `MockTransport`. The authenticated
shell's chat is `FetchChat` or `WsChat`, of which only a failure is seen here.

### Dashboard

The three tables that change something share one model: `table` says which one
it is, and the guards say in what they differ (the ingestions have no edit and
no removal, are polled, and are the backend's; the roles' page does not
catch). Rows are versions. An op goes from `sent` to `refetching` (its
mutation awaits the invalidated query) to `settled` and is `over` when what
awaited it has run; `here` says that the page it was submitted from is still
mounted, and an op refused after its page has gone is `over` at once, since
nothing is left to run. `query` is react-query's entry: `alias` says that its data is the
mock's own array, so that the mock's writes show in it and structural sharing
finds nothing new. `net` is the order of the mock's timers, all of one length.
A failed list is retried once, which is a second reading; that saving a user
also invalidates the roles' list is left out, since a table is observed alone.
The users' form holds its own mutations, so a save of it renders the table
only by closing it. react-query is external, and is modelled as the version
the lockfile pins (5.101.2) behaves: an invalidation that finds a fetch under
way gives it up for a fetch of its own, and what waited for the first waits for
the new one (`handed`); it does so once, so that an op is settled without its
row being fetched only if two later ones overtake it. `FormKept` and
`SavedIsShown` name what they excuse: a form closed and opened again during its
save, an op overtaken twice, a first fetch that an op joins, a last fetch that
failed, and the rendered rows of an array that is the mock's own.

The ingestion behind the third table has one of two stores. With pgvector
`add_documents` stores chunks in a transaction of its own (`chunks`); with
bedrock_kb it only starts a sync job (`syncs`) whose end the service never
hears of, and the record says COMPLETED all the same.

## 3. The runs

| run | instance | what it checks |
|---|---|---|
| `chat_turns` | 3 turns, 1 chunk, history of 1, 1 failure, 1 drop, all deliveries; turns symmetric | `TypeOK`, `NoPartialAnswer`, `ReplyIsDurable`, `ThreadKept`, `HistoryComplete`, `ImplementsLedger` |
| `chat_turn_ends` | 2 turns, 2 chunks, 2 failures, 2 drops, fair | `EveryQuestionEnds` |
| `chat_turn_sse` | 2 turns, SSE | violates `DonePersisted` |
| `cag_cache` | 2 jobs at a time, again and again, 2 documents, 3 uploads, 1 fault; jobs symmetric | `TypeOK`, `StaleOnlyAfterRace`, `DeletedNotServed`, `NothingMissing`, `ReloadHeals`, `ReadYourIngest` |
| `ws_chat` | 3 questions, 1 chunk, 1 reconnection attempt, 1 drop, fair | `TypeOK`, `AnswerInItsBubble`, `AskedOnceInOrder`, `StatusTruthful`, `AnswerContinues`, `NoReconnectWhenOver`, `QueueDrains` |
| `fetch_chat` | 3 questions, 1 chunk, both protocols, fair | `TypeOK`, `StatusTruthful`, `TimeoutIsItsOwn`, `SameThread`, `NewestEnds` |
| `widget_session` | 2 tabs, 2 accounts, 2 tokens, fair | `TypeOK`, `ChatAsShown`, `StorageAgrees`, `SessionKept` |
| `widget_session_401` | 1 tab, 1 account, 2 tokens | violates `NoSudden401` |
| `accounts` | an admin and a guest, 3 requests at a time, 4 arrivals, limits 2 and 1; requests symmetric | `TypeOK`, `OneOfEach`, `QuotaKept` |
| `accounts_socket` | the same | violates `SocketTurnsRecorded` |
| `composer` | both shells, 2 mountings, 3 words, 2 recordings, 2 demo replies of 2 words | `TypeOK`, `MicAsShown`, `WordsKept`, `StopTruthful` |
| `dashboard` | each of the three tables, the ingestions over either store, 2 saves or removals | `TypeOK`, `FormKept`, `SavedIsShown`, `CompletedWasAdded` |

Bounds, and why they are enough. Three turns are a first question, a follow-up
in its chat and one that is in the way of both; a history of one message makes
the limit bite with two. One failure and one drop hit any step of any turn;
two of each are in `chat_turn_ends`, where what matters is that a second one
finds the socket's loop still alive. Two jobs are enough for each pair of a
question, an ingest and a reload to race, and jobs start again, so three in a
row occur; two documents separate the handling of one from the listing of all.
One drop of an open socket leaves a loop with questions of its own beside the
new socket's, whose attempts may fail and be refused besides, and one attempt
reaches the limit; with two drops (12.3 million states, safety only) nothing
more was found, and the proofs are for any number. Three questions let an old request end after the newest one has. Two
tokens are a login and its refresh, or the logins of two accounts in either or
both of the tabs; with three (5.2 million states, safety only) nothing more
was found, and the proofs are for any number. Three requests of two users are
two that provision the same user while a third provisions the organisation for
another; four arrivals let one of them come back, and the limits of two and
one are reached. Two recordings are one begun over another, and one begun in a
second mounting while the first is on its way; three words are one before, one
during and one after; three recordings are out of TLC's time, and the proofs
are for any number. Two ops of a table overtake each other, and each meets a
fetch or a poll; that an op is overtaken twice takes three, and is reached by
the theorem only.

`chat_turns` also evaluates `MergeIsFair`, an assumption of its MC module: the
reference definition against `Merged`, for all budgets up to 9 and texts up to
11, odd and even, on both sides of a half and of the whole.

Deadlock is checked where the system never stops: `cag_cache`,
`widget_session`, `accounts`
(the minute goes on) and `dashboard` (the user may reload). The others may end:
every question asked and answered, an element taken out of its page.

The three violations are disagreements of the code with its own words:

* `chat_turn_sse`: the README has the answer persisted before `done`; the SSE
  endpoint's transaction is committed before the generator runs and never
  again, so a streamed turn is announced as done and is not in the database.
* `widget_session_401`: `AuthContext` refreshes the token so that "a long-lived
  chat session never suddenly 401s"; the chat that is open keeps sending the
  token its transport was made with, and gets a 401 once that has expired.
* `accounts_socket`: `chat.py` authenticates a socket by "manually same steps"
  as a request; but the session these steps run in is closed uncommitted. The
  socket of a user who has no row yet, or no active session, cannot record a
  single turn.

The properties of the other runs name behaviour that a reader may find
surprising, and that the models contain: a lost `SET` leaves an old document
to be served (`StaleOnlyAfterRace`), a bubble cut off by a drop stays
streaming, and a fetch timeout aborts the newest request, whichever it was
started for (`TimeoutIsItsOwn` speaks of one question at a time). An upload of
a recording has no timeout, so nothing is claimed of how long the button shows
that it is transcribing. `useIngestion.ts:13` expects a status to pass from
PENDING through PROCESSING; no other session ever sees either, since the
record is committed once, with its last status.

### Fairness

`ChatTurn`: weak fairness of each turn's handler, which the event loop gives
every task whose await has returned (the model and the database are assumed to
answer, or to raise), and of noticing a connection that was lost while the
loop waits. Nothing is assumed of clients. `WsChat`: the browser opens or
fails a socket it is opening, delivers the close event of a closing one, and
fires the reconnect timer; nothing is assumed of the network's frames or of
the user, and nothing of the server's loops. `FetchChat`: time passes, and the
browser fires a timeout that stays due and rejects the promise of an aborted
request. Nothing is assumed of the server: it may never answer, and it may keep
a stream going by pings for ever, which starts its timer anew each time.
`NewestEnds` excuses exactly that (`KeptGoing`): the code waits without end
for a pipeline that hangs behind its pings.
`WidgetSession`: the browser fires timers and ends every request, with an
answer or an error. `CagCache`, `Accounts`, `Composer` and `Dashboard` have
safety properties only: there nothing in the code bounds a wait for Redis, S3,
the database, a permission, an upload or a list.

## 4. The proofs

The theorems hold for any number of turns, jobs, documents, chunks, failures,
drops, tabs, accounts and tokens, and rest only on the assumptions the modules
name (that the bounds are natural numbers, that `None` is not a turn nor
`Nobody` an account, that documents are numbered, that a user is none of the
organisation's or roles' names, that requests are finitely many).

* `ChatTurnProofs`: `Inv` conjoins `PhaseInv` (what a turn has resolved,
  generated and persisted at each step of its handler), `SessionInv` (what the
  open transaction of a turn holds, and that it is the turn's own),
  `StoreInv` (each committed row came from such a transaction, whole, with the
  chat it belongs to), `ReplyInv` and `ThreadInv`. None of the properties is
  inductive alone: `NoPartialAnswer` speaks of the moment of the commit, and
  needs that the row flushed earlier was complete and did not change since.
  It proves `TypeOK`, `NoPartialAnswer`, `NoEmptyChat`, `ReplyIsDurable` and
  `ThreadKept`.

  `PipelineImplementsLedger` is the refinement: under `Inv` each step of the
  pipeline records one turn in an existing chat, or acknowledges one that is
  recorded, or stutters. A `Commit` is the step that matters: its chat is
  founded by then (`ChatsAreFounded`), by an earlier commit or by its own. A
  turn that is over takes no step that the ledger sees (`OverIsSilent`).

  `HistoryAlwaysComplete` counts. Rows have ids of their own, flushed or
  committed, and are finitely many (`RowInv`), so each row of a chat has a rank,
  the number of rows that are later, and the ranks of n rows are all of 0..n-1
  (`RanksAreAll`, by the pigeonhole principle for finite sets); a row that
  the memory leaves out therefore leaves it full (`MostRecentIsFull`). That a
  turn which the widget had seen answered is among the rows that `Ground`
  reads is `MemoryInv`: over HTTP and WebSocket it is over and committed by then.

  `MergeIsFairAlways` is about `ContextBuilder`, for every budget and all
  lengths: by the four outcomes of `Merged`, each of which is linear arithmetic.
* `CagCacheProofs`: `Inv` ties what a job holds to the races recorded while it
  held it (`SourceInv`, `HolderInv`), what ingests have acknowledged to what is
  cached (`AckInv`), what a question has collected to the listing it took
  (`ServeInv`), and a lone reload's progress to S3 (`ReloadInv`). It proves
  `TypeOK`, `StaleOnlyAfterRace`, `ReadYourIngest` (an action property),
  `DeletedNotServed`, `NothingMissing` and `ReloadHeals`.
* `FetchChatProofs`: `Inv` adds that only requests in flight have a timer and
  that turns are asked in order (`RequestInv`), that without overlap only the
  newest is in flight (`NewestInv`), and what the status and the chat id tell
  then. It proves `TypeOK`, `StatusTruthful`, `TimeoutIsItsOwn`, `SameThread`.
* `WidgetSessionProofs`: `Inv` adds that whatever names a session names an
  issued one (`TokenInv`), and that a tab without an overlap holds sessions of
  one account only, in its timer, its refreshes, its chat and its status
  (`AccountInv`): `ChatAsShown` alone says nothing of the refresh that will
  replace the token. It proves `TypeOK`, `ChatAsShown` and `StorageAgrees`.

* `AccountsProofs`: `OneOfEach` is not inductive, and its proof is the argument
  that is easily lost: `IInv` says that the organisation's rows are committed
  all together (`RowsInv`) and that a transaction which has flushed any of
  them, or is about to insert one, has flushed the tenant, which no other
  transaction may have (`InReqs`). `QInv` adds that a user's requests agree on
  their id (`IdInv`) and that a user's answered chats and those in flight that
  are counted are together no more than the count in Redis, which stays at or
  below the limit (`CountInv`): the finite set of requests is counted by
  cardinality, hence the assumption on it. It proves `TypeOK`, `OneOfEach` and
  `QuotaKept`.
* `ComposerProofs`: `Inv` has a part for each group of variables; most actions
  touch one group (`Frames`). `VoiceInv` says that a microphone that is as
  shown is the one of both the recorder and the stream of its bar, and that no
  two recordings are under way in a bar that is not `crossed`; `DemoInv`, that
  a stopped turn has the words it was stopped at until its loop looks. It
  proves `TypeOK`, `MicAsShown`, `WordsKept` and `StopTruthful`.
* `DashboardProofs`: `FormInv` says that a pending save whose page is there is
  the op of the form that is open, unless that was opened anew; `JobInv`, that
  the documents were added before a record says so, and `ListedInv`, that this
  is so of whatever a list was read with: what was added stays added. `SavedIsShown` rests on
  `ShowInv`, of seven parts. Of the list there is one request in the mock's
  queue, exactly while a fetch is under way (`NetInv`); a list that is not
  marked is the server's, and a table on the screen has such a list or waits
  for one (`FreshInv`); a row that is not added yet is nowhere, not in the
  cache, the form or the confirmation, so that no op is about a row that a
  later one will add (`UnbornInv`); what an op has written the server has,
  unless a later removal took it away (`OpsInv`); a list that a poll has read
  has the rows of the ops that wait for it (`ListInv`); and so what is settled
  is in what is shown (`SettledInv`). The types of the rest, and that only a
  page that is shown has a dialog, are `RestInv`. It proves `TypeOK`,
  `FormKept`, `SavedIsShown` and `CompletedWasAdded`.
* `WsChatProofs`: all six safety properties. `LinkInv` says that only an open
  socket carries frames and is answered over, that none waits in the queue
  then, and that a loop left behind has something to do; `StatusInv`, that
  nothing is left to open a socket once the widget is gone or refused.
  `OrderInv` says that what is on its way, what is queued and what is left to
  each loop is sorted, that what is queued follows all the others and what is
  on its way all but that, and that what a loop was left went over a socket
  before the one now open: so when such a loop reads a question that is older
  than some that were read, those were sent over a later socket (`MayFollow`).
  `AnswerInItsBubble` needs three parts more, for it speaks of the end of an
  answer only: `FrameInv` (the frames on the way are whole answers one after
  another, of which only the last is still served, and an error may follow a
  `done`), `BubbleInv` (the streaming bubble is that of the frames that come
  next, unless its socket went) and `CountInv` (what is in a bubble and what is
  on its way to it are the chunks sent, counted by the position of the frames).
  `ChatInv` gives `AnswerContinues`: an answer that ends is in a chat that is
  committed, about to be, or recorded as unsaved (`Kept`), and that the widget
  knows or will know by an earlier meta event. The id a follow-up names is
  therefore unknown to the server only after a commit that failed, or that had
  not been made when the socket was lost.

Only model-checked: liveness (`EveryQuestionEnds`, `QueueDrains`,
`NewestEnds`, `SessionKept`), which is out of the prover's reach. Every other
property of a passing run, the refinement of `ChatLedger` among them, is a
theorem.

## 5. What is not modelled, and the plan

Not modelled for good: the providers (vector store, embedding, LLM, guardrail
service, mail, Salesforce) behind their interfaces, which are calls that
answer or raise; prompts, themes and configuration; scrolling and the layout
of messages; the dashboard's pages that only read (conversations, unanswered
questions, issues, analytics), each a query and a selection; the cached summary
of analytics, which is a minute old at most by its expiry; guest sign-up, three
calls to Cognito that leave no state of the service's own; verifying a token
and the guards on roles, which are single comparisons; migrations and scripts.

Left for later, in this order:

1. Clearance at retrieval: the filters of a user's context.
2. The sign-up form of the widget, in `WidgetSession`.
