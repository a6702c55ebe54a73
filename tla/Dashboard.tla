------------------------------ MODULE Dashboard ------------------------------
(***************************************************************************)
(* The admin dashboard in one browser tab: its session and the guard of    *)
(* its pages, a table over react-query's cache with its dialogs, and what  *)
(* answers them: the mock adapter for users and roles, the backend's       *)
(* ingestion pipeline for the ingestions.                                  *)
(*                                                                         *)
(* A save or a removal is an op, numbered as it is submitted.  A table is  *)
(* the version of each row, 0 where there is none; an ingestion is 1 when  *)
(* COMPLETED and 2 when FAILED.  What a callback sets and what React and   *)
(* react-query do upon it is one step.                                     *)
(***************************************************************************)
EXTENDS Naturals, Sequences

CONSTANTS
  Tables,   \* the tables considered: the admin works on one of them
  Stores,   \* the vector stores considered: the backend is deployed with one
  MaxOps    \* bound on the ops

ASSUME TablesAssumption == Tables \subseteq {"users", "roles", "ingestion"}
ASSUME StoresAssumption == Stores \subseteq {"pgvector", "bedrock_kb"}
ASSUME BoundAssumption == MaxOps \in Nat

VARIABLES
  table,      \* the one
  store,      \* VECTORSTORE_PROVIDER, where there is a backend
  \* useAuth and the router
  session,    \* localStorage: a token the backend takes, one it refuses, or none
  page,       \* "table", "home" for the other pages, or "login"
  guard,      \* AuthGuard's isAuthenticated is TRUE, and the page shown
  signing,    \* LoginForm waits for its token
  \* react-query
  query,      \* the table's query
  carried,    \* the list that a fetch of the ingestions has read
  shown,      \* the rows the table is rendered with, where it is
  \* The page's dialogs
  form,       \* Closed, New, or the row being edited
  formOp,     \* the op submitted from the form as it is open now
  alert,      \* what the form says
  confirm,    \* the row that is about to be removed, or New for none
  \* The ops
  op,
  \* What answers
  net,        \* the mock adapter's requests, in the order of their timers
  server,     \* the rows: in the mock's memory, or committed
  job,        \* each op's POST in the backend
  chunks,     \* the ingestions whose chunks pgvector has stored
  syncs,      \* those for which a sync of the knowledge base was started
  \* History, for the properties only
  hasty,      \* ops that ended without a fetch of their own
  reopened,   \* ops during which the form was opened anew
  intruded    \* another op closed a form, or spoke in one, that was not its own

auth == <<session, guard, signing>>
cache == <<query, carried, shown>>
dialogs == <<form, formOp, alert, confirm>>
vectors == <<store, chunks, syncs>>
history == <<hasty, reopened, intruded>>
vars == <<table, auth, page, cache, dialogs, op, net, server, job, vectors, history>>

----------------------------------------------------------------------------
Ops == 1..MaxOps
Fixture == 1                      \* a row that users and roles begin with
Rows == 1..(MaxOps + 1)
NewRow(o) == o + 1                \* the row that op o adds
NoRows == [r \in Rows |-> 0]

New == 0
Closed == MaxOps + 2

Mock == table # "ingestion"

FirstRows == IF Mock THEN [NoRows EXCEPT ![Fixture] = 1] ELSE NoRows

Get == 0                          \* a request of net that is no op's

Unused == [kind |-> "none", row |-> 0, phase |-> "none", ok |-> FALSE, here |-> FALSE,
           wrote |-> 0]
Over == [Unused EXCEPT !.phase = "over"]

\* The table is on the screen.
There == page = "table" /\ guard

\* An op's continuation runs before anything else does.
Quiet == \A o \in Ops : op[o].phase # "settled"

NoQuery == [data |-> NoRows, have |-> FALSE, alias |-> FALSE, stale |-> FALSE,
            failed |-> FALSE, fetch |-> "idle"]

\* What useQuery returns as data: the mock hands out its own array, which the
\* cache holds until a copy takes its place.
Data == IF query.alias THEN server ELSE query.data

Init ==
  /\ table \in Tables
  /\ store \in IF Mock THEN {"none"} ELSE Stores
  /\ session \in {"none", "taken"}
  /\ page \in {"table", "home", "login"}
  /\ guard = FALSE /\ signing = FALSE
  /\ query = NoQuery /\ carried = NoRows /\ shown = NoRows
  /\ form = Closed /\ formOp = 0 /\ alert = "none" /\ confirm = New
  /\ op = [o \in Ops |-> Unused]
  /\ net = <<>>
  /\ server = FirstRows
  /\ job = [o \in Ops |-> "none"]
  /\ chunks = {} /\ syncs = {}
  /\ hasty = {} /\ reopened = {} /\ intruded = FALSE

----------------------------------------------------------------------------
(* The query *)

Fetching == query.fetch # "idle"

\* A fetch begins, in the place of the one under way: of the list there is one
\* request at most that anybody waits for.
Ask(q) == [q EXCEPT !.fetch = "asked"]
Gets(requests) == {i \in 1..Len(requests) : requests[i] = Get}
Without(requests, i) == SubSeq(requests, 1, i - 1) \o SubSeq(requests, i + 1, Len(requests))
GivenUp(requests) ==
  IF Gets(requests) = {} THEN requests
  ELSE Without(requests, CHOOSE i \in Gets(requests) : TRUE)
Requested(requests) == IF Mock THEN Append(GivenUp(requests), Get) ELSE requests

\* useQuery when the table appears: what is there, younger than staleTime and not
\* marked since, is shown as it is.
Appear ==
  \E aged \in BOOLEAN :
    LET needed == (~query.have \/ aged \/ query.stale \/ query.failed) /\ ~Fetching
    IN /\ query' = IF needed THEN Ask(query) ELSE query
       /\ net' = IF needed THEN Requested(net) ELSE net
       /\ shown' = Data
       /\ UNCHANGED carried

\* The ops that wait for the fetch settle with it.
Released(waiting) == [o \in Ops |->
  IF o \in waiting THEN [op[o] EXCEPT !.phase = "settled"] ELSE op[o]]

Waiting == {o \in Ops : op[o].phase \in {"refetching", "handed"}}

HandedOver(waiting) == [o \in Ops |->
  IF o \in waiting
  THEN [op[o] EXCEPT !.phase = IF @ = "handed" THEN "settled" ELSE "handed"] ELSE op[o]]

\* (Mutation: the mutation does not wait for that.)
NotAwaited == "settled"
Awaited == IF There THEN "refetching" ELSE "settled"

\* onSuccess of op o: the query is marked, and fetched anew if the table is on
\* the screen; the mutation is pending until then.  A fetch under way is given
\* up for the new one, unless it is the first, and hands those that wait for it
\* over to the new one; those that it was handed itself settle.
Invalidate(o, q, requests, wrote) ==
  LET joins == Fetching /\ ~q.have
      anew == There /\ ~joins
      overtaken == IF anew THEN Waiting ELSE {}
      twice == {p \in overtaken : op[p].phase = "handed"}
      marked == [q EXCEPT !.stale = TRUE]
  IN /\ query' = IF anew THEN Ask(marked) ELSE marked
     /\ net' = IF anew THEN Requested(requests) ELSE requests
     /\ op' = [HandedOver(overtaken) EXCEPT ![o].ok = TRUE, ![o].wrote = wrote,
                                          ![o].phase = Awaited]
     /\ hasty' = hasty \cup twice \cup (IF anew THEN {} ELSE {o})

----------------------------------------------------------------------------
(* Pages *)

\* The page's components go, and with them its dialogs.
\* (Mutation: the dialogs are the layout's, which stays.)
DialogsStay == UNCHANGED dialogs
NoDialogs == form' = Closed /\ formOp' = 0 /\ alert' = "none" /\ confirm' = New

Goto(p, seen) ==
  /\ page' = p /\ guard' = seen
  /\ NoDialogs
  /\ op' = [o \in Ops |-> [op[o] EXCEPT !.here = FALSE]]
  /\ IF p = "table" /\ seen THEN Appear
     ELSE shown' = NoRows /\ UNCHANGED <<query, carried, net>>
  /\ UNCHANGED <<table, server, job, vectors, history>>

\* The drawer's items; the layout stays.
Navigate(p) ==
  /\ Quiet /\ guard /\ p \notin {page, "login"}
  /\ Goto(p, TRUE)
  /\ UNCHANGED <<session, signing>>

\* The browser's back button.
Back(p) ==
  /\ Quiet /\ page = "login" /\ p # "login"
  /\ Goto(p, FALSE)
  /\ UNCHANGED <<session, signing>>

\* The page is loaded anew: the cache and the mock's rows are as at first.
Reload(p) ==
  /\ Quiet
  /\ page' = p /\ guard' = FALSE /\ signing' = FALSE
  /\ query' = NoQuery /\ carried' = NoRows /\ shown' = NoRows
  /\ NoDialogs
  /\ op' = [o \in Ops |->
       IF op[o].phase = "none" THEN op[o] ELSE Over]
  /\ net' = <<>>
  /\ server' = IF Mock THEN FirstRows ELSE server
  /\ hasty' = {} /\ reopened' = {}
  /\ UNCHANGED <<table, session, job, vectors, intruded>>

\* useAuth's effect in the guard; any token will do.
GuardChecks ==
  /\ Quiet /\ page # "login" /\ ~guard
  /\ IF session # "none" THEN Goto(page, TRUE) ELSE Goto("login", FALSE)
  /\ UNCHANGED <<session, signing>>

Login(waits) ==
  /\ signing' = waits
  /\ UNCHANGED <<table, guard, page, cache, dialogs, op, net, server, job, vectors, history>>

SubmitLogin ==
  /\ Quiet /\ page = "login" /\ ~signing
  /\ Login(TRUE) /\ UNCHANGED session

LoginFails ==
  /\ Quiet /\ signing
  /\ Login(FALSE) /\ UNCHANGED session

\* It pushes the conversations' page, wherever the user is by then.
LoginAnswered ==
  /\ Quiet /\ signing
  /\ signing' = FALSE
  /\ session' = "taken"
  /\ Goto("home", guard)

Logout ==
  /\ Quiet /\ guard
  /\ session' = "none"
  /\ Goto("login", FALSE)
  /\ UNCHANGED signing

\* The token expires, which the mock never notices, or another tab signs in or out.
SessionChanges(s) ==
  /\ Quiet /\ session # s
  /\ s = "refused" => ~Mock /\ session = "taken"
  /\ session' = s
  /\ Login(signing)

----------------------------------------------------------------------------
(* Dialogs *)

Saves == {"add", "edit", "cag"}

\* isPending of the page's mutations.
Pending(kinds) == {o \in Ops : op[o].here /\ op[o].kind \in kinds}

\* A row that is shown: no table is while it loads or after its fetch failed.
OnScreen(r) == query.have /\ ~query.failed /\ shown[r] > 0

NoDialogOpen == form = Closed /\ confirm = New

Dialogs ==
  /\ shown' = Data
  /\ UNCHANGED <<table, auth, page, query, carried, op, net, server, job, vectors, hasty,
                 intruded>>

\* The users' and the roles' form is filled in anew; the ingestions' keeps what
\* it said.
OpenForm(r) ==
  /\ Quiet /\ There /\ NoDialogOpen
  /\ r # New => Mock /\ OnScreen(r)
  /\ form' = r /\ formOp' = 0
  /\ alert' = IF Mock THEN "none" ELSE alert
  /\ reopened' = reopened \cup Pending(Saves)
  /\ Dialogs /\ UNCHANGED confirm

\* Cancel; the ingestions' form is reset.
CloseForm ==
  /\ Quiet /\ form # Closed
  /\ form' = Closed /\ formOp' = 0 /\ alert' = "none"
  /\ Dialogs /\ UNCHANGED <<confirm, reopened>>

\* Another tab of the ingestions' form.
ChangeTab ==
  /\ Quiet /\ ~Mock /\ form # Closed /\ alert # "none"
  /\ alert' = "none"
  /\ Dialogs /\ UNCHANGED <<form, formOp, confirm, reopened>>

OpenConfirm(r) ==
  /\ Quiet /\ There /\ NoDialogOpen
  /\ Mock /\ OnScreen(r)
  /\ confirm' = r
  /\ Dialogs /\ UNCHANGED <<form, formOp, alert, reopened>>

CloseConfirm ==
  /\ Quiet /\ confirm # New
  /\ confirm' = New
  /\ Dialogs /\ UNCHANGED <<form, formOp, alert, reopened>>

\* The users' form holds its mutations: a save renders it, and not the table.
SentShown(kind) == IF table = "users" /\ kind # "remove" THEN shown ELSE Data

\* An op goes out: to the mock, or to the backend, which takes an admin's token.
Send(o, kind, row) ==
  /\ op[o].phase = "none" /\ \A p \in Ops : p < o => op[p].phase # "none"
  /\ op' = [op EXCEPT ![o] = [Unused EXCEPT !.kind = kind, !.row = row, !.phase = "sent",
                                            !.here = TRUE]]
  /\ net' = IF Mock THEN Append(net, o) ELSE net
  /\ job' = CASE Mock -> job
              [] ~Mock /\ session # "taken" -> [job EXCEPT ![o] = "over"]
              [] ~Mock /\ session = "taken" ->
                   [job EXCEPT ![o] = IF kind = "add" THEN "received" ELSE "cag"]
  /\ shown' = SentShown(kind)
  /\ UNCHANGED <<table, auth, page, query, carried, server, vectors, history>>

\* The form's button is disabled while a save of this page is pending.
\* (Mutation: it is not.)
SubmitEnabled == TRUE
SubmitIdle == Pending(Saves) = {}

FormKinds ==
  CASE form # New -> {"edit"} [] form = New /\ Mock -> {"add"} [] OTHER -> {"add", "cag"}

Submit(o) ==
  /\ Quiet /\ form # Closed /\ SubmitIdle
  /\ \E kind \in FormKinds : Send(o, kind, IF form = New THEN NewRow(o) ELSE form)
  /\ formOp' = o /\ alert' = "none"
  /\ UNCHANGED <<form, confirm>>

Confirm(o) ==
  /\ Quiet /\ confirm # New /\ Pending({"remove"}) = {}
  /\ Send(o, "remove", confirm)
  /\ UNCHANGED dialogs

----------------------------------------------------------------------------
(* The mock adapter: a request's wait is over, and its handler runs *)

First(m) == Quiet /\ net # <<>> /\ Head(net) = m

\* The list, of which structural sharing keeps the array there is if it is the same
\* one; then nothing is rendered.
MockGet ==
  /\ First(Get)
  /\ net' = Tail(net)
  /\ query' = [NoQuery EXCEPT !.data = server, !.have = TRUE,
                              !.alias = query.alias \/ ~query.have]
  /\ shown' = IF There /\ ~query.alias THEN server ELSE shown
  /\ op' = Released(Waiting)
  /\ UNCHANGED <<table, auth, page, carried, dialogs, server, job, vectors, history>>

\* POST pushes to the array and PATCH or PUT replaces an element of it; DELETE
\* makes a new array, and the cache is left with the old one.
MockWrites(o) ==
  LET row == op[o].row
      removes == op[o].kind = "remove"
      version == IF removes THEN 0 ELSE server[row] + 1
  IN /\ First(o) /\ op[o].phase = "sent"
     /\ op[o].kind = "edit" => server[row] # 0
     /\ server' = [server EXCEPT ![row] = version]
     /\ Invalidate(o, IF removes THEN [query EXCEPT !.data = Data, !.alias = FALSE]
                                 ELSE query, Tail(net), version)
     /\ UNCHANGED <<table, auth, page, carried, shown, dialogs, job, vectors, reopened,
                    intruded>>

\* The op fails, which is the end of it if its page is gone.
Refused(o) ==
  /\ \/ /\ op[o].here
        /\ op' = [op EXCEPT ![o].phase = "settled"]
        /\ UNCHANGED reopened
     \/ /\ ~op[o].here
        /\ op' = [op EXCEPT ![o] = Over]
        /\ reopened' = reopened \ {o}
  /\ UNCHANGED <<table, auth, page, cache, dialogs, server, job, vectors, hasty, intruded>>

\* 404: the row was removed while the table still showed it.
MockRefuses(o) ==
  /\ First(o) /\ op[o].phase = "sent"
  /\ op[o].kind = "edit" /\ server[op[o].row] = 0
  /\ net' = Tail(net)
  /\ Refused(o)

----------------------------------------------------------------------------
(* The backend's ingestion: a session of the database for each POST, and   *)
(* the vector store, which commits on its own                              *)

Job(o, from, to) ==
  /\ Quiet /\ job[o] \in from
  /\ job' = [job EXCEPT ![o] = to]
  /\ UNCHANGED <<table, auth, page, cache, dialogs, op, net, store, history>>

\* The record is flushed as PROCESSING, which no other session sees; then
\* add_documents, and the status it leaves.  pgvector stores the chunks; the
\* knowledge base starts a sync, and whether that finds the document later, or
\* fails, nobody asks.  It may raise when it has done either.
\* (Mutation: the status is set before the documents are added.)
AnyStatus(added) == {"completed", "failed"}
StatusOf(added) == IF added THEN {"completed", "failed"} ELSE {"failed"}

AddDocuments(o, added) ==
  LET given == IF added THEN {NewRow(o)} ELSE {}
  IN /\ \E status \in StatusOf(added) : Job(o, {"received"}, status)
     /\ chunks' = IF store = "pgvector" THEN chunks \cup given ELSE chunks
     /\ syncs' = IF store = "bedrock_kb" THEN syncs \cup given ELSE syncs
     /\ UNCHANGED server

\* get_db commits when the endpoint has returned.
JobCommits(o) ==
  /\ Job(o, {"completed", "failed"}, "committed")
  /\ server' = [server EXCEPT ![NewRow(o)] = IF job[o] = "completed" THEN 1 ELSE 2]
  /\ UNCHANGED <<chunks, syncs>>

\* The loader raises, the commit fails, or the process dies.
JobAborts(o) ==
  /\ Job(o, {"received", "completed", "failed"}, "over")
  /\ UNCHANGED <<server, chunks, syncs>>

IngestAnswered(o) ==
  /\ Quiet /\ op[o].phase = "sent" /\ job[o] = "committed"
  /\ Invalidate(o, query, net, server[NewRow(o)])
  /\ UNCHANGED <<table, auth, page, carried, shown, dialogs, server, job, vectors, reopened,
                 intruded>>

\* An error answers, or the answer is lost and the POST goes on.
IngestFails(o) ==
  /\ Quiet /\ op[o].phase = "sent" /\ ~Mock
  /\ Refused(o) /\ UNCHANGED net

\* The document is in the other cache (CagCache); there is no list to fetch.
CagAnswered(o) ==
  /\ Quiet /\ op[o].phase = "sent" /\ job[o] = "cag"
  /\ op' = [op EXCEPT ![o].ok = TRUE, ![o].phase = "settled"]
  /\ job' = [job EXCEPT ![o] = "over"]
  /\ UNCHANGED <<table, auth, page, cache, dialogs, net, server, vectors, history>>

List(from, to) ==
  /\ Quiet /\ ~Mock /\ query.fetch \in from
  /\ query' = [query EXCEPT !.fetch = to]
  /\ UNCHANGED <<table, auth, page, shown, dialogs, net, server, job, vectors, history>>

\* refetchInterval.
Poll == There /\ List({"idle"}, "asked") /\ UNCHANGED <<carried, op>>

\* The list is read for an admin, and on its way; the retry reads it anew.
ListRead ==
  /\ session = "taken"
  /\ List({"asked", "read"}, "read")
  /\ carried' = server
  /\ UNCHANGED op

ListArrives ==
  /\ Quiet /\ query.fetch = "read"
  /\ query' = [NoQuery EXCEPT !.data = carried, !.have = TRUE]
  /\ carried' = NoRows
  /\ shown' = IF There THEN carried ELSE shown
  /\ op' = Released(Waiting)
  /\ UNCHANGED <<table, auth, page, dialogs, net, server, job, vectors, history>>

\* The retry has failed too.
ListFails ==
  /\ Quiet /\ ~Mock /\ Fetching
  /\ query' = [query EXCEPT !.fetch = "idle", !.failed = TRUE]
  /\ carried' = NoRows
  /\ op' = Released(Waiting)
  /\ UNCHANGED <<table, auth, page, shown, dialogs, net, server, job, vectors, history>>

----------------------------------------------------------------------------
(* An op is over, and what awaited it goes on *)

Settles(o) ==
  /\ op[o].phase = "settled"
  /\ op' = [op EXCEPT ![o] = Over]
  /\ hasty' = hasty \ {o} /\ reopened' = reopened \ {o}
  /\ UNCHANGED <<table, auth, page, query, carried, net, server, job, vectors>>

\* Its page is gone: nothing is left to set.
SettlesAway(o) ==
  /\ Settles(o) /\ ~op[o].here
  /\ UNCHANGED <<shown, dialogs, intruded>>

Intrudes(o) == form # Closed /\ formOp # o /\ o \notin reopened

\* A save closes the form, whichever it is.  The users' form holds its mutations,
\* so that a table whose form is closed is not rendered.
SaveCloses(o) ==
  /\ Settles(o) /\ op[o].here /\ op[o].ok /\ op[o].kind \in {"add", "edit"}
  /\ form' = Closed /\ formOp' = 0 /\ alert' = "none"
  /\ intruded' = (intruded \/ Intrudes(o))
  /\ shown' = IF form = Closed /\ table = "users" THEN shown ELSE Data
  /\ UNCHANGED confirm

\* It says what came of it: a failure, which the roles' page does not catch, or
\* the result of an upload to the other cache.
SaveSpeaks(o) ==
  /\ Settles(o) /\ op[o].here /\ op[o].kind \in Saves
  /\ ~op[o].ok \/ op[o].kind = "cag"
  /\ alert' = CASE op[o].ok -> "result" [] ~op[o].ok /\ table = "roles" -> alert
                [] OTHER -> "error"
  /\ intruded' = (intruded \/ (Intrudes(o) /\ table # "roles"))
  /\ shown' = IF table = "users" THEN shown ELSE Data
  /\ formOp' = IF formOp = o THEN 0 ELSE formOp
  /\ UNCHANGED <<form, confirm>>

\* A removal closes the confirmation.
RemoveCloses(o) ==
  /\ Settles(o) /\ op[o].here /\ op[o].kind = "remove"
  /\ confirm' = New
  /\ shown' = Data
  /\ UNCHANGED <<form, formOp, alert, intruded>>

----------------------------------------------------------------------------
Pages == {"table", "home", "login"}

User ==
  \/ \E p \in Pages : Navigate(p) \/ Back(p) \/ Reload(p)
  \/ SubmitLogin \/ Logout \/ ChangeTab \/ CloseForm \/ CloseConfirm
  \/ \E r \in Rows \cup {New} : OpenForm(r)
  \/ \E r \in Rows : OpenConfirm(r)
  \/ \E o \in Ops : Submit(o) \/ Confirm(o)

Answered(o) ==
  MockWrites(o) \/ MockRefuses(o) \/ IngestAnswered(o) \/ IngestFails(o) \/ CagAnswered(o)

Continues(o) == SettlesAway(o) \/ SaveCloses(o) \/ SaveSpeaks(o) \/ RemoveCloses(o)

Ingests(o) ==
  \/ JobCommits(o) \/ JobAborts(o)
  \/ \E added \in BOOLEAN : AddDocuments(o, added)

Next ==
  \/ User
  \/ GuardChecks \/ LoginAnswered \/ LoginFails
  \/ \E s \in {"none", "taken", "refused"} : SessionChanges(s)
  \/ MockGet \/ Poll \/ ListRead \/ ListArrives \/ ListFails
  \/ \E o \in Ops : Answered(o) \/ Continues(o) \/ Ingests(o)

Spec == Init /\ [][Next]_vars

----------------------------------------------------------------------------
(* Properties *)

OpRecords ==
  [kind : Saves \cup {"remove", "none"}, row : 0..(MaxOps + 1),
   phase : {"none", "sent", "refetching", "handed", "settled", "over"},
   ok : BOOLEAN, here : BOOLEAN, wrote : Nat]

TypeOK ==
  /\ table \in Tables /\ store \in Stores \cup {"none"}
  /\ session \in {"none", "taken", "refused"}
  /\ page \in Pages /\ guard \in BOOLEAN /\ signing \in BOOLEAN
  /\ query \in [data : [Rows -> Nat], have : BOOLEAN, alias : BOOLEAN, stale : BOOLEAN,
                failed : BOOLEAN, fetch : {"idle", "asked", "read"}]
  /\ carried \in [Rows -> Nat] /\ shown \in [Rows -> Nat]
  /\ form \in Rows \cup {New, Closed} /\ confirm \in Rows \cup {New}
  /\ formOp \in 0..MaxOps /\ alert \in {"none", "error", "result"}
  /\ op \in [Ops -> OpRecords]
  /\ net \in Seq(0..MaxOps)
  /\ server \in [Rows -> Nat]
  /\ chunks \subseteq Rows /\ syncs \subseteq Rows
  /\ job \in [Ops -> {"none", "cag", "received", "completed",
                      "failed", "committed", "over"}]
  /\ hasty \subseteq Ops /\ reopened \subseteq Ops /\ intruded \in BOOLEAN
  \* Only a page that is shown has a dialog, or an op that will come back to it.
  /\ form # Closed \/ confirm # New \/ (\E o \in Ops : op[o].here) => There

\* A save closes, and speaks in, the form it was submitted from: no removal and
\* no save of an earlier visit does it in another's, unless the user has closed
\* that form and opened it again while the save was pending.
FormKept == ~intruded

\* When a save or a removal ends well on its page, and its dialog with it, the
\* table was fetched since and has it, unless the list was still loading for the
\* first time, its last fetch failed, or two later ones overtook the op.  And once
\* nothing is on its way the users' or the roles' table shows what the server has,
\* wherever the user was when it changed; only of an array that is the mock's own
\* may the rendered rows have missed that.
SavedIsShown ==
  /\ \A o \in Ops :
       op[o].phase = "settled" /\ op[o].ok /\ op[o].here /\ op[o].kind # "cag"
       /\ o \notin hasty /\ ~query.failed
       => LET row == op[o].row
          IN IF op[o].kind = "remove" THEN Data[row] = 0
             ELSE Data[row] >= op[o].wrote \/ server[row] = 0
  /\ Mock /\ There /\ net = <<>> /\ Quiet =>
       Data = server /\ (shown = server \/ query.alias)

\* An ingestion that a table, the cache or a list on its way says is COMPLETED was
\* added: with pgvector its chunks are in the store, whatever failed or was cut off
\* in between; with bedrock_kb a sync was started for it, of which nothing more is known.
CompletedWasAdded ==
  ~Mock => \A o \in Ops :
    LET r == NewRow(o)
    IN 1 \in {server[r], query.data[r], carried[r], shown[r]} =>
         CASE store = "pgvector"   -> r \in chunks
           [] store = "bedrock_kb" -> r \in syncs
=============================================================================
