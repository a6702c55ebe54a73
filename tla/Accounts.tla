------------------------------- MODULE Accounts -------------------------------
(***************************************************************************)
(* What a request leaves in the database before its handler runs: the      *)
(* lazily provisioned organisation and user, the user's session, and the   *)
(* count its chats are limited by.  Requests of one user and of several    *)
(* run concurrently, each in a transaction of its own, at Postgres's       *)
(* default isolation; a socket does the same once and goes on from there.  *)
(*                                                                         *)
(* A row is its unique or looked-up name.  The tokens are valid: a request *)
(* with another does not get here.                                         *)
(***************************************************************************)
EXTENDS Naturals, FiniteSets

CONSTANTS
  Users,        \* by Cognito's sub
  Guests,       \* those of the guests' group; the others are admins
  Requests,
  Limit,        \* RATE_LIMIT_PER_MINUTE
  GuestLimit,   \* GUEST_RATE_LIMIT_PER_MINUTE
  MaxArrivals   \* bound on the requests that arrive

ASSUME RequestsAssumption == IsFiniteSet(Requests)
ASSUME GuestsAssumption == Guests \subseteq Users
ASSUME LimitsAssumption == Limit \in Nat /\ GuestLimit \in Nat /\ MaxArrivals \in Nat
ASSUME NamesAssumption ==
  Users \cap {"tenant", "department", "designation", "division", "brand",
              "guest", "admin"} = {}

VARIABLES
  rows,       \* committed rows, by name
  ids,        \* users.id, of the users that are committed
  sessions,   \* committed rows of user_sessions: their ids, and whose they are
  ended,      \* those past their end_datetime
  serial,     \* the last id a sequence gave out, to a user or a session
  req,        \* the requests and what their transactions hold
  counts,     \* Redis: this minute's count of each users.id that has one
  arrivals,
  answered    \* history: each user's chats of this minute that were answered

vars == <<rows, ids, sessions, ended, serial, req, counts, arrivals, answered>>

----------------------------------------------------------------------------
Org == <<"tenant", "department", "designation", "division", "brand">>
OrgNames == {Org[i] : i \in 1..5}
Role(u) == IF u \in Guests THEN "guest" ELSE "admin"
Names == OrgNames \cup {"guest", "admin"} \cup Users
NoUnique == {"designation", "division", "brand"}

\* The order in which get_or_provision_user looks for the rows.
\* (Mutation: the brand is looked for first, without a constraint to wait on.)
BrandFirst(u) == [i \in 1..7 |->
  CASE i = 1 -> "brand" [] i \in 2..5 -> Org[i - 1] [] i = 6 -> Role(u) [] i = 7 -> u]
Order(u) == [i \in 1..7 |->
  CASE i \in 1..5 -> Org[i] [] i = 6 -> Role(u) [] i = 7 -> u]

Kinds == {"chat", "other", "socket"}
NoCounts == [i \in {} |-> 0]

\* at is the row that is looked for; absent, that the lookup found none; mine, the
\* rows that are flushed; own, a session of its own that is; counted, that the chat is
\* one of this minute; and broken, that a socket's turn could not be recorded.
Idle == [phase |-> "idle", user |-> "none", kind |-> "none", at |-> 0, absent |-> FALSE,
         mine |-> {}, id |-> 0, session |-> 0, own |-> FALSE, counted |-> FALSE,
         broken |-> FALSE]

Init ==
  /\ rows = [n \in Names |-> 0]
  /\ ids = [u \in Users |-> 0]
  /\ sessions = {} /\ ended = {} /\ serial = 0
  /\ req = [r \in Requests |-> Idle]
  /\ counts = NoCounts
  /\ arrivals = 0
  /\ answered = [u \in Users |-> 0]

In(r, phase) == req[r].phase = phase

Arrive(r, u, kind) ==
  /\ In(r, "idle") /\ arrivals < MaxArrivals
  /\ arrivals' = arrivals + 1
  /\ req' = [req EXCEPT ![r] =
       IF rows[u] > 0
       THEN [Idle EXCEPT !.phase = "session", !.user = u, !.kind = kind, !.id = ids[u]]
       ELSE [Idle EXCEPT !.phase = "provision", !.user = u, !.kind = kind, !.at = 1]]
  /\ UNCHANGED <<rows, ids, sessions, ended, serial, counts, answered>>

Name(r) == Order(req[r].user)[req[r].at]

\* A transaction sees what is committed, and what it has flushed itself.
\* (Mutation: and what another has.)
SeenDirty(r, n) == rows[n] > 0 \/ \E q \in Requests : n \in req[q].mine
Seen(r, n) == rows[n] > 0 \/ n \in req[r].mine

Found(r) == [req[r] EXCEPT !.at = @ + 1, !.absent = FALSE]

\* _get_or_create's select; the user's own row was looked for first of all.
LookUp(r) ==
  /\ In(r, "provision") /\ ~req[r].absent
  /\ req' = [req EXCEPT ![r] =
       IF req[r].at < 7 /\ Seen(r, Name(r)) THEN Found(r) ELSE [@ EXCEPT !.absent = TRUE]]
  /\ UNCHANGED <<rows, ids, sessions, ended, serial, counts, arrivals, answered>>

\* An insert of a name that must be unique waits for a transaction that has it.
Blocked(r, n) == n \notin NoUnique /\ \E q \in Requests \ {r} : n \in req[q].mine

Insert(r) ==
  LET n == Name(r)
  IN /\ In(r, "provision") /\ req[r].absent
     /\ ~Blocked(r, n) /\ (n \in NoUnique \/ rows[n] = 0)
     /\ req' = [req EXCEPT ![r] =
          IF req[r].at < 7 THEN [Found(r) EXCEPT !.mine = @ \cup {n}]
          ELSE [Found(r) EXCEPT !.mine = @ \cup {n}, !.id = serial + 1, !.phase = "session"]]
     /\ serial' = IF req[r].at < 7 THEN serial ELSE serial + 1
     /\ UNCHANGED <<rows, ids, sessions, ended, counts, arrivals, answered>>

\* IntegrityError: the one it waited for has committed.  A 500, or 4401 for a socket.
Clash(r) ==
  /\ In(r, "provision") /\ req[r].absent
  /\ Name(r) \notin NoUnique /\ rows[Name(r)] > 0
  /\ req' = [req EXCEPT ![r] = Idle]
  /\ UNCHANGED <<rows, ids, sessions, ended, serial, counts, arrivals, answered>>

----------------------------------------------------------------------------
(* The session, and the limit *)

Active(u) == {s \in sessions : s.user = u /\ s \notin ended}
Latest(S) == {s \in S : \A t \in S : t.id <= s.id}

\* get_auth_context has returned: a socket's transaction ends there, uncommitted.
Authenticated(kind) ==
  CASE kind = "chat" -> "limit" [] kind = "other" -> "handler" [] kind = "socket" -> "open"

AuthEnds(r, s, own) ==
  LET kind == req[r].kind
  IN req' = [req EXCEPT
       ![r].phase = Authenticated(kind), ![r].session = s, ![r].at = 0,
       ![r].own = own /\ kind # "socket", ![r].mine = IF kind = "socket" THEN {} ELSE @]

ReuseSession(r) ==
  /\ In(r, "session")
  /\ \E s \in Latest(Active(req[r].user)) : AuthEnds(r, s.id, FALSE)
  /\ UNCHANGED <<rows, ids, sessions, ended, serial, counts, arrivals, answered>>

NewSession(r) ==
  /\ In(r, "session") /\ Active(req[r].user) = {}
  /\ AuthEnds(r, serial + 1, TRUE)
  /\ serial' = serial + 1
  /\ UNCHANGED <<rows, ids, sessions, ended, counts, arrivals, answered>>

LimitFor(u) == IF u \in Guests THEN GuestLimit ELSE Limit

\* The key the chats are counted by.
\* (Mutation: a count for each session.)
BySession(r) == req[r].session
CountedBy(r) == req[r].id

Count(key) == IF key \in DOMAIN counts THEN counts[key] ELSE 0

\* rate_limit_chat, of a limit that is not off.
Pass(r) ==
  /\ In(r, "limit") /\ LimitFor(req[r].user) > 0
  /\ Count(CountedBy(r)) < LimitFor(req[r].user)
  /\ counts' = [key \in DOMAIN counts \cup {CountedBy(r)} |->
       IF key = CountedBy(r) THEN Count(key) + 1 ELSE counts[key]]
  /\ req' = [req EXCEPT ![r].phase = "handler", ![r].counted = TRUE]
  /\ UNCHANGED <<rows, ids, sessions, ended, serial, arrivals, answered>>

\* The limit is off, or Redis fails.
PassUncounted(r) ==
  /\ In(r, "limit")
  /\ req' = [req EXCEPT ![r].phase = "handler"]
  /\ UNCHANGED <<rows, ids, sessions, ended, serial, counts, arrivals, answered>>

\* 429; what was provisioned is rolled back with it.  A count past the limit is as
\* good as one at it.
Reject(r) ==
  /\ In(r, "limit") /\ LimitFor(req[r].user) > 0
  /\ Count(CountedBy(r)) >= LimitFor(req[r].user)
  /\ req' = [req EXCEPT ![r] = Idle]
  /\ UNCHANGED <<rows, ids, sessions, ended, serial, counts, arrivals, answered>>

----------------------------------------------------------------------------
(* The end of a request, and a socket's turns *)

\* get_db: the handler has returned.
Commit(r) ==
  LET u == req[r].user
  IN /\ In(r, "handler")
     /\ rows' = [n \in Names |-> IF n \in req[r].mine THEN rows[n] + 1 ELSE rows[n]]
     /\ ids' = [ids EXCEPT ![u] = req[r].id]
     /\ sessions' = IF req[r].own THEN sessions \cup {[id |-> req[r].session, user |-> u]}
                    ELSE sessions
     /\ answered' = IF req[r].counted THEN [answered EXCEPT ![u] = @ + 1] ELSE answered
     /\ req' = [req EXCEPT ![r] = Idle]
     /\ UNCHANGED <<ended, serial, counts, arrivals>>

\* The handler raises, or the process that runs it dies.
Rollback(r) ==
  /\ req[r].phase \in {"provision", "session", "limit", "handler"}
  /\ req' = [req EXCEPT ![r] = Idle]
  /\ UNCHANGED <<rows, ids, sessions, ended, serial, counts, arrivals, answered>>

\* A turn of the socket writes rows that name its session, in a transaction of their
\* own; the foreign key refuses them if there is none.
Backed(r) == \E s \in sessions : s.id = req[r].session
Turn(r) ==
  /\ In(r, "open")
  /\ req' = [req EXCEPT ![r].broken = ~Backed(r)]
  /\ UNCHANGED <<rows, ids, sessions, ended, serial, counts, arrivals, answered>>

Disconnect(r) ==
  /\ In(r, "open")
  /\ req' = [req EXCEPT ![r] = Idle]
  /\ UNCHANGED <<rows, ids, sessions, ended, serial, counts, arrivals, answered>>

SessionEnds(s) ==
  /\ s \notin ended /\ ended' = ended \cup {s}
  /\ UNCHANGED <<rows, ids, sessions, serial, req, counts, arrivals, answered>>

\* The next minute has keys of its own.
Minute ==
  /\ counts' = NoCounts
  /\ answered' = [u \in Users |-> 0]
  /\ req' = [r \in Requests |-> [req[r] EXCEPT !.counted = FALSE]]
  /\ UNCHANGED <<rows, ids, sessions, ended, serial, arrivals>>

Step(r) ==
  \/ \E u \in Users, kind \in Kinds : Arrive(r, u, kind)
  \/ LookUp(r) \/ Insert(r) \/ Clash(r)
  \/ ReuseSession(r) \/ NewSession(r)
  \/ Pass(r) \/ PassUncounted(r) \/ Reject(r)
  \/ Commit(r) \/ Rollback(r) \/ Turn(r) \/ Disconnect(r)

Next == (\E r \in Requests : Step(r)) \/ (\E s \in sessions : SessionEnds(s)) \/ Minute

Spec == Init /\ [][Next]_vars

----------------------------------------------------------------------------
(* Properties *)

Sessions == [id : Nat, user : Users]

RequestRecords ==
  [phase : {"idle", "provision", "session", "limit", "handler", "open"},
   user : Users \cup {"none"}, kind : Kinds \cup {"none"}, at : 0..8, absent : BOOLEAN,
   mine : SUBSET Names, id : Nat, session : Nat, own : BOOLEAN,
   counted : BOOLEAN, broken : BOOLEAN]

TypeOK ==
  /\ rows \in [Names -> Nat] /\ ids \in [Users -> Nat]
  /\ sessions \subseteq Sessions /\ ended \subseteq Sessions
  /\ serial \in Nat
  /\ req \in [Requests -> RequestRecords]
  /\ DOMAIN counts \subseteq Nat /\ counts \in [DOMAIN counts -> Nat]
  /\ arrivals \in 0..MaxArrivals
  /\ answered \in [Users -> Nat]
  \* The foreign keys: a user's row names its organisation's, a session's its user's.
  /\ \A u \in Users : rows[u] > 0 => \A n \in OrgNames \cup {Role(u)} : rows[n] > 0
  /\ \A s \in sessions : rows[s.user] > 0

\* However many first requests run at once, no row that provisioning looks up by name
\* is there twice: neither those with a unique constraint, nor the default
\* designation, division and brand, which have none.
OneOfEach == \A n \in Names : rows[n] <= 1

\* Of the chats of one user that a minute counts, no more are answered than the limit
\* of that user's role, over whichever sessions they come and whatever is rolled back.
QuotaKept ==
  \A u \in Users : LimitFor(u) > 0 => answered[u] <= LimitFor(u)

\* A socket that is authenticated "by the same steps" as a request can record its turns.
SocketTurnsRecorded == \A r \in Requests : ~req[r].broken
=============================================================================
