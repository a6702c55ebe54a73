----------------------------- MODULE AccountsProofs -----------------------------
(***************************************************************************)
(* For any number of users, requests and limits: the types and foreign     *)
(* keys of Accounts, that provisioning leaves one row of each name, and    *)
(* that no more chats are answered in a minute than the limit allows.      *)
(*                                                                         *)
(* The default organisation's rows are committed together, by the one      *)
(* transaction that inserted the tenant: the tenant's unique name is what  *)
(* keeps the designation, the division and the brand, which have none,     *)
(* from being inserted twice.  The count in Redis is never behind the      *)
(* chats that were answered and those that are on their way to be.         *)
(***************************************************************************)
EXTENDS Accounts, FiniteSetTheorems, TLAPS

\* What a user's row refers to, and the row itself.
Owned(u) == OrgNames \cup {Role(u), u}

\* What holds of a request x in the place of r.
Placed(x) ==
  /\ x.phase = "idle" \/ (x.user \in Users /\ x.kind \in Kinds)
  /\ x.phase = "provision" =>
       /\ x.at \in 1..7
       /\ \A i \in 1..7 : i < x.at => rows[Order(x.user)[i]] > 0 \/ Order(x.user)[i] \in x.mine
  /\ x.phase \in {"session", "limit", "handler"} =>
       \A n \in Owned(x.user) : rows[n] > 0 \/ n \in x.mine
  /\ x.phase \in {"idle", "open"} => x.mine = {}
  /\ x.phase \notin {"idle", "open"} => x.mine \subseteq Owned(x.user)

Holds(r, x) ==
  /\ \A n \in x.mine \ NoUnique :
       rows[n] = 0 /\ \A q \in Requests : q # r => n \notin req[q].mine
  /\ x.mine \cap OrgNames # {} => "tenant" \in x.mine
  /\ x.phase = "provision" /\ x.at \in 2..5 /\ x.absent => "tenant" \in x.mine

RowsInv ==
  /\ \A k \in OrgNames : rows[k] = rows["tenant"]
  /\ OneOfEach

InReqs == \A r \in Requests : Placed(req[r]) /\ Holds(r, req[r])

IInv == TypeOK /\ RowsInv /\ InReqs

-----------------------------------------------------------------------------
(* Names *)

LEMMA OrgIs ==
  /\ OrgNames = {"tenant", "department", "designation", "division", "brand"}
  /\ NoUnique \subseteq OrgNames
  /\ "tenant" \notin NoUnique
<1>1. /\ Org[1] = "tenant" /\ Org[2] = "department" /\ Org[3] = "designation"
      /\ Org[4] = "division" /\ Org[5] = "brand"
  BY DEF Org
<1>2. 1..5 = {1, 2, 3, 4, 5}
  OBVIOUS
<1>3. OrgNames = {Org[1], Org[2], Org[3], Org[4], Org[5]}
  BY <1>2 DEF OrgNames
<1> QED
  BY <1>1, <1>3 DEF NoUnique

LEMMA OrderIs ==
  ASSUME NEW u \in Users
  PROVE  /\ Order(u)[1] = "tenant"
         /\ \A i \in 1..5 : Order(u)[i] \in OrgNames
         /\ Order(u)[6] = Role(u)
         /\ Order(u)[7] = u
         /\ \A n \in Owned(u) : \E i \in 1..7 : n = Order(u)[i]
         /\ \A i \in 1..7 : Order(u)[i] \in Owned(u)
         /\ Owned(u) \subseteq Names
<1>1. \A i \in 1..5 : Order(u)[i] = Org[i]
  BY DEF Order
<1>2. Order(u)[6] = Role(u) /\ Order(u)[7] = u
  BY DEF Order
<1>3. \A i \in 1..5 : Org[i] \in OrgNames
  BY DEF OrgNames
<1>4. Org[1] = "tenant"
  BY DEF Org
<1>5. \A n \in OrgNames : \E i \in 1..5 : n = Org[i]
  BY DEF OrgNames
<1>6. Role(u) \in {"guest", "admin"}
  BY DEF Role
<1> QED
  BY <1>1, <1>2, <1>3, <1>4, <1>5, <1>6 DEF Owned, Names

\* A role's name and a user's are not the organisation's, and users have names of
\* their own.
LEMMA Apart ==
  ASSUME NEW u \in Users
  PROVE  /\ u \notin OrgNames /\ Role(u) \notin OrgNames
         /\ \A v \in Users : v \in Owned(u) => v = u
<1>1. u \notin OrgNames \cup {"guest", "admin"}
  BY NamesAssumption, OrgIs
<1>2. Role(u) \in {"guest", "admin"}
  BY DEF Role
<1>3. \A v \in Users : v \notin OrgNames \cup {"guest", "admin"}
  BY NamesAssumption, OrgIs
<1>4. "guest" \notin OrgNames /\ "admin" \notin OrgNames
  BY OrgIs
<1> QED
  BY <1>1, <1>2, <1>3, <1>4 DEF Owned

-----------------------------------------------------------------------------
(* The steps *)

LEMMA Initially ==
  ASSUME Init
  PROVE  IInv
<1>1. Idle \in RequestRecords
  BY DEF Idle, RequestRecords, Kinds
<1>2. \A n \in Names : rows[n] = 0
  BY DEF Init
<1>3. Users \subseteq Names
  BY DEF Names
<1>4. TypeOK
  BY <1>1, <1>2, <1>3, LimitsAssumption DEF Init, TypeOK, NoCounts
<1>5. RowsInv
  BY <1>2, OrgIs DEF RowsInv, OneOfEach, Names
<1>6. InReqs
  BY DEF Init, InReqs, Placed, Holds, Idle
<1> QED
  BY <1>4, <1>5, <1>6 DEF IInv

\* A step that leaves the rows alone and moves one request keeps the others in place.
LEMMA OneMoves ==
  ASSUME IInv, NEW r \in Requests,
         rows' = rows,
         \A q \in Requests \ {r} : req'[q] = req[q],
         Placed(req'[r]), Holds(r, req'[r])
  PROVE  InReqs' /\ RowsInv'
<1>1. RowsInv'
  BY DEF IInv, RowsInv, OneOfEach
<1>2. ASSUME NEW q \in Requests
      PROVE  Placed(req[q])'
  <2>1. CASE q = r
    BY <2>1 DEF Placed
  <2>2. CASE q # r
    <3>1. Placed(req[q]) /\ req'[q] = req[q]
      BY <2>2 DEF IInv, InReqs
    <3> QED
      BY <3>1 DEF Placed
  <2> QED
    BY <2>1, <2>2
<1>3. ASSUME NEW q \in Requests
      PROVE  Holds(q, req[q])'
  <2>1. CASE q = r
    BY <2>1 DEF Holds
  <2>2. CASE q # r
    <3>1. Holds(q, req[q]) /\ req'[q] = req[q]
      BY <2>2 DEF IInv, InReqs
    <3>2. \A n \in req[q].mine \ NoUnique : n \notin req'[r].mine
      BY <2>2 DEF Holds
    <3> QED
      BY <3>1, <3>2 DEF Holds
  <2> QED
    BY <2>1, <2>2
<1> QED
  BY <1>1, <1>2, <1>3 DEF InReqs

\* One that returns to Idle, or changes nothing that the invariant is about, is in place.
LEMMA IdleFits ==
  ASSUME NEW r \in Requests
  PROVE  /\ Placed(Idle) /\ Holds(r, Idle) /\ Idle \in RequestRecords
         /\ Idle.mine = {} /\ Idle.absent = FALSE /\ Idle.phase = "idle"
BY DEF Idle, Placed, Holds, RequestRecords, Kinds

LEMMA ArriveKeeps ==
  ASSUME IInv, NEW r \in Requests, NEW u \in Users, NEW kind \in Kinds,
         Arrive(r, u, kind)
  PROVE  IInv'
<1>1. req' = [req EXCEPT ![r] = req'[r]] /\ req'[r] =
        IF rows[u] > 0
        THEN [Idle EXCEPT !.phase = "session", !.user = u, !.kind = kind, !.id = ids[u]]
        ELSE [Idle EXCEPT !.phase = "provision", !.user = u, !.kind = kind, !.at = 1]
  BY DEF Arrive, IInv, TypeOK
<1>2. ids[u] \in Nat
  BY DEF IInv, TypeOK
<1>3. Idle \in RequestRecords /\ Idle.mine = {} /\ Idle.absent = FALSE
  BY IdleFits
<1>4. rows[u] > 0 => \A n \in Owned(u) : rows[n] > 0
  BY DEF IInv, TypeOK, Owned
<1>5. /\ req'[r] \in RequestRecords
      /\ req'[r].user = u /\ req'[r].kind = kind
      /\ req'[r].mine = {} /\ req'[r].absent = FALSE
      /\ \/ req'[r].phase = "session" /\ rows[u] > 0
         \/ req'[r].phase = "provision" /\ req'[r].at = 1
  <2>1. CASE rows[u] > 0
    <3>1. req'[r] =
            [Idle EXCEPT !.phase = "session", !.user = u, !.kind = kind, !.id = ids[u]]
      BY <1>1, <2>1
    <3> QED
      BY ZenonT(60), <3>1, <1>2, <1>3, <2>1 DEF RequestRecords
  <2>2. CASE ~(rows[u] > 0)
    <3>1. req'[r] =
            [Idle EXCEPT !.phase = "provision", !.user = u, !.kind = kind, !.at = 1]
      BY <1>1, <2>2
    <3>2. 1 \in 0..8
      OBVIOUS
    <3> QED
      BY ZenonT(60), <3>1, <3>2, <1>3, <2>2 DEF RequestRecords
  <2> QED
    BY <2>1, <2>2
<1>6. Placed(req'[r]) /\ Holds(r, req'[r])
  BY <1>4, <1>5 DEF Placed, Holds
<1>7. InReqs' /\ RowsInv'
  BY <1>1, <1>6, OneMoves DEF Arrive
<1>8. TypeOK'
  BY <1>1, <1>5, LimitsAssumption DEF IInv, TypeOK, Arrive
<1> QED
  BY <1>7, <1>8 DEF IInv

\* A transaction that finds the tenant and none of the organisation's other rows has
\* the tenant itself: the committed ones are there together.
LEMMA LookUpKeeps ==
  ASSUME IInv, NEW r \in Requests, LookUp(r)
  PROVE  IInv'
<1> DEFINE u == req[r].user
           at == req[r].at
<1>1. /\ req[r] \in RequestRecords /\ Placed(req[r]) /\ Holds(r, req[r])
      /\ req[r].phase = "provision" /\ ~req[r].absent
      /\ u \in Users /\ at \in 1..7
  BY DEF LookUp, In, IInv, InReqs, TypeOK, Placed
<1>2. CASE at < 7 /\ Seen(r, Name(r))
  <2>1. req' = [req EXCEPT ![r] = req'[r]] /\ req'[r] = Found(r)
    BY <1>2 DEF LookUp, IInv, TypeOK
  <2>2. at + 1 \in 1..7 /\ at + 1 \in 0..8
    BY <1>1, <1>2
  <2>3. /\ req'[r] \in RequestRecords
        /\ req'[r].phase = "provision" /\ req'[r].user = u
        /\ req'[r].kind = req[r].kind /\ req'[r].absent = FALSE
        /\ req'[r].mine = req[r].mine /\ req'[r].at = at + 1
    BY <1>1, <2>1, <2>2 DEF Found, RequestRecords
  <2>4. \A i \in 1..7 : i < at + 1 => i < at \/ i = at
    BY <1>1
  <2>5. rows[Order(u)[at]] > 0 \/ Order(u)[at] \in req[r].mine
    BY <1>2 DEF Seen, Name
  <2>6. Placed(req'[r])
    BY <1>1, <2>2, <2>3, <2>4, <2>5 DEF Placed
  <2>7. Holds(r, req'[r])
    BY <1>1, <2>3 DEF Holds
  <2>8. InReqs' /\ RowsInv'
    <3>1. rows' = rows /\ \A q \in Requests \ {r} : req'[q] = req[q]
      BY <2>1 DEF LookUp, IInv, TypeOK
    <3> QED
      BY <3>1, <2>6, <2>7, OneMoves
  <2>9. TypeOK'
    BY <2>1, <2>3 DEF IInv, TypeOK, LookUp
  <2> QED
    BY <2>8, <2>9 DEF IInv
<1>3. CASE ~(at < 7 /\ Seen(r, Name(r)))
  <2>1. /\ req' = [req EXCEPT ![r] = req'[r]]
        /\ req'[r] = [req[r] EXCEPT !.absent = TRUE]
    BY <1>3 DEF LookUp, IInv, TypeOK
  <2>2. /\ req'[r] \in RequestRecords
        /\ req'[r].phase = "provision" /\ req'[r].user = u
        /\ req'[r].kind = req[r].kind
        /\ req'[r].mine = req[r].mine /\ req'[r].at = at
    BY <1>1, <2>1 DEF RequestRecords
  <2>3. Placed(req'[r])
    BY <1>1, <2>2 DEF Placed
  <2>4. ASSUME at \in 2..5
        PROVE  "tenant" \in req[r].mine
    <3>1. /\ rows[Order(u)[1]] > 0 \/ Order(u)[1] \in req[r].mine
          /\ at \in 1..5 /\ at < 7
      BY <1>1, <2>4 DEF Placed
    <3>2. rows[Name(r)] = rows["tenant"]
      BY <1>1, <3>1, OrderIs DEF Name, IInv, RowsInv
    <3>3. ~(rows[Name(r)] > 0)
      BY <1>3, <3>1 DEF Seen
    <3> QED
      BY <1>1, <3>1, <3>2, <3>3, OrderIs
  <2>5. Holds(r, req'[r])
    BY <1>1, <2>2, <2>4 DEF Holds
  <2>6. InReqs' /\ RowsInv'
    <3>1. rows' = rows /\ \A q \in Requests \ {r} : req'[q] = req[q]
      BY <2>1 DEF LookUp, IInv, TypeOK
    <3> QED
      BY <3>1, <2>3, <2>5, OneMoves
  <2>7. TypeOK'
    BY <2>1, <2>2 DEF IInv, TypeOK, LookUp
  <2> QED
    BY <2>6, <2>7 DEF IInv
<1> QED
  BY <1>2, <1>3

\* The insert waits for, and clashes with, another transaction's row of a unique name;
\* those that are not unique are inserted along with the tenant.
LEMMA WithRow ==
  ASSUME NEW x \in RequestRecords, NEW m \in SUBSET Names
  PROVE  /\ [x EXCEPT !.mine = m] \in RequestRecords
         /\ [x EXCEPT !.mine = m].mine = m
         /\ [x EXCEPT !.mine = m].phase = x.phase /\ [x EXCEPT !.mine = m].user = x.user
         /\ [x EXCEPT !.mine = m].kind = x.kind /\ [x EXCEPT !.mine = m].at = x.at
         /\ [x EXCEPT !.mine = m].absent = x.absent
BY DEF RequestRecords

LEMMA InsertKeeps ==
  ASSUME IInv, NEW r \in Requests, Insert(r)
  PROVE  IInv'
<1> DEFINE u == req[r].user
           at == req[r].at
           n == Name(r)
<1>1. /\ req[r] \in RequestRecords /\ Placed(req[r]) /\ Holds(r, req[r])
      /\ req[r].phase = "provision" /\ req[r].absent
      /\ u \in Users /\ at \in 1..7 /\ n = Order(u)[at]
      /\ ~Blocked(r, n) /\ (n \in NoUnique \/ rows[n] = 0)
      /\ req[r].mine \subseteq Owned(u) /\ serial + 1 \in Nat
  BY DEF Insert, In, Name, IInv, InReqs, TypeOK, Placed
<1>2. n \in Owned(u) /\ Owned(u) \subseteq Names
  BY <1>1, OrderIs
<1>3. at + 1 \in 0..8 /\ (at < 7 => at + 1 \in 1..7) /\ (~(at < 7) => at = 7)
  BY <1>1
<1>4. req' = [req EXCEPT ![r] = req'[r]] /\ serial' \in Nat
  BY <1>1 DEF Insert, IInv, TypeOK
<1>5. /\ req'[r] \in RequestRecords
      /\ req'[r].user = u /\ req'[r].kind = req[r].kind /\ req'[r].absent = FALSE
      /\ req'[r].mine = req[r].mine \cup {n}
      /\ \/ at < 7 /\ req'[r].phase = "provision" /\ req'[r].at = at + 1
         \/ at = 7 /\ req'[r].phase = "session"
  <2>1. CASE at < 7
    <3>1. req'[r] = [Found(r) EXCEPT !.mine = Found(r).mine \cup {n}]
      BY <2>1 DEF Insert, IInv, TypeOK
    <3>2. /\ Found(r) = [req[r] EXCEPT !.at = at + 1, !.absent = FALSE]
          /\ req[r].mine \cup {n} \subseteq Names /\ at + 1 \in 0..8
      BY <1>1, <1>2, <1>3 DEF Found, RequestRecords
    <3>3. /\ Found(r) \in RequestRecords /\ Found(r).phase = "provision"
          /\ Found(r).user = u /\ Found(r).kind = req[r].kind /\ Found(r).absent = FALSE
          /\ Found(r).mine = req[r].mine /\ Found(r).at = at + 1
      BY <1>1, <3>2 DEF RequestRecords
    <3> DEFINE m == req[r].mine \cup {n}
    <3>4. req'[r] = [Found(r) EXCEPT !.mine = m] /\ m \in SUBSET Names
      BY <3>1, <3>2, <3>3
    <3> HIDE DEF m
    <3>5. /\ req'[r] \in RequestRecords /\ req'[r].mine = m
          /\ req'[r].phase = Found(r).phase /\ req'[r].user = Found(r).user
          /\ req'[r].kind = Found(r).kind /\ req'[r].at = Found(r).at
          /\ req'[r].absent = Found(r).absent
      BY <3>3, <3>4, WithRow
    <3> QED
      BY <2>1, <3>3, <3>5 DEF m
  <2>2. CASE ~(at < 7)
    <3>1. req'[r] = [Found(r) EXCEPT !.mine = Found(r).mine \cup {n}, !.id = serial + 1,
                                      !.phase = "session"]
      BY <2>2 DEF Insert, IInv, TypeOK
    <3>2. /\ Found(r) = [req[r] EXCEPT !.at = at + 1, !.absent = FALSE]
          /\ req[r].mine \cup {n} \subseteq Names /\ at + 1 \in 0..8
      BY <1>1, <1>2, <1>3 DEF Found, RequestRecords
    <3>3. /\ Found(r) \in RequestRecords
          /\ Found(r).user = u /\ Found(r).kind = req[r].kind /\ Found(r).absent = FALSE
          /\ Found(r).mine = req[r].mine
      BY <1>1, <3>2 DEF RequestRecords
    <3> DEFINE m == req[r].mine \cup {n}
               k == serial + 1
               x == Found(r)
    <3>4. /\ req'[r] = [x EXCEPT !.mine = m, !.id = k, !.phase = "session"]
          /\ m \in SUBSET Names /\ k \in Nat /\ x \in RequestRecords
      BY <1>1, <3>1, <3>2, <3>3
    <3> HIDE DEF m, k, x
    <3>5. /\ req'[r] \in RequestRecords /\ req'[r].mine = m /\ req'[r].phase = "session"
          /\ req'[r].user = x.user /\ req'[r].kind = x.kind /\ req'[r].absent = x.absent
      BY <3>4 DEF RequestRecords
    <3>6. at = 7
      BY <1>3, <2>2
    <3>7. req'[r].user = u /\ req'[r].kind = req[r].kind /\ req'[r].absent = FALSE
      BY <3>3, <3>5 DEF x
    <3>8. req'[r].mine = req[r].mine \cup {n}
      BY <3>5 DEF m
    <3> HIDE DEF n, u, at
    <3> QED
      BY <3>5, <3>6, <3>7, <3>8
  <2> QED
    BY <2>1, <2>2
<1>6. \A i \in 1..7 : i < at + 1 => rows[Order(u)[i]] > 0 \/ Order(u)[i] \in req'[r].mine
  <2>1. \A i \in 1..7 : i < at + 1 => i < at \/ i = at
    BY <1>1
  <2> QED
    BY <1>1, <1>5, <2>1 DEF Placed
<1>7. Placed(req'[r])
  <2>1. CASE at < 7
    BY <1>1, <1>2, <1>3, <1>5, <1>6, <2>1 DEF Placed
  <2>2. CASE ~(at < 7)
    <3>1. \A i \in 1..7 : i < at + 1
      BY <1>3, <2>2
    <3>2. \A m \in Owned(u) : rows[m] > 0 \/ m \in req'[r].mine
      BY <1>1, <1>6, <3>1, OrderIs
    <3> QED
      BY <1>1, <1>2, <1>3, <1>5, <2>2, <3>2 DEF Placed
  <2> QED
    BY <2>1, <2>2
<1>8. Holds(r, req'[r])
  <2>1. \A m \in req'[r].mine \ NoUnique :
          rows[m] = 0 /\ \A q \in Requests : q # r => m \notin req[q].mine
    BY <1>1, <1>5 DEF Holds, Blocked
  <2>2. n \in OrgNames => "tenant" \in req'[r].mine
    <3>1. CASE at = 1
      BY <1>1, <1>5, <3>1, OrderIs
    <3>2. CASE at \in 2..5
      BY <1>1, <1>5, <3>2 DEF Holds
    <3>3. CASE at \in {6, 7}
      BY <1>1, <3>3, OrderIs, Apart
    <3> QED
      BY <1>1, <3>1, <3>2, <3>3
  <2> QED
    BY <1>1, <1>5, <2>1, <2>2 DEF Holds
<1>9. InReqs' /\ RowsInv'
  BY SMTT(60), <1>4, <1>7, <1>8, OneMoves DEF Insert
<1>10. TypeOK'
  BY <1>4, <1>5 DEF IInv, TypeOK, Insert
<1> QED
  BY <1>9, <1>10 DEF IInv

\* A transaction that is rolled back, and a socket that closes.
LEMMA GivesUpKeeps ==
  ASSUME IInv, NEW r \in Requests, req' = [req EXCEPT ![r] = Idle],
         UNCHANGED <<rows, ids, sessions, ended, serial, counts, arrivals, answered>>
  PROVE  IInv'
<1>1. req'[r] = Idle /\ \A q \in Requests \ {r} : req'[q] = req[q]
  BY DEF IInv, TypeOK
<1>2. InReqs' /\ RowsInv'
  BY <1>1, IdleFits, OneMoves
<1>3. TypeOK'
  BY IdleFits DEF IInv, TypeOK
<1> QED
  BY <1>2, <1>3 DEF IInv

\* Authentication goes on to the limit, the handler or the open socket.
LEMMA AuthEndsKeeps ==
  ASSUME IInv, NEW r \in Requests, NEW s \in Nat, NEW own \in BOOLEAN,
         In(r, "session"), AuthEnds(r, s, own), serial' \in Nat,
         UNCHANGED <<rows, ids, sessions, ended, counts, arrivals, answered>>
  PROVE  IInv'
<1> DEFINE kind == req[r].kind
           phase == Authenticated(kind)
           mine == IF kind = "socket" THEN {} ELSE req[r].mine
           kept == own /\ kind # "socket"
<1>1. /\ req[r] \in RequestRecords /\ Placed(req[r]) /\ Holds(r, req[r])
      /\ req[r].phase = "session" /\ req[r].user \in Users /\ kind \in Kinds
  BY DEF In, IInv, InReqs, TypeOK, Placed
<1>2. /\ phase \in {"limit", "handler", "open"}
      /\ phase = "open" <=> kind = "socket"
  BY <1>1 DEF Authenticated, Kinds
<1>3. mine \subseteq req[r].mine /\ mine \in SUBSET Names /\ 0 \in 0..8 /\ kept \in BOOLEAN
  BY <1>1 DEF RequestRecords
<1>4. /\ req' = [req EXCEPT ![r].phase = phase, ![r].session = s, ![r].at = 0,
                              ![r].own = kept, ![r].mine = mine]
  BY DEF AuthEnds
<1> HIDE DEF phase, mine, kept
<1>5. /\ \A q \in Requests \ {r} : req'[q] = req[q]
      /\ req'[r] \in RequestRecords /\ req' \in [Requests -> RequestRecords]
      /\ req'[r].phase = phase /\ req'[r].mine = mine
      /\ req'[r].user = req[r].user /\ req'[r].kind = kind
  BY <1>1, <1>2, <1>3, <1>4 DEF IInv, TypeOK, RequestRecords
<1>6. mine = IF kind = "socket" THEN {} ELSE req[r].mine
  BY DEF mine
<1>7. Placed(req'[r])
  BY <1>1, <1>2, <1>5, <1>6 DEF Placed
<1>8. Holds(r, req'[r])
  BY <1>1, <1>2, <1>5, <1>6 DEF Holds
<1>9. InReqs' /\ RowsInv'
  BY <1>5, <1>7, <1>8, OneMoves
<1>10. TypeOK'
  BY <1>5 DEF IInv, TypeOK
<1> QED
  BY <1>9, <1>10 DEF IInv

LEMMA SessionKeeps ==
  ASSUME IInv, NEW r \in Requests, ReuseSession(r) \/ NewSession(r)
  PROVE  IInv'
<1>1. CASE ReuseSession(r)
  <2>1. PICK s \in Latest(Active(req[r].user)) : AuthEnds(r, s.id, FALSE)
    BY <1>1 DEF ReuseSession
  <2>2. s.id \in Nat
    BY DEF Latest, Active, IInv, TypeOK, Sessions
  <2>3. serial' \in Nat
    BY <1>1 DEF ReuseSession, IInv, TypeOK
  <2> QED
    BY <1>1, <2>1, <2>2, <2>3, AuthEndsKeeps DEF ReuseSession
<1>2. CASE NewSession(r)
  <2>1. serial + 1 \in Nat /\ serial' \in Nat
    BY <1>2 DEF NewSession, IInv, TypeOK
  <2> QED
    BY <1>2, <2>1, AuthEndsKeeps DEF NewSession
<1> QED
  BY <1>1, <1>2

LEMMA PassKeeps ==
  ASSUME IInv, NEW r \in Requests, Pass(r) \/ PassUncounted(r)
  PROVE  IInv'
<1>1. /\ req[r] \in RequestRecords /\ Placed(req[r]) /\ Holds(r, req[r])
      /\ req[r].phase = "limit"
  BY DEF Pass, PassUncounted, In, IInv, InReqs, TypeOK
<1>2. /\ req' = [req EXCEPT ![r] = req'[r]]
      /\ \A q \in Requests \ {r} : req'[q] = req[q]
      /\ req'[r] \in RequestRecords
      /\ req'[r].phase = "handler" /\ req'[r].mine = req[r].mine
      /\ req'[r].user = req[r].user /\ req'[r].kind = req[r].kind
      /\ UNCHANGED <<rows, ids, sessions, ended, serial, arrivals, answered>>
  BY <1>1 DEF Pass, PassUncounted, IInv, TypeOK, RequestRecords
<1>3. Placed(req'[r])
  BY <1>1, <1>2 DEF Placed
<1>4. Holds(r, req'[r])
  BY <1>1, <1>2 DEF Holds
<1>5. InReqs' /\ RowsInv'
  BY <1>2, <1>3, <1>4, OneMoves
<1>6. DOMAIN counts' \subseteq Nat /\ counts' \in [DOMAIN counts' -> Nat]
  <2>1. CASE Pass(r)
    <3>1. CountedBy(r) \in Nat
      BY <1>1 DEF CountedBy, RequestRecords
    <3>2. \A key \in DOMAIN counts : counts[key] \in Nat /\ key \in Nat
      BY DEF IInv, TypeOK
    <3>3. Count(CountedBy(r)) + 1 \in Nat
      BY <3>2 DEF Count
    <3> DEFINE key1 == CountedBy(r)
               new(key) == IF key = key1 THEN Count(key) + 1 ELSE counts[key]
    <3>4. counts' = [key \in DOMAIN counts \cup {key1} |-> new(key)]
      BY <2>1 DEF Pass
    <3>5. \A key \in DOMAIN counts \cup {key1} : new(key) \in Nat /\ key \in Nat
      BY <3>1, <3>2, <3>3
    <3> QED
      BY <3>4, <3>5
  <2>2. CASE PassUncounted(r)
    BY <2>2 DEF PassUncounted, IInv, TypeOK
  <2> QED
    BY <2>1, <2>2
<1>7. TypeOK'
  BY <1>2, <1>6 DEF IInv, TypeOK
<1> QED
  BY <1>5, <1>7 DEF IInv

LEMMA TurnKeeps ==
  ASSUME IInv, NEW r \in Requests, Turn(r)
  PROVE  IInv'
<1>1. /\ req[r] \in RequestRecords /\ Placed(req[r]) /\ Holds(r, req[r])
  BY DEF IInv, InReqs, TypeOK
<1>2. Backed(r) \in BOOLEAN
  BY DEF Backed
<1>3. /\ req' = [req EXCEPT ![r] = req'[r]]
      /\ \A q \in Requests \ {r} : req'[q] = req[q]
      /\ req'[r] \in RequestRecords
      /\ req'[r].phase = req[r].phase /\ req'[r].mine = req[r].mine
      /\ req'[r].user = req[r].user /\ req'[r].kind = req[r].kind
      /\ req'[r].at = req[r].at /\ req'[r].absent = req[r].absent
      /\ UNCHANGED <<rows, ids, sessions, ended, serial, counts, arrivals, answered>>
  BY <1>1, <1>2 DEF Turn, IInv, TypeOK, RequestRecords
<1>4. Placed(req'[r])
  BY <1>1, <1>3 DEF Placed
<1>5. Holds(r, req'[r])
  BY <1>1, <1>3 DEF Holds
<1>6. InReqs' /\ RowsInv'
  BY <1>3, <1>4, <1>5, OneMoves
<1>7. TypeOK'
  BY <1>3 DEF IInv, TypeOK
<1> QED
  BY <1>6, <1>7 DEF IInv

\* No step of a request: a session passes its end, or a minute.
LEMMA TimeKeeps ==
  ASSUME IInv, Minute \/ \E s \in sessions : SessionEnds(s)
  PROVE  IInv'
<1>1. CASE Minute
  <2>1. \A r \in Requests :
          /\ req'[r] \in RequestRecords
          /\ req'[r].phase = req[r].phase /\ req'[r].mine = req[r].mine
          /\ req'[r].user = req[r].user /\ req'[r].kind = req[r].kind
          /\ req'[r].at = req[r].at /\ req'[r].absent = req[r].absent
    BY ZenonT(60), <1>1 DEF Minute, IInv, TypeOK, RequestRecords
  <2>2. rows' = rows /\ req' = [r \in Requests |-> req'[r]]
    BY <1>1 DEF Minute
  <2>3. ASSUME NEW r \in Requests
        PROVE  Placed(req[r])' /\ Holds(r, req[r])'
    <3>1. Placed(req[r]) /\ Holds(r, req[r])
      BY DEF IInv, InReqs
    <3>2. Placed(req[r])'
      BY <2>1, <2>2, <3>1 DEF Placed
    <3>3. Holds(r, req[r])'
      BY <2>1, <2>2, <3>1 DEF Holds
    <3> QED
      BY <3>2, <3>3
  <2>4. RowsInv'
    BY <2>2 DEF IInv, RowsInv, OneOfEach
  <2>5. counts' = NoCounts /\ DOMAIN NoCounts = {} /\ NoCounts \in [{} -> Nat]
    BY <1>1 DEF Minute, NoCounts
  <2>6. req' \in [Requests -> RequestRecords]
    BY <2>1, <2>2
  <2>7. TypeOK'
    BY <1>1, <2>2, <2>5, <2>6 DEF Minute, IInv, TypeOK
  <2> QED
    BY <2>3, <2>4, <2>7 DEF IInv, InReqs
<1>2. CASE \E s \in sessions : SessionEnds(s)
  <2>1. TypeOK'
    BY <1>2 DEF SessionEnds, IInv, TypeOK
  <2>2. rows' = rows /\ req' = req
    BY <1>2 DEF SessionEnds
  <2>3. InReqs'
    BY <2>2 DEF IInv, InReqs, Placed, Holds
  <2>4. RowsInv'
    BY <2>2 DEF IInv, RowsInv, OneOfEach
  <2> QED
    BY <2>1, <2>3, <2>4 DEF IInv
<1> QED
  BY <1>1, <1>2

\* A commit adds the organisation's rows all at once, and only when there were none.
LEMMA CommitKeeps ==
  ASSUME IInv, NEW r \in Requests, Commit(r)
  PROVE  IInv'
<1> DEFINE u == req[r].user
           mine == req[r].mine
<1>1. /\ req[r] \in RequestRecords /\ Placed(req[r]) /\ Holds(r, req[r])
      /\ req[r].phase = "handler" /\ u \in Users
      /\ mine \subseteq Owned(u)
      /\ \A n \in Owned(u) : rows[n] > 0 \/ n \in mine
  BY DEF Commit, In, IInv, InReqs, TypeOK, Placed
<1>2. \A n \in Names : rows'[n] = IF n \in mine THEN rows[n] + 1 ELSE rows[n]
  BY DEF Commit
<1>3. rows \in [Names -> Nat] /\ rows' \in [Names -> Nat]
  <2>1. rows \in [Names -> Nat]
    BY DEF IInv, TypeOK
  <2> QED
    BY <2>1, <1>2 DEF Commit
<1>4. \A n \in Names : rows'[n] >= rows[n] /\ (n \in mine => rows'[n] > 0)
  BY <1>2, <1>3
<1>5. OrgNames \subseteq Names /\ Users \subseteq Names /\ "tenant" \in OrgNames
      /\ Owned(u) \subseteq Names
  BY OrgIs, OrderIs, <1>1 DEF Names
<1>6. \A n \in Owned(u) : rows'[n] > 0
  BY <1>1, <1>3, <1>4, <1>5
<1>7. \A k \in OrgNames : rows[k] = rows["tenant"]
  BY DEF IInv, RowsInv
<1>8. \A n \in mine : rows[n] = 0
  <2>1. ASSUME NEW n \in mine, n \in NoUnique
        PROVE  rows[n] = 0
    BY <1>1, <1>7, <2>1, OrgIs DEF Holds
  <2> QED
    BY <1>1, <2>1 DEF Holds
<1>9. RowsInv'
  <2>1. OneOfEach'
    BY <1>2, <1>3, <1>8 DEF IInv, RowsInv, OneOfEach
  <2>2. ASSUME NEW k \in OrgNames
        PROVE  rows'[k] = rows'["tenant"]
    <3>1. CASE mine \cap OrgNames = {}
      BY <1>2, <1>5, <1>7, <3>1
    <3>2. CASE mine \cap OrgNames # {}
      <4>1. "tenant" \in mine
        BY <1>1, <3>2 DEF Holds
      <4>2. rows["tenant"] = 0 /\ rows[k] = 0
        BY <1>7, <1>8, <4>1
      <4>3. k \in mine
        BY <1>1, <4>2 DEF Owned
      <4> QED
        BY <1>2, <1>5, <4>1, <4>2, <4>3
    <3> QED
      BY <3>1, <3>2
  <2> QED
    BY <2>1, <2>2 DEF RowsInv
<1>10. req' = [req EXCEPT ![r] = Idle]
  BY DEF Commit
<1>11. ASSUME NEW q \in Requests
       PROVE  Placed(req[q])' /\ Holds(q, req[q])'
  <2>1. CASE q = r
    <3>1. req'[q] = Idle
      BY <1>10, <2>1 DEF IInv, TypeOK
    <3> QED
      BY <3>1 DEF Placed, Holds, Idle
  <2>2. CASE q # r
    <3>1. /\ req[q] \in RequestRecords /\ req'[q] = req[q]
          /\ Placed(req[q]) /\ Holds(q, req[q])
      BY <1>10, <2>2 DEF IInv, InReqs, TypeOK
    <3>2. \A n \in Names : rows[n] > 0 => rows'[n] > 0
      BY <1>3, <1>4
    <3>3. Placed(req[q])'
      <4>1. req[q].phase = "idle" \/ req[q].user \in Users
        BY <3>1 DEF Placed
      <4>2. req[q].user \in Users => Owned(req[q].user) \subseteq Names
        BY OrderIs
      <4>3. req[q].user \in Users => \A i \in 1..7 : Order(req[q].user)[i] \in Names
        BY OrderIs
      <4> QED
        BY <3>1, <3>2, <4>1, <4>2, <4>3 DEF Placed
    <3>4. Holds(q, req[q])'
      <4>1. \A n \in req[q].mine \ NoUnique :
              rows'[n] = 0 /\ \A p \in Requests : p # q => n \notin req'[p].mine
        <5>1. ASSUME NEW n \in req[q].mine \ NoUnique
              PROVE  rows'[n] = 0 /\ \A p \in Requests : p # q => n \notin req'[p].mine
          <6>1. rows[n] = 0 /\ n \notin mine /\ n \in Names
            BY <2>2, <3>1 DEF Holds, RequestRecords
          <6>2. \A p \in Requests : p # q => n \notin req[p].mine
            BY <3>1 DEF Holds
          <6>3. \A p \in Requests : req'[p].mine = req[p].mine \/ req'[p].mine = {}
            BY <1>10, IdleFits DEF IInv, TypeOK
          <6> QED
            BY <1>2, <6>1, <6>2, <6>3
        <5> QED
          BY <5>1
      <4> QED
        BY <3>1, <4>1 DEF Holds
    <3> QED
      BY <3>3, <3>4
  <2> QED
    BY <2>1, <2>2
<1>12. TypeOK'
  <2>1. \A v \in Users : rows'[v] > 0 => \A n \in OrgNames \cup {Role(v)} : rows'[n] > 0
    <3>1. SUFFICES ASSUME NEW v \in Users, rows'[v] > 0
                   PROVE  \A n \in OrgNames \cup {Role(v)} : rows'[n] > 0
      OBVIOUS
    <3>2. CASE v \in mine
      BY <1>1, <1>6, <3>2, Apart DEF Owned
    <3>3. CASE v \notin mine
      <4>1. rows[v] > 0
        BY <1>2, <1>5, <3>1, <3>3
      <4>2. \A n \in OrgNames \cup {Role(v)} : rows[n] > 0
        BY <4>1 DEF IInv, TypeOK
      <4>3. OrgNames \cup {Role(v)} \subseteq Names
        BY OrderIs DEF Owned
      <4> QED
        BY <1>3, <1>4, <4>2, <4>3
    <3> QED
      BY <3>2, <3>3
  <2>2. sessions' \subseteq Sessions /\ \A s \in sessions' : rows'[s.user] > 0
    <3>1. \A s \in sessions' : s \in sessions \/ s = [id |-> req[r].session, user |-> u]
      BY DEF Commit
    <3>2. req[r].session \in Nat
      BY <1>1 DEF RequestRecords
    <3>3. \A s \in sessions : s \in Sessions /\ rows[s.user] > 0
      BY DEF IInv, TypeOK
    <3>4. [id |-> req[r].session, user |-> u] \in Sessions
      BY <1>1, <3>2 DEF Sessions
    <3>5. rows'[u] > 0
      BY <1>6 DEF Owned
    <3>6. \A s \in sessions : s.user \in Names
      BY <1>5, <3>3 DEF Sessions
    <3> QED
      BY <1>3, <1>4, <3>1, <3>3, <3>4, <3>5, <3>6
  <2>3. ids' \in [Users -> Nat]
    <3>1. req[r].id \in Nat
      BY <1>1 DEF RequestRecords
    <3> QED
      BY <3>1 DEF Commit, IInv, TypeOK
  <2>4. answered' \in [Users -> Nat]
    BY <1>1 DEF Commit, IInv, TypeOK
  <2>5. req' \in [Requests -> RequestRecords]
    BY <1>10, IdleFits DEF IInv, TypeOK
  <2> QED
    BY <1>3, <2>1, <2>2, <2>3, <2>4, <2>5 DEF Commit, IInv, TypeOK
<1> QED
  BY <1>9, <1>11, <1>12 DEF IInv, InReqs

LEMMA NextKeeps ==
  ASSUME IInv, [Next]_vars
  PROVE  IInv'
<1>1. ASSUME NEW r \in Requests, Step(r)
      PROVE  IInv'
  <2>1. CASE \E u \in Users, kind \in Kinds : Arrive(r, u, kind)
    BY <2>1, ArriveKeeps
  <2>2. CASE LookUp(r)
    BY <2>2, LookUpKeeps
  <2>3. CASE Insert(r)
    BY <2>3, InsertKeeps
  <2>4. CASE Clash(r) \/ Reject(r) \/ Rollback(r) \/ Disconnect(r)
    BY <2>4, GivesUpKeeps DEF Clash, Reject, Rollback, Disconnect
  <2>5. CASE ReuseSession(r) \/ NewSession(r)
    BY <2>5, SessionKeeps
  <2>6. CASE Pass(r) \/ PassUncounted(r)
    BY <2>6, PassKeeps
  <2>7. CASE Commit(r)
    BY <2>7, CommitKeeps
  <2>8. CASE Turn(r)
    BY <2>8, TurnKeeps
  <2> QED
    BY <1>1, <2>1, <2>2, <2>3, <2>4, <2>5, <2>6, <2>7, <2>8 DEF Step
<1>2. CASE Minute \/ \E s \in sessions : SessionEnds(s)
  BY <1>2, TimeKeeps
<1>3. CASE UNCHANGED vars
  <2>1. InReqs'
    BY <1>3 DEF vars, IInv, InReqs, Placed, Holds
  <2>2. TypeOK' /\ RowsInv'
    BY <1>3 DEF vars, IInv, TypeOK, RowsInv, OneOfEach
  <2> QED
    BY <2>1, <2>2 DEF IInv
<1> QED
  BY <1>1, <1>2, <1>3 DEF Next

-----------------------------------------------------------------------------
LEMMA IInvAlways == Spec => []IInv
BY Initially, NextKeeps, PTL DEF Spec

\* The types, and the foreign keys of committed users and sessions
\* (core/provisioning.py, models.py).
THEOREM TypeCorrect == Spec => []TypeOK
<1>1. IInv => TypeOK
  BY DEF IInv
<1> QED
  BY <1>1, IInvAlways, PTL

\* However many first requests run at once, none of the rows that provisioning looks up
\* by name is there twice (core/provisioning.py's _get_or_create), those without a
\* unique constraint included.
THEOREM OneOfEachEver == Spec => []OneOfEach
<1>1. IInv => OneOfEach
  BY DEF IInv, RowsInv
<1> QED
  BY <1>1, IInvAlways, PTL

-----------------------------------------------------------------------------
(* The quota.  A user has one id at a time, that of the committed row or of the    *)
(* transaction that is inserting it; an id that is rolled back is not given again. *)

Sits(x) == x.phase \in {"session", "limit", "handler"}

IdOf(u, i) ==
  \/ rows[u] > 0 /\ ids[u] = i
  \/ \E r \in Requests : Sits(req[r]) /\ req[r].user = u /\ req[r].id = i

Counted(u) == {r \in Requests : req[r].counted /\ req[r].user = u}

CountInv ==
  /\ DOMAIN counts \subseteq 0..serial
  /\ \A u \in Users : rows[u] = 0 => answered[u] = 0
  /\ \A u \in Users, i \in Nat : IdOf(u, i) =>
       /\ answered[u] + Cardinality(Counted(u)) <= Count(i)
       /\ LimitFor(u) > 0 => Count(i) <= LimitFor(u)

IdInv ==
  /\ \A r \in Requests : req[r].counted => req[r].phase = "handler"
  /\ \A u, v \in Users, i, j \in Nat : IdOf(u, i) /\ IdOf(v, j) => (u = v <=> i = j)
  /\ \A u \in Users, i \in Nat : IdOf(u, i) => i <= serial

QInv == IInv /\ IdInv /\ CountInv

LEMMA CountedFinite ==
  ASSUME NEW u \in Users
  PROVE  IsFiniteSet(Counted(u)) /\ Cardinality(Counted(u)) \in Nat
BY RequestsAssumption, FS_Subset, FS_CardinalityType DEF Counted

LEMMA CountIsNat ==
  ASSUME TypeOK, NEW i
  PROVE  Count(i) \in Nat
BY DEF TypeOK, Count

\* One request moves, and no user gains an id or a count by it.
LEMMA QuietKeeps ==
  ASSUME QInv, IInv', NEW r \in Requests,
         UNCHANGED <<rows, ids, counts, answered>>, serial' \in Nat, serial' >= serial,
         \A q \in Requests \ {r} : req'[q] = req[q],
         Sits(req'[r]) => IdOf(req'[r].user, req'[r].id),
         req'[r].counted =>
           req[r].counted /\ req'[r].user = req[r].user /\ req'[r].phase = "handler"
  PROVE  QInv'
<1>1. \A u, i : IdOf(u, i)' => IdOf(u, i)
  BY DEF IdOf
<1>2. \A u \in Users : Counted(u)' \subseteq Counted(u)
  BY DEF Counted
<1>3. \A u \in Users :
        /\ Cardinality(Counted(u)) \in Nat /\ Cardinality(Counted(u)') \in Nat
        /\ Cardinality(Counted(u)') <= Cardinality(Counted(u))
  BY <1>2, CountedFinite, FS_Subset, FS_CardinalityType
<1>4. IdInv'
  <2>1. serial \in Nat
    BY DEF QInv, IInv, TypeOK
  <2>2. \A q \in Requests : req'[q].counted => req'[q].phase = "handler"
    BY DEF QInv, IdInv
  <2>3. \A u, v \in Users, i, j \in Nat : IdOf(u, i)' /\ IdOf(v, j)' => (u = v <=> i = j)
    BY <1>1 DEF QInv, IdInv
  <2>4. \A u \in Users, i \in Nat : IdOf(u, i)' => i <= serial'
    BY <1>1, <2>1 DEF QInv, IdInv
  <2> QED
    BY <2>2, <2>3, <2>4 DEF IdInv
<1>5. CountInv'
  <2>1. \A i \in Nat : Count(i)' = Count(i) /\ Count(i) \in Nat
    BY CountIsNat DEF Count, QInv, IInv
  <2>2. \A u \in Users : answered[u] \in Nat
    BY DEF QInv, IInv, TypeOK
  <2>3. \A u \in Users, i \in Nat : IdOf(u, i)' =>
          /\ answered'[u] + Cardinality(Counted(u)') <= Count(i)'
          /\ LimitFor(u) > 0 => Count(i)' <= LimitFor(u)
    <3>1. SUFFICES ASSUME NEW u \in Users, NEW i \in Nat, IdOf(u, i)'
                   PROVE  /\ answered'[u] + Cardinality(Counted(u)') <= Count(i)'
                          /\ LimitFor(u) > 0 => Count(i)' <= LimitFor(u)
      OBVIOUS
    <3>2. /\ answered[u] + Cardinality(Counted(u)) <= Count(i)
          /\ LimitFor(u) > 0 => Count(i) <= LimitFor(u)
      BY <1>1, <3>1 DEF QInv, CountInv
    <3>3. answered'[u] = answered[u]
      OBVIOUS
    <3> QED
      BY <1>3, <2>1, <2>2, <3>2, <3>3
  <2>4. DOMAIN counts' \subseteq 0..serial'
    <3>1. serial \in Nat /\ counts' = counts
      BY DEF QInv, IInv, TypeOK
    <3> QED
      BY <3>1 DEF QInv, CountInv
  <2>5. \A u \in Users : rows'[u] = 0 => answered'[u] = 0
    BY DEF QInv, CountInv
  <2> QED
    BY <2>3, <2>4, <2>5 DEF CountInv, LimitFor
<1> QED
  BY <1>4, <1>5 DEF QInv

LEMMA QuietSteps ==
  ASSUME QInv, IInv', NEW r \in Requests,
         \/ \E u \in Users, kind \in Kinds : Arrive(r, u, kind)
         \/ LookUp(r) \/ (Insert(r) /\ req[r].at < 7)
         \/ Clash(r) \/ Reject(r) \/ Rollback(r) \/ Disconnect(r)
         \/ ReuseSession(r) \/ NewSession(r) \/ PassUncounted(r) \/ Turn(r)
  PROVE  QInv'
<1> DEFINE x == req[r]
           y == req'[r]
<1>1. /\ x \in RequestRecords /\ x.counted => x.phase = "handler"
      /\ req \in [Requests -> RequestRecords] /\ serial \in Nat /\ serial + 1 >= serial
      /\ serial + 1 \in Nat /\ serial >= serial
  BY DEF QInv, IdInv, IInv, TypeOK
<1>2. Sits(x) /\ x.user \in Users => IdOf(x.user, x.id)
  BY DEF IdOf
<1>3. Idle.phase = "idle" /\ Idle.counted = FALSE /\ Idle \in RequestRecords
  BY IdleFits DEF Idle
<1>4. /\ UNCHANGED <<rows, ids, counts, answered>> /\ serial' \in Nat /\ serial' >= serial
      /\ \A q \in Requests \ {r} : req'[q] = req[q]
  BY <1>1 DEF Arrive, LookUp, Insert, Clash, Reject, Rollback, Disconnect,
              ReuseSession, NewSession, AuthEnds, PassUncounted, Turn
<1>5. /\ Sits(y) => IdOf(y.user, y.id)
      /\ y.counted => x.counted /\ y.user = x.user /\ y.phase = "handler"
  <2>1. CASE \E u \in Users, kind \in Kinds : Arrive(r, u, kind)
    <3>1. PICK u \in Users, kind \in Kinds : Arrive(r, u, kind)
      BY <2>1
    <3>2. CASE rows[u] > 0
      <4>1. y = [Idle EXCEPT !.phase = "session", !.user = u, !.kind = kind, !.id = ids[u]]
        BY <1>1, <3>1, <3>2 DEF Arrive
      <4>2. y.counted = FALSE /\ y.user = u /\ y.id = ids[u]
        BY <1>3, <4>1 DEF RequestRecords
      <4> QED
        BY <3>2, <4>2 DEF IdOf
    <3>3. CASE ~(rows[u] > 0)
      <4>1. y = [Idle EXCEPT !.phase = "provision", !.user = u, !.kind = kind, !.at = 1]
        BY <1>1, <3>1, <3>3 DEF Arrive
      <4>2. y.counted = FALSE /\ y.phase = "provision"
        BY <1>3, <4>1 DEF RequestRecords
      <4> QED
        BY <4>2 DEF Sits
    <3> QED
      BY <3>2, <3>3
  <2>2. CASE LookUp(r) \/ (Insert(r) /\ x.at < 7)
    <3>1. x.phase = "provision" /\ ~x.counted
      BY <1>1, <2>2 DEF LookUp, Insert, In
    <3>2. /\ Found(r).phase = x.phase /\ Found(r).counted = x.counted
          /\ Found(r) \in RequestRecords
      <4>1. x.at \in 1..7
        BY <3>1 DEF QInv, IInv, InReqs, Placed
      <4>2. x.at + 1 \in 0..8
        BY <4>1
      <4> QED
        BY <1>1, <4>2 DEF Found, RequestRecords
    <3>3. y.phase = x.phase /\ y.counted = x.counted
      <4>1. CASE LookUp(r) /\ x.at < 7 /\ Seen(r, Name(r))
        <5>1. y = Found(r)
          BY <1>1, <4>1 DEF LookUp
        <5> QED
          BY <3>2, <5>1
      <4>2. CASE LookUp(r) /\ ~(x.at < 7 /\ Seen(r, Name(r)))
        <5>1. y = [x EXCEPT !.absent = TRUE]
          BY <1>1, <4>2 DEF LookUp
        <5> QED
          BY <1>1, <5>1 DEF RequestRecords
      <4>3. CASE Insert(r) /\ x.at < 7
        <5>1. y = [Found(r) EXCEPT !.mine = @ \cup {Name(r)}]
          BY <1>1, <4>3 DEF Insert
        <5> QED
          BY <3>2, <5>1 DEF RequestRecords
      <4> QED
        BY <2>2, <4>1, <4>2, <4>3
    <3>4. y.phase = "provision" /\ ~y.counted
      BY <3>1, <3>3
    <3> QED
      BY <3>4 DEF Sits
  <2>3. CASE Clash(r) \/ Reject(r) \/ Rollback(r) \/ Disconnect(r)
    <3>1. y = Idle
      BY <1>1, <2>3 DEF Clash, Reject, Rollback, Disconnect
    <3> QED
      BY <1>3, <3>1 DEF Sits
  <2>4. CASE ReuseSession(r) \/ NewSession(r)
    <3>1. PICK s, own : x.phase = "session" /\ AuthEnds(r, s, own)
      BY <2>4 DEF ReuseSession, NewSession, In
    <3>2. y.user = x.user /\ y.id = x.id /\ y.counted = x.counted
      BY <1>1, <3>1 DEF AuthEnds, RequestRecords
    <3>3. x.user \in Users
      BY <3>1 DEF QInv, IInv, InReqs, Placed
    <3> QED
      BY <1>1, <1>2, <3>1, <3>2, <3>3 DEF Sits
  <2>5. CASE PassUncounted(r)
    <3>1. x.phase = "limit" /\ y.user = x.user /\ y.id = x.id /\ y.counted = x.counted
      BY <1>1, <2>5 DEF PassUncounted, In, RequestRecords
    <3>2. x.user \in Users
      BY <3>1 DEF QInv, IInv, InReqs, Placed
    <3> QED
      BY <1>1, <1>2, <3>1, <3>2 DEF Sits
  <2>6. CASE Turn(r)
    <3>1. x.phase = "open" /\ y.phase = x.phase /\ y.counted = x.counted
      BY <1>1, <2>6 DEF Turn, In, RequestRecords
    <3> QED
      BY <1>1, <3>1 DEF Sits
  <2> QED
    BY <2>1, <2>2, <2>3, <2>4, <2>5, <2>6
<1> QED
  BY <1>4, <1>5, QuietKeeps

\* The user's own row is inserted: no other request has one of it, so no other id, and
\* the new id has no count.
LEMMA BornKeeps ==
  ASSUME QInv, IInv', NEW r \in Requests, Insert(r), ~(req[r].at < 7)
  PROVE  QInv'
<1> DEFINE u == req[r].user
           new == serial + 1
<1>1. /\ req[r] \in RequestRecords /\ req[r].phase = "provision"
      /\ u \in Users /\ req[r].at = 7 /\ ~req[r].counted
      /\ serial \in Nat /\ new \in Nat /\ serial' = new
      /\ UNCHANGED <<rows, ids, counts, answered>>
  BY DEF Insert, In, QInv, IdInv, IInv, InReqs, TypeOK, Placed
<1>2. Name(r) = u /\ u \notin NoUnique /\ u \in Owned(u) /\ u \in Names
  BY <1>1, OrderIs, OrgIs, Apart DEF Name, Owned
<1>3. rows[u] = 0 /\ ~Blocked(r, u)
  BY <1>2 DEF Insert
<1>4. \A q \in Requests \ {r} : req'[q] = req[q]
  BY DEF Insert
<1>5. /\ req'[r].user = u /\ req'[r].id = new /\ ~req'[r].counted
      /\ req'[r].phase = "session"
  <2>1. req'[r] = [Found(r) EXCEPT !.mine = @ \cup {Name(r)}, !.id = new,
                                   !.phase = "session"]
    BY DEF Insert, QInv, IInv, TypeOK
  <2> QED
    BY <1>1, <2>1 DEF Found, RequestRecords
<1>6. \A i : ~IdOf(u, i)
  <2>1. SUFFICES ASSUME NEW q \in Requests, Sits(req[q]), req[q].user = u
                 PROVE  FALSE
    BY <1>3 DEF IdOf
  <2>2. u \in req[q].mine
    BY <1>2, <1>3, <2>1 DEF QInv, IInv, InReqs, Placed, Sits
  <2>3. q # r
    BY <1>1, <2>1 DEF Sits
  <2> QED
    BY <1>2, <1>3, <2>2, <2>3 DEF Blocked
<1>7. \A v, i : IdOf(v, i)' <=> IdOf(v, i) \/ (v = u /\ i = new)
  BY <1>1, <1>4, <1>5 DEF IdOf, Sits
<1>8. \A v : Counted(v)' = Counted(v)
  BY <1>1, <1>4, <1>5 DEF Counted
<1>9. Counted(u) = {}
  <2>1. \A q \in Requests : req[q].counted /\ req[q].user = u => IdOf(u, req[q].id)
    BY DEF QInv, IdInv, IdOf, Sits
  <2> QED
    BY <1>6, <2>1 DEF Counted
<1>10. IdInv'
  <2>1. \A q \in Requests : req'[q].counted => req'[q].phase = "handler"
    BY <1>4, <1>5 DEF QInv, IdInv
  <2>2. \A v \in Users, i \in Nat : IdOf(v, i) => i <= serial
    BY DEF QInv, IdInv
  <2>3. \A v, w \in Users, i, j \in Nat : IdOf(v, i)' /\ IdOf(w, j)' => (v = w <=> i = j)
    BY <1>1, <1>6, <1>7, <2>2 DEF QInv, IdInv
  <2>4. \A v \in Users, i \in Nat : IdOf(v, i)' => i <= serial'
    BY <1>1, <1>7, <2>2
  <2> QED
    BY <2>1, <2>3, <2>4 DEF IdInv
<1>11. CountInv'
  <2>1. DOMAIN counts' \subseteq 0..serial'
    BY <1>1 DEF QInv, CountInv
  <2>2. \A i : Count(i)' = Count(i)
    BY <1>1 DEF Count
  <2>3. Count(new) = 0
    BY <1>1 DEF Count, QInv, CountInv
  <2>4. answered[u] = 0 /\ Cardinality(Counted(u)) = 0
    BY <1>1, <1>3, <1>9, FS_EmptySet DEF QInv, CountInv
  <2>5. \A v \in Users, i \in Nat : IdOf(v, i)' =>
          /\ answered'[v] + Cardinality(Counted(v)') <= Count(i)'
          /\ LimitFor(v) > 0 => Count(i)' <= LimitFor(v)
    <3>1. SUFFICES ASSUME NEW v \in Users, NEW i \in Nat, IdOf(v, i)'
                   PROVE  /\ answered'[v] + Cardinality(Counted(v)') <= Count(i)'
                          /\ LimitFor(v) > 0 => Count(i)' <= LimitFor(v)
      OBVIOUS
    <3>2. CASE IdOf(v, i)
      <4>1. /\ answered[v] + Cardinality(Counted(v)) <= Count(i)
            /\ LimitFor(v) > 0 => Count(i) <= LimitFor(v)
        BY <3>2 DEF QInv, CountInv
      <4>2. answered'[v] = answered[v] /\ Counted(v)' = Counted(v) /\ Count(i)' = Count(i)
        BY <1>1, <1>8, <2>2
      <4> QED
        BY <4>1, <4>2
    <3>3. CASE v = u /\ i = new
      <4>1. answered'[v] = 0 /\ Cardinality(Counted(v)') = 0 /\ Count(i)' = 0
        BY <1>1, <1>8, <2>2, <2>3, <2>4, <3>3
      <4>2. LimitFor(v) \in Nat
        BY LimitsAssumption DEF LimitFor
      <4> QED
        BY <4>1, <4>2
    <3> QED
      BY <1>7, <3>1, <3>2, <3>3
  <2>6. \A v \in Users : rows'[v] = 0 => answered'[v] = 0
    BY <1>1 DEF QInv, CountInv
  <2> QED
    BY <2>1, <2>5, <2>6 DEF CountInv, LimitFor
<1> QED
  BY <1>10, <1>11 DEF QInv

LEMMA CountedPassKeeps ==
  ASSUME QInv, IInv', NEW r \in Requests, Pass(r)
  PROVE  QInv'
<1>a. req[r].user \in Users /\ req[r].id \in Nat
  BY DEF Pass, Commit, In, QInv, IInv, InReqs, TypeOK, Placed, RequestRecords
<1>b. PICK u \in Users, id \in Nat : u = req[r].user /\ id = req[r].id
  BY SMTT(60), <1>a
<1>1. /\ req[r] \in RequestRecords /\ req[r].phase = "limit" /\ ~req[r].counted
      /\ u \in Users /\ id \in Nat /\ CountedBy(r) = id /\ serial \in Nat
      /\ UNCHANGED <<rows, ids, serial, answered>>
  BY <1>b DEF Pass, In, CountedBy, QInv, IdInv, IInv, InReqs, TypeOK, Placed, RequestRecords
<1>2. /\ \A q \in Requests \ {r} : req'[q] = req[q]
      /\ req'[r].phase = "handler" /\ req'[r].counted
      /\ req'[r].user = u /\ req'[r].id = id
  BY <1>1, <1>b DEF Pass, QInv, IInv, TypeOK, RequestRecords
<1>3. IdOf(u, id)
  BY <1>1, <1>b DEF IdOf, Sits
<1>4. \A v, i : IdOf(v, i)' => IdOf(v, i)
  BY <1>1, <1>2, <1>b DEF IdOf, Sits
<1>5. IdInv'
  BY <1>1, <1>2, <1>4 DEF QInv, IdInv
<1>6. \A v \in Users \ {u} : Counted(v)' = Counted(v)
  BY <1>1, <1>2, <1>b DEF Counted
<1>7. /\ Cardinality(Counted(u)) \in Nat
      /\ Cardinality(Counted(u)') = Cardinality(Counted(u)) + 1
  <2>1. Counted(u)' = Counted(u) \cup {r} /\ r \notin Counted(u)
    <3>1. \A q \in Requests : req'[q].counted /\ req'[q].user = u
            <=> (req[q].counted /\ req[q].user = u) \/ q = r
      BY <1>2
    <3>2. Counted(u)' = {q \in Requests : req'[q].counted /\ req'[q].user = u}
      BY <1>2, <1>b DEF Counted
    <3> QED
      BY <1>1, <1>b, <3>1, <3>2 DEF Counted
  <2> QED
    BY <1>1, <2>1, CountedFinite, FS_AddElement
<1>8. /\ Count(id) < LimitFor(u) /\ Count(id) \in Nat
      /\ Count(id)' = Count(id) + 1
      /\ \A i \in Nat \ {id} : Count(i)' = Count(i)
      /\ DOMAIN counts' = DOMAIN counts \cup {id}
  <2>1. /\ counts' = [key \in DOMAIN counts \cup {id} |->
                       IF key = id THEN Count(key) + 1 ELSE counts[key]]
        /\ Count(id) < LimitFor(u)
    BY <1>1, <1>b DEF Pass
  <2>2. Count(id) \in Nat
    BY <1>1, CountIsNat DEF QInv, IInv
  <2>3. DOMAIN counts' = DOMAIN counts \cup {id}
    BY <2>1
  <2>4. Count(id)' = Count(id) + 1
    <3>1. counts'[id] = Count(id) + 1
      BY <2>1
    <3>2. Count(id)' = IF id \in DOMAIN counts' THEN counts'[id] ELSE 0
      BY <1>2, <1>1 DEF Count
    <3> QED
      BY <2>3, <3>1, <3>2
  <2>5. ASSUME NEW i \in Nat \ {id}
        PROVE  Count(i)' = Count(i)
    <3>1. i \in DOMAIN counts => counts'[i] = counts[i]
      BY <2>1
    <3> QED
      BY <2>3, <3>1 DEF Count
  <2> QED
    BY <2>1, <2>2, <2>3, <2>4, <2>5
<1>9. CountInv'
  <2>1. DOMAIN counts' \subseteq 0..serial'
    BY <1>1, <1>3, <1>8 DEF QInv, CountInv, IdInv
  <2>2. \A v \in Users : rows'[v] = 0 => answered'[v] = 0
    BY <1>1 DEF QInv, CountInv
  <2>3. ASSUME NEW v \in Users, NEW i \in Nat, IdOf(v, i)'
        PROVE  /\ answered'[v] + Cardinality(Counted(v)') <= Count(i)'
               /\ LimitFor(v) > 0 => Count(i)' <= LimitFor(v)
    <3>1. /\ IdOf(v, i) /\ answered'[v] = answered[v] /\ answered[v] \in Nat
          /\ answered[v] + Cardinality(Counted(v)) <= Count(i)
          /\ LimitFor(v) > 0 => Count(i) <= LimitFor(v)
      BY <1>1, <1>4, <2>3 DEF QInv, CountInv, IInv, TypeOK
    <3>2. v = u <=> i = id
      BY <1>1, <1>3, <3>1 DEF QInv, IdInv
    <3>3. CASE v = u
      <4>1. LimitFor(u) \in Nat
        BY LimitsAssumption DEF LimitFor
      <4>2. /\ Cardinality(Counted(v)) \in Nat
            /\ Cardinality(Counted(v)') = Cardinality(Counted(v)) + 1
        BY <1>7, <3>3
      <4>3. Count(i)' = Count(i) + 1 /\ Count(i) \in Nat /\ Count(i) < LimitFor(v)
        BY <1>8, <3>2, <3>3
      <4> QED
        BY <3>1, <3>3, <4>1, <4>2, <4>3
    <3>4. CASE v # u
      BY <1>6, <1>8, <3>1, <3>2, <3>4
    <3> QED
      BY <3>3, <3>4
  <2> QED
    BY <2>1, <2>2, <2>3 DEF CountInv, LimitFor
<1> QED
  BY <1>5, <1>9 DEF QInv

LEMMA AnsweredKeeps ==
  ASSUME QInv, IInv', NEW r \in Requests, Commit(r)
  PROVE  QInv'
<1>a. req[r].user \in Users /\ req[r].id \in Nat
  BY DEF Pass, Commit, In, QInv, IInv, InReqs, TypeOK, Placed, RequestRecords
<1>b. PICK u \in Users, id \in Nat : u = req[r].user /\ id = req[r].id
  BY <1>a
<1>1. /\ req[r] \in RequestRecords /\ req[r].phase = "handler"
      /\ u \in Users /\ id \in Nat /\ serial' = serial /\ counts' = counts
      /\ req' = [req EXCEPT ![r] = Idle] /\ req \in [Requests -> RequestRecords]
      /\ ids' = [ids EXCEPT ![u] = id] /\ ids \in [Users -> Nat]
      /\ rows \in [Names -> Nat] /\ answered \in [Users -> Nat]
  BY <1>b DEF Commit, In, QInv, IInv, InReqs, TypeOK, Placed, RequestRecords
<1>2. /\ \A q \in Requests \ {r} : req'[q] = req[q]
      /\ ~Sits(req'[r]) /\ ~req'[r].counted
  BY <1>1 DEF Idle, Sits
<1>3. IdOf(u, id)
  BY <1>1, <1>b DEF IdOf, Sits
<1>4. \A n \in Names : rows'[n] = IF n \in req[r].mine THEN rows[n] + 1 ELSE rows[n]
  BY DEF Commit
<1>5. \A v \in Users : v # u => rows'[v] = rows[v]
  <2>1. \A v \in Users : v \in Names /\ (v \in req[r].mine => v = u)
    BY <1>1, <1>b, Apart DEF QInv, IInv, InReqs, Placed, Names
  <2> QED
    BY <1>4, <2>1
<1>6. u \in Names /\ rows'[u] > 0
  <2>1. u \in Names /\ (rows[u] > 0 \/ u \in req[r].mine)
    BY <1>1, <1>b DEF QInv, IInv, InReqs, Placed, Owned, Names
  <2> QED
    BY <1>1, <1>4, <2>1
<1>7. \A v \in Users, i \in Nat : IdOf(v, i)' => IdOf(v, i)
  <2>1. SUFFICES ASSUME NEW v \in Users, NEW i \in Nat, IdOf(v, i)'
                 PROVE  IdOf(v, i)
    OBVIOUS
  <2>2. CASE \E q \in Requests : Sits(req'[q]) /\ req'[q].user = v /\ req'[q].id = i
    BY <1>2, <2>2 DEF IdOf
  <2>3. CASE rows'[v] > 0 /\ ids'[v] = i
    <3>1. CASE v = u
      BY <1>1, <1>3, <2>3, <3>1
    <3>2. CASE v # u
      BY <1>1, <1>5, <2>3, <3>2 DEF IdOf
    <3> QED
      BY <3>1, <3>2
  <2> QED
    BY <2>1, <2>2, <2>3 DEF IdOf, Sits
<1>8. IdInv'
  <2>1. \A q \in Requests : req'[q].counted => req'[q].phase = "handler"
    BY <1>2 DEF QInv, IdInv
  <2>2. \A v, w \in Users, i, j \in Nat : IdOf(v, i)' /\ IdOf(w, j)' => (v = w <=> i = j)
    BY <1>7 DEF QInv, IdInv
  <2>3. \A v \in Users, i \in Nat : IdOf(v, i)' => i <= serial'
    BY <1>1, <1>7 DEF QInv, IdInv
  <2> QED
    BY <2>1, <2>2, <2>3 DEF IdInv
<1>9. \A v \in Users \ {u} : Counted(v)' = Counted(v)
  BY <1>2, <1>b DEF Counted
<1>10. Counted(u)' = Counted(u) \ {r}
  <2>1. Counted(u)' = {q \in Requests : req'[q].counted /\ req'[q].user = u}
    BY DEF Counted
  <2> QED
    BY <1>2, <1>b, <2>1 DEF Counted
<1>11. /\ Cardinality(Counted(u)) \in Nat /\ Cardinality(Counted(u)') \in Nat
       /\ answered'[u] \in Nat
       /\ answered'[u] + Cardinality(Counted(u)') = answered[u] + Cardinality(Counted(u))
  <2>1. IsFiniteSet(Counted(u)) /\ Cardinality(Counted(u)) \in Nat
    BY <1>1, CountedFinite
  <2>2. CASE req[r].counted
    <3>1. r \in Counted(u)
      BY <2>2, <1>b DEF Counted
    <3>2. Cardinality(Counted(u)') = Cardinality(Counted(u)) - 1
          /\ Cardinality(Counted(u)') \in Nat
      BY <1>10, <2>1, <3>1, FS_RemoveElement, FS_CardinalityType
    <3>3. answered'[u] = answered[u] + 1 /\ answered[u] \in Nat
      BY <1>1, <1>b, <2>2 DEF Commit
    <3> QED
      BY <2>1, <3>2, <3>3
  <2>3. CASE ~req[r].counted
    <3>1. Counted(u)' = Counted(u)
      BY <1>10, <2>3 DEF Counted
    <3>2. answered'[u] = answered[u]
      BY <1>b, <2>3 DEF Commit
    <3> QED
      BY <1>1, <2>1, <3>1, <3>2
  <2> QED
    BY <2>2, <2>3
<1>12. \A v \in Users \ {u} : answered'[v] = answered[v]
  BY <1>1, <1>b DEF Commit
<1>13. CountInv'
  <2>1. DOMAIN counts' \subseteq 0..serial'
    BY <1>1 DEF QInv, CountInv
  <2>2. \A v \in Users : rows'[v] = 0 => answered'[v] = 0
    <3>1. SUFFICES ASSUME NEW v \in Users, rows'[v] = 0
                   PROVE  answered'[v] = 0
      OBVIOUS
    <3>2. v # u
      BY <1>6, <3>1
    <3> QED
      BY <1>5, <1>12, <3>1, <3>2 DEF QInv, CountInv
  <2>3. ASSUME NEW v \in Users, NEW i \in Nat, IdOf(v, i)'
        PROVE  /\ answered'[v] + Cardinality(Counted(v)') <= Count(i)'
               /\ LimitFor(v) > 0 => Count(i)' <= LimitFor(v)
    <3>1. /\ answered[v] + Cardinality(Counted(v)) <= Count(i)
          /\ LimitFor(v) > 0 => Count(i) <= LimitFor(v)
      BY <1>7, <2>3 DEF QInv, CountInv
    <3>2. Count(i)' = Count(i)
      BY <1>1 DEF Count
    <3>3. answered'[v] + Cardinality(Counted(v)') = answered[v] + Cardinality(Counted(v))
      <4>1. CASE v = u
        BY <1>11, <4>1
      <4>2. CASE v # u
        BY <1>9, <1>12, <4>2
      <4> QED
        BY <4>1, <4>2
    <3> QED
      BY <3>1, <3>2, <3>3
  <2> QED
    BY <2>1, <2>2, <2>3 DEF CountInv, LimitFor
<1> QED
  BY <1>8, <1>13 DEF QInv

LEMMA QuotaTimeKeeps ==
  ASSUME QInv, IInv', Minute \/ \E s \in sessions : SessionEnds(s)
  PROVE  QInv'
<1>1. CASE Minute
  <2>1. \A q \in Requests :
          /\ ~req'[q].counted /\ req'[q].phase = req[q].phase
          /\ req'[q].user = req[q].user /\ req'[q].id = req[q].id
    BY <1>1 DEF Minute, QInv, IInv, TypeOK, RequestRecords
  <2>2. UNCHANGED <<rows, ids, serial>> /\ counts' = NoCounts
        /\ answered' = [u \in Users |-> 0]
    BY <1>1 DEF Minute
  <2>3. \A u, i : IdOf(u, i)' <=> IdOf(u, i)
    BY <2>1, <2>2 DEF IdOf, Sits
  <2>4. IdInv'
    BY <2>1, <2>2, <2>3 DEF QInv, IdInv
  <2>5. \A u \in Users : Counted(u)' = {} /\ Cardinality(Counted(u)') = 0
    BY <2>1, FS_EmptySet DEF Counted
  <2>6. \A i : Count(i)' = 0
    BY <2>2 DEF Count, NoCounts
  <2>7. \A u \in Users : LimitFor(u) \in Nat
    BY LimitsAssumption DEF LimitFor
  <2>8. DOMAIN counts' = {}
    BY <2>2 DEF NoCounts
  <2>9. \A u \in Users, i \in Nat :
          /\ answered'[u] + Cardinality(Counted(u)') <= Count(i)'
          /\ LimitFor(u) > 0 => Count(i)' <= LimitFor(u)
    BY <2>2, <2>5, <2>6, <2>7
  <2>10. CountInv'
    BY <2>2, <2>8, <2>9 DEF CountInv, LimitFor
  <2> QED
    BY <2>4, <2>10 DEF QInv
<1>2. CASE \E s \in sessions : SessionEnds(s)
  <2>1. UNCHANGED <<rows, ids, serial, req, counts, answered>>
    BY <1>2 DEF SessionEnds
  <2>2. IdInv'
    BY <2>1 DEF QInv, IdInv, IdOf
  <2>3. CountInv'
    BY <2>1 DEF QInv, CountInv, IdOf, Counted, Count, LimitFor
  <2> QED
    BY <2>2, <2>3 DEF QInv
<1> QED
  BY <1>1, <1>2

LEMMA QInvAlways == Spec => []QInv
<1>1. Init => QInv
  <2>1. SUFFICES ASSUME Init PROVE QInv
    OBVIOUS
  <2>2. IInv
    BY <2>1, Initially
  <2>3. /\ \A r \in Requests : req[r] = Idle
        /\ \A u \in Users : rows[u] = 0 /\ answered[u] = 0
        /\ DOMAIN counts = {}
    BY <2>1 DEF Init, NoCounts, Names
  <2>4. \A u \in Users : \A i : ~IdOf(u, i)
    BY <2>3 DEF IdOf, Sits, Idle
  <2>5. \A r \in Requests : ~req[r].counted
    BY <2>3 DEF Idle
  <2>6. IdInv
    BY <2>4, <2>5 DEF IdInv
  <2>7. CountInv
    BY <2>3, <2>4 DEF CountInv
  <2> QED
    BY <2>2, <2>6, <2>7 DEF QInv
<1>2. QInv /\ [Next]_vars => QInv'
  <2>1. SUFFICES ASSUME QInv, [Next]_vars PROVE QInv'
    OBVIOUS
  <2>2. IInv'
    BY <2>1, NextKeeps DEF QInv
  <2>3. ASSUME NEW r \in Requests, Step(r)
        PROVE  QInv'
    <3>1. CASE Pass(r)
      BY <2>1, <2>2, <3>1, CountedPassKeeps
    <3>2. CASE Commit(r)
      BY <2>1, <2>2, <3>2, AnsweredKeeps
    <3>3. CASE Insert(r)
      BY <2>1, <2>2, <3>3, BornKeeps, QuietSteps
    <3>4. CASE ~(Pass(r) \/ Commit(r) \/ Insert(r))
      BY <2>1, <2>2, <2>3, <3>4, QuietSteps DEF Step
    <3> QED
      BY <3>1, <3>2, <3>3, <3>4
  <2>4. CASE Minute \/ \E s \in sessions : SessionEnds(s)
    BY <2>1, <2>2, <2>4, QuotaTimeKeeps
  <2>5. CASE UNCHANGED vars
    <3>1. IdInv'
      BY <2>1, <2>5 DEF vars, QInv, IdInv, IdOf
    <3>2. CountInv'
      BY <2>1, <2>5 DEF vars, QInv, CountInv, IdOf, Counted, Count, LimitFor
    <3> QED
      BY <2>2, <3>1, <3>2 DEF QInv
  <2> QED
    BY <2>1, <2>3, <2>4, <2>5 DEF Next
<1> QED
  BY <1>1, <1>2, PTL DEF Spec

\* Of the chats of a user that a minute counts, no more are answered than the limit of
\* the user's role (core/ratelimit.py), whichever sessions they come over and although a
\* user's id exists before the user is committed.
THEOREM QuotaKeptEver == Spec => []QuotaKept
<1>1. QInv => QuotaKept
  <2>1. SUFFICES ASSUME QInv, NEW u \in Users, LimitFor(u) > 0
                 PROVE  answered[u] <= LimitFor(u)
    BY DEF QuotaKept
  <2>2. /\ LimitFor(u) \in Nat /\ answered[u] \in Nat /\ rows[u] \in Nat
        /\ ids[u] \in Nat
    BY <2>1, LimitsAssumption DEF LimitFor, QInv, IInv, TypeOK, Names
  <2>3. CASE rows[u] = 0
    BY <2>1, <2>2, <2>3 DEF QInv, CountInv
  <2>4. CASE rows[u] # 0
    <3>1. IdOf(u, ids[u])
      BY <2>2, <2>4 DEF IdOf
    <3>2. /\ answered[u] + Cardinality(Counted(u)) <= Count(ids[u])
          /\ Count(ids[u]) <= LimitFor(u)
      BY <2>1, <2>2, <3>1 DEF QInv, CountInv
    <3>3. Cardinality(Counted(u)) \in Nat /\ Count(ids[u]) \in Nat
      BY <2>1, CountedFinite, CountIsNat DEF QInv, IInv
    <3> QED
      BY <2>2, <3>2, <3>3
  <2> QED
    BY <2>3, <2>4
<1> QED
  BY <1>1, QInvAlways, PTL
=============================================================================
