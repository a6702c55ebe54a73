--------------------------- MODULE DashboardProofs ---------------------------
(***************************************************************************)
(* Dashboard's properties for any number of ops.  The dialogs' rest on what *)
(* the ops and the form have in common (FormInv), the ingestion's on the    *)
(* jobs, the stores and the rows (JobInv) and on the lists that were read   *)
(* (ListedInv), and what is shown, with the types, on the query, the mock's *)
(* queue and the rows (ShowInv).                                            *)
(***************************************************************************)
EXTENDS Dashboard, SequenceTheorems, TLAPS

\* A save that is pending, and its form not opened anew since, is the form's op.
FormInv ==
  /\ op \in [Ops -> OpRecords]
  /\ server \in [Rows -> Nat]
  /\ form \in Rows \cup {New, Closed} /\ confirm \in Rows \cup {New}
  /\ \A o \in Ops : op[o].phase = "sent" => op[o].row \in Rows
  /\ \A o \in Ops :
       op[o].here /\ op[o].kind \in Saves /\ o \notin reopened /\ form # Closed => formOp = o
  /\ FormKept

\* A row's document was given to the store there is.
Added(r) ==
  \/ store = "pgvector" /\ r \in chunks
  \/ store = "bedrock_kb" /\ r \in syncs

\* A document is added before its record says so.
JobInv ==
  /\ job \in [Ops -> {"none", "cag", "received", "completed", "failed", "committed", "over"}]
  /\ server \in [Rows -> Nat]
  /\ store \in Stores \cup {"none"} /\ chunks \subseteq Rows /\ syncs \subseteq Rows
  /\ ~Mock =>
       /\ net = <<>>
       /\ store \in {"pgvector", "bedrock_kb"}
       /\ \A o \in Ops :
            /\ job[o] = "completed" => Added(NewRow(o))
            /\ job[o] = "committed" => server[NewRow(o)] # 0
            /\ server[NewRow(o)] = 1 => Added(NewRow(o))

-----------------------------------------------------------------------------
LEMMA RowsAre ==
  /\ \A o \in Ops : NewRow(o) \in Rows /\ o \in 0..MaxOps
  /\ \A o, p \in Ops : NewRow(o) = NewRow(p) => o = p
  /\ Fixture \in Rows /\ New \notin Rows /\ Closed \notin Rows /\ New # Closed
  /\ Rows \subseteq 0..(MaxOps + 1)
  /\ \A o \in Ops : NewRow(o) # Fixture
BY BoundAssumption DEF Ops, Rows, NewRow, Fixture, New, Closed

LEMMA UnusedIs ==
  /\ Unused \in OpRecords
  /\ Unused.phase = "none" /\ Unused.here = FALSE /\ Unused.kind = "none"
<1>1. 0 \in 0..(MaxOps + 1)
  BY BoundAssumption
<1> QED
  BY <1>1 DEF Unused, OpRecords, Saves

LEMMA OverIs ==
  /\ Over \in OpRecords
  /\ Over.kind = "none" /\ Over.row = 0 /\ Over.phase = "over" /\ Over.ok = FALSE
  /\ Over.here = FALSE
BY UnusedIs DEF Over, Unused, OpRecords

LEMMA FirstRowsType == FirstRows \in [Rows -> Nat] /\ NoRows \in [Rows -> Nat]
BY RowsAre DEF FirstRows, NoRows

-----------------------------------------------------------------------------
(* The dialogs *)

\* An op p afterwards is as it was before, as far as the dialogs are concerned, or is
\* not on its page.
Same(p) ==
  /\ op'[p] \in OpRecords
  /\ op'[p].here => op[p].here /\ op'[p].kind = op[p].kind
  /\ op'[p].phase = "sent" => op[p].phase = "sent" /\ op'[p].row = op[p].row

\* The form stays as it is or is closed, and no op comes to it.
LEMMA FormStays ==
  ASSUME FormInv, server' \in [Rows -> Nat],
         op' = [p \in Ops |-> op'[p]], \A p \in Ops : Same(p),
         (form' = form /\ formOp' = formOp) \/ form' = Closed,
         confirm' \in Rows \cup {New}, intruded' = intruded,
         \A p \in Ops : op'[p].here => (p \in reopened => p \in reopened')
  PROVE  FormInv'
<1>1. op' \in [Ops -> OpRecords]
  BY DEF Same
<1>2. form' \in Rows \cup {New, Closed}
  BY DEF FormInv
<1>3. \A p \in Ops : op'[p].phase = "sent" => op'[p].row \in Rows
  BY DEF FormInv, Same
<1>4. \A p \in Ops :
        op'[p].here /\ op'[p].kind \in Saves /\ p \notin reopened' /\ form' # Closed
        => formOp' = p
  BY DEF FormInv, Same
<1>5. FormKept'
  BY DEF FormInv, FormKept
<1>6. Closed' = Closed /\ New' = New /\ Saves' = Saves /\ Rows' = Rows
  OBVIOUS
<1> QED
  BY <1>1, <1>2, <1>3, <1>4, <1>5, <1>6 DEF FormInv, OpRecords

LEMMA FormUnchanged ==
  ASSUME FormInv, UNCHANGED <<op, server, form, formOp, confirm, reopened, intruded>>
  PROVE  FormInv'
BY DEF FormInv, FormKept

\* Nothing is left of a page that goes.
LEMMA GotoKeeps ==
  ASSUME FormInv, NEW p, NEW seen, Goto(p, seen)
  PROVE  FormInv'
<1>1. /\ op' = [o \in Ops |-> [op[o] EXCEPT !.here = FALSE]]
      /\ form' = Closed /\ confirm' = New /\ intruded' = intruded /\ server' = server
  BY DEF Goto, NoDialogs, history
<1>2. \A o \in Ops :
        /\ op'[o] = [op[o] EXCEPT !.here = FALSE] /\ op[o] \in OpRecords
  BY <1>1 DEF FormInv
<1>3. \A o \in Ops :
        /\ op'[o] \in OpRecords /\ op'[o].here = FALSE
        /\ op'[o].phase = op[o].phase /\ op'[o].row = op[o].row
  BY ZenonT(60), <1>2 DEF OpRecords
<1> QED
  BY <1>1, <1>3, FormStays DEF Same, FormInv

LEMMA ReloadKeeps ==
  ASSUME FormInv, NEW p, Reload(p)
  PROVE  FormInv'
<1>1. /\ op' = [o \in Ops |->
            IF op[o].phase = "none" THEN op[o] ELSE Over]
      /\ form' = Closed /\ confirm' = New /\ intruded' = intruded
      /\ server' = IF Mock THEN FirstRows ELSE server
      /\ reopened' = {}
  BY DEF Reload, NoDialogs
<1>2. \A o \in Ops :
        op'[o] = op[o] \/ op'[o] = Over
  BY <1>1
<1>3. Over \in OpRecords
      /\ Over.here = FALSE
      /\ Over.phase = "over"
  BY OverIs
<1>4. \A o \in Ops : Same(o)
  BY <1>2, <1>3 DEF Same, FormInv
<1>5. server' \in [Rows -> Nat]
  BY <1>1, FirstRowsType DEF FormInv
<1>6. confirm' \in Rows \cup {New}
  BY <1>1
<1>7. /\ \A o \in Ops : op'[o].phase = "sent" => op'[o].row \in Rows
      /\ op' \in [Ops -> OpRecords]
  BY <1>1, <1>4 DEF Same, FormInv
<1> QED
  BY <1>1, <1>5, <1>6, <1>7 DEF FormInv, FormKept

\* The ops that a fetch releases.
LEMMA ReleasedSame ==
  ASSUME FormInv, NEW W
  PROVE  /\ Released(W) \in [Ops -> OpRecords]
         /\ \A p \in Ops :
              /\ Released(W)[p].here = op[p].here /\ Released(W)[p].kind = op[p].kind
              /\ Released(W)[p].row = op[p].row
              /\ Released(W)[p].phase = "sent" => op[p].phase = "sent"
<1>1. \A p \in Ops : op[p] \in OpRecords
  BY DEF FormInv
<1>2. \A p \in Ops :
        Released(W)[p] = IF p \in W THEN [op[p] EXCEPT !.phase = "settled"] ELSE op[p]
  BY DEF Released
<1>3. \A p \in Ops :
        /\ Released(W)[p] \in OpRecords
        /\ Released(W)[p].here = op[p].here /\ Released(W)[p].kind = op[p].kind
        /\ Released(W)[p].row = op[p].row
        /\ Released(W)[p].phase = "sent" => op[p].phase = "sent"
  BY ZenonT(60), <1>1, <1>2 DEF OpRecords
<1> QED
  BY <1>3 DEF Released

\* A later fetch overtakes the ops that wait for one.
HandsOver(phase) ==
  CASE phase = "refetching" -> "handed" [] phase = "handed" -> "settled" [] OTHER -> phase
Handed == {o \in Ops : op[o].phase = "handed"}

LEMMA HandedOverIs ==
  ASSUME FormInv, NEW anew \in BOOLEAN
  PROVE  LET old == HandedOver(IF anew THEN Waiting ELSE {})
         IN  /\ old \in [Ops -> OpRecords]
             /\ \A p \in Ops :
                  /\ old[p].kind = op[p].kind /\ old[p].row = op[p].row
                  /\ old[p].ok = op[p].ok /\ old[p].here = op[p].here
                  /\ old[p].wrote = op[p].wrote
                  /\ old[p].phase = IF anew THEN HandsOver(op[p].phase) ELSE op[p].phase
<1> DEFINE W == IF anew THEN Waiting ELSE {}
           old == HandedOver(W)
<1>1. ASSUME NEW p \in Ops
      PROVE  /\ old[p] \in OpRecords
             /\ old[p].kind = op[p].kind /\ old[p].row = op[p].row
             /\ old[p].ok = op[p].ok /\ old[p].here = op[p].here
             /\ old[p].wrote = op[p].wrote
             /\ old[p].phase = IF anew THEN HandsOver(op[p].phase) ELSE op[p].phase
  <2>1. op[p] \in OpRecords
    BY DEF FormInv
  <2>2. p \in W <=> anew /\ op[p].phase \in {"refetching", "handed"}
    BY DEF Waiting
  <2>3. CASE p \notin W
    <3>1. old[p] = op[p]
      BY <2>3 DEF HandedOver
    <3> QED
      BY <2>1, <2>2, <2>3, <3>1 DEF HandsOver
  <2>4. CASE p \in W
    <3> DEFINE to == IF op[p].phase = "handed" THEN "settled" ELSE "handed"
    <3>1. old[p] = [op[p] EXCEPT !.phase = to]
      BY <2>4 DEF HandedOver
    <3>2. to \in {"settled", "handed"} /\ to = HandsOver(op[p].phase) /\ anew
      BY <2>2, <2>4 DEF HandsOver
    <3> HIDE DEF to
    <3> QED
      BY <2>1, <3>1, <3>2 DEF OpRecords
  <2> QED
    BY <2>3, <2>4
<1>2. old = [p \in Ops |-> old[p]]
  BY DEF HandedOver
<1> QED
  BY <1>1, <1>2

LEMMA ArrivalKeeps ==
  ASSUME FormInv, op' = Released(Waiting),
         UNCHANGED <<server, form, formOp, confirm, reopened, intruded>>
  PROVE  FormInv'
<1>1. \A p \in Ops : Same(p)
  BY ReleasedSame DEF Same
<1>2. op' = [p \in Ops |-> op'[p]]
  BY ReleasedSame
<1> QED
  BY <1>1, <1>2, FormStays DEF FormInv

LEMMA InvalidateKeeps ==
  ASSUME FormInv, NEW o \in Ops, NEW q, NEW requests, NEW wrote \in Nat,
         Invalidate(o, q, requests, wrote), server' \in [Rows -> Nat],
         UNCHANGED <<form, formOp, confirm, reopened, intruded>>
  PROVE  FormInv'
<1>1. PICK anew \in BOOLEAN :
        op' = [HandedOver(IF anew THEN Waiting ELSE {})
                 EXCEPT ![o].ok = TRUE, ![o].wrote = wrote, ![o].phase = Awaited]
  <2>1. (There /\ ~(Fetching /\ ~q.have)) \in BOOLEAN
    OBVIOUS
  <2> QED
    BY <2>1 DEF Invalidate
<1>2. Awaited \in {"refetching", "settled"}
  BY DEF Awaited
<1> DEFINE old == HandedOver(IF anew THEN Waiting ELSE {})
<1>3. /\ old \in [Ops -> OpRecords]
      /\ \A p \in Ops :
           /\ old[p].here = op[p].here /\ old[p].kind = op[p].kind
           /\ old[p].row = op[p].row
           /\ old[p].phase = "sent" => op[p].phase = "sent"
  BY HandedOverIs DEF HandsOver
<1> HIDE DEF old
<1>4. op' = [old EXCEPT ![o].ok = TRUE, ![o].wrote = wrote, ![o].phase = Awaited]
  BY <1>1 DEF old
<1>5. /\ op' \in [Ops -> OpRecords]
      /\ \A p \in Ops \ {o} : op'[p] = old[p]
      /\ op'[o].here = old[o].here /\ op'[o].kind = old[o].kind
      /\ op'[o].row = old[o].row /\ op'[o].phase = Awaited
  <2>1. PICK phase \in {"refetching", "settled"} : phase = Awaited
    BY <1>2
  <2>2. op' = [old EXCEPT ![o].ok = TRUE, ![o].wrote = wrote, ![o].phase = phase]
    BY <1>4, <2>1
  <2>3. /\ op' \in [Ops -> OpRecords]
        /\ \A p \in Ops \ {o} : op'[p] = old[p]
        /\ op'[o].here = old[o].here /\ op'[o].kind = old[o].kind
        /\ op'[o].row = old[o].row /\ op'[o].phase = phase
    <3> DEFINE r == [old[o] EXCEPT !.ok = TRUE, !.wrote = wrote, !.phase = phase]
    <3>1. /\ r \in OpRecords
          /\ r.here = old[o].here /\ r.kind = old[o].kind /\ r.row = old[o].row
          /\ r.phase = phase
      <4>1. old[o] \in OpRecords
        BY <1>3
      <4> QED
        BY <4>1 DEF OpRecords
    <3>2. op' = [old EXCEPT ![o] = r]
      BY <2>2
    <3> HIDE DEF r
    <3> QED
      BY <1>3, <3>1, <3>2
  <2> QED
    BY <2>1, <2>3
<1>6. ASSUME NEW p \in Ops
      PROVE  Same(p)
  <2>1. CASE p = o
    BY <1>2, <1>3, <1>5, <2>1 DEF Same
  <2>2. CASE p # o
    BY <1>3, <1>5, <2>2 DEF Same
  <2> QED
    BY <2>1, <2>2
<1>7. op' = [p \in Ops |-> op'[p]]
  BY <1>5
<1> QED
  BY <1>6, <1>7, FormStays DEF FormInv

\* What answers an op.
LEMMA AnsweredKeeps ==
  ASSUME FormInv, NEW o \in Ops, Answered(o)
  PROVE  FormInv'
<1>1. CASE MockWrites(o)
  <2>1. op[o].row \in Rows
    BY <1>1 DEF MockWrites, FormInv
  <2>2. PICK version, q :
          /\ version \in Nat /\ Invalidate(o, q, Tail(net), version)
          /\ server' = [server EXCEPT ![op[o].row] = version]
    <3>1. server[op[o].row] + 1 \in Nat /\ 0 \in Nat
      BY <2>1 DEF FormInv
    <3> QED
      BY <1>1, <3>1 DEF MockWrites
  <2>3. server' \in [Rows -> Nat]
    BY <2>2 DEF FormInv
  <2>4. UNCHANGED <<form, formOp, confirm, reopened, intruded>>
    BY <1>1 DEF MockWrites, dialogs
  <2> QED
    BY <2>2, <2>3, <2>4, InvalidateKeeps
<1>2. CASE IngestAnswered(o)
  <2>1. server[NewRow(o)] \in Nat
    BY RowsAre DEF FormInv
  <2>2. /\ Invalidate(o, query, net, server[NewRow(o)])
        /\ UNCHANGED <<server, form, formOp, confirm, reopened, intruded>>
    BY <1>2 DEF IngestAnswered, dialogs
  <2>3. server' \in [Rows -> Nat]
    BY <2>2 DEF FormInv
  <2> QED
    BY <2>1, <2>2, <2>3, InvalidateKeeps
<1>3. CASE MockRefuses(o) \/ IngestFails(o) \/ CagAnswered(o)
  <2>1. /\ UNCHANGED <<server, form, formOp, confirm, intruded>>
        /\ \/ op' = [op EXCEPT ![o].phase = "settled"] /\ reopened' = reopened
           \/ op' = [op EXCEPT ![o].ok = TRUE, ![o].phase = "settled"] /\ reopened' = reopened
           \/ op' = [op EXCEPT ![o] = Over] /\ reopened' = reopened \ {o}
    BY <1>3 DEF MockRefuses, IngestFails, CagAnswered, Refused, dialogs, history
  <2>2. /\ op' \in [Ops -> OpRecords]
        /\ \A p \in Ops : Same(p)
    <3>1. CASE op' = [op EXCEPT ![o].phase = "settled"]
      BY <3>1 DEF FormInv, Same, OpRecords
    <3>2. CASE op' = [op EXCEPT ![o].ok = TRUE, ![o].phase = "settled"]
      BY ZenonT(60), <3>2 DEF FormInv, Same, OpRecords
    <3>3. CASE op' = [op EXCEPT ![o] = Over]
      BY <3>3, OverIs DEF FormInv, Same
    <3> QED
      BY <2>1, <3>1, <3>2, <3>3
  <2>3. op' = [p \in Ops |-> op'[p]]
    BY <2>2
  <2>4. \A p \in Ops : op'[p].here => (p \in reopened => p \in reopened')
    BY <2>1, OverIs DEF FormInv
  <2> QED
    BY <2>1, <2>2, <2>3, <2>4, FormStays DEF FormInv
<1> QED
  BY <1>1, <1>2, <1>3 DEF Answered

\* The user's dialogs: a save goes out only when none is pending.
LEMMA DialogsKeep ==
  ASSUME FormInv,
         \/ CloseForm \/ ChangeTab \/ CloseConfirm
         \/ (\E r \in Rows \cup {New} : OpenForm(r)) \/ \E r \in Rows : OpenConfirm(r)
  PROVE  FormInv'
<1>1. CASE \E r \in Rows \cup {New} : OpenForm(r)
  <2>1. /\ reopened' = reopened \cup Pending(Saves) /\ form' \in Rows \cup {New}
        /\ UNCHANGED <<op, server, confirm, intruded>>
    BY <1>1 DEF OpenForm, Dialogs
  <2> QED
    BY <2>1 DEF FormInv, FormKept, Pending
<1>2. CASE CloseForm
  <2>1. form' = Closed /\ UNCHANGED <<op, server, confirm, reopened, intruded>>
    BY <1>2 DEF CloseForm, Dialogs
  <2> QED
    BY <2>1 DEF FormInv, FormKept
<1>3. CASE ChangeTab
  <2>1. UNCHANGED <<op, server, form, formOp, confirm, reopened, intruded>>
    BY <1>3 DEF ChangeTab, Dialogs
  <2> QED
    BY <2>1, FormUnchanged
<1>4. CASE CloseConfirm \/ \E r \in Rows : OpenConfirm(r)
  <2>1. /\ confirm' \in Rows \cup {New}
        /\ UNCHANGED <<op, server, form, formOp, reopened, intruded>>
    BY <1>4 DEF CloseConfirm, OpenConfirm, Dialogs
  <2> QED
    BY <2>1 DEF FormInv, FormKept
<1> QED
  BY <1>1, <1>2, <1>3, <1>4

LEMMA SendsKeep ==
  ASSUME FormInv, NEW o \in Ops, Submit(o) \/ Confirm(o)
  PROVE  FormInv'
<1>1. ASSUME NEW kind \in Saves \cup {"remove"}, NEW row \in Rows, Send(o, kind, row)
      PROVE  /\ op' \in [Ops -> OpRecords]
             /\ op'[o].kind = kind /\ op'[o].row = row
             /\ \A p \in Ops \ {o} : op'[p] = op[p]
             /\ UNCHANGED <<server, reopened, intruded>>
  <2> DEFINE r == [Unused EXCEPT !.kind = kind, !.row = row, !.phase = "sent",
                                 !.here = TRUE]
  <2>1. r \in OpRecords /\ r.kind = kind /\ r.row = row
    BY UnusedIs, RowsAre DEF OpRecords
  <2>2. op' = [op EXCEPT ![o] = r] /\ UNCHANGED <<server, reopened, intruded>>
    BY <1>1 DEF Send, history
  <2> HIDE DEF r
  <2> QED
    BY <2>1, <2>2 DEF FormInv
<1>2. CASE Submit(o)
  <2>1. /\ form # Closed /\ Pending(Saves) = {} /\ formOp' = o
        /\ UNCHANGED <<form, confirm>>
    BY <1>2 DEF Submit, SubmitIdle
  <2>2. PICK kind \in FormKinds :
          Send(o, kind, IF form = New THEN NewRow(o) ELSE form)
    BY <1>2 DEF Submit
  <2>3. kind \in Saves
    BY DEF FormKinds, Saves
  <2>4. PICK row \in Rows : row = IF form = New THEN NewRow(o) ELSE form
    BY <2>1, RowsAre DEF FormInv
  <2>5. /\ op' \in [Ops -> OpRecords]
        /\ op'[o].kind = kind /\ op'[o].row = row
        /\ \A p \in Ops \ {o} : op'[p] = op[p]
        /\ UNCHANGED <<server, reopened, intruded>>
    BY <1>1, <2>2, <2>3, <2>4
  <2>6. \A p \in Ops : ~(op[p].here /\ op[p].kind \in Saves)
    BY <2>1 DEF Pending
  <2>7. \A p \in Ops : op'[p].here /\ op'[p].kind \in Saves => formOp' = p
    BY <2>1, <2>5, <2>6
  <2>8. \A p \in Ops : op'[p].phase = "sent" => op'[p].row \in Rows
    BY <2>5 DEF FormInv
  <2> QED
    BY <2>1, <2>5, <2>7, <2>8 DEF FormInv, FormKept
<1>3. CASE Confirm(o)
  <2>1. confirm # New /\ Send(o, "remove", confirm) /\ UNCHANGED <<form, formOp, confirm>>
    BY <1>3 DEF Confirm, dialogs
  <2>2. PICK row \in Rows : row = confirm
    BY <2>1 DEF FormInv
  <2>3. /\ op' \in [Ops -> OpRecords]
        /\ op'[o].kind = "remove" /\ op'[o].row = row
        /\ \A p \in Ops \ {o} : op'[p] = op[p]
        /\ UNCHANGED <<server, reopened, intruded>>
    BY <1>1, <2>1, <2>2
  <2>4. "remove" \notin Saves
    BY DEF Saves
  <2> QED
    BY <2>1, <2>3, <2>4 DEF FormInv, FormKept
<1> QED
  BY <1>2, <1>3

\* What an op that is over does to the dialogs of its page.
LEMMA ContinuesKeeps ==
  ASSUME FormInv, NEW o \in Ops, Continues(o)
  PROVE  FormInv'
<1> DEFINE r == Over
<1>1. Settles(o)
  BY DEF Continues, SettlesAway, SaveCloses, SaveSpeaks, RemoveCloses
<1>2. /\ op' = [op EXCEPT ![o] = r] /\ reopened' = reopened \ {o}
      /\ server' = server
  BY <1>1 DEF Settles
<1>3. r \in OpRecords /\ r.here = FALSE /\ r.phase = "over"
  BY OverIs
<1> HIDE DEF r
<1>4. /\ op' \in [Ops -> OpRecords] /\ op'[o] = r
      /\ \A p \in Ops \ {o} : op'[p] = op[p]
  BY <1>2, <1>3 DEF FormInv
<1>5. \A p \in Ops : op'[p].phase = "sent" => op'[p].row \in Rows
  BY <1>3, <1>4 DEF FormInv
<1>6. form' \in Rows \cup {New, Closed} /\ confirm' \in Rows \cup {New}
  BY DEF FormInv, Continues, SettlesAway, SaveCloses, SaveSpeaks, RemoveCloses, dialogs
<1>7. form' = Closed \/ (form' = form /\ (formOp' = formOp \/ formOp = o))
  BY DEF Continues, SettlesAway, SaveCloses, SaveSpeaks, RemoveCloses, dialogs
<1>8. \A p \in Ops :
        op'[p].here /\ op'[p].kind \in Saves /\ p \notin reopened' /\ form' # Closed
        => formOp' = p
  BY <1>2, <1>3, <1>4, <1>7 DEF FormInv
<1>9. op[o].here /\ op[o].kind \in Saves => ~Intrudes(o)
  BY DEF FormInv, Intrudes
<1>10. FormKept'
  <2>1. CASE SaveCloses(o)
    <3>1. op[o].here /\ op[o].kind \in Saves
      BY <2>1 DEF SaveCloses, Saves
    <3> QED
      BY <1>9, <2>1, <3>1 DEF SaveCloses, FormInv, FormKept
  <2>2. CASE SaveSpeaks(o)
    BY <1>9, <2>2 DEF SaveSpeaks, FormInv, FormKept
  <2>3. CASE SettlesAway(o) \/ RemoveCloses(o)
    BY <2>3 DEF SettlesAway, RemoveCloses, FormInv, FormKept
  <2> QED
    BY <2>1, <2>2, <2>3 DEF Continues
<1> QED
  BY <1>2, <1>4, <1>5, <1>6, <1>8, <1>10 DEF FormInv

LEMMA IngestsKeeps ==
  ASSUME FormInv, NEW o \in Ops, Ingests(o)
  PROVE  FormInv'
<1>1. UNCHANGED <<op, form, formOp, confirm, reopened, intruded>>
  BY DEF Ingests, JobCommits, JobAborts, AddDocuments, Job, dialogs, history
<1>2. server' \in [Rows -> Nat]
  BY RowsAre DEF Ingests, JobCommits, JobAborts, AddDocuments, FormInv
<1> QED
  BY <1>1, <1>2 DEF FormInv, FormKept

LEMMA FormKeeps ==
  ASSUME FormInv, [Next]_vars
  PROVE  FormInv'
<1>1. CASE \E p \in Pages : Navigate(p) \/ Back(p)
  BY <1>1, GotoKeeps DEF Navigate, Back
<1>2. CASE \E p \in Pages : Reload(p)
  BY <1>2, ReloadKeeps
<1>3. CASE GuardChecks \/ Logout \/ LoginAnswered
  BY <1>3, GotoKeeps DEF GuardChecks, Logout, LoginAnswered
<1>4. CASE \/ SubmitLogin \/ LoginFails \/ Poll \/ ListRead \/ UNCHANGED vars
           \/ \E s \in {"none", "taken", "refused"} : SessionChanges(s)
  <2>1. UNCHANGED <<op, server, form, formOp, confirm, reopened, intruded>>
    BY <1>4 DEF SubmitLogin, LoginFails, SessionChanges, Login, Poll, ListRead, List, dialogs,
                history, vars
  <2> QED
    BY <2>1, FormUnchanged
<1>5. CASE MockGet \/ ListArrives \/ ListFails
  BY <1>5, ArrivalKeeps DEF MockGet, ListArrives, ListFails, dialogs, history
<1>6. CASE \/ ChangeTab \/ CloseForm \/ CloseConfirm
           \/ (\E r \in Rows \cup {New} : OpenForm(r)) \/ \E r \in Rows : OpenConfirm(r)
  BY <1>6, DialogsKeep
<1>7. CASE \E o \in Ops : Submit(o) \/ Confirm(o)
  BY <1>7, SendsKeep
<1>8. CASE \E o \in Ops : Answered(o) \/ Continues(o) \/ Ingests(o)
  BY <1>8, AnsweredKeeps, ContinuesKeeps, IngestsKeeps
<1> QED
  BY <1>1, <1>2, <1>3, <1>4, <1>5, <1>6, <1>7, <1>8 DEF Next, User

-----------------------------------------------------------------------------
(* The ingestion *)

LEMMA JobUnchanged ==
  ASSUME JobInv, UNCHANGED <<table, net, server, job, vectors>>
  PROVE  JobInv'
BY DEF JobInv, Mock, vectors, Added

\* A request goes to the mock, or there is none.
LEMMA NetIsTheMocks ==
  ASSUME JobInv, ~Mock
  PROVE  /\ net = <<>>
         /\ \A requests : Requested(requests) = requests
         /\ \A m : ~First(m)
BY DEF JobInv, Requested, First

\* What leaves the backend alone.
LEMMA BackendAlone ==
  ASSUME JobInv, UNCHANGED <<table, job, vectors>>, server' \in [Rows -> Nat],
         ~Mock => net' = net /\ server' = server
  PROVE  JobInv'
BY DEF JobInv, Mock, vectors, Added

LEMMA PagesLeaveBackend ==
  ASSUME JobInv, NEW p, NEW seen, Goto(p, seen) \/ Reload(p)
  PROVE  JobInv'
<1>1. UNCHANGED <<table, job, vectors>>
  BY DEF Goto, Reload
<1>2. server' \in [Rows -> Nat] /\ (~Mock => server' = server)
  BY FirstRowsType DEF Goto, Reload, JobInv
<1>3. ~Mock => net' = net
  <2>1. SUFFICES ASSUME ~Mock PROVE net' = net
    OBVIOUS
  <2>2. net = <<>> /\ Requested(net) = net
    BY <2>1, NetIsTheMocks
  <2> QED
    BY <2>2 DEF Goto, Reload, Appear
<1> QED
  BY <1>1, <1>2, <1>3, BackendAlone

LEMMA AnswersLeaveBackend ==
  ASSUME JobInv, FormInv, NEW o \in Ops, Answered(o)
  PROVE  JobInv'
<1>1. CASE MockWrites(o)
  <2>1. Mock
    BY <1>1, NetIsTheMocks DEF MockWrites
  <2>2. op[o].row \in Rows
    BY <1>1 DEF MockWrites, FormInv
  <2>3. server' \in [Rows -> Nat]
    BY <1>1, <2>2 DEF MockWrites, JobInv
  <2>4. UNCHANGED <<table, job, vectors>>
    BY <1>1 DEF MockWrites
  <2> QED
    BY <2>1, <2>3, <2>4, BackendAlone
<1>2. CASE MockRefuses(o)
  <2>1. Mock
    BY <1>2, NetIsTheMocks DEF MockRefuses
  <2>2. UNCHANGED <<table, job, vectors, server>>
    BY <1>2 DEF MockRefuses, Refused
  <2> QED
    BY <2>1, <2>2, BackendAlone DEF JobInv
<1>3. CASE IngestAnswered(o)
  <2>1. UNCHANGED <<table, job, vectors, server>>
    BY <1>3 DEF IngestAnswered
  <2>2. ~Mock => net' = net
    <3>1. SUFFICES ASSUME ~Mock PROVE net' = net
      OBVIOUS
    <3>2. Requested(net) = net
      BY <3>1, NetIsTheMocks
    <3> QED
      BY <1>3, <3>2 DEF IngestAnswered, Invalidate
  <2> QED
    BY <2>1, <2>2, BackendAlone DEF JobInv
<1>4. CASE IngestFails(o)
  BY <1>4, JobUnchanged DEF IngestFails, Refused
<1>5. CASE CagAnswered(o)
  <2>1. job' = [job EXCEPT ![o] = "over"] /\ UNCHANGED <<table, net, server, vectors>>
    BY <1>5 DEF CagAnswered
  <2> QED
    BY <2>1 DEF JobInv, Mock, vectors, Added
<1> QED
  BY <1>1, <1>2, <1>3, <1>4, <1>5 DEF Answered

LEMMA SendLeavesRows ==
  ASSUME JobInv, NEW o \in Ops, NEW kind, NEW row, Send(o, kind, row)
  PROVE  JobInv'
<1>1. UNCHANGED <<table, server, vectors>> /\ (~Mock => net' = net)
  BY DEF Send
<1>2. \/ job' = job
      \/ \E state \in {"over", "received", "cag"} : job' = [job EXCEPT ![o] = state]
  <2>1. CASE Mock
    BY <2>1 DEF Send
  <2>2. CASE ~Mock /\ session # "taken"
    BY <2>2 DEF Send
  <2>3. CASE ~Mock /\ session = "taken"
    BY <2>3 DEF Send
  <2> QED
    BY <2>1, <2>2, <2>3
<1>3. /\ job' \in [Ops -> {"none", "cag", "received", "completed", "failed", "committed",
                           "over"}]
      /\ \A p \in Ops : job'[p] \in {"completed", "committed"} => job'[p] = job[p]
  BY <1>2 DEF JobInv
<1> QED
  BY <1>1, <1>3 DEF JobInv, Mock, vectors, Added

\* A job's document is added before it is completed, and its record comes last.
LEMMA IngestsInOrder ==
  ASSUME JobInv, NEW o \in Ops, Ingests(o)
  PROVE  JobInv'
<1>1. CASE JobCommits(o)
  <2>1. /\ job[o] \in {"completed", "failed"} /\ job' = [job EXCEPT ![o] = "committed"]
        /\ server' = [server EXCEPT ![NewRow(o)] = IF job[o] = "completed" THEN 1 ELSE 2]
        /\ UNCHANGED <<table, net, store, chunks, syncs>>
    BY <1>1 DEF JobCommits, Job
  <2>2. /\ server' \in [Rows -> Nat]
        /\ server'[NewRow(o)] = IF job[o] = "completed" THEN 1 ELSE 2
        /\ \A p \in Ops \ {o} : server'[NewRow(p)] = server[NewRow(p)]
    BY <2>1, RowsAre DEF JobInv
  <2> QED
    BY <2>1, <2>2 DEF JobInv, Mock, Added
<1>2. CASE JobAborts(o)
  <2>1. /\ job' = [job EXCEPT ![o] = "over"]
        /\ UNCHANGED <<table, net, server, store, chunks, syncs>>
    BY <1>2 DEF JobAborts, Job
  <2> QED
    BY <2>1 DEF JobInv, Mock, Added
<1>3. CASE \E added \in BOOLEAN : AddDocuments(o, added)
  <2>1. PICK added \in BOOLEAN, status \in {"completed", "failed"} :
          /\ job' = [job EXCEPT ![o] = status]
          /\ status = "completed" => added
          /\ chunks' = IF store = "pgvector" /\ added THEN chunks \cup {NewRow(o)}
                       ELSE chunks
          /\ syncs' = IF store = "bedrock_kb" /\ added THEN syncs \cup {NewRow(o)}
                      ELSE syncs
          /\ UNCHANGED <<table, net, server, store>>
    BY <1>3 DEF AddDocuments, StatusOf, Job
  <2>2. /\ chunks' \subseteq Rows /\ syncs' \subseteq Rows
        /\ \A r \in Rows : Added(r) => Added(r)'
        /\ ~Mock /\ status = "completed" => Added(NewRow(o))'
    BY <2>1, RowsAre DEF JobInv, Added
  <2>3. /\ job' \in [Ops -> {"none", "cag", "received", "completed", "failed", "committed",
                             "over"}]
        /\ \A p \in Ops \ {o} : job'[p] = job[p]
        /\ job'[o] = status
    BY <2>1 DEF JobInv
  <2> QED
    BY <2>1, <2>2, <2>3, RowsAre DEF JobInv, Mock
<1> QED
  BY <1>1, <1>2, <1>3 DEF Ingests

LEMMA JobKeeps ==
  ASSUME JobInv, FormInv, [Next]_vars
  PROVE  JobInv'
<1>1. CASE \E p \in Pages : Navigate(p) \/ Back(p) \/ Reload(p)
  BY <1>1, PagesLeaveBackend DEF Navigate, Back
<1>2. CASE GuardChecks \/ Logout \/ LoginAnswered
  BY <1>2, PagesLeaveBackend DEF GuardChecks, Logout, LoginAnswered
<1>3. CASE \/ SubmitLogin \/ LoginFails \/ Poll \/ ListRead \/ ListArrives \/ ListFails
           \/ UNCHANGED vars
           \/ \E s \in {"none", "taken", "refused"} : SessionChanges(s)
  <2>1. UNCHANGED <<table, net, server, job, vectors>>
    BY <1>3 DEF SubmitLogin, LoginFails, SessionChanges, Login, Poll, ListRead, List,
                ListArrives, ListFails, vars
  <2> QED
    BY <2>1, JobUnchanged
<1>4. CASE MockGet
  <2>1. Mock
    BY <1>4, NetIsTheMocks DEF MockGet
  <2> QED
    BY <1>4, <2>1, BackendAlone DEF MockGet, JobInv
<1>5. CASE \/ ChangeTab \/ CloseForm \/ CloseConfirm
           \/ (\E r \in Rows \cup {New} : OpenForm(r)) \/ \E r \in Rows : OpenConfirm(r)
  <2>1. UNCHANGED <<table, net, server, job, vectors>>
    BY <1>5 DEF ChangeTab, CloseForm, CloseConfirm, OpenForm, OpenConfirm, Dialogs
  <2> QED
    BY <2>1, JobUnchanged
<1>6. CASE \E o \in Ops : Submit(o) \/ Confirm(o)
  BY <1>6, SendLeavesRows DEF Submit, Confirm
<1>7. ASSUME NEW o \in Ops, Continues(o)
      PROVE  JobInv'
  <2>1. UNCHANGED <<table, net, server, job, vectors>>
    BY <1>7 DEF Continues, SettlesAway, SaveCloses, SaveSpeaks, RemoveCloses, Settles
  <2> QED
    BY <2>1, JobUnchanged
<1>8. CASE \E o \in Ops : Answered(o) \/ Ingests(o)
  BY <1>8, AnswersLeaveBackend, IngestsInOrder
<1> QED
  BY <1>1, <1>2, <1>3, <1>4, <1>5, <1>6, <1>7, <1>8 DEF Next, User

-----------------------------------------------------------------------------
LEMMA InvAlways == Spec => [](FormInv /\ JobInv)
<1>1. Init => FormInv /\ JobInv
  <2>1. SUFFICES ASSUME Init PROVE FormInv /\ JobInv
    OBVIOUS
  <2>2. FormInv
    BY <2>1, UnusedIs, FirstRowsType, RowsAre DEF Init, FormInv, FormKept
  <2>3. ~Mock => \A o \in Ops : server[NewRow(o)] = 0
    BY <2>1, RowsAre DEF Init, FirstRows, NoRows
  <2>4. JobInv
    <3>1. ~Mock => store \in Stores
      BY <2>1 DEF Init
    <3>2. \A o \in Ops : job[o] = "none"
      BY <2>1 DEF Init
    <3>3. store \in Stores \cup {"none"}
      BY <2>1 DEF Init
    <3> QED
      BY <2>1, <2>3, <3>1, <3>2, <3>3, FirstRowsType, StoresAssumption DEF Init, JobInv
  <2> QED
    BY <2>2, <2>4
<1> QED
  BY <1>1, FormKeeps, JobKeeps, PTL DEF Spec

\* A save closes, and speaks in, its own form only (UsersTable, RolesTable, IngestionTable
\* and their dialogs), unless that was closed and opened again while the save was pending,
\* for any number of saves, visits and reloads.
THEOREM FormKeptEver == Spec => []FormKept
<1>1. FormInv => FormKept
  BY DEF FormInv
<1> QED
  BY <1>1, InvAlways, PTL

-----------------------------------------------------------------------------
(* The mock's requests *)

\* Requests among which there is one for the list at most.
Queue(s) == s \in Seq(0..MaxOps) /\ \A i, j \in Gets(s) : i = j

\* A request of the list takes the place of the one before it.
LEMMA RequestedIs ==
  ASSUME NEW s, Queue(s), Mock
  PROVE  Queue(Requested(s)) /\ Gets(Requested(s)) # {}
<1> DEFINE t == GivenUp(s)
<1>1. s \in Seq(0..MaxOps) /\ Len(s) \in Nat
  BY DEF Queue
<1>2. t \in Seq(0..MaxOps) /\ \A i \in 1..Len(t) : t[i] # Get
  <2>1. CASE Gets(s) = {}
    BY <1>1, <2>1 DEF GivenUp, Gets
  <2>2. CASE Gets(s) # {}
    <3>1. PICK k \in Gets(s) : t = Without(s, k)
      BY <2>2 DEF GivenUp
    <3>2. k \in 1..Len(s) /\ \A i \in 1..Len(s) : s[i] = Get => i = k
      BY <3>1 DEF Gets, Queue
    <3> DEFINE before == SubSeq(s, 1, k - 1)
               after == SubSeq(s, k + 1, Len(s))
    <3>3. /\ before \in Seq(0..MaxOps) /\ Len(before) = k - 1
          /\ \A i \in 1..(k - 1) : before[i] = s[i]
      <4>1. 1 \in Int /\ k - 1 \in Int /\ \A i \in 1..(k - 1) : s[i] \in 0..MaxOps
        BY <1>1, <3>2, BoundAssumption
      <4>2. /\ before \in Seq(0..MaxOps)
            /\ Len(before) = IF 1 <= k - 1 THEN k - 1 - 1 + 1 ELSE 0
            /\ \A i \in 1..(k - 1 - 1 + 1) : before[i] = s[1 + i - 1]
        BY <4>1, SubSeqProperties
      <4> HIDE DEF before
      <4> QED
        BY <1>1, <3>2, <4>2
    <3>4. /\ after \in Seq(0..MaxOps) /\ Len(after) = Len(s) - k
          /\ \A i \in 1..(Len(s) - k) : after[i] = s[k + i]
      <4>1. k + 1 \in Int /\ Len(s) \in Int /\ \A i \in (k + 1)..Len(s) : s[i] \in 0..MaxOps
        BY <1>1, <3>2, BoundAssumption
      <4>2. /\ after \in Seq(0..MaxOps)
            /\ Len(after) = IF k + 1 <= Len(s) THEN Len(s) - (k + 1) + 1 ELSE 0
            /\ \A i \in 1..(Len(s) - (k + 1) + 1) : after[i] = s[k + 1 + i - 1]
        BY <4>1, SubSeqProperties
      <4> HIDE DEF after
      <4> QED
        BY <1>1, <3>2, <4>2
    <3>5. t = before \o after
      BY <3>1 DEF Without
    <3> HIDE DEF before, after, t
    <3>6. t \in Seq(0..MaxOps) /\ Len(t) = Len(s) - 1
      BY <1>1, <3>2, <3>3, <3>4, <3>5, ConcatProperties
    <3>7. \A i \in 1..Len(t) : t[i] = IF i < k THEN s[i] ELSE s[i + 1]
      BY <1>1, <3>2, <3>3, <3>4, <3>5, <3>6, ConcatProperties
    <3>8. \A i \in 1..Len(t) : t[i] # Get
      BY <1>1, <3>2, <3>6, <3>7
    <3> QED
      BY <3>6, <3>8
  <2> QED
    BY <2>1, <2>2
<1> HIDE DEF t
<1>3. Requested(s) = Append(t, Get)
  BY DEF Requested, t
<1>4. Get \in 0..MaxOps
  BY BoundAssumption DEF Get
<1>5. /\ Append(t, Get) \in Seq(0..MaxOps)
      /\ Gets(Append(t, Get)) = {Len(t) + 1}
  BY <1>2, <1>4 DEF Gets
<1> QED
  BY <1>3, <1>5 DEF Queue

\* The first request leaves the queue.
LEMMA TailIs ==
  ASSUME NEW s, Queue(s), s # <<>>
  PROVE  /\ Queue(Tail(s))
         /\ Head(s) = Get => Gets(Tail(s)) = {}
         /\ Head(s) # Get => (Gets(Tail(s)) = {} <=> Gets(s) = {})
<1>1. /\ s \in Seq(0..MaxOps) /\ Len(s) \in Nat /\ Len(s) > 0 /\ Head(s) = s[1]
  BY DEF Queue
<1>2. /\ Tail(s) \in Seq(0..MaxOps) /\ Len(Tail(s)) = Len(s) - 1
      /\ \A i \in 1..(Len(s) - 1) : Tail(s)[i] = s[i + 1]
  BY <1>1
<1>3. \A i \in Gets(Tail(s)) : i \in Nat /\ i + 1 \in Gets(s) /\ i + 1 # 1
  BY <1>1, <1>2 DEF Gets
<1>4. \A i \in Gets(s) : i # 1 => i - 1 \in Gets(Tail(s))
  BY <1>1, <1>2 DEF Gets
<1>5. Queue(Tail(s))
  BY <1>2, <1>3 DEF Queue
<1>6. Head(s) = Get <=> 1 \in Gets(s)
  BY <1>1 DEF Gets
<1>7. Head(s) = Get => Gets(Tail(s)) = {}
  BY <1>3, <1>6 DEF Queue
<1>8. Head(s) # Get => (Gets(Tail(s)) = {} <=> Gets(s) = {})
  BY <1>3, <1>4, <1>6
<1> QED
  BY <1>5, <1>7, <1>8

\* An op's request joins it.
LEMMA AppendIs ==
  ASSUME NEW s, Queue(s), NEW o \in Ops
  PROVE  Queue(Append(s, o)) /\ (Gets(Append(s, o)) = {} <=> Gets(s) = {})
<1>1. o \in 0..MaxOps /\ o # Get
  BY RowsAre, BoundAssumption DEF Ops, Get
<1>2. s \in Seq(0..MaxOps) /\ Append(s, o) \in Seq(0..MaxOps)
  BY <1>1 DEF Queue
<1>3. Gets(Append(s, o)) = Gets(s)
  BY <1>1, <1>2 DEF Gets
<1> QED
  BY <1>2, <1>3 DEF Queue

LEMMA NothingIs == Queue(<<>>) /\ Gets(<<>>) = {}
BY DEF Queue, Gets

-----------------------------------------------------------------------------
(* What is shown *)

QueryRecords ==
  [data : [Rows -> Nat], have : BOOLEAN, alias : BOOLEAN, stale : BOOLEAN,
   failed : BOOLEAN, fetch : {"idle", "asked", "read"}]

\* The types that FormInv and JobInv leave out, and the pages of the dialogs.
RestInv ==
  /\ table \in Tables /\ session \in {"none", "taken", "refused"}
  /\ page \in Pages /\ guard \in BOOLEAN /\ signing \in BOOLEAN
  /\ query \in QueryRecords
  /\ carried \in [Rows -> Nat] /\ shown \in [Rows -> Nat]
  /\ formOp \in 0..MaxOps /\ alert \in {"none", "error", "result"}
  /\ hasty \subseteq Ops /\ reopened \subseteq Ops /\ intruded \in BOOLEAN
  /\ form # Closed \/ confirm # New \/ (\E o \in Ops : op[o].here) => There

\* A fetch of the mock's is under way when its request is in the queue.
NetInv ==
  /\ Queue(net)
  /\ Mock => /\ Fetching <=> Gets(net) # {}
             /\ query.fetch # "read"

\* A list of the mock's that is not marked is the server's, and a table on the
\* screen is rendered with it or waits for it.
FreshInv ==
  Mock =>
    /\ query.have /\ ~query.stale /\ ~Fetching => Data = server
    /\ There /\ ~Fetching =>
         /\ query.have /\ ~query.stale
         /\ shown = server \/ query.alias

\* A row that is not added yet is nowhere.
Unborn(p) == op[p].phase = "none" \/ (op[p].phase = "sent" /\ op[p].kind = "add")
Nowhere(p) ==
  /\ server[NewRow(p)] = 0 /\ query.data[NewRow(p)] = 0 /\ shown[NewRow(p)] = 0
  /\ form # NewRow(p) /\ confirm # NewRow(p)
  /\ \A o \in Ops : o # p => op[o].row # NewRow(p)

UnbornInv == Mock => \A p \in Ops : Unborn(p) => Nowhere(p)

\* What the server has of an op.
Has(o, rows) ==
  IF op[o].kind = "remove" THEN rows[op[o].row] = 0
  ELSE rows[op[o].row] >= op[o].wrote \/ server[op[o].row] = 0

OpsInv ==
  /\ \A o \in Ops :
       /\ op[o].phase \in {"none", "sent", "over"} => ~op[o].ok
       /\ op[o].phase \in {"refetching", "handed"} => op[o].ok
       /\ op[o].phase \in {"none", "over"} => ~op[o].here
       /\ op[o].phase \in {"sent", "refetching", "handed", "settled"} => op[o].row \in Rows
  /\ Mock => \A o \in Ops :
       /\ op[o].kind = "add" => op[o].row = NewRow(o)
       /\ op[o].phase = "sent" => op[o].kind \in {"add", "edit", "remove"}
       /\ op[o].ok => Has(o, server)
       /\ job[o] = "none"

\* The backend's list has no row edited or removed, and a fetch that has read it
\* has the rows of those that wait for it.
ListInv ==
  ~Mock =>
    /\ ~query.alias
    /\ form \in {New, Closed} /\ confirm = New
    /\ \A o \in Ops :
         /\ op[o].kind \in {"none", "add", "cag"}
         /\ op[o].phase \in {"sent", "refetching", "handed"} => op[o].row = NewRow(o)
         /\ op[o].phase = "sent" /\ job[o] = "cag" => op[o].kind = "cag"
         /\ op[o].phase \in {"refetching", "handed"} =>
              job[o] = "committed" /\ op[o].wrote = server[NewRow(o)]
         /\ op[o].phase \in {"refetching", "handed"} /\ o \notin hasty /\ query.fetch = "read"
              => carried[NewRow(o)] >= op[o].wrote

SettledInv ==
  \A o \in Ops :
    op[o].phase = "settled" /\ op[o].ok /\ op[o].here /\ op[o].kind # "cag"
    /\ o \notin hasty /\ ~query.failed
    => Has(o, Data)

ShowInv ==
  RestInv /\ NetInv /\ FreshInv /\ UnbornInv /\ OpsInv /\ ListInv /\ SettledInv
Known == FormInv /\ JobInv /\ ShowInv

-----------------------------------------------------------------------------
(* Fields *)

LEMMA NoQueryIs ==
  /\ NoQuery \in QueryRecords /\ NoQuery.data = NoRows /\ NoQuery.fetch = "idle"
  /\ ~NoQuery.have /\ ~NoQuery.alias /\ ~NoQuery.stale /\ ~NoQuery.failed
BY FirstRowsType DEF NoQuery, QueryRecords

\* A fetch that begins changes nothing else of the query.
LEMMA AskIs ==
  ASSUME NEW q \in QueryRecords
  PROVE  /\ Ask(q) \in QueryRecords /\ Ask(q).data = q.data /\ Ask(q).have = q.have
         /\ Ask(q).alias = q.alias /\ Ask(q).stale = q.stale /\ Ask(q).failed = q.failed
         /\ Ask(q).fetch = "asked"
BY DEF QueryRecords, Ask

LEMMA MarkIs ==
  ASSUME NEW q \in QueryRecords
  PROVE  LET m == [q EXCEPT !.stale = TRUE]
         IN  /\ m \in QueryRecords /\ m.data = q.data /\ m.have = q.have
             /\ m.alias = q.alias /\ m.stale /\ m.failed = q.failed /\ m.fetch = q.fetch
BY DEF QueryRecords

LEMMA DataType ==
  ASSUME RestInv, FormInv
  PROVE  Data \in [Rows -> Nat] /\ query.data \in [Rows -> Nat]
BY DEF RestInv, FormInv, QueryRecords, Data

LEMMA OpType ==
  ASSUME FormInv, NEW o \in Ops
  PROVE  /\ op[o].kind \in Saves \cup {"remove", "none"} /\ op[o].row \in 0..(MaxOps + 1)
         /\ op[o].phase \in {"none", "sent", "refetching", "handed", "settled", "over"}
         /\ op[o].ok \in BOOLEAN /\ op[o].here \in BOOLEAN /\ op[o].wrote \in Nat
BY DEF FormInv, OpRecords

\* The ops as a fetch that arrives releases them.
LEMMA ReleasedIs ==
  ASSUME FormInv, NEW W, NEW p \in Ops
  PROVE  /\ Released(W)[p].kind = op[p].kind /\ Released(W)[p].row = op[p].row
         /\ Released(W)[p].ok = op[p].ok /\ Released(W)[p].here = op[p].here
         /\ Released(W)[p].wrote = op[p].wrote
         /\ Released(W)[p].phase = IF p \in W THEN "settled" ELSE op[p].phase
<1>1. op[p] \in OpRecords
  BY DEF FormInv
<1>2. Released(W)[p] = IF p \in W THEN [op[p] EXCEPT !.phase = "settled"] ELSE op[p]
  BY DEF Released
<1> QED
  BY <1>1, <1>2 DEF OpRecords

-----------------------------------------------------------------------------
(* What is shown: the pages *)

\* The ops of a page that goes, field by field.
LEMMA AwayIs ==
  ASSUME FormInv, op' = [o \in Ops |-> [op[o] EXCEPT !.here = FALSE]], NEW p \in Ops
  PROVE  /\ op'[p].kind = op[p].kind /\ op'[p].row = op[p].row /\ op'[p].ok = op[p].ok
         /\ op'[p].wrote = op[p].wrote /\ op'[p].phase = op[p].phase /\ op'[p].here = FALSE
<1>1. op[p] \in OpRecords
  BY DEF FormInv
<1>2. op'[p] = [op[p] EXCEPT !.here = FALSE]
  OBVIOUS
<1> QED
  BY <1>1, <1>2 DEF OpRecords

\* The table appears with a list that is not marked, or asks for one.
LEMMA AppearIs ==
  ASSUME Known, Appear, UNCHANGED <<table, server>>
  PROVE  /\ query' \in QueryRecords /\ query'.data = query.data
         /\ query'.have = query.have /\ query'.alias = query.alias
         /\ query'.stale = query.stale
         /\ query'.fetch = query.fetch \/ query'.fetch = "asked"
         /\ Fetching' \/ (query.have /\ ~query.stale)
         /\ shown' = Data /\ Data' = Data /\ carried' = carried
         /\ NetInv'
<1>1. PICK needed \in BOOLEAN :
        /\ needed => ~Fetching
        /\ ~needed => Fetching \/ (query.have /\ ~query.stale)
        /\ query' = IF needed THEN Ask(query) ELSE query
        /\ net' = IF needed THEN Requested(net) ELSE net
        /\ shown' = Data /\ carried' = carried
  BY DEF Appear
<1>2. query \in QueryRecords
  BY DEF Known, ShowInv, RestInv
<1>3. CASE needed
  <2>1. query' = Ask(query) /\ net' = Requested(net)
    BY <1>1, <1>3
  <2>2. Queue(net') /\ (Mock => Gets(net') # {})
    BY <2>1, RequestedIs DEF Known, ShowInv, NetInv, Requested
  <2>3. NetInv'
    BY <1>2, <2>1, <2>2, AskIs DEF NetInv, Fetching, Mock
  <2> QED
    BY <1>1, <1>2, <2>1, <2>3, AskIs DEF Data, Fetching
<1>4. CASE ~needed
  <2>1. query' = query /\ net' = net
    BY <1>1, <1>4
  <2>2. NetInv'
    BY <2>1 DEF Known, ShowInv, NetInv, Fetching, Mock
  <2> QED
    BY <1>1, <1>2, <1>4, <2>1, <2>2 DEF Data, Fetching
<1> QED
  BY <1>3, <1>4

LEMMA GotoShows ==
  ASSUME Known, NEW p \in Pages, NEW seen \in BOOLEAN, Goto(p, seen),
         session' \in {"none", "taken", "refused"}, signing' \in BOOLEAN
  PROVE  ShowInv'
<1>1. /\ page' = p /\ guard' = seen
      /\ form' = Closed /\ formOp' = 0 /\ alert' = "none" /\ confirm' = New
      /\ op' = [o \in Ops |-> [op[o] EXCEPT !.here = FALSE]]
      /\ UNCHANGED <<table, server, job, hasty, reopened, intruded>>
  BY DEF Goto, NoDialogs, history
<1>2. \A o \in Ops :
        /\ op'[o].kind = op[o].kind /\ op'[o].row = op[o].row /\ op'[o].ok = op[o].ok
        /\ op'[o].wrote = op[o].wrote /\ op'[o].phase = op[o].phase
        /\ op'[o].here = FALSE
  BY <1>1, AwayIs DEF Known
<1>3. /\ query' \in QueryRecords /\ query'.data = query.data
      /\ query'.have = query.have /\ query'.alias = query.alias
      /\ query'.stale = query.stale
      /\ query'.fetch = query.fetch \/ query'.fetch = "asked"
      /\ Data' = Data /\ carried' = carried
      /\ NetInv'
      /\ shown' = NoRows \/ shown' = Data
      /\ There' => (Fetching' \/ (query.have /\ ~query.stale)) /\ shown' = Data
  <2>1. CASE p = "table" /\ seen
    <3>1. Appear
      BY <2>1 DEF Goto
    <3> QED
      BY <1>1, <3>1, AppearIs
  <2>2. CASE ~(p = "table" /\ seen)
    <3>1. shown' = NoRows /\ query' = query /\ carried' = carried /\ net' = net
      BY <2>2 DEF Goto
    <3>2. ~There'
      BY <1>1, <2>2 DEF There
    <3> QED
      BY <1>1, <3>1, <3>2 DEF Known, ShowInv, RestInv, NetInv, Fetching, Mock, Data
  <2> QED
    BY <2>1, <2>2
<1>4. Mock' = Mock /\ Closed' = Closed /\ New' = New
  BY <1>1 DEF Mock, Closed, New
<1>5. RestInv'
  <2>1. Data \in [Rows -> Nat] /\ NoRows \in [Rows -> Nat]
    BY DataType, FirstRowsType DEF Known, ShowInv
  <2>2. 0 \in 0..MaxOps
    BY BoundAssumption
  <2> QED
    BY <1>1, <1>2, <1>3, <2>1, <2>2 DEF Known, ShowInv, RestInv, Closed, New
<1>6. FreshInv'
  BY <1>1, <1>3, <1>4 DEF Known, ShowInv, FreshInv, Fetching, Data
<1>7. UnbornInv'
  <2>1. ASSUME Mock, NEW q \in Ops, Unborn(q)' PROVE Nowhere(q)'
    <3>1. Unborn(q)
      BY <1>2, <2>1 DEF Unborn
    <3>2. Nowhere(q)
      BY <2>1, <3>1 DEF Known, ShowInv, UnbornInv
    <3>3. shown'[NewRow(q)] = 0
      BY <1>3, <3>2, RowsAre DEF Nowhere, NoRows, Data
    <3>4. form' # NewRow(q) /\ confirm' # NewRow(q)
      BY <1>1, RowsAre
    <3>5. server'[NewRow(q)] = 0 /\ query'.data[NewRow(q)] = 0
      BY <1>1, <1>3, <3>2 DEF Nowhere
    <3>6. \A o \in Ops : o # q => op'[o].row # NewRow(q)
      BY <1>2, <3>2 DEF Nowhere
    <3> QED
      BY <3>3, <3>4, <3>5, <3>6 DEF Nowhere
  <2> QED
    BY <1>4, <2>1 DEF UnbornInv
<1>8. OpsInv'
  BY <1>1, <1>2, <1>4 DEF Known, ShowInv, OpsInv, Has
<1>9. ListInv'
  BY <1>1, <1>2, <1>3, <1>4 DEF Known, ShowInv, ListInv
<1>10. SettledInv'
  BY <1>2 DEF SettledInv
<1> QED
  BY <1>3, <1>5, <1>6, <1>7, <1>8, <1>9, <1>10 DEF ShowInv

LEMMA ReloadShows ==
  ASSUME Known, NEW p \in Pages, Reload(p)
  PROVE  ShowInv'
<1>1. /\ page' = p /\ guard' = FALSE /\ signing' = FALSE
      /\ query' = NoQuery /\ carried' = NoRows /\ shown' = NoRows
      /\ form' = Closed /\ formOp' = 0 /\ alert' = "none" /\ confirm' = New
      /\ op' = [o \in Ops |->
           IF op[o].phase = "none" THEN op[o] ELSE Over]
      /\ net' = <<>>
      /\ server' = IF Mock THEN FirstRows ELSE server
      /\ hasty' = {} /\ reopened' = {}
      /\ UNCHANGED <<table, session, job, intruded>>
  BY DEF Reload, NoDialogs
<1>2. \A o \in Ops :
        \/ op[o].phase = "none" /\ op'[o] = op[o]
        \/ /\ op'[o].phase = "over" /\ ~op'[o].ok /\ ~op'[o].here /\ op'[o].row = 0
           /\ op'[o].kind = "none"
  BY <1>1, OverIs
<1>3. Mock' = Mock /\ ~There'
  BY <1>1 DEF Mock, There
<1>4. RestInv'
  <2>1. 0 \in 0..MaxOps
    BY BoundAssumption
  <2>2. \A o \in Ops : ~op'[o].here
    BY <1>2 DEF Known, ShowInv, OpsInv
  <2> QED
    BY <1>1, <2>1, <2>2, NoQueryIs, FirstRowsType DEF Known, ShowInv, RestInv, Closed, New
<1>5. NetInv'
  BY <1>1, NothingIs, NoQueryIs DEF NetInv, Fetching
<1>6. FreshInv'
  BY <1>1, <1>3, NoQueryIs DEF FreshInv
<1>7. UnbornInv'
  <2>1. ASSUME Mock, NEW q \in Ops, Unborn(q)' PROVE Nowhere(q)'
    <3>1. op[q].phase = "none"
      BY <1>2, <2>1 DEF Unborn
    <3>2. Nowhere(q)
      BY <2>1, <3>1 DEF Known, ShowInv, UnbornInv, Unborn
    <3>3. NoRows[NewRow(q)] = 0 /\ FirstRows[NewRow(q)] = 0
      BY RowsAre DEF NoRows, FirstRows
    <3>4. \A o \in Ops : o # q => op'[o].row # NewRow(q)
      BY <1>2, <3>2, RowsAre DEF Nowhere, New
    <3> QED
      BY <1>1, <2>1, <3>3, <3>4, RowsAre, NoQueryIs DEF Nowhere
  <2> QED
    BY <1>3, <2>1 DEF UnbornInv
<1>8. OpsInv'
  <2>1. \A o \in Ops : op[o].phase = "none" => ~op[o].ok /\ ~op[o].here
    BY DEF Known, ShowInv, OpsInv
  <2>2. \A o \in Ops : ~op'[o].ok /\ ~op'[o].here /\ op'[o].phase \in {"none", "over"}
    BY <1>2, <2>1
  <2>3. Mock => \A o \in Ops : op'[o].kind = "add" => op'[o].row = NewRow(o)
    BY <1>2 DEF Known, ShowInv, OpsInv
  <2>4. Mock => \A o \in Ops : job'[o] = "none"
    BY <1>1 DEF Known, ShowInv, OpsInv
  <2> QED
    BY <1>3, <2>2, <2>3, <2>4 DEF OpsInv
<1>9. ListInv'
  BY <1>1, <1>2, <1>3, NoQueryIs DEF Known, ShowInv, ListInv
<1>10. SettledInv'
  BY <1>2 DEF SettledInv
<1> QED
  BY <1>4, <1>5, <1>6, <1>7, <1>8, <1>9, <1>10 DEF ShowInv

-----------------------------------------------------------------------------
(* What is shown: the dialogs *)

\* The session, and nothing else of the page.
LEMMA LoginShows ==
  ASSUME Known, \E waits \in BOOLEAN : Login(waits),
         session' \in {"none", "taken", "refused"}
  PROVE  ShowInv'
<1>1. /\ signing' \in BOOLEAN
      /\ UNCHANGED <<table, guard, page, query, carried, shown, form, formOp, alert,
                     confirm, op, net, server, job, hasty, reopened, intruded>>
  BY DEF Login, cache, dialogs, history
<1>2. Mock' = Mock /\ There' = There /\ Data' = Data /\ Fetching' = Fetching
  BY <1>1 DEF Mock, There, Data, Fetching
<1>3. RestInv'
  BY <1>1, <1>2 DEF Known, ShowInv, RestInv, Closed, New
<1>4. NetInv' /\ FreshInv' /\ ListInv'
  BY <1>1, <1>2 DEF Known, ShowInv, NetInv, FreshInv, ListInv, Closed, New
<1>5. UnbornInv' /\ OpsInv' /\ SettledInv'
  BY <1>1, <1>2 DEF Known, ShowInv, UnbornInv, Unborn, Nowhere, OpsInv, Has, SettledInv
<1> QED
  BY <1>3, <1>4, <1>5 DEF ShowInv

\* The query, the queue and the server stay as they are; the table may be rendered
\* anew; a row that a dialog is about is on the screen.
LEMMA RenderShows ==
  ASSUME Known, Quiet,
         UNCHANGED <<table, session, guard, signing, page, query, carried, op, net, server, job,
                     hasty, intruded>>,
         shown' \in {shown, Data},
         form' \in {form, Closed, New} \/ (Mock /\ form' \in Rows /\ shown[form'] > 0),
         confirm' \in {confirm, New} \/ (Mock /\ confirm' \in Rows /\ shown[confirm'] > 0),
         formOp' \in 0..MaxOps, alert' \in {"none", "error", "result"},
         reopened' \subseteq Ops,
         form' = Closed \/ form' = form \/ There,
         confirm' = New \/ confirm' = confirm \/ There
  PROVE  ShowInv'
<1>1. Mock' = Mock /\ There' = There /\ Data' = Data /\ Fetching' = Fetching
  BY DEF Mock, There, Data, Fetching
<1>2. Data \in [Rows -> Nat]
  BY DataType DEF Known, ShowInv
<1>3. RestInv'
  BY <1>1, <1>2 DEF Known, ShowInv, RestInv, Closed, New
<1>4. NetInv' /\ FreshInv'
  BY <1>1 DEF Known, ShowInv, NetInv, FreshInv
<1>5. ListInv'
  BY <1>1 DEF Known, ShowInv, ListInv, Closed, New
<1>6. UnbornInv'
  <2>1. ASSUME Mock, NEW q \in Ops, Unborn(q) PROVE Nowhere(q)'
    <3>1. Nowhere(q)
      BY <2>1 DEF Known, ShowInv, UnbornInv
    <3>2. shown'[NewRow(q)] = 0
      BY <3>1 DEF Nowhere, Data
    <3>3. form' # NewRow(q)
      BY <3>1, RowsAre DEF Nowhere
    <3>4. confirm' # NewRow(q)
      BY <3>1, RowsAre DEF Nowhere
    <3> QED
      BY <3>1, <3>2, <3>3, <3>4 DEF Nowhere
  <2> QED
    BY <1>1, <2>1 DEF UnbornInv, Unborn
<1>7. OpsInv' /\ SettledInv'
  BY <1>1 DEF Known, ShowInv, OpsInv, Has, SettledInv
<1> QED
  BY <1>3, <1>4, <1>5, <1>6, <1>7 DEF ShowInv

LEMMA DialogsShow ==
  ASSUME Known,
         \/ CloseForm \/ ChangeTab \/ CloseConfirm
         \/ (\E r \in Rows \cup {New} : OpenForm(r)) \/ \E r \in Rows : OpenConfirm(r)
  PROVE  ShowInv'
<1>1. /\ Quiet /\ shown' = Data
      /\ UNCHANGED <<table, session, guard, signing, page, query, carried, op, net, server, job,
                     hasty, intruded>>
  BY DEF CloseForm, ChangeTab, CloseConfirm, OpenForm, OpenConfirm, Dialogs, auth
<1>2. /\ formOp \in 0..MaxOps /\ alert \in {"none", "error", "result"} /\ reopened \subseteq Ops
      /\ 0 \in 0..MaxOps
  BY BoundAssumption DEF Known, ShowInv, RestInv
<1>3. CASE CloseForm \/ ChangeTab \/ CloseConfirm
  <2>1. /\ form' \in {form, Closed} /\ confirm' \in {confirm, New} /\ formOp' \in {0, formOp}
        /\ alert' \in {"none", alert} /\ reopened' = reopened
    BY <1>3 DEF CloseForm, ChangeTab, CloseConfirm
  <2> QED
    BY <1>1, <1>2, <2>1, RenderShows
<1>4. ASSUME NEW r \in Rows \cup {New}, OpenForm(r) PROVE ShowInv'
  <2>1. /\ form' = r /\ formOp' = 0 /\ alert' \in {"none", alert} /\ confirm' = confirm
        /\ reopened' = reopened \cup Pending(Saves) /\ There
        /\ r # New => Mock /\ shown[r] > 0
    BY <1>4 DEF OpenForm, OnScreen
  <2>2. reopened' \subseteq Ops
    BY <1>2, <2>1 DEF Pending
  <2> QED
    BY <1>1, <1>2, <2>1, <2>2, RenderShows
<1>5. ASSUME NEW r \in Rows, OpenConfirm(r) PROVE ShowInv'
  <2>1. /\ confirm' = r /\ There /\ Mock /\ shown[r] > 0
        /\ UNCHANGED <<form, formOp, alert, reopened>>
    BY <1>5 DEF OpenConfirm, OnScreen
  <2> QED
    BY <1>1, <1>2, <2>1, RenderShows
<1> QED
  BY <1>3, <1>4, <1>5

\* An op goes out: its row is the one it adds, or was on the screen.
LEMMA SendShows ==
  ASSUME Known, Quiet, NEW o \in Ops, NEW kind \in Saves \cup {"remove"}, NEW row \in Rows,
         Send(o, kind, row), There,
         UNCHANGED <<form, confirm>>, formOp' \in 0..MaxOps,
         alert' \in {"none", "error", "result"},
         IF Mock THEN IF kind = "add" THEN row = NewRow(o)
                      ELSE kind \in {"edit", "remove"} /\ row \in {form, confirm}
                 ELSE kind \in {"add", "cag"} /\ row = NewRow(o)
  PROVE  ShowInv'
<1> DEFINE r == [Unused EXCEPT !.kind = kind, !.row = row, !.phase = "sent", !.here = TRUE]
<1>1. /\ op[o].phase = "none" /\ op' = [op EXCEPT ![o] = r]
      /\ net' = IF Mock THEN Append(net, o) ELSE net
      /\ shown' \in {shown, Data}
      /\ UNCHANGED <<table, session, guard, signing, page, query, carried, server,
                     hasty, reopened, intruded>>
      /\ Mock => job' = job
      /\ \A p \in Ops \ {o} : job'[p] = job[p]
      /\ ~Mock /\ job'[o] = "cag" => kind # "add"
  <2>1. job' = job \/ \E s \in {"over", "received", "cag"} : job' = [job EXCEPT ![o] = s]
    <3>1. CASE Mock
      BY <3>1 DEF Send
    <3>2. CASE ~Mock /\ session # "taken"
      BY <3>2 DEF Send
    <3>3. CASE ~Mock /\ session = "taken"
      BY <3>3 DEF Send
    <3> QED
      BY <3>1, <3>2, <3>3
  <2>2. \A p \in Ops \ {o} : job'[p] = job[p]
    BY <2>1 DEF Known, JobInv
  <2>3. ~Mock /\ job'[o] = "cag" => kind # "add"
    <3>1. CASE ~Mock /\ session # "taken"
      BY <3>1 DEF Send, Known, JobInv
    <3>2. CASE ~Mock /\ session = "taken"
      BY <3>2 DEF Send, Known, JobInv
    <3> QED
      BY <3>1, <3>2
  <2> QED
    BY <2>2, <2>3 DEF Send, SentShown, auth, history
<1>2. /\ r.kind = kind /\ r.row = row /\ r.phase = "sent" /\ r.ok = FALSE /\ r.here
  BY DEF Unused
<1> HIDE DEF r
<1>3. op'[o] = r /\ \A p \in Ops \ {o} : op'[p] = op[p]
  BY <1>1 DEF Known, FormInv
<1>4. Mock' = Mock /\ There' = There /\ Data' = Data /\ Fetching' = Fetching
  BY <1>1 DEF Mock, There, Data, Fetching
<1>5. RestInv'
  <2>1. Data \in [Rows -> Nat]
    BY DataType DEF Known, ShowInv
  <2> QED
    BY <1>1, <1>4, <2>1 DEF Known, ShowInv, RestInv, Closed, New
<1>6. NetInv'
  BY <1>1, <1>4, AppendIs DEF Known, ShowInv, NetInv
<1>7. FreshInv'
  BY <1>1, <1>4 DEF Known, ShowInv, FreshInv
<1>8. UnbornInv'
  <2>1. ASSUME Mock, NEW q \in Ops, Unborn(q)' PROVE Nowhere(q)'
    <3>1. Unborn(q)
      BY <1>1, <1>3, <2>1 DEF Unborn
    <3>2. Nowhere(q)
      BY <2>1, <3>1 DEF Known, ShowInv, UnbornInv
    <3>3. Data[NewRow(q)] = 0
      BY <3>2 DEF Nowhere, Data
    <3>4. q # o => row # NewRow(q)
      BY <2>1, <3>2, RowsAre DEF Nowhere
    <3>5. \A p \in Ops : p # q => op'[p].row # NewRow(q)
      BY <1>2, <1>3, <3>2, <3>4 DEF Nowhere
    <3> QED
      BY <1>1, <3>2, <3>3, <3>5 DEF Nowhere
  <2> QED
    BY <1>4, <2>1 DEF UnbornInv
<1>9. OpsInv'
  <2>1. \A p \in Ops \ {o} : Has(p, server)' <=> Has(p, server)
    BY <1>1, <1>3 DEF Has
  <2>2. Mock => kind \in {"add", "edit", "remove"} /\ (kind = "add" => row = NewRow(o))
    OBVIOUS
  <2> QED
    BY <1>1, <1>2, <1>3, <1>4, <2>1, <2>2 DEF Known, ShowInv, OpsInv
<1>10. ListInv'
  BY <1>1, <1>2, <1>3, <1>4 DEF Known, ShowInv, ListInv, Closed, New
<1>11. SettledInv'
  BY <1>2, <1>3 DEF SettledInv, Quiet
<1> QED
  BY <1>5, <1>6, <1>7, <1>8, <1>9, <1>10, <1>11 DEF ShowInv

LEMMA SendsShow ==
  ASSUME Known, NEW o \in Ops, Submit(o) \/ Confirm(o)
  PROVE  ShowInv'
<1>1. /\ o \in 0..MaxOps /\ formOp \in 0..MaxOps /\ alert \in {"none", "error", "result"}
  BY RowsAre DEF Known, ShowInv, RestInv
<1>2. CASE Submit(o)
  <2>1. /\ Quiet /\ form # Closed /\ formOp' = o /\ alert' = "none"
        /\ UNCHANGED <<form, confirm>>
    BY <1>2 DEF Submit
  <2>2. There
    BY <2>1 DEF Known, ShowInv, RestInv
  <2>3. PICK kind \in FormKinds : Send(o, kind, IF form = New THEN NewRow(o) ELSE form)
    BY <1>2 DEF Submit
  <2>4. PICK row \in Rows : row = IF form = New THEN NewRow(o) ELSE form
    BY <2>1, RowsAre DEF Known, FormInv
  <2>5. kind \in Saves /\ IF Mock THEN IF kind = "add" THEN row = NewRow(o)
                                       ELSE kind = "edit" /\ row = form
                                  ELSE kind \in {"add", "cag"} /\ row = NewRow(o)
    <3>1. CASE form # New
      <4>1. Mock /\ kind = "edit" /\ row = form
        BY <2>1, <2>4, <3>1 DEF FormKinds, Known, ShowInv, ListInv
      <4> QED
        BY <4>1 DEF Saves
    <3>2. CASE form = New /\ Mock
      BY <2>4, <3>2 DEF FormKinds, Saves
    <3>3. CASE form = New /\ ~Mock
      BY <2>4, <3>3 DEF FormKinds, Saves
    <3> QED
      BY <3>1, <3>2, <3>3
  <2>6. Send(o, kind, row)
    BY <2>3, <2>4
  <2> QED
    BY <1>1, <2>1, <2>2, <2>5, <2>6, SendShows
<1>3. CASE Confirm(o)
  <2>1. /\ Quiet /\ confirm # New /\ Send(o, "remove", confirm)
        /\ UNCHANGED <<form, formOp, alert, confirm>>
    BY <1>3 DEF Confirm, dialogs
  <2>2. There /\ Mock
    BY <2>1 DEF Known, ShowInv, RestInv, ListInv
  <2>3. PICK row \in Rows : row = confirm
    BY <2>1 DEF Known, FormInv
  <2> QED
    BY <1>1, <2>1, <2>2, <2>3, SendShows
<1> QED
  BY <1>2, <1>3

-----------------------------------------------------------------------------
(* What is shown: fetches and writes *)

\* A fetch arrives with a list of rows, and the ops that wait for it are settled.
LEMMA ArrivalIs ==
  ASSUME Known, Quiet, op' = Released(Waiting), NEW p \in Ops
  PROVE  /\ op'[p].kind = op[p].kind /\ op'[p].row = op[p].row /\ op'[p].ok = op[p].ok
         /\ op'[p].here = op[p].here /\ op'[p].wrote = op[p].wrote
         /\ op'[p].phase \notin {"refetching", "handed"}
         /\ op'[p].phase = "settled" <=> op[p].phase \in {"refetching", "handed"}
         /\ op[p].phase \notin {"refetching", "handed"} => op'[p].phase = op[p].phase
BY ReleasedIs DEF Known, Waiting, Quiet

LEMMA MockGetShows ==
  ASSUME Known, MockGet
  PROVE  ShowInv'
<1>1. /\ Quiet /\ net # <<>> /\ Head(net) = Get /\ net' = Tail(net)
      /\ query' = [NoQuery EXCEPT !.data = server, !.have = TRUE,
                                  !.alias = query.alias \/ ~query.have]
      /\ shown' = IF There /\ ~query.alias THEN server ELSE shown
      /\ op' = Released(Waiting)
      /\ UNCHANGED <<table, session, guard, signing, page, carried, form, formOp, alert,
                     confirm, server, job, hasty, reopened, intruded>>
  BY DEF MockGet, First, auth, dialogs, history
<1>2. server \in [Rows -> Nat] /\ query.alias \in BOOLEAN /\ query.have \in BOOLEAN
  BY DEF Known, FormInv, ShowInv, RestInv, QueryRecords
<1>3. /\ query' \in QueryRecords /\ query'.data = server /\ query'.have
      /\ query'.alias = (query.alias \/ ~query.have)
      /\ ~query'.stale /\ ~query'.failed /\ query'.fetch = "idle"
  BY <1>1, <1>2 DEF NoQuery, QueryRecords
<1>4. Mock
  BY <1>1, NetIsTheMocks DEF Known
<1>5. Mock' = Mock /\ There' = There /\ Data' = server /\ ~Fetching'
  BY <1>1, <1>3 DEF Mock, There, Data, Fetching
<1>6. \A p \in Ops :
        /\ op'[p].kind = op[p].kind /\ op'[p].row = op[p].row /\ op'[p].ok = op[p].ok
        /\ op'[p].here = op[p].here /\ op'[p].wrote = op[p].wrote
        /\ op'[p].phase \notin {"refetching", "handed"}
        /\ op'[p].phase = "settled" <=> op[p].phase \in {"refetching", "handed"}
        /\ op[p].phase \notin {"refetching", "handed"} => op'[p].phase = op[p].phase
  BY <1>1, ArrivalIs
<1>7. RestInv'
  BY <1>1, <1>2, <1>3, <1>5, <1>6 DEF Known, ShowInv, RestInv, Closed, New
<1>8. NetInv'
  BY <1>1, <1>3, <1>5, TailIs DEF Known, ShowInv, NetInv
<1>9. FreshInv'
  <2>1. There' => shown' = server' \/ query'.alias
    BY <1>1, <1>3, <1>5
  <2> QED
    BY <1>1, <1>3, <1>5, <2>1 DEF FreshInv
<1>10. UnbornInv'
  <2>1. ASSUME NEW q \in Ops, Unborn(q)' PROVE Nowhere(q)'
    <3>1. Unborn(q)
      BY <1>6, <2>1 DEF Unborn
    <3>2. Nowhere(q)
      BY <1>4, <3>1 DEF Known, ShowInv, UnbornInv
    <3>3. shown'[NewRow(q)] = 0 /\ query'.data[NewRow(q)] = 0 /\ server'[NewRow(q)] = 0
      BY <1>1, <1>3, <3>2 DEF Nowhere
    <3>4. form' # NewRow(q) /\ confirm' # NewRow(q)
      BY <1>1, <3>2 DEF Nowhere
    <3>5. \A o \in Ops : o # q => op'[o].row # NewRow(q)
      BY <1>6, <3>2 DEF Nowhere
    <3> QED
      BY <3>3, <3>4, <3>5 DEF Nowhere
  <2> QED
    BY <2>1 DEF UnbornInv
<1>11. \A p \in Ops : Has(p, server)' <=> Has(p, server)
  BY <1>1, <1>6 DEF Has
<1>12. OpsInv'
  BY <1>1, <1>5, <1>6, <1>11 DEF Known, ShowInv, OpsInv
<1>13. ListInv'
  BY <1>4, <1>5 DEF ListInv
<1>14. SettledInv'
  <2>1. \A p \in Ops : op'[p].phase = "settled" => Has(p, server)'
    BY <1>4, <1>6, <1>11 DEF Known, ShowInv, OpsInv
  <2>2. \A p \in Ops : Has(p, server)' => Has(p, Data)'
    BY <1>1, <1>5 DEF Has
  <2> QED
    BY <2>1, <2>2 DEF SettledInv
<1> QED
  BY <1>7, <1>8, <1>9, <1>10, <1>12, <1>13, <1>14 DEF ShowInv

\* What a write leaves of the query, the queue and the ops.
LEMMA InvalidateIs ==
  ASSUME Known, Quiet, NEW o \in Ops, op[o].phase = "sent", NEW q \in QueryRecords,
         q.have = query.have, q.fetch = query.fetch, NEW requests, NEW wrote \in Nat,
         Invalidate(o, q, requests, wrote)
  PROVE  \E anew \in BOOLEAN :
         /\ There => anew \/ Fetching
         /\ query' \in QueryRecords /\ query'.data = q.data /\ query'.have = q.have
         /\ query'.alias = q.alias /\ query'.failed = q.failed /\ query'.stale
         /\ query'.fetch = IF anew THEN "asked" ELSE q.fetch
         /\ net' = IF anew THEN Requested(requests) ELSE requests
         /\ hasty' = hasty \cup (IF anew THEN Handed ELSE {o})
         /\ op'[o].kind = op[o].kind /\ op'[o].row = op[o].row /\ op'[o].here = op[o].here
         /\ op'[o].ok /\ op'[o].wrote = wrote
         /\ op'[o].phase \in {"refetching", "settled"}
         /\ op'[o].phase = "settled" => ~anew
         /\ \A p \in Ops \ {o} :
              /\ op'[p].kind = op[p].kind /\ op'[p].row = op[p].row /\ op'[p].ok = op[p].ok
              /\ op'[p].here = op[p].here /\ op'[p].wrote = op[p].wrote
              /\ op'[p].phase = IF anew THEN HandsOver(op[p].phase) ELSE op[p].phase
<1> DEFINE anew == There /\ ~(Fetching /\ ~q.have)
           W == IF anew THEN Waiting ELSE {}
           old == HandedOver(W)
           marked == [q EXCEPT !.stale = TRUE]
<1>1. /\ query' = IF anew THEN Ask(marked) ELSE marked
      /\ net' = IF anew THEN Requested(requests) ELSE requests
      /\ op' = [old EXCEPT ![o].ok = TRUE, ![o].wrote = wrote, ![o].phase = Awaited]
      /\ hasty' = hasty \cup {p \in W : op[p].phase = "handed"}
                        \cup (IF anew THEN {} ELSE {o})
  BY DEF Invalidate
<1>2. anew \in BOOLEAN /\ (There => anew \/ Fetching)
  BY DEF There
<1>3. /\ marked \in QueryRecords /\ marked.data = q.data /\ marked.have = q.have
      /\ marked.alias = q.alias /\ marked.stale /\ marked.failed = q.failed
      /\ marked.fetch = q.fetch
  BY MarkIs
<1>4. /\ query' \in QueryRecords /\ query'.data = q.data /\ query'.have = q.have
      /\ query'.alias = q.alias /\ query'.failed = q.failed /\ query'.stale
      /\ query'.fetch = IF anew THEN "asked" ELSE q.fetch
  <2> HIDE DEF marked
  <2>1. CASE anew
    BY <1>1, <1>3, <2>1, AskIs
  <2>2. CASE ~anew
    BY <1>1, <1>3, <2>2
  <2> QED
    BY <2>1, <2>2
<1>5. /\ Awaited \in {"refetching", "settled"}
      /\ Awaited = "settled" => ~anew
  BY DEF Awaited
<1>6. /\ old \in [Ops -> OpRecords]
      /\ \A p \in Ops :
           /\ old[p].kind = op[p].kind /\ old[p].row = op[p].row
           /\ old[p].ok = op[p].ok /\ old[p].here = op[p].here
           /\ old[p].wrote = op[p].wrote
           /\ old[p].phase = IF anew THEN HandsOver(op[p].phase) ELSE op[p].phase
  BY <1>2, HandedOverIs DEF Known
<1>7. {p \in W : op[p].phase = "handed"} = IF anew THEN Handed ELSE {}
  BY DEF Waiting, Handed
<1> HIDE DEF anew, old, W, marked
<1>8. /\ op'[o].kind = old[o].kind /\ op'[o].row = old[o].row /\ op'[o].here = old[o].here
      /\ op'[o].ok /\ op'[o].wrote = wrote /\ op'[o].phase = Awaited
      /\ \A p \in Ops \ {o} : op'[p] = old[p]
  <2> DEFINE r == [old[o] EXCEPT !.ok = TRUE, !.wrote = wrote, !.phase = Awaited]
  <2>1. op' = [old EXCEPT ![o] = r]
    BY <1>1
  <2>2. /\ r.kind = old[o].kind /\ r.row = old[o].row /\ r.here = old[o].here
        /\ r.ok = TRUE /\ r.wrote = wrote /\ r.phase = Awaited
    <3>1. old[o] \in OpRecords
      BY <1>6
    <3> QED
      BY <3>1 DEF OpRecords
  <2> HIDE DEF r
  <2> QED
    BY <1>6, <2>1, <2>2
<1>9. hasty' = hasty \cup (IF anew THEN Handed ELSE {o})
  BY <1>1, <1>7
<1> QED
  BY <1>1, <1>2, <1>4, <1>5, <1>6, <1>7, <1>8, <1>9

\* No op is settled anew by its write, or overtaken, but in hasty.
LEMMA MockWritesShow ==
  ASSUME Known, NEW o \in Ops, MockWrites(o)
  PROVE  ShowInv'
<1> DEFINE row == op[o].row
           removes == op[o].kind = "remove"
           version == IF removes THEN 0 ELSE server[row] + 1
           q == IF removes THEN [query EXCEPT !.data = Data, !.alias = FALSE] ELSE query
<1>1. /\ Quiet /\ net # <<>> /\ Head(net) = o /\ op[o].phase = "sent"
      /\ op[o].kind = "edit" => server[row] # 0
      /\ server' = [server EXCEPT ![row] = version]
      /\ Invalidate(o, q, Tail(net), version)
      /\ UNCHANGED <<table, session, guard, signing, page, carried, shown, form, formOp,
                     alert, confirm, job, reopened, intruded>>
  BY DEF MockWrites, First, auth, dialogs
<1>2. Mock
  BY NetIsTheMocks DEF MockWrites, Known
<1>3. /\ row \in Rows /\ version \in Nat /\ server \in [Rows -> Nat]
      /\ op[o].kind \in {"add", "edit", "remove"}
      /\ op[o].kind = "add" => row = NewRow(o)
  BY <1>1, <1>2 DEF Known, FormInv, ShowInv, OpsInv
<1>4. /\ q \in QueryRecords /\ q.have = query.have /\ q.fetch = query.fetch
      /\ q.data = query.data \/ q.data = Data
      /\ ~removes => q = query
  <2>1. query \in QueryRecords /\ Data \in [Rows -> Nat]
    BY DataType DEF Known, ShowInv, RestInv
  <2> QED
    BY <2>1 DEF QueryRecords
<1>0. PICK c, requests, v : c = q /\ requests = Tail(net) /\ v = version
  OBVIOUS
<1> HIDE DEF q
<1>5. PICK anew \in BOOLEAN :
         /\ There => anew \/ Fetching
         /\ query' \in QueryRecords /\ query'.data = c.data /\ query'.have = c.have
         /\ query'.alias = c.alias /\ query'.failed = c.failed /\ query'.stale
         /\ query'.fetch = IF anew THEN "asked" ELSE c.fetch
         /\ net' = IF anew THEN Requested(requests) ELSE requests
         /\ hasty' = hasty \cup (IF anew THEN Handed ELSE {o})
         /\ op'[o].kind = op[o].kind /\ op'[o].row = op[o].row /\ op'[o].here = op[o].here
         /\ op'[o].ok /\ op'[o].wrote = v
         /\ op'[o].phase \in {"refetching", "settled"}
         /\ op'[o].phase = "settled" => ~anew
         /\ \A p \in Ops \ {o} :
              /\ op'[p].kind = op[p].kind /\ op'[p].row = op[p].row /\ op'[p].ok = op[p].ok
              /\ op'[p].here = op[p].here /\ op'[p].wrote = op[p].wrote
              /\ op'[p].phase = IF anew THEN HandsOver(op[p].phase) ELSE op[p].phase
  <2> HIDE DEF version, row, removes
  <2>1. Invalidate(o, c, requests, v)
    BY <1>1, <1>0
  <2>2. c \in QueryRecords /\ c.have = query.have /\ c.fetch = query.fetch /\ v \in Nat
    BY <1>3, <1>4, <1>0
  <2>3. Quiet /\ op[o].phase = "sent"
    BY <1>1
  <2> QED
    BY <2>1, <2>2, <2>3, InvalidateIs
<1>6. /\ server'[row] = version /\ \A r \in Rows \ {row} : server'[r] = server[r]
  BY <1>1, <1>3
<1>7. Mock' = Mock /\ There' = There /\ (There => Fetching')
  BY <1>1, <1>4, <1>0, <1>5 DEF Mock, There, Fetching
<1>8. RestInv'
  <2>1. hasty' \subseteq Ops
    BY <1>0, <1>5 DEF Known, ShowInv, RestInv, Handed
  <2>2. \A p \in Ops : op'[p].here = op[p].here
    BY <1>0, <1>5
  <2> QED
    BY <1>1, <1>0, <1>5, <1>7, <2>1, <2>2 DEF Known, ShowInv, RestInv, Closed, New
<1>9. NetInv'
  <2>1. Queue(Tail(net)) /\ (Gets(Tail(net)) = {} <=> Gets(net) = {})
    <3>1. o # Get
      BY DEF Ops, Get
    <3> QED
      BY <1>1, <3>1, TailIs DEF Known, ShowInv, NetInv
  <2>2. CASE anew
    BY <1>2, <1>0, <1>5, <1>7, <2>1, <2>2, RequestedIs DEF NetInv, Fetching
  <2>3. CASE ~anew
    BY <1>2, <1>4, <1>0, <1>5, <1>7, <2>1, <2>3 DEF Known, ShowInv, NetInv, Fetching
  <2> QED
    BY <2>2, <2>3
<1>10. FreshInv'
  BY <1>0, <1>5, <1>7 DEF FreshInv
<1>11. UnbornInv'
  <2>1. ASSUME NEW p \in Ops, Unborn(p)' PROVE Nowhere(p)'
    <3>1. p # o /\ Unborn(p)
      BY <1>0, <1>5, <2>1 DEF Unborn, HandsOver
    <3>2. Nowhere(p)
      BY <1>2, <3>1 DEF Known, ShowInv, UnbornInv
    <3>3. server'[NewRow(p)] = 0
      BY <1>6, <3>1, <3>2, RowsAre DEF Nowhere
    <3>4. query'.data[NewRow(p)] = 0
      BY <1>4, <1>0, <1>5, <3>2 DEF Nowhere, Data
    <3>5. \A x \in Ops : x # p => op'[x].row # NewRow(p)
      BY <1>0, <1>5, <3>2 DEF Nowhere
    <3> QED
      BY <1>1, <3>2, <3>3, <3>4, <3>5 DEF Nowhere
  <2> QED
    BY <2>1 DEF UnbornInv
<1>12. \A p \in Ops : op'[p].ok => Has(p, server)'
  <2>1. Has(o, server)'
    BY <1>3, <1>0, <1>5, <1>6 DEF Has
  <2>2. ASSUME NEW p \in Ops \ {o}, op'[p].ok PROVE Has(p, server)'
    <3>1. Has(p, server) /\ op[p].row \in Rows /\ op[p].wrote \in Nat
      <4>1. op[p].ok
        BY <1>0, <1>5, <2>2
      <4>2. op[p].phase \in {"refetching", "handed", "settled"}
        BY <4>1, OpType DEF Known, ShowInv, OpsInv
      <4> QED
        BY <1>2, <4>1, <4>2, OpType DEF Known, ShowInv, OpsInv
    <3>2. CASE op[p].row # row
      BY <1>0, <1>5, <1>6, <2>2, <3>1, <3>2 DEF Has
    <3>3. CASE op[p].row = row /\ removes
      BY <1>0, <1>5, <1>6, <2>2, <3>3 DEF Has
    <3>4. CASE op[p].row = row /\ ~removes
      <4>1. op[o].kind = "edit"
        <5> SUFFICES ASSUME op[o].kind = "add" PROVE FALSE
          BY <1>3, <3>4
        <5>1. Nowhere(o) /\ row = NewRow(o)
          BY <1>1, <1>2, <1>3 DEF Known, ShowInv, UnbornInv, Unborn
        <5> QED
          BY <2>2, <3>4, <5>1 DEF Nowhere
      <4>2. server[row] # 0 /\ version = server[row] + 1 /\ server[row] \in Nat
        BY <1>1, <1>3, <3>4, <4>1
      <4>3. op[p].kind # "remove" /\ server[row] >= op[p].wrote
        BY <3>1, <3>4, <4>2 DEF Has
      <4>4. server'[row] >= op[p].wrote
        <5> HIDE DEF version
        <5> QED
          BY <1>6, <3>1, <4>2, <4>3
      <4> QED
        BY <1>0, <1>5, <2>2, <3>4, <4>3, <4>4 DEF Has
    <3> QED
      BY <3>2, <3>3, <3>4
  <2> QED
    BY <2>1, <2>2
<1>13. OpsInv'
  <2>1. \A p \in Ops :
          /\ op'[p].phase \in {"none", "sent", "over"} => ~op'[p].ok
          /\ op'[p].phase \in {"refetching", "handed"} => op'[p].ok
          /\ op'[p].phase \in {"none", "over"} => ~op'[p].here
          /\ op'[p].phase \in {"sent", "refetching", "handed", "settled"} => op'[p].row \in Rows
    BY <1>3, <1>0, <1>5 DEF Known, ShowInv, OpsInv, HandsOver
  <2>2. \A p \in Ops :
          /\ op'[p].kind = "add" => op'[p].row = NewRow(p)
          /\ op'[p].phase = "sent" => op'[p].kind \in {"add", "edit", "remove"}
          /\ job'[p] = "none"
    BY <1>1, <1>2, <1>0, <1>5 DEF Known, ShowInv, OpsInv, HandsOver
  <2> QED
    BY <1>12, <2>1, <2>2 DEF OpsInv
<1>14. ListInv'
  BY <1>2, <1>7 DEF ListInv
<1>15. SettledInv'
  BY <1>1, <1>0, <1>5 DEF SettledInv, Quiet, Handed, HandsOver
<1> QED
  BY <1>8, <1>9, <1>10, <1>11, <1>13, <1>14, <1>15 DEF ShowInv

LEMMA IngestAnsweredShows ==
  ASSUME Known, NEW o \in Ops, IngestAnswered(o)
  PROVE  ShowInv'
<1>1. /\ Quiet /\ op[o].phase = "sent" /\ job[o] = "committed"
      /\ Invalidate(o, query, net, server[NewRow(o)])
      /\ UNCHANGED <<table, session, guard, signing, page, carried, shown, form, formOp,
                     alert, confirm, server, job, reopened, intruded>>
  BY DEF IngestAnswered, auth, dialogs
<1>2. ~Mock
  BY <1>1 DEF Known, ShowInv, OpsInv
<1>3. query \in QueryRecords /\ server[NewRow(o)] \in Nat
  BY RowsAre DEF Known, FormInv, ShowInv, RestInv
<1>4. PICK anew \in BOOLEAN :
         /\ There => anew \/ Fetching
         /\ query' \in QueryRecords /\ query'.data = query.data /\ query'.have = query.have
         /\ query'.alias = query.alias /\ query'.failed = query.failed /\ query'.stale
         /\ query'.fetch = IF anew THEN "asked" ELSE query.fetch
         /\ net' = IF anew THEN Requested(net) ELSE net
         /\ hasty' = hasty \cup (IF anew THEN Handed ELSE {o})
         /\ op'[o].kind = op[o].kind /\ op'[o].row = op[o].row /\ op'[o].here = op[o].here
         /\ op'[o].ok /\ op'[o].wrote = server[NewRow(o)]
         /\ op'[o].phase \in {"refetching", "settled"}
         /\ op'[o].phase = "settled" => ~anew
         /\ \A p \in Ops \ {o} :
              /\ op'[p].kind = op[p].kind /\ op'[p].row = op[p].row /\ op'[p].ok = op[p].ok
              /\ op'[p].here = op[p].here /\ op'[p].wrote = op[p].wrote
              /\ op'[p].phase = IF anew THEN HandsOver(op[p].phase) ELSE op[p].phase
  BY <1>1, <1>3, InvalidateIs
<1>5. Mock' = Mock /\ There' = There
  BY <1>1 DEF Mock, There
<1>6. RestInv'
  <2>1. hasty' \subseteq Ops
    BY <1>4 DEF Known, ShowInv, RestInv, Handed
  <2>2. \A p \in Ops : op'[p].here = op[p].here
    BY <1>4
  <2> QED
    BY <1>1, <1>4, <1>5, <2>1, <2>2 DEF Known, ShowInv, RestInv, Closed, New
<1>7. net' = net
  BY <1>2, <1>4, NetIsTheMocks DEF Known
<1>8. NetInv' /\ FreshInv' /\ UnbornInv'
  BY <1>2, <1>5, <1>7 DEF Known, ShowInv, NetInv, FreshInv, UnbornInv
<1>9. OpsInv'
  <2>1. op[o].row \in Rows
    BY <1>1 DEF Known, ShowInv, OpsInv
  <2> QED
    BY <1>2, <1>4, <1>5, <2>1 DEF Known, ShowInv, OpsInv, HandsOver
<1>10. ListInv'
  <2>1. ~query'.alias /\ form' \in {New, Closed} /\ confirm' = New
    BY <1>1, <1>2, <1>4 DEF Known, ShowInv, ListInv
  <2>2. \A p \in Ops :
          /\ op'[p].kind \in {"none", "add", "cag"}
          /\ op'[p].phase \in {"sent", "refetching", "handed"} => op'[p].row = NewRow(p)
          /\ op'[p].phase = "sent" /\ job'[p] = "cag" => op'[p].kind = "cag"
          /\ op'[p].phase \in {"refetching", "handed"} =>
               job'[p] = "committed" /\ op'[p].wrote = server'[NewRow(p)]
    BY <1>1, <1>2, <1>4 DEF Known, ShowInv, ListInv, HandsOver
  <2>3. \A p \in Ops :
          op'[p].phase \in {"refetching", "handed"} /\ p \notin hasty' /\ query'.fetch = "read"
          => carried'[NewRow(p)] >= op'[p].wrote
    BY <1>1, <1>2, <1>4 DEF Known, ShowInv, ListInv
  <2> QED
    BY <2>1, <2>2, <2>3 DEF ListInv, Closed, New
<1>11. SettledInv'
  BY <1>1, <1>4 DEF SettledInv, Quiet, Handed, HandsOver
<1> QED
  BY <1>6, <1>8, <1>9, <1>10, <1>11 DEF ShowInv

\* An op is refused, or was the other cache's.
LEMMA RefusalsShow ==
  ASSUME Known, NEW o \in Ops, MockRefuses(o) \/ IngestFails(o) \/ CagAnswered(o)
  PROVE  ShowInv'
<1>1. /\ Quiet /\ op[o].phase = "sent"
      /\ UNCHANGED <<table, session, guard, signing, page, query, carried, shown, form,
                     formOp, alert, confirm, server, hasty, intruded>>
      /\ reopened' \subseteq reopened
  BY DEF MockRefuses, IngestFails, CagAnswered, First, Refused, auth, cache, dialogs, history
<1>2. \/ net' = net
      \/ net # <<>> /\ Head(net) = o /\ net' = Tail(net)
  BY DEF MockRefuses, IngestFails, CagAnswered, First
<1>3. /\ Mock => job' = job
      /\ \A p \in Ops \ {o} : job'[p] = job[p]
      /\ \/ op' = [op EXCEPT ![o].phase = "settled"]
         \/ /\ ~Mock /\ op[o].kind = "cag"
            /\ op' = [op EXCEPT ![o].ok = TRUE, ![o].phase = "settled"]
         \/ op' = [op EXCEPT ![o] = Over]
  <2>1. CASE MockRefuses(o) \/ IngestFails(o)
    BY <2>1 DEF MockRefuses, IngestFails, Refused
  <2>2. CASE CagAnswered(o)
    <3>1. job[o] = "cag"
      BY <2>2 DEF CagAnswered
    <3>2. ~Mock /\ op[o].kind = "cag"
      BY <1>1, <3>1 DEF Known, ShowInv, OpsInv, ListInv
    <3> QED
      BY <2>2, <3>2 DEF CagAnswered, Known, JobInv
  <2> QED
    BY <2>1, <2>2
<1>4. /\ \/ /\ op'[o].kind = op[o].kind /\ op'[o].row = op[o].row
            /\ op'[o].here = op[o].here /\ op'[o].phase = "settled"
         \/ /\ op'[o].kind = "none" /\ op'[o].row = 0
            /\ ~op'[o].here /\ op'[o].phase = "over" /\ ~op'[o].ok
      /\ op'[o].ok => ~Mock /\ op[o].kind = "cag" /\ op'[o].kind = "cag"
      /\ \A p \in Ops \ {o} : op'[p] = op[p]
  <2>1. ~op[o].ok /\ op[o] \in OpRecords
    BY <1>1 DEF Known, FormInv, ShowInv, OpsInv
  <2>2. CASE op' = [op EXCEPT ![o].phase = "settled"]
    BY <2>1, <2>2 DEF Known, FormInv, OpRecords
  <2>3. CASE /\ ~Mock /\ op[o].kind = "cag"
             /\ op' = [op EXCEPT ![o].ok = TRUE, ![o].phase = "settled"]
    BY <2>1, <2>3 DEF Known, FormInv, OpRecords
  <2>4. CASE op' = [op EXCEPT ![o] = Over]
    BY <2>4, OverIs DEF Known, FormInv
  <2> QED
    BY <1>3, <2>2, <2>3, <2>4
<1>5. Mock' = Mock /\ There' = There /\ Data' = Data /\ Fetching' = Fetching
  BY <1>1 DEF Mock, There, Data, Fetching
<1>6. RestInv'
  BY <1>1, <1>4, <1>5 DEF Known, ShowInv, RestInv, Closed, New
<1>7. NetInv'
  <2>1. o # Get
    BY DEF Ops, Get
  <2> QED
    BY <1>1, <1>2, <1>5, <2>1, TailIs DEF Known, ShowInv, NetInv
<1>8. FreshInv'
  BY <1>1, <1>5 DEF Known, ShowInv, FreshInv
<1>9. UnbornInv'
  <2>1. ASSUME Mock, NEW q \in Ops, Unborn(q)' PROVE Nowhere(q)'
    <3>1. Unborn(q)
      BY <1>4, <2>1 DEF Unborn
    <3>2. Nowhere(q)
      BY <2>1, <3>1 DEF Known, ShowInv, UnbornInv
    <3> QED
      BY <1>1, <1>4, <3>2, RowsAre DEF Nowhere, New
  <2> QED
    BY <1>5, <2>1 DEF UnbornInv
<1>10. OpsInv'
  <2>1. op[o].row \in Rows
    BY <1>1 DEF Known, ShowInv, OpsInv
  <2>2. \A p \in Ops \ {o} : Has(p, server)' <=> Has(p, server)
    BY <1>1, <1>4 DEF Has
  <2> QED
    BY <1>3, <1>4, <1>5, <2>1, <2>2 DEF Known, ShowInv, OpsInv
<1>11. ListInv'
  BY <1>1, <1>3, <1>4, <1>5 DEF Known, ShowInv, ListInv, Closed, New
<1>12. SettledInv'
  BY <1>1, <1>4 DEF SettledInv, Quiet
<1> QED
  BY <1>6, <1>7, <1>8, <1>9, <1>10, <1>11, <1>12 DEF ShowInv

LEMMA AnswersShow ==
  ASSUME Known, NEW o \in Ops, Answered(o)
  PROVE  ShowInv'
BY MockWritesShow, IngestAnsweredShows, RefusalsShow DEF Answered

-----------------------------------------------------------------------------
(* What is shown: the backend's list and jobs *)

\* The ops and the dialogs stay as they are, and so do the jobs and the rows of those
\* that wait for a fetch.
LEMMA BackendShows ==
  ASSUME Known, Quiet, ~Mock,
         UNCHANGED <<table, session, guard, signing, page, shown, form, formOp, alert,
                     confirm, op, net, hasty, reopened, intruded>>,
         query' \in QueryRecords, query'.alias = query.alias,
         carried' \in [Rows -> Nat],
         \A p \in Ops : op[p].phase \in {"refetching", "handed"} =>
           job'[p] = job[p] /\ server'[NewRow(p)] = server[NewRow(p)],
         \A p \in Ops : job'[p] = "cag" => job[p] = "cag",
         \/ carried' = server'
         \/ carried' = carried /\ query'.fetch \in {"idle", "asked", query.fetch}
  PROVE  ShowInv'
<1>1. ~Mock' /\ There' = There
  BY DEF Mock, There
<1>2. RestInv'
  BY <1>1 DEF Known, ShowInv, RestInv, Closed, New
<1>3. NetInv' /\ FreshInv' /\ UnbornInv'
  BY <1>1 DEF Known, ShowInv, NetInv, FreshInv, UnbornInv
<1>4. OpsInv'
  BY <1>1 DEF Known, ShowInv, OpsInv
<1>5. ListInv'
  <2>1. \A p \in Ops :
          op[p].phase \in {"refetching", "handed"} /\ p \notin hasty /\ query'.fetch = "read"
          => carried'[NewRow(p)] >= op[p].wrote
    <3>1. CASE carried' = server'
      BY <3>1 DEF Known, FormInv, OpRecords, ShowInv, ListInv
    <3>2. CASE carried' = carried /\ query'.fetch \in {"idle", "asked", query.fetch}
      BY <3>2 DEF Known, ShowInv, ListInv
    <3> QED
      BY <3>1, <3>2
  <2> QED
    BY <1>1, <2>1 DEF Known, ShowInv, ListInv, Closed, New
<1>6. SettledInv'
  BY DEF SettledInv, Quiet
<1> QED
  BY <1>2, <1>3, <1>4, <1>5, <1>6 DEF ShowInv

LEMMA ReadsShow ==
  ASSUME Known, Poll \/ ListRead
  PROVE  ShowInv'
<1>1. PICK to \in {"asked", "read"} :
        /\ Quiet /\ ~Mock /\ query' = [query EXCEPT !.fetch = to]
        /\ carried' = server \/ (carried' = carried /\ to = "asked")
        /\ UNCHANGED <<table, session, guard, signing, page, shown, form, formOp, alert,
                       confirm, op, net, server, job, hasty, reopened, intruded>>
  <2>1. CASE Poll
    BY <2>1 DEF Poll, List, auth, dialogs, history
  <2>2. CASE ListRead
    BY <2>2 DEF ListRead, List, auth, dialogs, history
  <2> QED
    BY <2>1, <2>2
<1>2. query' \in QueryRecords /\ query'.alias = query.alias /\ query'.fetch = to
  <2>1. query \in QueryRecords
    BY DEF Known, ShowInv, RestInv
  <2> QED
    BY <1>1, <2>1 DEF QueryRecords
<1>3. carried' \in [Rows -> Nat]
  BY <1>1 DEF Known, FormInv, ShowInv, RestInv
<1> QED
  BY <1>1, <1>2, <1>3, BackendShows

LEMMA JobsShow ==
  ASSUME Known, NEW o \in Ops, Ingests(o)
  PROVE  ShowInv'
<1>1. /\ Quiet /\ job[o] \in {"received", "completed", "failed"}
      /\ UNCHANGED <<table, session, guard, signing, page, query, carried, shown, form,
                     formOp, alert, confirm, op, net, hasty, reopened, intruded>>
  BY DEF Ingests, JobCommits, JobAborts, AddDocuments, Job, auth, cache, dialogs, history
<1>2. ~Mock
  BY <1>1 DEF Known, ShowInv, OpsInv
<1>3. \E to \in {"committed", "over", "completed", "failed"} : job' = [job EXCEPT ![o] = to]
  BY DEF Ingests, JobCommits, JobAborts, AddDocuments, StatusOf, Job
<1>4. /\ \A p \in Ops \ {o} : job'[p] = job[p]
      /\ job'[o] # "cag"
  BY <1>3 DEF Known, JobInv
<1>5. \A p \in Ops \ {o} : server'[NewRow(p)] = server[NewRow(p)]
  BY RowsAre DEF Ingests, JobCommits, JobAborts, AddDocuments, Known, JobInv
<1>6. op[o].phase \notin {"refetching", "handed"}
  BY <1>1, <1>2 DEF Known, ShowInv, ListInv
<1>7. /\ query' \in QueryRecords /\ query'.alias = query.alias /\ query'.fetch = query.fetch
      /\ carried' \in [Rows -> Nat] /\ carried' = carried
  BY <1>1 DEF Known, ShowInv, RestInv
<1> QED
  BY <1>1, <1>2, <1>4, <1>5, <1>6, <1>7, BackendShows

\* The list arrives, and has the rows of the ops that waited for it, or its retry has
\* failed too.
LEMMA ListsShow ==
  ASSUME Known, ListArrives \/ ListFails
  PROVE  ShowInv'
<1>1. /\ Quiet /\ carried' = NoRows /\ op' = Released(Waiting)
      /\ UNCHANGED <<table, session, guard, signing, page, form, formOp, alert, confirm, net,
                     server, job, hasty, reopened, intruded>>
  BY DEF ListArrives, ListFails, auth, dialogs, history
<1>2. ~Mock
  BY DEF ListArrives, ListFails, Known, ShowInv, NetInv
<1>3. /\ query \in QueryRecords /\ carried \in [Rows -> Nat] /\ shown \in [Rows -> Nat]
      /\ ~query.alias
  BY <1>2 DEF Known, ShowInv, RestInv, ListInv
<1>4. /\ query' \in QueryRecords /\ ~query'.alias /\ query'.fetch = "idle"
      /\ query'.failed \/ (query.fetch = "read" /\ query'.data = carried)
      /\ shown' \in {shown, carried}
  <2>1. CASE ListArrives
    BY <1>3, <2>1 DEF ListArrives, NoQuery, QueryRecords
  <2>2. CASE ListFails
    BY <1>3, <2>2 DEF ListFails, QueryRecords
  <2> QED
    BY <2>1, <2>2
<1>5. \A p \in Ops :
        /\ op'[p].kind = op[p].kind /\ op'[p].row = op[p].row /\ op'[p].ok = op[p].ok
        /\ op'[p].here = op[p].here /\ op'[p].wrote = op[p].wrote
        /\ op'[p].phase \notin {"refetching", "handed"}
        /\ op'[p].phase = "settled" <=> op[p].phase \in {"refetching", "handed"}
        /\ op[p].phase \notin {"refetching", "handed"} => op'[p].phase = op[p].phase
  BY <1>1, ArrivalIs
<1>6. ~Mock' /\ There' = There
  BY <1>1, <1>2 DEF Mock, There
<1>7. RestInv'
  BY <1>1, <1>3, <1>4, <1>5, <1>6, FirstRowsType DEF Known, ShowInv, RestInv, Closed, New
<1>8. NetInv' /\ FreshInv' /\ UnbornInv'
  BY <1>1, <1>6 DEF Known, ShowInv, NetInv, FreshInv, UnbornInv
<1>9. OpsInv'
  BY <1>5, <1>6 DEF Known, ShowInv, OpsInv
<1>10. ListInv'
  BY <1>1, <1>2, <1>4, <1>5, <1>6 DEF Known, ShowInv, ListInv, Closed, New
<1>11. SettledInv'
  <2>1. ASSUME NEW p \in Ops, op'[p].phase = "settled", p \notin hasty, ~query'.failed
        PROVE  Has(p, Data)'
    <3>1. op[p].phase \in {"refetching", "handed"} /\ query.fetch = "read" /\ query'.data = carried
      BY <1>4, <1>5, <2>1
    <3>2. /\ op[p].kind # "remove" /\ op[p].row = NewRow(p)
          /\ carried[NewRow(p)] >= op[p].wrote
      BY <1>2, <2>1, <3>1 DEF Known, ShowInv, ListInv
    <3>3. Data' = carried
      BY <1>4, <3>1 DEF Data
    <3> QED
      BY <1>5, <3>2, <3>3 DEF Has
  <2> QED
    BY <1>1, <2>1 DEF SettledInv
<1> QED
  BY <1>7, <1>8, <1>9, <1>10, <1>11 DEF ShowInv

-----------------------------------------------------------------------------
(* What is shown: an op is over *)

LEMMA ContinuesShow ==
  ASSUME Known, NEW o \in Ops, Continues(o)
  PROVE  ShowInv'
<1> DEFINE r == Over
<1>1. Settles(o)
  BY DEF Continues, SettlesAway, SaveCloses, SaveSpeaks, RemoveCloses
<1>2. /\ op' = [op EXCEPT ![o] = r]
      /\ hasty' = hasty \ {o} /\ reopened' = reopened \ {o}
      /\ UNCHANGED <<table, session, guard, signing, page, query, carried, net, server, job>>
  BY <1>1 DEF Settles, auth
<1>3. /\ r.kind = "none" /\ r.row = 0 /\ r.phase = "over" /\ r.ok = FALSE /\ r.here = FALSE
  BY OverIs
<1> HIDE DEF r
<1>4. op'[o] = r /\ \A p \in Ops \ {o} : op'[p] = op[p]
  BY <1>2 DEF Known, FormInv
<1>5. /\ shown' \in {shown, Data} /\ form' \in {form, Closed} /\ confirm' \in {confirm, New}
      /\ formOp' \in {0, formOp}
  BY DEF Continues, SettlesAway, SaveCloses, SaveSpeaks, RemoveCloses, dialogs
<1>6. alert' \in {"none", "error", "result", alert}
  <2>1. CASE SaveSpeaks(o)
    BY <2>1 DEF SaveSpeaks
  <2>2. CASE SettlesAway(o) \/ SaveCloses(o) \/ RemoveCloses(o)
    BY <2>2 DEF SettlesAway, SaveCloses, RemoveCloses, dialogs
  <2> QED
    BY <2>1, <2>2 DEF Continues
<1>7. intruded' \in BOOLEAN
  BY DEF Continues, SettlesAway, SaveCloses, SaveSpeaks, RemoveCloses, Known, ShowInv, RestInv
<1>8. Mock' = Mock /\ There' = There /\ Data' = Data /\ Fetching' = Fetching
  BY <1>2 DEF Mock, There, Data, Fetching
<1>9. RestInv'
  <2>1. Data \in [Rows -> Nat] /\ 0 \in 0..MaxOps
    BY DataType, BoundAssumption DEF Known, ShowInv
  <2>2. /\ formOp' \in 0..MaxOps /\ alert' \in {"none", "error", "result"}
        /\ shown' \in [Rows -> Nat] /\ hasty' \subseteq Ops /\ reopened' \subseteq Ops
    BY <1>2, <1>5, <1>6, <2>1 DEF Known, ShowInv, RestInv
  <2>3. form' # Closed \/ confirm' # New \/ (\E p \in Ops : op'[p].here) => There'
    BY <1>3, <1>4, <1>5, <1>8 DEF Known, ShowInv, RestInv
  <2> QED
    BY <1>2, <1>7, <2>2, <2>3 DEF Known, ShowInv, RestInv, Closed, New
<1>10. NetInv' /\ FreshInv'
  BY <1>2, <1>5, <1>8 DEF Known, ShowInv, NetInv, FreshInv
<1>11. UnbornInv'
  <2>1. ASSUME Mock, NEW q \in Ops, Unborn(q)' PROVE Nowhere(q)'
    <3>1. q # o /\ Unborn(q)
      BY <1>3, <1>4, <2>1 DEF Unborn
    <3>2. Nowhere(q)
      BY <2>1, <3>1 DEF Known, ShowInv, UnbornInv
    <3>3. shown'[NewRow(q)] = 0
      BY <1>5, <3>2 DEF Nowhere, Data
    <3>4. form' # NewRow(q) /\ confirm' # NewRow(q)
      BY <1>5, <3>2, RowsAre DEF Nowhere
    <3>5. \A p \in Ops : p # q => op'[p].row # NewRow(q)
      BY <1>3, <1>4, <3>2, RowsAre DEF Nowhere, New
    <3> QED
      BY <1>2, <3>2, <3>3, <3>4, <3>5 DEF Nowhere
  <2> QED
    BY <1>8, <2>1 DEF UnbornInv
<1>12. \A p \in Ops \ {o} : /\ Has(p, server)' <=> Has(p, server)
                            /\ Has(p, Data)' <=> Has(p, Data)
  BY <1>2, <1>4, <1>8 DEF Has
<1>13. OpsInv'
  BY <1>2, <1>3, <1>4, <1>8, <1>12 DEF Known, ShowInv, OpsInv
<1>14. ListInv'
  BY <1>2, <1>3, <1>4, <1>5, <1>8 DEF Known, ShowInv, ListInv, Closed, New
<1>15. SettledInv'
  BY <1>2, <1>3, <1>4, <1>12 DEF Known, ShowInv, SettledInv
<1> QED
  BY <1>9, <1>10, <1>11, <1>13, <1>14, <1>15 DEF ShowInv

-----------------------------------------------------------------------------
(* What is shown, always *)

LEMMA ShowKeeps ==
  ASSUME Known, [Next]_vars
  PROVE  ShowInv'
<1> USE DEF Pages
<1>1. /\ session \in {"none", "taken", "refused"} /\ signing \in BOOLEAN /\ page \in Pages
      /\ guard \in BOOLEAN
  BY DEF Known, ShowInv, RestInv
<1>2. ASSUME NEW p \in Pages, Navigate(p) \/ Back(p) PROVE ShowInv'
  <2>1. /\ UNCHANGED <<session, signing>>
        /\ Goto(p, TRUE) \/ Goto(p, FALSE)
    BY <1>2 DEF Navigate, Back
  <2> QED
    BY <1>1, <2>1, GotoShows
<1>3. CASE \E p \in Pages : Reload(p)
  BY <1>3, ReloadShows
<1>4. CASE GuardChecks \/ Logout
  <2>1. /\ session' \in {session, "none"} /\ UNCHANGED signing
        /\ Goto(page, TRUE) \/ Goto("login", FALSE)
    BY <1>4 DEF GuardChecks, Logout
  <2>2. PICK p \in Pages, seen \in BOOLEAN : Goto(p, seen)
    BY <1>1, <2>1
  <2> QED
    BY <1>1, <2>1, <2>2, GotoShows
<1>5. CASE LoginAnswered
  <2>1. PICK p \in Pages, seen \in BOOLEAN : Goto(p, seen)
    BY <1>1, <1>5 DEF LoginAnswered
  <2> QED
    BY <1>5, <2>1, GotoShows DEF LoginAnswered
<1>6. CASE \/ SubmitLogin \/ LoginFails \/ UNCHANGED vars
           \/ \E s \in {"none", "taken", "refused"} : SessionChanges(s)
  <2>1. \E waits \in BOOLEAN : Login(waits)
    <3>1. CASE SubmitLogin \/ LoginFails
      BY <3>1 DEF SubmitLogin, LoginFails
    <3>2. CASE \E s \in {"none", "taken", "refused"} : SessionChanges(s)
      BY <1>1, <3>2 DEF SessionChanges
    <3>3. CASE UNCHANGED vars
      BY <1>1, <3>3 DEF vars, auth, Login
    <3> QED
      BY <1>6, <3>1, <3>2, <3>3
  <2>2. session' \in {"none", "taken", "refused"}
    BY <1>1, <1>6 DEF SubmitLogin, LoginFails, SessionChanges, vars, auth
  <2> QED
    BY <2>1, <2>2, LoginShows
<1>7. CASE MockGet
  BY <1>7, MockGetShows
<1>8. CASE Poll \/ ListRead \/ ListArrives \/ ListFails
  BY <1>8, ReadsShow, ListsShow
<1>9. CASE \/ ChangeTab \/ CloseForm \/ CloseConfirm
           \/ (\E r \in Rows \cup {New} : OpenForm(r)) \/ \E r \in Rows : OpenConfirm(r)
  BY <1>9, DialogsShow
<1>10. CASE \E o \in Ops : Submit(o) \/ Confirm(o)
  BY <1>10, SendsShow
<1>11. CASE \E o \in Ops : Answered(o) \/ Continues(o) \/ Ingests(o)
  BY <1>11, AnswersShow, ContinuesShow, JobsShow
<1> QED
  BY <1>2, <1>3, <1>4, <1>5, <1>6, <1>7, <1>8, <1>9, <1>10, <1>11 DEF Next, User

LEMMA ShowFirst ==
  ASSUME Init
  PROVE  ShowInv
<1>1. /\ \A o \in Ops : /\ op[o].kind = "none" /\ op[o].row = 0 /\ op[o].phase = "none"
                        /\ ~op[o].ok /\ ~op[o].here /\ job[o] = "none"
      /\ query = NoQuery /\ net = <<>> /\ form = Closed /\ confirm = New
      /\ carried = NoRows /\ shown = NoRows /\ server = FirstRows
      /\ hasty = {} /\ ~There
  BY DEF Init, Unused, There
<1>2. RestInv
  <2>1. 0 \in 0..MaxOps
    BY BoundAssumption
  <2> QED
    BY <1>1, <2>1, NoQueryIs, FirstRowsType DEF Init, RestInv, Pages
<1>3. NetInv /\ FreshInv
  BY <1>1, NothingIs, NoQueryIs DEF NetInv, FreshInv, Fetching
<1>4. UnbornInv
  <2>1. ASSUME NEW q \in Ops PROVE Nowhere(q)
    <3>1. NoRows[NewRow(q)] = 0 /\ FirstRows[NewRow(q)] = 0
      BY RowsAre DEF NoRows, FirstRows
    <3> QED
      BY <1>1, <3>1, RowsAre, NoQueryIs DEF Nowhere, New
  <2> QED
    BY <2>1 DEF UnbornInv
<1>5. OpsInv /\ ListInv /\ SettledInv
  BY <1>1, NoQueryIs DEF OpsInv, ListInv, SettledInv
<1> QED
  BY <1>2, <1>3, <1>4, <1>5 DEF ShowInv

LEMMA KnownAlways == Spec => []Known
<1>1. Init => ShowInv
  BY ShowFirst
<1>2. FormInv /\ JobInv /\ ShowInv /\ [Next]_vars => ShowInv'
  BY ShowKeeps DEF Known
<1>3. Known <=> FormInv /\ JobInv /\ ShowInv
  BY DEF Known
<1> QED
  BY <1>1, <1>2, <1>3, InvAlways, PTL DEF Spec

\* Every variable keeps to its values: with NetInv, the requests that mockAdapter's timers
\* answer are ops' and the list's; and only a page that AuthGuard shows has a dialog open
\* or an op that will come back to it.
THEOREM TypeCorrect == Spec => []TypeOK
<1>1. Known => TypeOK
  BY DEF Known, FormInv, JobInv, ShowInv, RestInv, NetInv, Queue, QueryRecords, TypeOK
<1> QED
  BY <1>1, KnownAlways, PTL

-----------------------------------------------------------------------------
(* What is listed *)

\* What a list was read with holds on.
ListedInv ==
  ~Mock => \A o \in Ops :
    1 \in {query.data[NewRow(o)], carried[NewRow(o)], shown[NewRow(o)]} => Added(NewRow(o))

\* A list is one of those there were, or is read from the rows.
ListsStep ==
  /\ query'.data \in {query.data, NoRows, carried}
  /\ carried' \in {carried, NoRows, server}
  /\ shown' \in {shown, NoRows, query.data, carried}

LEMMA GotoLists ==
  ASSUME Known, ~Mock, NEW p, NEW seen, Goto(p, seen)
  PROVE  ListsStep
<1>1. UNCHANGED <<table, server>> /\ Data = query.data
  BY DEF Goto, Data, Known, ShowInv, ListInv
<1>2. CASE p = "table" /\ seen
  <2>1. Appear
    BY <1>2 DEF Goto
  <2> QED
    BY <1>1, <2>1, AppearIs DEF ListsStep
<1>3. CASE ~(p = "table" /\ seen)
  BY <1>3 DEF Goto, ListsStep
<1> QED
  BY <1>2, <1>3

LEMMA ListsFollow ==
  ASSUME Known, ~Mock, [Next]_vars
  PROVE  ListsStep
<1>1. /\ query \in QueryRecords /\ Data = query.data
  BY DEF Data, Known, ShowInv, ListInv, RestInv
<1>2. CASE \E p \in Pages : Navigate(p) \/ Back(p)
  BY <1>2, GotoLists DEF Navigate, Back
<1>3. CASE \E p \in Pages : Reload(p)
  BY <1>3, NoQueryIs DEF Reload, ListsStep
<1>4. CASE GuardChecks \/ Logout \/ LoginAnswered
  BY <1>4, GotoLists DEF GuardChecks, Logout, LoginAnswered
<1>5. CASE \/ SubmitLogin \/ LoginFails \/ UNCHANGED vars
           \/ \E s \in {"none", "taken", "refused"} : SessionChanges(s)
  BY <1>5 DEF SubmitLogin, LoginFails, SessionChanges, Login, cache, vars, ListsStep
<1>6. CASE MockGet
  BY <1>6, NetIsTheMocks DEF MockGet, Known
<1>7. CASE Poll \/ ListRead
  BY <1>1, <1>7 DEF Poll, ListRead, List, QueryRecords, ListsStep
<1>8. CASE ListArrives
  <2>1. query'.data = carried
    BY <1>8 DEF ListArrives, NoQuery
  <2> QED
    BY <1>8, <2>1 DEF ListArrives, ListsStep
<1>9. CASE ListFails
  BY <1>1, <1>9 DEF ListFails, QueryRecords, ListsStep
<1>10. CASE \/ ChangeTab \/ CloseForm \/ CloseConfirm
            \/ (\E r \in Rows \cup {New} : OpenForm(r)) \/ \E r \in Rows : OpenConfirm(r)
  BY <1>1, <1>10 DEF ChangeTab, CloseForm, CloseConfirm, OpenForm, OpenConfirm, Dialogs,
                     ListsStep
<1>11. CASE \E o \in Ops : Submit(o) \/ Confirm(o)
  BY <1>1, <1>11 DEF Submit, Confirm, Send, SentShown, ListsStep
<1>12. ASSUME NEW o \in Ops, Answered(o) PROVE ListsStep
  <2>1. CASE MockWrites(o) \/ MockRefuses(o)
    BY <2>1, NetIsTheMocks DEF MockWrites, MockRefuses, Known
  <2>2. CASE IngestAnswered(o)
    <3>1. /\ Quiet /\ op[o].phase = "sent" /\ Invalidate(o, query, net, server[NewRow(o)])
          /\ UNCHANGED <<carried, shown>>
      BY <2>2 DEF IngestAnswered
    <3>2. server[NewRow(o)] \in Nat
      BY RowsAre DEF Known, FormInv
    <3>3. query'.data = query.data
      BY <1>1, <3>1, <3>2, InvalidateIs
    <3> QED
      BY <3>1, <3>3 DEF ListsStep
  <2>3. CASE IngestFails(o) \/ CagAnswered(o)
    BY <2>3 DEF IngestFails, Refused, CagAnswered, cache, ListsStep
  <2> QED
    BY <1>12, <2>1, <2>2, <2>3 DEF Answered
<1>13. CASE \E o \in Ops : Continues(o)
  BY <1>1, <1>13 DEF Continues, SettlesAway, SaveCloses, SaveSpeaks, RemoveCloses, Settles,
                     ListsStep
<1>14. CASE \E o \in Ops : Ingests(o)
  BY <1>14 DEF Ingests, JobCommits, JobAborts, AddDocuments, Job, cache, ListsStep
<1> QED
  BY <1>2, <1>3, <1>4, <1>5, <1>6, <1>7, <1>8, <1>9, <1>10, <1>11, <1>12, <1>13, <1>14
  DEF Next, User

\* What was added stays so, and the table stays the one it is.
LEMMA AddedStays ==
  ASSUME [Next]_vars
  PROVE  table' = table /\ \A r : Added(r) => Added(r)'
<1>1. CASE \E o \in Ops : Ingests(o)
  BY <1>1 DEF Ingests, JobCommits, JobAborts, AddDocuments, Job, Added
<1>2. CASE UNCHANGED <<table, vectors>>
  BY <1>2 DEF vectors, Added
<1>3. CASE \E p \in Pages : Navigate(p) \/ Back(p) \/ Reload(p)
  BY <1>2, <1>3 DEF Navigate, Back, Goto, Reload
<1>4. CASE GuardChecks \/ Logout \/ LoginAnswered
  BY <1>2, <1>4 DEF GuardChecks, Logout, LoginAnswered, Goto
<1>5. CASE \/ SubmitLogin \/ LoginFails \/ UNCHANGED vars
           \/ \E s \in {"none", "taken", "refused"} : SessionChanges(s)
  BY <1>2, <1>5 DEF SubmitLogin, LoginFails, SessionChanges, Login, vars
<1>6. CASE MockGet \/ Poll \/ ListRead \/ ListArrives \/ ListFails
  BY <1>2, <1>6 DEF MockGet, Poll, ListRead, List, ListArrives, ListFails
<1>7. CASE \/ ChangeTab \/ CloseForm \/ CloseConfirm
           \/ (\E r \in Rows \cup {New} : OpenForm(r)) \/ \E r \in Rows : OpenConfirm(r)
  BY <1>2, <1>7 DEF ChangeTab, CloseForm, CloseConfirm, OpenForm, OpenConfirm, Dialogs
<1>8. CASE \E o \in Ops : Submit(o) \/ Confirm(o)
  BY <1>2, <1>8 DEF Submit, Confirm, Send
<1>9. CASE \E o \in Ops : Answered(o)
  BY <1>2, <1>9 DEF Answered, MockWrites, MockRefuses, IngestAnswered, IngestFails,
                    CagAnswered, Refused
<1>10. CASE \E o \in Ops : Continues(o)
  BY <1>2, <1>10 DEF Continues, SettlesAway, SaveCloses, SaveSpeaks, RemoveCloses, Settles
<1> QED
  BY <1>1, <1>3, <1>4, <1>5, <1>6, <1>7, <1>8, <1>9, <1>10 DEF Next, User

LEMMA ListedKeeps ==
  ASSUME Known, ListedInv, [Next]_vars
  PROVE  ListedInv'
<1>1. SUFFICES ASSUME ~Mock, NEW o \in Ops,
                      1 \in {query'.data[NewRow(o)], carried'[NewRow(o)], shown'[NewRow(o)]}
               PROVE  Added(NewRow(o))'
  BY AddedStays DEF ListedInv, Mock
<1>2. NoRows[NewRow(o)] = 0
  BY RowsAre DEF NoRows
<1>3. 1 \in {server[NewRow(o)], query.data[NewRow(o)], carried[NewRow(o)], shown[NewRow(o)]}
  BY <1>1, <1>2, ListsFollow DEF ListsStep
<1>4. Added(NewRow(o))
  BY <1>1, <1>3 DEF ListedInv, Known, JobInv
<1> QED
  BY <1>4, AddedStays

\* What is listed as COMPLETED was added: its chunks are stored, or a sync was started for
\* it (services/ingestion_service.py, over pgvector or bedrock_kb), in whatever order jobs,
\* failures, reads and polls come.
THEOREM CompletedWasAddedEver == Spec => []CompletedWasAdded
<1>1. Init => ListedInv
  <2>1. \A o \in Ops : NoRows[NewRow(o)] = 0
    BY RowsAre DEF NoRows
  <2> QED
    BY <2>1, NoQueryIs DEF Init, ListedInv
<1>2. Known /\ ListedInv /\ [Next]_vars => ListedInv'
  BY ListedKeeps
<1>3. Known /\ ListedInv => CompletedWasAdded
  BY DEF Known, JobInv, ListedInv, CompletedWasAdded, Added
<1> QED
  BY <1>1, <1>2, <1>3, KnownAlways, PTL DEF Spec

-----------------------------------------------------------------------------
(* The theorems of what is shown *)

\* What a save or a removal ended well with is in the table's list, unless the op joined
\* the first load, two later ones overtook it, or the last fetch failed; and once nothing is
\* on its way the mock's list is the server's, and rendered as that unless it is the mock's
\* own array, of which the rows may have missed a write (the queries and mutations of
\* features/users, roles and ingestion, over mockAdapter or the backend).
THEOREM SavedAlwaysShown == Spec => []SavedIsShown
<1>1. Known => SavedIsShown
  <2>1. SUFFICES ASSUME Known PROVE SavedIsShown
    OBVIOUS
  <2>2. \A o \in Ops :
          op[o].phase = "settled" /\ op[o].ok /\ op[o].here /\ op[o].kind # "cag"
          /\ o \notin hasty /\ ~query.failed => Has(o, Data)
    BY <2>1 DEF Known, ShowInv, SettledInv
  <2>3. Mock /\ There /\ net = <<>> => Data = server /\ (shown = server \/ query.alias)
    BY <2>1, NothingIs DEF Known, ShowInv, NetInv, FreshInv
  <2> QED
    BY <2>2, <2>3 DEF SavedIsShown, Has
<1> QED
  BY <1>1, KnownAlways, PTL
=============================================================================
