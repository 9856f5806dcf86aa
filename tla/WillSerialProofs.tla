-------------------------- MODULE WillSerialProofs --------------------------
(***************************************************************************)
(* Proofs about the will service that serves one request at a time: the    *)
(* check a handler made still holds when it writes, so the handlers        *)
(* implement the lifecycle of WillLifecycle, no testator has two wills in  *)
(* force, and a locked will is not edited.  With two goroutines TLC        *)
(* refutes these (runs will_two_active and will_edited_locked), so the     *)
(* assumption that Procs is a singleton is needed.                         *)
(***************************************************************************)
EXTENDS WillAuditProofs, FiniteSetTheorems

(* The request of goroutine p that was just accepted can trust its read. *)
LEMMA ReceiveHolds ==
  ASSUME TypeOK, NEW p \in Procs, Receive(p)
  PROVE  ReadHolds(req[p])'
  <1>1. req \in [Procs -> Request] /\ will' = will
    BY ReceiveStep DEF TypeOK, tables
  <1> DEFINE s == req'[p]
  <1>2. ASSUME NEW r, Accept(p, r)
        PROVE  s = r
    BY <1>1, <1>2 DEF Accept
  <1>3. CASE CreateDraftRead(p)
    <2>1. PICK by \in Testators :
            s.op = "CreateDraft" /\ s.by = by
              /\ s.sup = FindActiveByTestatorFLT(will, by)
      BY <1>2, <1>3 DEF CreateDraftRead, Idle
    <2> QED
      BY <1>1, <2>1 DEF ReadHolds
  <1>4. CASE CreateCodicilRead(p)
    <2>1. PICK id, parent \in WillID, by \in FLT, ex \in ExecutorLists,
               d \in WillDelays :
            /\ will[parent].status = "locked"
            /\ Accept(p, [Idle EXCEPT
                            !.op = "CreateCodicil", !.pc = "write", !.id = id,
                            !.by = by, !.draft = buildWill(by, ex, d, parent)])
      BY <1>4 DEF CreateCodicilRead
    <2>2. s.op = "CreateCodicil" /\ s.draft = buildWill(by, ex, d, parent)
      BY <1>2, <2>1 DEF Idle
    <2>3. s.draft.parent = parent
      BY <2>2 DEF buildWill, NoRow
    <2> QED
      BY <1>1, <2>1, <2>2, <2>3 DEF ReadHolds
  <1>5. CASE SignTestatorRead(p)
    <2>1. s.op = "SignTestator" /\ will[s.id].status = "draft"
      BY <1>2, <1>5 DEF SignTestatorRead, Idle
    <2> QED
      BY <1>1, <2>1 DEF ReadHolds
  <1>6. CASE SignWitnessRead(p)
    <2>1. s.op = "SignWitness" /\ will[s.id].status = "draft"
      BY <1>2, <1>6 DEF SignWitnessRead, Idle
    <2> QED
      BY <1>1, <2>1 DEF ReadHolds
  <1>7. CASE LockRead(p)
    <2>1. s.op = "Lock" /\ will[s.id].status = "draft"
      BY <1>2, <1>7 DEF LockRead, Idle
    <2> QED
      BY <1>1, <2>1 DEF ReadHolds
  <1>8. CASE NotifyDeathRead(p)
    <2>1. s.op = "NotifyDeath" /\ will[s.id].status = "locked"
      BY <1>2, <1>8 DEF NotifyDeathRead, Idle
    <2> QED
      BY <1>1, <2>1 DEF ReadHolds
  <1>9. CASE \E id \in WillID : GetWillElapsed(p, id)
    <2>1. s.op = "GetWill" /\ will[s.id].status = "death_notified"
      BY <1>2, <1>9 DEF GetWillElapsed, Idle
    <2> QED
      BY <1>1, <2>1 DEF ReadHolds
  <1>10. CASE GetWillServe(p)
    <2>1. s.op = "GetWill" /\ s.pc = "respond"
      BY <1>2, <1>10 DEF GetWillServe, Idle
    <2> QED
      BY <2>1 DEF ReadHolds
  <1>11. CASE NotifyAllRead(p)
    <2>1. s.op = "NotifyAll" /\ s.pc = "respond"
      BY <1>2, <1>11 DEF NotifyAllRead, Idle
    <2> QED
      BY <2>1 DEF ReadHolds
  <1>12. CASE AddClauseRead(p)
    <2>1. /\ s.op \in {"AddDigitalAssetClause", "AddPropertyClause"}
          /\ will[s.id].status = "draft"
      BY <1>2, <1>12 DEF AddClauseRead, Idle
    <2> QED
      BY <1>1, <2>1 DEF ReadHolds
  <1>13. CASE ConfirmLivenessRead(p)
    <2>1. PICK id \in WillID :
            /\ s.op = "ConfirmLiveness" /\ s.id = id
            /\ will[id].status
                 \notin {"absent", "superseded", "unlocked_at_death"}
      BY <1>2, <1>13 DEF ConfirmLivenessRead, Idle
    <2>2. will[id].status \in Status
      BY DEF TypeOK, Row
    <2> QED
      BY <1>1, <2>1, <2>2 DEF ReadHolds, Status
  <1>14. CASE SendReminderRead(p)
    <2>1. PICK id \in WillID :
            /\ s.op = "SendReminder" /\ s.id = id /\ s.at = now
            /\ will[id].status \in {"draft", "locked"}
            /\ ~RemindedRecently(will[id], now)
      BY <1>2, <1>14 DEF SendReminderRead, Idle
    <2>2. will[id].livenessNotifiedAt \in Int \cup {NULL} /\ now \in Int
      BY DEF TypeOK, Row
    <2>3. will[id].livenessNotifiedAt # NULL =>
            will[id].livenessNotifiedAt + ReminderInterval <= now
      BY <2>1, <2>2 DEF RemindedRecently, ReminderInterval
    <2> QED
      BY <1>1, <2>1, <2>3 DEF ReadHolds
  <1> QED
    BY <1>3, <1>4, <1>5, <1>6, <1>7, <1>8, <1>9, <1>10, <1>11, <1>12, <1>13,
       <1>14 DEF Receive

(* Alone, a handler can trust what it read until it writes. *)
LEMMA NextHolds ==
  ASSUME ServiceInv, NEW p \in Procs, ReadHolds(req[p]), Procs = {p},
         [Next]_vars
  PROVE  ReadHolds(req[p])'
  <1>1. TypeOK /\ TypeOK' /\ req \in [Procs -> Request]
        /\ req[p] \in Request
    BY NextTypeOK DEF ServiceInv, TypeOK
  <1>2. ASSUME req'[p].pc \in {"audit", "reload", "respond", "idle"}
        PROVE  ReadHolds(req[p])'
    BY <1>2 DEF ReadHolds
  <1>3. CASE UNCHANGED vars \/ Tick
    <2>1. UNCHANGED <<req, will>>
      BY <1>3 DEF vars, Tick, tables
    <2> QED
      BY <2>1 DEF ReadHolds
  <1>4. CASE Receive(p)
    BY <1>1, <1>4, ReceiveHolds
  <1>5. CASE Writes(p)
    BY <1>1, <1>2, <1>5, WritesOnly
  <1>6. CASE Fail(p) \/ RecordFails(p) \/ Record(p)
    <2>1. CASE Fail(p)
      BY <1>1, <1>2, <2>1, FailStep DEF Idle
    <2>2. CASE RecordFails(p)
      BY <1>1, <1>2, <2>2, FailStep DEF Ticks
    <2>3. CASE Record(p)
      <3>1. PICK e \in NextEntry(p) : EntryDone(p, e)
        BY <2>3 DEF Record
      <3>2. UNCHANGED <<tables, now>> /\ req[p].pc = "audit"
        BY <2>3 DEF Record
      <3>3. Ticks(p, e)
        BY <1>1, <3>1, <3>2, EntryStep
      <3> QED
        BY <1>2, <3>3 DEF Ticks
    <2> QED
      BY <1>6, <2>1, <2>2, <2>3
  <1>7. ASSUME Finish(p) \/ Goto(p, "respond")
        PROVE  ReadHolds(req[p])'
    BY <1>1, <1>2, <1>7, GotoStep DEF Idle
  <1>8. ASSUME Goto(p, "write"), will' = will,
               At(p, "Lock", "fetch") \/ At(p, "GetWill", "complete")
        PROVE  ReadHolds(req[p])'
    <2>1. /\ req'[p].op = req[p].op /\ req'[p].id = req[p].id
          /\ req'[p].pc = "write"
      BY <1>1, <1>8, GotoStep
    <2> QED
      BY <1>8, <2>1 DEF At, ReadHolds
  <1>9. CASE LockFetch(p) \/ CompleteUnlockRead(p)
    <2>1. /\ Finish(p) \/ Goto(p, "write")
          /\ At(p, "Lock", "fetch") \/ At(p, "GetWill", "complete")
          /\ will' = will
      BY <1>9 DEF LockFetch, CompleteUnlockRead, tables
    <2> QED
      BY <1>7, <1>8, <2>1
  <1>10. CASE \/ Reload(p) \/ Respond(p)
              \/ InsertDigitalAsset(p) \/ InsertPropertyClause(p)
    <2>1. Finish(p) \/ Goto(p, "respond")
      BY <1>10 DEF Reload, Respond, InsertDigitalAsset, InsertPropertyClause,
                   InsertClause
    <2> QED
      BY <1>7, <2>1
  <1>11. CASE Continue(p)
    BY <1>5, <1>6, <1>9, <1>10, <1>11 DEF Continue, Writes, RowWrites
  <1> QED
    BY <1>3, <1>4, <1>6, <1>11 DEF Next
-----------------------------------------------------------------------------
(* All that the lifecycle shows of will w but its status stays. *)
Same(w) ==
    /\ will'[w].testator = will[w].testator
    /\ will'[w].parent = will[w].parent
    /\ will'[w].signed = will[w].signed
    /\ witness'[w] = witness[w]
    /\ clauses'[w] = clauses[w]

Becomes(w, s) == will'[w].status = s /\ Same(w)

Stays(w) == Becomes(w, will[w].status)

(* Will w appears: a draft of owner o without content. *)
Appears(w, o, parent) ==
    /\ ~Exists(w)
    /\ will'[w].status = "draft"
    /\ will'[w].testator = o
    /\ will'[w].parent = parent
    /\ will'[w].signed = will[w].signed
    /\ witness'[w] = witness[w]
    /\ clauses'[w] = clauses[w]

(* The content of draft w is edited. *)
Edited(w) ==
    /\ will[w].status = "draft" /\ will'[w].status = "draft"
    /\ will'[w].testator = will[w].testator
    /\ will'[w].parent = will[w].parent

(* The statuses a stored will goes through. *)
Onward == {<<"draft", "locked">>, <<"locked", "death_notified">>,
           <<"locked", "unlocked_at_death">>,
           <<"death_notified", "unlocked_at_death">>}

(* A step of the service, as the lifecycle sees it, will by will. *)
NewWillEffect ==
    \E w \in WillID, o \in FLT :
        /\ Appears(w, o, NULL)
        /\ \A v \in WillID \ {w} :
             Becomes(v, IF v \in FindActiveByTestatorFLT(will, o)
                        THEN "superseded" ELSE will[v].status)

CodicilEffect ==
    \E w, parent \in WillID :
        /\ will[parent].status = "locked"
        /\ Appears(w, will[parent].testator, parent)
        /\ \A v \in WillID \ {w} : Stays(v)

EditEffect ==
    \E w \in WillID : Edited(w) /\ \A v \in WillID \ {w} : Stays(v)

OnwardEffect ==
    \E w \in WillID : \E a \in Onward :
        /\ will[w].status = a[1] /\ Becomes(w, a[2])
        /\ \A v \in WillID \ {w} : Stays(v)

Effect ==
    \/ \A w \in WillID : Stays(w)
    \/ NewWillEffect \/ CodicilEffect \/ EditEffect \/ OnwardEffect

(* The transaction of CreateDraft, when the set it found is still right. *)
LEMMA CreateEffect ==
  ASSUME ServiceInv, NEW p \in Procs, ReadHolds(req[p]), CreateDraftTx(p)
  PROVE  NewWillEffect
  <1> DEFINE r == req[p]
  <1>1. TypeOK /\ RequestInv(p)
    BY DEF ServiceInv
  <1>2. /\ r # Idle /\ r.id \in WillID /\ r.op = "CreateDraft" /\ r.pc = "write"
    BY <1>1, WriterBusy DEF Writes, CreateDraftTx, At
  <1>3. /\ ~Exists(r.id) /\ r.by \in FLT /\ r.draft.status = "draft"
        /\ r.draft.testator = r.by /\ r.draft.signed = NULL
        /\ r.draft.parent = NULL
    BY <1>1, <1>2 DEF RequestInv, Creating
  <1>4. r.sup = FindActiveByTestatorFLT(will, r.by)
    BY <1>2 DEF ReadHolds
  <1>5. /\ will' = CreateDraft(will, r.id, r.draft, r.sup)
        /\ witness' = witness /\ clauses' = clauses
    BY DEF CreateDraftTx
  <1>6. will[r.id].signed = NULL
    BY <1>2, <1>3 DEF ServiceInv, TableInv, NoRow
  <1>7. Appears(r.id, r.by, NULL)
    BY <1>2, <1>3, <1>5, <1>6 DEF Appears, CreateDraft
  <1>8. ASSUME NEW v \in WillID \ {r.id}
        PROVE  Becomes(v, IF v \in r.sup THEN "superseded" ELSE will[v].status)
    <2>1. will[v] \in Row
      BY <1>1 DEF TypeOK
    <2>2. CASE v \in r.sup
      <3>1. will[v].status # "absent"
        BY <1>4, <2>2 DEF FindActiveByTestatorFLT
      <3>2. will'[v] = Supersede(will[v], r.id)
        BY <1>5, <1>8, <2>2, <3>1 DEF CreateDraft
      <3>3. /\ will'[v].status = "superseded"
            /\ will'[v].testator = will[v].testator
            /\ will'[v].parent = will[v].parent
            /\ will'[v].signed = will[v].signed
        BY <2>1, <3>2 DEF Row, Supersede
      <3> QED
        BY <1>5, <2>2, <3>3 DEF Becomes, Same
    <2>3. CASE v \notin r.sup
      <3>1. will'[v] = will[v]
        BY <1>5, <1>8, <2>3 DEF CreateDraft
      <3> QED
        BY <1>5, <2>3, <3>1 DEF Becomes, Same
    <2> QED
      BY <2>2, <2>3
  <1> QED
    BY <1>2, <1>3, <1>4, <1>7, <1>8 DEF NewWillEffect

(* The transaction of CreateCodicil, while the parent is still locked. *)
LEMMA AppendEffect ==
  ASSUME ServiceInv, NEW p \in Procs, ReadHolds(req[p]), CreateCodicilTx(p)
  PROVE  CodicilEffect
  <1> DEFINE r == req[p]
  <1>1. TypeOK /\ RequestInv(p)
    BY DEF ServiceInv
  <1>2. /\ r # Idle /\ r.id \in WillID
        /\ r.op = "CreateCodicil" /\ r.pc = "write"
    BY <1>1, WriterBusy DEF Writes, CreateCodicilTx, At
  <1>3. /\ ~Exists(r.id) /\ r.draft.status = "draft"
        /\ r.draft.testator = r.by /\ r.draft.signed = NULL
        /\ r.draft.parent \in WillID
        /\ will[r.draft.parent].testator = r.by
    BY <1>1, <1>2 DEF RequestInv, Creating
  <1>4. will[r.draft.parent].status = "locked"
    BY <1>2 DEF ReadHolds
  <1>5. /\ will' = CreateDraft(will, r.id, r.draft, {})
        /\ witness' = witness /\ clauses' = clauses
    BY DEF CreateCodicilTx
  <1>6. will[r.id].signed = NULL
    BY <1>2, <1>3 DEF ServiceInv, TableInv, NoRow
  <1>7. Appears(r.id, will[r.draft.parent].testator, r.draft.parent)
    BY <1>2, <1>3, <1>5, <1>6 DEF Appears, CreateDraft
  <1>8. \A v \in WillID \ {r.id} : will'[v] = will[v]
    BY <1>5 DEF CreateDraft
  <1>9. \A v \in WillID \ {r.id} : Stays(v)
    BY <1>5, <1>8 DEF Stays, Becomes, Same
  <1> QED
    BY <1>2, <1>3, <1>4, <1>7, <1>9 DEF CodicilEffect

(* The statements that update one row. *)
LEMMA UpdateEffect ==
  ASSUME ServiceInv, NEW p \in Procs, ReadHolds(req[p]), RowWrites(p)
  PROVE  Effect
  <1> DEFINE r == req[p]
             w == req[p].id
  <1>1. TypeOK /\ RequestInv(p)
    BY DEF ServiceInv
  <1>2. /\ r # Idle /\ w \in WillID /\ r.pc = "write"
        /\ will[w] \in Row /\ will \in [WillID -> Row]
    BY <1>1, WriterBusy DEF Writes, TypeOK
  <1>3. witness' = witness /\ clauses' = clauses
    BY DEF RowWrites, SignTestatorWrite, LockWrite, UnlockNow,
           StartCoolingOff, CompleteUnlockWrite, ConfirmLivenessWrite,
           SendReminderWrite
  <1>4. \A v \in WillID \ {w} : Stays(v)
    BY <1>1, <1>3, RowUpdate DEF Stays, Becomes, Same
  <1>5. /\ will'[w].testator = will[w].testator
        /\ will'[w].parent = will[w].parent
    BY <1>1, RowUpdate
  <1>6. ASSUME will'[w].signed = will[w].signed, NEW s, will'[w].status = s
        PROVE  Becomes(w, s)
    BY <1>3, <1>5, <1>6 DEF Becomes, Same
  <1>7. CASE SignTestatorWrite(p)
    <2>1. will[w].status = "draft"
      BY <1>7 DEF SignTestatorWrite, At, ReadHolds
    <2>2. will'[w].status = "draft"
      BY <1>2, <1>7, <2>1 DEF SignTestatorWrite, RecordTestatorSignature, Row
    <2> QED
      BY <1>2, <1>4, <1>5, <2>1, <2>2 DEF Effect, EditEffect, Edited
  <1>8. ASSUME NEW a \in Onward, will[w].status = a[1],
               will'[w].status = a[2], will'[w].signed = will[w].signed
        PROVE  Effect
    BY <1>2, <1>4, <1>6, <1>8 DEF Effect, OnwardEffect
  <1>9. CASE LockWrite(p)
    <2>1. will[w].status = "draft"
      BY <1>9 DEF LockWrite, At, ReadHolds
    <2>2. will'[w].status = "locked" /\ will'[w].signed = will[w].signed
      BY <1>2, <1>9 DEF LockWrite, UpdateStatus, Row
    <2> QED
      BY <2>1, <2>2, <1>8 DEF Onward
  <1>10. CASE UnlockNow(p)
    <2>1. will[w].status = "locked"
      BY <1>10 DEF UnlockNow, At, ReadHolds
    <2>2. /\ will'[w].status = "unlocked_at_death"
          /\ will'[w].signed = will[w].signed
      BY <1>2, <1>10 DEF UnlockNow, UpdateStatus, Row
    <2> QED
      BY <2>1, <2>2, <1>8 DEF Onward
  <1>11. CASE CompleteUnlockWrite(p)
    <2>1. will[w].status = "death_notified"
      BY <1>11 DEF CompleteUnlockWrite, At, ReadHolds
    <2>2. /\ will'[w].status = "unlocked_at_death"
          /\ will'[w].signed = will[w].signed
      BY <1>2, <1>11 DEF CompleteUnlockWrite, UpdateStatus, Row
    <2> QED
      BY <2>1, <2>2, <1>8 DEF Onward
  <1>12. CASE StartCoolingOff(p)
    <2>1. will[w].status = "locked"
      BY <1>12 DEF StartCoolingOff, At, ReadHolds
    <2>2. /\ will'[w].status = "death_notified"
          /\ will'[w].signed = will[w].signed
      BY <1>2, <1>12 DEF StartCoolingOff, NotifyDeath, Row
    <2> QED
      BY <2>1, <2>2, <1>8 DEF Onward
  <1>13. CASE ConfirmLivenessWrite(p) \/ SendReminderWrite(p)
    <2>1. PICK t : \/ will' = [will EXCEPT ![w] = RecordLivenessConfirmation(@, t)]
                   \/ will' = [will EXCEPT ![w] = RecordLivenessReminder(@, t)]
      BY <1>13 DEF ConfirmLivenessWrite, SendReminderWrite
    <2>2. /\ will'[w].status = will[w].status
          /\ will'[w].signed = will[w].signed
      BY <1>2, <2>1
      DEF RecordLivenessConfirmation, RecordLivenessReminder, Row
    <2>3. Stays(w)
      BY <1>6, <2>2 DEF Stays
    <2> QED
      BY <1>4, <2>3 DEF Effect
  <1> QED
    BY <1>7, <1>9, <1>10, <1>11, <1>12, <1>13 DEF RowWrites

(* Alone, every step of the service is one the lifecycle knows. *)
LEMMA NextEffect ==
  ASSUME ServiceInv, NEW p \in Procs, ReadHolds(req[p]), Procs = {p},
         [Next]_vars
  PROVE  Effect
  <1>1. TypeOK /\ RequestInv(p)
    BY DEF ServiceInv
  <1>2. CASE UNCHANGED tables
    BY <1>2 DEF tables, Effect, Stays, Becomes, Same
  <1>3. CASE CreateDraftTx(p) \/ CreateCodicilTx(p) \/ RowWrites(p)
    BY <1>3, CreateEffect, AppendEffect, UpdateEffect DEF Effect
  <1>4. CASE SignWitnessWrite(p)
    <2>1. will[req[p].id].status = "draft" /\ clauses' = clauses
      BY <1>4 DEF SignWitnessWrite, At, ReadHolds
    <2>2. /\ will' = will /\ req[p].id \in WillID
          /\ \A v \in WillID \ {req[p].id} : witness'[v] = witness[v]
      BY <1>1, <1>4, WitnessUpdate, WriterBusy DEF Writes
    <2> QED
      BY <2>1, <2>2 DEF Effect, EditEffect, Edited, Stays, Becomes, Same
  <1>5. CASE InsertDigitalAsset(p) \/ InsertPropertyClause(p)
    <2>1. will[req[p].id].status = "draft" /\ req[p] # Idle
      BY <1>5 DEF InsertDigitalAsset, InsertPropertyClause, At, ReadHolds, Idle
    <2>2. PICK kind : InsertClause(p, kind)
      BY <1>5 DEF InsertDigitalAsset, InsertPropertyClause
    <2>3. /\ will' = will /\ witness' = witness
          /\ clauses' = [clauses EXCEPT ![req[p].id] = Append(@, kind)]
      BY <2>2 DEF InsertClause
    <2>4. req[p].id \in WillID /\ clauses \in [WillID -> Seq(ClauseKind)]
      BY <1>1, <2>1 DEF RequestInv, TypeOK
    <2>5. \A v \in WillID \ {req[p].id} : clauses'[v] = clauses[v]
      BY <2>3, <2>4
    <2> QED
      BY <2>1, <2>3, <2>4, <2>5
      DEF Effect, EditEffect, Edited, Stays, Becomes, Same
  <1>6. CASE UNCHANGED vars \/ Tick
    BY <1>2, <1>6 DEF vars, Tick, tables
  <1>7. CASE Receive(p)
    BY <1>1, <1>2, <1>7, ReceiveStep
  <1>8. CASE Fail(p) \/ RecordFails(p)
    BY <1>2, <1>8 DEF Fail, RecordFails
  <1>9. CASE \/ LockFetch(p) \/ CompleteUnlockRead(p) \/ Reload(p)
             \/ Respond(p) \/ Record(p)
    BY <1>2, <1>9 DEF LockFetch, CompleteUnlockRead, Reload, Respond, Record
  <1>10. CASE Continue(p)
    BY <1>3, <1>4, <1>5, <1>9, <1>10 DEF Continue, RowWrites
  <1> QED
    BY <1>6, <1>7, <1>8, <1>10 DEF Next
-----------------------------------------------------------------------------
(* No two wills of one testator are in force after a step, if none were. *)
LEMMA EffectUnique ==
  ASSUME Effect, NEW t \in FLT,
         \A u \in FLT : \A v, w \in FindActiveByTestatorFLT(will, u) : v = w
  PROVE  \A v, w \in FindActiveByTestatorFLT(will', t) : v = w
  <1> DEFINE Active(w) == w \in FindActiveByTestatorFLT(will, t)
             Later(w) == w \in FindActiveByTestatorFLT(will', t)
  <1>1. ASSUME \A w \in WillID : Later(w) => Active(w)
        PROVE  \A v, w \in FindActiveByTestatorFLT(will', t) : v = w
    BY <1>1 DEF FindActiveByTestatorFLT
  <1>2. ASSUME NEW w \in WillID, Stays(w), Later(w)
        PROVE  Active(w)
    BY <1>2 DEF Stays, Becomes, Same, FindActiveByTestatorFLT
  <1>3. CASE \A w \in WillID : Stays(w)
    BY <1>1, <1>2, <1>3
  <1>4. CASE NewWillEffect
    <2>1. PICK w \in WillID, o \in FLT :
            /\ Appears(w, o, NULL)
            /\ \A v \in WillID \ {w} :
                 Becomes(v, IF v \in FindActiveByTestatorFLT(will, o)
                            THEN "superseded" ELSE will[v].status)
      BY <1>4 DEF NewWillEffect
    <2>2. ASSUME NEW v \in WillID, v # w, Later(v)
          PROVE  Active(v) /\ t # o
      <3>1. v \notin FindActiveByTestatorFLT(will, o)
        BY <2>1, <2>2 DEF Becomes, FindActiveByTestatorFLT
      <3>2. Stays(v)
        BY <2>1, <2>2, <3>1 DEF Stays
      <3> QED
        BY <1>2, <2>2, <3>1, <3>2
    <2>3. Later(w) => t = o
      BY <2>1 DEF Appears, FindActiveByTestatorFLT
    <2> QED
      BY <2>2, <2>3 DEF FindActiveByTestatorFLT
  <1>5. CASE CodicilEffect
    <2>1. PICK w \in WillID, parent \in WillID :
            /\ Appears(w, will[parent].testator, parent)
            /\ \A v \in WillID \ {w} : Stays(v)
      BY <1>5 DEF CodicilEffect
    <2>2. ~Later(w)
      BY <2>1, NullAssumption DEF Appears, FindActiveByTestatorFLT
    <2> QED
      BY <1>1, <1>2, <2>1, <2>2
  <1>6. ASSUME NEW w \in WillID, \A v \in WillID \ {w} : Stays(v),
               Later(w) => Active(w)
        PROVE  \A v, x \in FindActiveByTestatorFLT(will', t) : v = x
    BY <1>1, <1>2, <1>6
  <1>7. CASE EditEffect
    <2>1. PICK w \in WillID : Edited(w) /\ \A v \in WillID \ {w} : Stays(v)
      BY <1>7 DEF EditEffect
    <2>2. Later(w) => Active(w)
      BY <2>1 DEF Edited, FindActiveByTestatorFLT
    <2> QED
      BY <1>6, <2>1, <2>2
  <1>8. CASE OnwardEffect
    <2>1. PICK w \in WillID, a \in Onward :
            /\ will[w].status = a[1] /\ Becomes(w, a[2])
            /\ \A v \in WillID \ {w} : Stays(v)
      BY <1>8 DEF OnwardEffect
    <2>a. a[2] = "locked" => a[1] = "draft"
      BY DEF Onward
    <2>2. will'[w].status = "locked" => will[w].status = "draft"
      BY <2>1, <2>a DEF Becomes
    <2>3. will'[w].status # "draft"
      BY <2>1 DEF Onward, Becomes
    <2>4. Later(w) => Active(w)
      BY <2>1, <2>2, <2>3 DEF Becomes, Same, FindActiveByTestatorFLT
    <2> QED
      BY <1>6, <2>1, <2>4
  <1> QED
    BY <1>3, <1>4, <1>5, <1>7, <1>8 DEF Effect

(* A will that is not stored has no clauses after a step, if it had none. *)
LEMMA EffectBlank ==
  ASSUME Effect, NEW id \in WillID, ~Exists(id) => clauses[id] = <<>>,
         will'[id].status = "absent"
  PROVE  clauses'[id] = <<>>
  <1>1. ASSUME Stays(id)
        PROVE  clauses'[id] = <<>>
    BY <1>1 DEF Stays, Becomes, Same, Exists
  <1>2. CASE \A w \in WillID : Stays(w)
    BY <1>1, <1>2
  <1>3. CASE NewWillEffect
    BY <1>1, <1>3 DEF NewWillEffect, Appears, Becomes, Stays
  <1>4. CASE CodicilEffect
    BY <1>1, <1>4 DEF CodicilEffect, Appears
  <1>5. CASE EditEffect
    BY <1>1, <1>5 DEF EditEffect, Edited
  <1>6. CASE OnwardEffect
    BY <1>1, <1>6 DEF OnwardEffect, Onward, Becomes
  <1> QED
    BY <1>2, <1>3, <1>4, <1>5, <1>6 DEF Effect

(***************************************************************************)
(* Serving one request at a time, a handler writes on what is still true:  *)
(* the draft it signs or edits is a draft, the will it locks, opens or     *)
(* supersedes has the status it read, and no testator has two wills in     *)
(* force, however requests fail between their steps.                       *)
(***************************************************************************)
LEMMA SerialInvariance ==
  ASSUME NEW p, Procs = {p}
  PROVE  Spec => []SerialInv
  <1>1. Init => SerialInv
    <2> SUFFICES ASSUME Init PROVE SerialInv
      OBVIOUS
    <2>1. \A t \in FLT : FindActiveByTestatorFLT(will, t) = {}
      BY DEF Init, FindActiveByTestatorFLT, NoRow
    <2>2. \A q \in Procs : ReadHolds(req[q])
      BY DEF Init, Idle, ReadHolds
    <2>3. \A id \in WillID : clauses[id] = <<>>
      BY DEF Init
    <2> QED
      BY <2>1, <2>2, <2>3 DEF SerialInv
  <1>2. ServiceInv /\ SerialInv /\ [Next]_vars => SerialInv'
    <2> SUFFICES ASSUME ServiceInv, SerialInv, [Next]_vars PROVE SerialInv'
      OBVIOUS
    <2>1. p \in Procs /\ ReadHolds(req[p])
      BY DEF SerialInv
    <2>2. Effect /\ ReadHolds(req[p])'
      BY <2>1, NextEffect, NextHolds
    <2>3. \A t \in FLT :
            \A v, w \in FindActiveByTestatorFLT(will', t) : v = w
      BY <2>2, EffectUnique DEF SerialInv
    <2>4. \A id \in WillID :
            will'[id].status = "absent" => clauses'[id] = <<>>
      BY <2>2, EffectBlank DEF SerialInv
    <2> QED
      BY <2>2, <2>3, <2>4 DEF SerialInv, Exists
  <1> QED
    BY <1>1, <1>2, Invariance, PTL DEF Spec

(***************************************************************************)
(* Serving one request at a time, a new will leaves its testator with one  *)
(* will in force: the set FindActiveByTestatorFLT returned is still the    *)
(* set of active wills when the transaction supersedes it.                 *)
(***************************************************************************)
THEOREM OneWillInForce ==
  ASSUME NEW p, Procs = {p}
  PROVE  Spec => []OneActiveWill
  <1>1. SerialInv => OneActiveWill
    <2> SUFFICES ASSUME SerialInv, NEW t \in FLT
                 PROVE  Cardinality(FindActiveByTestatorFLT(will, t)) <= 1
      BY DEF OneActiveWill
    <2> DEFINE S == FindActiveByTestatorFLT(will, t)
    <2>1. \A v, w \in S : v = w
      BY DEF SerialInv
    <2>2. CASE S = {}
      BY <2>2, FS_EmptySet
    <2>3. ASSUME NEW w \in S
          PROVE  Cardinality(S) <= 1
      <3>1. S = {w}
        BY <2>1, <2>3
      <3> QED
        BY <3>1, FS_Singleton
    <2> QED
      BY <2>2, <2>3
  <1> QED
    BY <1>1, SerialInvariance, PTL

(***************************************************************************)
(* Serving one request at a time, no signature and no clause is added to a *)
(* will that is locked, death-notified or unlocked: SignTestator,          *)
(* SignWitness and the clause handlers write to drafts only.               *)
(***************************************************************************)
THEOREM LockedFrozen ==
  ASSUME NEW p, Procs = {p}
  PROVE  Spec => LockedIsFrozen
  <1> DEFINE Frozen == \A id \in WillID : will[id].status \in PostLock =>
                            /\ will'[id].signed = will[id].signed
                            /\ witness'[id] = witness[id]
                            /\ clauses'[id] = clauses[id]
  <1>1. ServiceInv /\ SerialInv /\ [Next]_vars => [Frozen]_vars
    <2> SUFFICES ASSUME ServiceInv, SerialInv, [Next]_vars,
                        NEW id \in WillID, will[id].status \in PostLock
                 PROVE  Same(id)
      BY DEF Same
    <2>1. p \in Procs /\ ReadHolds(req[p])
      BY DEF SerialInv
    <2>2. Effect
      BY <2>1, NextEffect
    <2>3. Exists(id) /\ will[id].status # "draft"
      BY DEF Exists, PostLock
    <2>4. CASE NewWillEffect \/ CodicilEffect
      BY <2>3, <2>4 DEF NewWillEffect, CodicilEffect, Appears, Becomes, Stays
    <2>5. CASE EditEffect
      BY <2>3, <2>5 DEF EditEffect, Edited, Stays, Becomes
    <2>6. CASE OnwardEffect
      BY <2>6 DEF OnwardEffect, Becomes, Stays
    <2> QED
      BY <2>2, <2>4, <2>5, <2>6 DEF Effect, Stays, Becomes
  <1> QED
    BY <1>1, Invariance, SerialInvariance, PTL DEF Spec, LockedIsFrozen

-----------------------------------------------------------------------------
(* A step that the lifecycle sees will by will is one of its steps. *)
LEMMA EffectImplements ==
  ASSUME TypeOK, Effect
  PROVE  [Lifecycle!Next]_(Lifecycle!vars)
  <1> DEFINE st == [w \in WillID |-> will[w].status]
             ow == [w \in WillID |-> will[w].testator]
             am == [w \in WillID |-> will[w].parent]
             co == [w \in WillID |-> <<will[w].signed, witness[w], clauses[w]>>]
             st2 == [w \in WillID |-> will'[w].status]
             ow2 == [w \in WillID |-> will'[w].testator]
             am2 == [w \in WillID |-> will'[w].parent]
             co2 == [w \in WillID |->
                        <<will'[w].signed, witness'[w], clauses'[w]>>]
  <1>1. CASE \A w \in WillID : Stays(w)
    <2>1. st2 = st /\ ow2 = ow /\ am2 = am /\ co2 = co
      BY <1>1 DEF Stays, Becomes, Same
    <2> QED
      BY <2>1 DEF Lifecycle!vars
  <1>2. CASE NewWillEffect
    <2>1. PICK w \in WillID, o \in FLT :
            /\ Appears(w, o, NULL)
            /\ \A v \in WillID \ {w} :
                 Becomes(v, IF v \in FindActiveByTestatorFLT(will, o)
                            THEN "superseded" ELSE will[v].status)
      BY <1>2 DEF NewWillEffect
    <2>2. Lifecycle!InForce(o) = FindActiveByTestatorFLT(will, o)
      BY DEF Lifecycle!InForce, FindActiveByTestatorFLT
    <2>3. ow2 = [ow EXCEPT ![w] = o] /\ am2 = [am EXCEPT ![w] = NULL]
          /\ co2 = co
      BY <2>1 DEF Appears, Becomes, Same
    <2>4. st[w] = "absent"
      BY <2>1 DEF Appears, Exists
    <2>5. st2 = [v \in WillID |->
                   IF v = w THEN "draft"
                   ELSE IF v \in FindActiveByTestatorFLT(will, o)
                   THEN "superseded" ELSE st[v]]
      BY <2>1 DEF Appears, Becomes
    <2>6. Lifecycle!NewWill(w, o)
      BY <2>2, <2>3, <2>4, <2>5 DEF Lifecycle!NewWill, Lifecycle!Draft
    <2> QED
      BY <2>6 DEF Lifecycle!Next
  <1>3. CASE CodicilEffect
    <2>1. PICK w \in WillID, parent \in WillID :
            /\ will[parent].status = "locked"
            /\ Appears(w, will[parent].testator, parent)
            /\ \A v \in WillID \ {w} : Stays(v)
      BY <1>3 DEF CodicilEffect
    <2>2. /\ ow2 = [ow EXCEPT ![w] = ow[parent]]
          /\ am2 = [am EXCEPT ![w] = parent]
          /\ co2 = co
          /\ st2 = [st EXCEPT ![w] = "draft"]
      BY <2>1 DEF Appears, Stays, Becomes, Same
    <2>3. st[w] = "absent" /\ st[parent] = "locked"
      BY <2>1 DEF Appears, Exists
    <2>4. Lifecycle!NewCodicil(w, parent)
      BY <2>2, <2>3 DEF Lifecycle!NewCodicil, Lifecycle!Draft
    <2> QED
      BY <2>4 DEF Lifecycle!Next
  <1>4. CASE EditEffect
    <2>1. PICK w \in WillID : Edited(w) /\ \A v \in WillID \ {w} : Stays(v)
      BY <1>4 DEF EditEffect
    <2>2. st2 = st /\ ow2 = ow /\ am2 = am /\ st[w] = "draft"
      BY <2>1 DEF Edited, Stays, Becomes, Same
    <2>3. co2 = [co EXCEPT ![w] = co2[w]]
      BY <2>1 DEF Stays, Becomes, Same
    <2>4. Lifecycle!Write(w)
      BY <2>2, <2>3 DEF Lifecycle!Write
    <2> QED
      BY <2>4 DEF Lifecycle!Next
  <1>5. CASE OnwardEffect
    <2>1. PICK w \in WillID, a \in Onward :
            /\ will[w].status = a[1] /\ Becomes(w, a[2])
            /\ \A v \in WillID \ {w} : Stays(v)
      BY <1>5 DEF OnwardEffect
    <2>2. /\ ow2 = ow /\ am2 = am /\ co2 = co
          /\ st2 = [st EXCEPT ![w] = a[2]] /\ st[w] = a[1]
      BY <2>1 DEF Stays, Becomes, Same
    <2>3. Lifecycle!Advance(w, a[1], a[2])
      BY <2>2 DEF Lifecycle!Advance
    <2>4. Lifecycle!Seal(w) \/ Lifecycle!DeathNotified(w) \/ Lifecycle!Open(w)
      BY <2>3 DEF Onward, Lifecycle!Seal, Lifecycle!DeathNotified,
                  Lifecycle!Open
    <2> QED
      BY <2>4 DEF Lifecycle!Next
  <1> QED
    BY <1>1, <1>2, <1>3, <1>4, <1>5 DEF Effect

(***************************************************************************)
(* Serving one request at a time, the handlers and the SQL they run        *)
(* implement the lifecycle: every step is one of its steps or changes      *)
(* nothing it shows, whatever fails between the steps of a request.        *)
(***************************************************************************)
THEOREM LifecycleImplemented ==
  ASSUME NEW p, Procs = {p}
  PROVE  Spec => ImplementsLifecycle
  <1>1. Init => Lifecycle!Init
    BY DEF Init, Lifecycle!Init, NoRow
  <1>2. ServiceInv /\ SerialInv /\ [Next]_vars
            => [Lifecycle!Next]_(Lifecycle!vars)
    <2> SUFFICES ASSUME ServiceInv, SerialInv, [Next]_vars
                 PROVE  [Lifecycle!Next]_(Lifecycle!vars)
      OBVIOUS
    <2>1. p \in Procs /\ ReadHolds(req[p]) /\ TypeOK
      BY DEF SerialInv, ServiceInv
    <2>2. Effect
      BY <2>1, NextEffect
    <2> QED
      BY <2>1, <2>2, EffectImplements
  <1> QED
    BY <1>1, <1>2, Invariance, SerialInvariance, PTL
    DEF Spec, ImplementsLifecycle, Lifecycle!Spec
=============================================================================
