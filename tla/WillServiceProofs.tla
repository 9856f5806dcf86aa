------------------------- MODULE WillServiceProofs -------------------------
(***************************************************************************)
(* Proofs about the will service for any number of goroutines, wills,      *)
(* identities and failures.                                                *)
(***************************************************************************)
EXTENDS WillProperties, TLAPS

-----------------------------------------------------------------------------
(* The statements of the repository map rows to rows. *)

(* A missing row is a row. *)
LEMMA NoRowType == NoRow \in Row
  BY DEF NoRow, Row, Status

(* buildWill prepares a row. *)
LEMMA BuildWillType ==
  ASSUME NEW t \in FLT, NEW ex \in SUBSET (FLT \cup {NoFLT}), NEW d \in Int,
         NEW parent \in WillID \cup {NULL}
  PROVE  buildWill(t, ex, d, parent) \in Row
  BY DEF buildWill, NoRow, Row, Status

(* UpdateStatus keeps a row a row. *)
LEMMA UpdateStatusType ==
  ASSUME NEW row \in Row, NEW s \in Status, NEW l \in Int \cup {NULL},
         NEW u \in Int \cup {NULL}
  PROVE  UpdateStatus(row, s, l, u) \in Row
  BY DEF UpdateStatus, Row

(* NotifyDeath keeps a row a row. *)
LEMMA NotifyDeathType ==
  ASSUME NEW row \in Row, NEW n \in Int, NEW u \in Int
  PROVE  NotifyDeath(row, n, u) \in Row
  BY DEF NotifyDeath, Row, Status

(* RecordTestatorSignature keeps a row a row. *)
LEMMA RecordTestatorSignatureType ==
  ASSUME NEW row \in Row, NEW h \in Hash
  PROVE  RecordTestatorSignature(row, h) \in Row
  BY DEF RecordTestatorSignature, Row

(* The two liveness updates keep a row a row. *)
LEMMA LivenessType ==
  ASSUME NEW row \in Row, NEW t \in Int
  PROVE  /\ RecordLivenessConfirmation(row, t) \in Row
         /\ RecordLivenessReminder(row, t) \in Row
  BY DEF RecordLivenessConfirmation, RecordLivenessReminder, Row

(* The transaction of CreateDraft keeps the table a table. *)
LEMMA CreateDraftType ==
  ASSUME NEW table \in [WillID -> Row], NEW id \in WillID, NEW row \in Row,
         NEW sup \in SUBSET WillID
  PROVE  CreateDraft(table, id, row, sup) \in [WillID -> Row]
  <1>1. ASSUME NEW w \in WillID
        PROVE  Supersede(table[w], id) \in Row
    BY DEF Supersede, Row, Status
  <1> QED
    BY <1>1 DEF CreateDraft

-----------------------------------------------------------------------------
(* The bookkeeping of requests keeps req a function to requests. *)

(* No request is a request. *)
LEMMA IdleType == Idle \in Request
  BY NoRowType DEF Idle, Request, PC

(* Accepting a request. *)
LEMMA AcceptType ==
  ASSUME req \in [Procs -> Request], NEW p \in Procs, NEW r \in Request,
         Accept(p, r)
  PROVE  req' \in [Procs -> Request]
  BY DEF Accept

(* Moving on to another step, or ending. *)
LEMMA GotoType ==
  ASSUME req \in [Procs -> Request], NEW p \in Procs, NEW pc \in PC,
         Goto(p, pc) \/ Finish(p)
  PROVE  req' \in [Procs -> Request]
  <1>1. [req[p] EXCEPT !.pc = pc] \in Request
    BY DEF Request
  <1> QED
    BY <1>1, IdleType DEF Goto, Finish

(* What is left of a request once it has written. *)
LEMMA AuditingType ==
  ASSUME NEW o \in Op \cup {"none"}, NEW i \in WillID \cup {NULL},
         NEW b \in FLT \cup {NULL}, NEW entries \in SUBSET Entry
  PROVE  [Idle EXCEPT !.op = o, !.pc = "audit", !.id = i, !.by = b,
                      !.pend = entries] \in Request
  BY IdleType DEF Request, PC

(* Turning to the audit entries. *)
LEMMA ToAuditType ==
  ASSUME req \in [Procs -> Request], NEW p \in Procs,
         NEW entries \in SUBSET Entry, ToAudit(p, entries)
  PROVE  req' \in [Procs -> Request]
  <1>1. /\ req[p].op \in Op \cup {"none"}
        /\ req[p].id \in WillID \cup {NULL}
        /\ req[p].by \in FLT \cup {NULL}
    BY DEF Request
  <1> QED
    BY <1>1, AuditingType DEF ToAudit

(* Ticking off an audit entry. *)
LEMMA EntryDoneType ==
  ASSUME req \in [Procs -> Request], NEW p \in Procs, NEW e, EntryDone(p, e)
  PROVE  req' \in [Procs -> Request]
  <1>1. [req[p] EXCEPT !.pend = @ \ {e}] \in Request
    BY DEF Request
  <1>2. [req[p] EXCEPT !.pend = {}, !.pc = "reload"] \in Request
    BY DEF Request, PC
  <1>3. CASE req' = [req EXCEPT ![p].pend = @ \ {e}]
    BY <1>1, <1>3
  <1>4. CASE req' = [req EXCEPT ![p].pend = {}, ![p].pc = "reload"]
    BY <1>2, <1>4
  <1>5. CASE Finish(p)
    BY <1>5, IdleType DEF Finish
  <1> QED
    BY <1>3, <1>4, <1>5 DEF EntryDone

-----------------------------------------------------------------------------
(* Initially every variable has its type. *)
LEMMA InitTypeOK == Init => TypeOK
  BY NoRowType, IdleType DEF Init, TypeOK

(* Each action that only accepts a request keeps the types. *)
LEMMA ReceiveTypeOK ==
  ASSUME TypeOK, NEW p \in Procs, Receive(p)
  PROVE  TypeOK'
  <1> USE DEF TypeOK
  <1> now \in Int
    OBVIOUS
  <1>1. CASE CreateDraftRead(p)
    <2>1. PICK id \in WillID, by \in Testators, ex \in ExecutorLists,
               d \in WillDelays :
            Accept(p, [Idle EXCEPT
                         !.op = "CreateDraft", !.pc = "write", !.id = id,
                         !.by = by, !.draft = buildWill(by, ex, d, NULL),
                         !.sup = FindActiveByTestatorFLT(will, by)])
      BY <1>1 DEF CreateDraftRead
    <2>2. by \in FLT /\ buildWill(by, ex, d, NULL) \in Row
      BY ServiceAssumption, BuildWillType
    <2>3. FindActiveByTestatorFLT(will, by) \in SUBSET WillID
      BY DEF FindActiveByTestatorFLT
    <2>4. [Idle EXCEPT
             !.op = "CreateDraft", !.pc = "write", !.id = id,
             !.by = by, !.draft = buildWill(by, ex, d, NULL),
             !.sup = FindActiveByTestatorFLT(will, by)] \in Request
      BY <2>2, <2>3, IdleType DEF Request, PC, Op
    <2> QED
      BY <1>1, <2>1, <2>4, AcceptType DEF CreateDraftRead, tables
  <1>2. CASE CreateCodicilRead(p)
    <2>1. PICK id \in WillID, parent \in WillID, by \in FLT,
               ex \in ExecutorLists, d \in WillDelays :
            Accept(p, [Idle EXCEPT
                         !.op = "CreateCodicil", !.pc = "write", !.id = id,
                         !.by = by, !.draft = buildWill(by, ex, d, parent)])
      BY <1>2 DEF CreateCodicilRead
    <2>2. buildWill(by, ex, d, parent) \in Row
      BY ServiceAssumption, BuildWillType
    <2>3. [Idle EXCEPT
             !.op = "CreateCodicil", !.pc = "write", !.id = id,
             !.by = by, !.draft = buildWill(by, ex, d, parent)] \in Request
      BY <2>2, IdleType DEF Request, PC, Op
    <2> QED
      BY <1>2, <2>1, <2>3, AcceptType DEF CreateCodicilRead, tables
  <1>3. CASE SignTestatorRead(p)
    <2>1. PICK id \in WillID, by \in FLT, h \in Hash :
            Accept(p, [Idle EXCEPT !.op = "SignTestator", !.pc = "write",
                                   !.id = id, !.by = by, !.hash = h])
      BY <1>3 DEF SignTestatorRead
    <2>2. [Idle EXCEPT !.op = "SignTestator", !.pc = "write",
                       !.id = id, !.by = by, !.hash = h] \in Request
      BY IdleType DEF Request, PC, Op
    <2> QED
      BY <1>3, <2>1, <2>2, AcceptType DEF SignTestatorRead, tables
  <1>4. CASE SignWitnessRead(p)
    <2>1. PICK id \in WillID, by \in FLT, h \in Hash :
            Accept(p, [Idle EXCEPT !.op = "SignWitness", !.pc = "write",
                                   !.id = id, !.by = by, !.hash = h])
      BY <1>4 DEF SignWitnessRead
    <2>2. [Idle EXCEPT !.op = "SignWitness", !.pc = "write",
                       !.id = id, !.by = by, !.hash = h] \in Request
      BY IdleType DEF Request, PC, Op
    <2> QED
      BY <1>4, <2>1, <2>2, AcceptType DEF SignWitnessRead, tables
  <1>5. CASE LockRead(p)
    <2>1. PICK id \in WillID :
            Accept(p, [Idle EXCEPT !.op = "Lock", !.pc = "fetch", !.id = id,
                                   !.at = now])
      BY <1>5 DEF LockRead
    <2>2. [Idle EXCEPT !.op = "Lock", !.pc = "fetch", !.id = id,
                       !.at = now] \in Request
      BY IdleType DEF Request, PC, Op
    <2> QED
      BY <1>5, <2>1, <2>2, AcceptType DEF LockRead, tables
  <1>6. CASE NotifyDeathRead(p)
    <2>1. PICK id \in WillID, d \in NoticeDelays :
            /\ Accept(p, [Idle EXCEPT !.op = "NotifyDeath", !.pc = "write",
                                      !.id = id, !.delay = d, !.at = now])
            /\ notices' = [notices EXCEPT ![id] =
                              @ \cup {[at |-> now, delay |-> d]}]
      BY <1>6 DEF NotifyDeathRead
    <2>2. d \in Int
      BY ServiceAssumption
    <2>3. [Idle EXCEPT !.op = "NotifyDeath", !.pc = "write",
                       !.id = id, !.delay = d, !.at = now] \in Request
      BY <2>2, IdleType DEF Request, PC, Op
    <2>4. notices' \in [WillID -> SUBSET Notice]
      BY <2>1, <2>2 DEF Notice
    <2> QED
      BY <1>6, <2>1, <2>3, <2>4, AcceptType DEF NotifyDeathRead, tables
  <1>7. CASE \E id \in WillID : GetWillElapsed(p, id)
    <2>1. PICK id \in WillID, by \in FLT :
            Accept(p, [Idle EXCEPT !.op = "GetWill", !.pc = "complete",
                                   !.id = id, !.by = by, !.at = now])
      BY <1>7 DEF GetWillElapsed
    <2>2. [Idle EXCEPT !.op = "GetWill", !.pc = "complete",
                       !.id = id, !.by = by, !.at = now] \in Request
      BY IdleType DEF Request, PC, Op
    <2> QED
      BY <1>7, <2>1, <2>2, AcceptType DEF GetWillElapsed, tables
  <1>8. CASE GetWillServe(p)
    <2>1. PICK id \in WillID, by \in FLT, seen \in SUBSET (FLT \cup {NoFLT}) :
            /\ ReadExecutors(id, seen)
            /\ Accept(p, [Idle EXCEPT !.op = "GetWill", !.pc = "respond",
                                      !.id = id, !.by = by])
      BY <1>8 DEF GetWillServe
    <2>2. [Idle EXCEPT !.op = "GetWill", !.pc = "respond",
                       !.id = id, !.by = by] \in Request
      BY IdleType DEF Request, PC, Op
    <2>3. fails' \in Nat
      BY <2>1 DEF ReadExecutors
    <2> QED
      BY <1>8, <2>1, <2>2, <2>3, AcceptType DEF GetWillServe, tables
  <1>9. CASE AddClauseRead(p)
    <2>1. PICK id \in WillID,
               op \in {"AddDigitalAssetClause", "AddPropertyClause"} :
            Accept(p, [Idle EXCEPT !.op = op, !.pc = "write", !.id = id])
      BY <1>9 DEF AddClauseRead
    <2>2. [Idle EXCEPT !.op = op, !.pc = "write", !.id = id] \in Request
      BY IdleType DEF Request, PC, Op
    <2> QED
      BY <1>9, <2>1, <2>2, AcceptType DEF AddClauseRead, tables
  <1>10. CASE NotifyAllRead(p)
    <2>1. PICK id \in WillID :
            Accept(p, [Idle EXCEPT !.op = "NotifyAll", !.pc = "respond",
                                   !.id = id])
      BY <1>10 DEF NotifyAllRead
    <2>2. [Idle EXCEPT !.op = "NotifyAll", !.pc = "respond", !.id = id]
            \in Request
      BY IdleType DEF Request, PC, Op
    <2> QED
      BY <1>10, <2>1, <2>2, AcceptType DEF NotifyAllRead, tables
  <1>11. CASE ConfirmLivenessRead(p)
    <2>1. PICK id \in WillID, by \in FLT :
            Accept(p, [Idle EXCEPT !.op = "ConfirmLiveness", !.pc = "write",
                                   !.id = id, !.by = by, !.at = now])
      BY <1>11 DEF ConfirmLivenessRead
    <2>2. [Idle EXCEPT !.op = "ConfirmLiveness", !.pc = "write",
                       !.id = id, !.by = by, !.at = now] \in Request
      BY IdleType DEF Request, PC, Op
    <2> QED
      BY <1>11, <2>1, <2>2, AcceptType DEF ConfirmLivenessRead, tables
  <1>12. CASE SendReminderRead(p)
    <2>1. PICK id \in WillID :
            Accept(p, [Idle EXCEPT !.op = "SendReminder", !.pc = "write",
                                   !.id = id, !.at = now])
      BY <1>12 DEF SendReminderRead
    <2>2. [Idle EXCEPT !.op = "SendReminder", !.pc = "write",
                       !.id = id, !.at = now] \in Request
      BY IdleType DEF Request, PC, Op
    <2> QED
      BY <1>12, <2>1, <2>2, AcceptType DEF SendReminderRead, tables
  <1> QED
    BY <1>1, <1>2, <1>3, <1>4, <1>5, <1>6, <1>7, <1>8, <1>9, <1>10, <1>11,
       <1>12
    DEF Receive

(***************************************************************************)
(* Each step of a request under way keeps the types; the invariant says    *)
(* that the request names a will.                                          *)
(***************************************************************************)
LEMMA ContinueTypeOK ==
  ASSUME TypeOK, NEW p \in Procs, RequestInv(p), Continue(p)
  PROVE  TypeOK'
  <1> DEFINE r == req[p]
  <1> USE DEF TypeOK
  <1>a. /\ r \in Request /\ r.at \in Int /\ r.delay \in Int
        /\ r.draft \in Row /\ r.sup \in SUBSET WillID
        /\ r.pend \in SUBSET Entry
    BY DEF Request
  <1>b. r.pc # "idle"
    BY DEF Continue, At, CreateDraftTx, CreateCodicilTx, SignTestatorWrite,
           SignWitnessWrite, LockFetch, LockWrite, UnlockNow,
           StartCoolingOff, CompleteUnlockRead, CompleteUnlockWrite, Reload,
           Respond, InsertDigitalAsset, InsertPropertyClause,
           ConfirmLivenessWrite, SendReminderWrite, Record
  <1>c. r # Idle
    BY <1>b DEF Idle
  <1>d. r.id \in WillID
    BY <1>c DEF RequestInv
  <1>e. ASSUME NEW ev \in Event, NEW w \in WillID
        PROVE  <<w, ev>> \in Entry
    BY DEF Entry
  <1>1. CASE CreateDraftTx(p)
    <2>1. {<<r.id, "will_created">>} \cup (r.sup \X {"superseded"})
             \in SUBSET Entry
      BY <1>a, <1>d DEF Entry, Event
    <2> QED
      BY <1>1, <1>a, <1>d, <2>1, CreateDraftType, ToAuditType
      DEF CreateDraftTx
  <1>2. CASE CreateCodicilTx(p)
    <2>1. r.draft.parent \in WillID
      BY <1>2, <1>c DEF RequestInv, CreateCodicilTx, At
    <2>2. {<<r.id, "codicil_created">>, <<r.draft.parent, "codicil_appended">>}
             \in SUBSET Entry
      BY <1>d, <2>1 DEF Entry, Event
    <2> QED
      BY <1>2, <1>a, <1>d, <2>2, CreateDraftType, ToAuditType
      DEF CreateCodicilTx
  <1>3. CASE SignTestatorWrite(p)
    <2>1. r.hash \in Hash
      BY <1>3, <1>c DEF RequestInv, SignTestatorWrite, At
    <2>2. {<<r.id, "testator_signed">>} \in SUBSET Entry
      BY <1>d, <1>e DEF Event
    <2>3. will' \in [WillID -> Row]
      BY <1>3, <1>d, <2>1, RecordTestatorSignatureType DEF SignTestatorWrite
    <2> QED
      BY <1>3, <2>2, <2>3, ToAuditType DEF SignTestatorWrite
  <1>4. CASE SignWitnessWrite(p)
    <2>1. r.hash \in Hash /\ r.by \in FLT
      BY <1>4, <1>c DEF RequestInv, SignWitnessWrite, At
    <2>2. {<<r.id, "witness_signed">>} \in SUBSET Entry
      BY <1>d, <1>e DEF Event
    <2>3. [flt |-> r.by, hash |-> r.hash] \in WitnessSignature
      BY <2>1 DEF WitnessSignature
    <2>4. witness' \in [WillID -> Seq(WitnessSignature)]
      BY <1>4, <1>d, <2>3 DEF SignWitnessWrite, RecordWitnessSignature
    <2> QED
      BY <1>4, <2>2, <2>4, ToAuditType DEF SignWitnessWrite
  <1>5. CASE LockFetch(p) \/ CompleteUnlockRead(p) \/ Respond(p)
    <2>1. "write" \in PC
      BY DEF PC
    <2> QED
      BY <1>5, <2>1, GotoType DEF LockFetch, CompleteUnlockRead, Respond,
                                  tables
  <1>6. CASE LockWrite(p)
    <2>1. {<<r.id, "locked">>} \in SUBSET Entry
      BY <1>d, <1>e DEF Event
    <2>2. will' \in [WillID -> Row]
      BY <1>6, <1>a, <1>d, UpdateStatusType DEF LockWrite, Status
    <2> QED
      BY <1>6, <2>1, <2>2, ToAuditType DEF LockWrite
  <1>7. CASE UnlockNow(p) \/ CompleteUnlockWrite(p)
    <2>1. {<<r.id, "vault_unlocked">>} \in SUBSET Entry
      BY <1>d, <1>e DEF Event
    <2>3. UpdateStatus(will[r.id], "unlocked_at_death", NULL, r.at) \in Row
      BY <1>a, <1>d, UpdateStatusType DEF Status
    <2>2. will' \in [WillID -> Row]
      BY <1>7, <1>d, <2>3 DEF UnlockNow, CompleteUnlockWrite
    <2> QED
      BY <1>7, <2>1, <2>2, ToAuditType DEF UnlockNow, CompleteUnlockWrite
  <1>8. CASE StartCoolingOff(p)
    <2>1. {<<r.id, "death_notified">>} \in SUBSET Entry
      BY <1>d, <1>e DEF Event
    <2>2. will' \in [WillID -> Row]
      BY <1>8, <1>a, <1>d, NotifyDeathType DEF StartCoolingOff
    <2> QED
      BY <1>8, <2>1, <2>2, ToAuditType DEF StartCoolingOff
  <1>9. CASE Reload(p)
    <2>1. "respond" \in PC
      BY DEF PC
    <2>2. fails' \in Nat
      BY <1>9 DEF Reload, ReadExecutors
    <2> QED
      BY <1>9, <2>1, <2>2, GotoType DEF Reload, tables
  <1>10. CASE InsertDigitalAsset(p) \/ InsertPropertyClause(p)
    <2>1. PICK kind \in ClauseKind : InsertClause(p, kind)
      BY <1>10 DEF InsertDigitalAsset, InsertPropertyClause, VerifyTitle,
                   ClauseKind
    <2>2. clauses' \in [WillID -> Seq(ClauseKind)]
      BY <1>d, <2>1 DEF InsertClause
    <2>3. req' \in [Procs -> Request]
      BY <2>1, IdleType DEF InsertClause, Finish
    <2> QED
      BY <2>1, <2>2, <2>3 DEF InsertClause
  <1>11. CASE Record(p)
    <2>1. PICK e \in r.pend :
            /\ audit' = [audit EXCEPT ![e[1]] = @ \cup {e[2]}]
            /\ EntryDone(p, e)
      BY <1>11 DEF Record, NextEntry
    <2>2. e[1] \in WillID /\ e[2] \in Event
      BY <1>a DEF Entry
    <2>3. audit' \in [WillID -> SUBSET Event]
      BY <2>1, <2>2
    <2> QED
      BY <1>11, <2>1, <2>3, EntryDoneType DEF Record, tables
  <1>12. CASE ConfirmLivenessWrite(p)
    <2>1. {<<r.id, "liveness_confirmed">>} \in SUBSET Entry
      BY <1>d, <1>e DEF Event
    <2>2. will' \in [WillID -> Row]
      <3>1. PICK t \in r.at..now :
              will' = [will EXCEPT ![r.id] = RecordLivenessConfirmation(@, t)]
        BY <1>12 DEF ConfirmLivenessWrite
      <3>2. t \in Int
        BY <1>a, <3>1 DEF TypeOK
      <3> QED
        BY <1>d, <3>1, <3>2, LivenessType DEF TypeOK
    <2> QED
      BY <1>12, <2>1, <2>2, ToAuditType DEF ConfirmLivenessWrite
  <1>13. CASE SendReminderWrite(p)
    <2>1. {<<r.id, "liveness_reminder_sent">>} \in SUBSET Entry
      BY <1>d, <1>e DEF Event
    <2>2. will' \in [WillID -> Row]
      <3>1. PICK t \in r.at..now :
              will' = [will EXCEPT ![r.id] = RecordLivenessReminder(@, t)]
        BY <1>13 DEF SendReminderWrite
      <3>2. t \in Int
        BY <1>a, <3>1 DEF TypeOK
      <3> QED
        BY <1>d, <3>1, <3>2, LivenessType DEF TypeOK
    <2> QED
      BY <1>13, <2>1, <2>2, ToAuditType DEF SendReminderWrite
  <1> QED
    BY <1>1, <1>2, <1>3, <1>4, <1>5, <1>6, <1>7, <1>8, <1>9, <1>10, <1>11,
       <1>12, <1>13
    DEF Continue

(* Failures and the clock keep the types. *)
LEMMA FailTypeOK ==
  ASSUME TypeOK, NEW p \in Procs, RecordFails(p) \/ Fail(p)
  PROVE  TypeOK'
  <1> USE DEF TypeOK
  <1>1. CASE RecordFails(p)
    BY <1>1, EntryDoneType DEF RecordFails, tables
  <1>2. CASE Fail(p)
    BY <1>2, IdleType DEF Fail, Finish, tables
  <1> QED
    BY <1>1, <1>2

(* Every step keeps the types, given what requests under way carry. *)
LEMMA NextTypeOK ==
  ASSUME TypeOK, \A p \in Procs : RequestInv(p), [Next]_vars
  PROVE  TypeOK'
  <1>1. CASE \E p \in Procs : Receive(p)
    BY <1>1, ReceiveTypeOK
  <1>2. CASE \E p \in Procs : Continue(p)
    BY <1>2, ContinueTypeOK
  <1>3. CASE \E p \in Procs : RecordFails(p) \/ Fail(p)
    BY <1>3, FailTypeOK
  <1>4. CASE Tick
    BY <1>4 DEF Tick, tables, TypeOK
  <1>5. CASE UNCHANGED vars
    BY <1>5 DEF vars, TypeOK
  <1> QED
    BY <1>1, <1>2, <1>3, <1>4, <1>5 DEF Next

-----------------------------------------------------------------------------
(***************************************************************************)
(* What no step takes back: wills, their testators, parents, signatures    *)
(* and notifications; and the clock.                                       *)
(***************************************************************************)
Grows ==
    /\ \A id \in WillID :
        /\ Exists(id) => /\ Exists(id)'
                         /\ will'[id].testator = will[id].testator
                         /\ will'[id].parent = will[id].parent
        /\ will[id].signed # NULL => will'[id].signed # NULL
        /\ Len(witness[id]) <= Len(witness'[id])
        /\ notices[id] \subseteq notices'[id]
    /\ now <= now'

(* The actions that update one row of the will table. *)
RowWrites(p) ==
    \/ SignTestatorWrite(p) \/ LockWrite(p) \/ UnlockNow(p)
    \/ StartCoolingOff(p) \/ CompleteUnlockWrite(p)
    \/ ConfirmLivenessWrite(p) \/ SendReminderWrite(p)

(* The actions that write to the will or witness table. *)
Writes(p) ==
    \/ CreateDraftTx(p) \/ CreateCodicilTx(p)
    \/ SignWitnessWrite(p) \/ RowWrites(p)

(* All the others leave the two tables alone. *)
LEMMA NonWrites ==
  ASSUME [Next]_vars
  PROVE  UNCHANGED <<will, witness>> \/ \E p \in Procs : Writes(p)
  <1>1. CASE UNCHANGED vars
    BY <1>1 DEF vars
  <1>2. CASE Tick
    BY <1>2 DEF Tick, tables
  <1>3. ASSUME NEW p \in Procs, Receive(p)
        PROVE  UNCHANGED <<will, witness>>
    BY <1>3 DEF Receive, CreateDraftRead, CreateCodicilRead,
                SignTestatorRead, SignWitnessRead, LockRead,
                NotifyDeathRead, GetWillElapsed, GetWillServe,
                NotifyAllRead, AddClauseRead, ConfirmLivenessRead,
                SendReminderRead, tables
  <1>4. ASSUME NEW p \in Procs, Continue(p)
        PROVE  UNCHANGED <<will, witness>> \/ Writes(p)
    BY <1>4 DEF Continue, Writes, RowWrites, LockFetch,
                CompleteUnlockRead, Reload, Respond, InsertDigitalAsset, InsertPropertyClause,
                InsertClause, Record, tables
  <1>5. ASSUME NEW p \in Procs, RecordFails(p) \/ Fail(p)
        PROVE  UNCHANGED <<will, witness>>
    BY <1>5 DEF RecordFails, Fail, tables
  <1> QED
    BY <1>1, <1>2, <1>3, <1>4, <1>5 DEF Next

(* A goroutine that writes serves a request. *)
LEMMA WriterBusy ==
  ASSUME TypeOK, NEW p \in Procs, RequestInv(p), Writes(p)
  PROVE  /\ req[p] # Idle /\ req[p] \in Request
         /\ req[p].id \in WillID /\ req[p].pc = "write"
  <1>1. req[p].pc = "write"
    BY DEF Writes, RowWrites, At, CreateDraftTx, CreateCodicilTx,
           SignTestatorWrite, SignWitnessWrite, LockWrite, UnlockNow,
           StartCoolingOff, CompleteUnlockWrite, ConfirmLivenessWrite,
           SendReminderWrite
  <1>2. req[p] # Idle
    BY <1>1 DEF Idle
  <1> QED
    BY <1>1, <1>2 DEF RequestInv, TypeOK

(* What superseding a row changes and what it keeps. *)
Superseded(old, new, id) ==
    /\ new.status = "superseded" /\ new.supersededBy = id
    /\ new.testator = old.testator /\ new.parent = old.parent
    /\ new.signed = old.signed /\ new.unlockAfter = old.unlockAfter

(* The UPDATE inside the transaction does just that. *)
LEMMA SupersedeRow ==
  ASSUME NEW row \in Row, NEW id \in WillID
  PROVE  Superseded(row, Supersede(row, id), id)
  BY DEF Supersede, Row, Superseded

(* The two creating transactions insert a row that was not there. *)
LEMMA Creation ==
  ASSUME TypeOK, NEW p \in Procs, RequestInv(p),
         CreateDraftTx(p) \/ CreateCodicilTx(p)
  PROVE  LET r == req[p] IN
         /\ Creating(r) /\ ~Exists(r.id)
         /\ r.draft.status = "draft" /\ r.draft.testator = r.by
         /\ r.by \in FLT /\ r.draft.signed = NULL
         /\ r.draft.unlockAfter = NULL /\ r.draft.supersededBy = NULL
         /\ will'[r.id] = r.draft
         /\ \A w \in WillID \ {r.id} :
              \/ will'[w] = will[w]
              \/ /\ CreateDraftTx(p) /\ w \in r.sup /\ Exists(w)
                 /\ Superseded(will[w], will'[w], r.id)
         /\ witness' = witness
  <1>1. Creating(req[p])
    BY DEF CreateDraftTx, CreateCodicilTx, At, Creating
  <1>2. req[p] # Idle /\ req[p].id \in WillID
    BY WriterBusy DEF Writes
  <1>3. \A w \in WillID : will[w] \in Row
    BY DEF TypeOK
  <1>4. CASE CreateDraftTx(p)
    BY <1>1, <1>2, <1>3, <1>4, SupersedeRow
    DEF CreateDraftTx, CreateDraft, RequestInv, Exists
  <1>5. CASE CreateCodicilTx(p)
    BY <1>1, <1>2, <1>5 DEF CreateCodicilTx, CreateDraft, RequestInv, Exists
  <1> QED
    BY <1>4, <1>5

(***************************************************************************)
(* The updates of one row: which columns they leave alone.                 *)
(***************************************************************************)
LEMMA RowUpdate ==
  ASSUME TypeOK, NEW p \in Procs, RequestInv(p), RowWrites(p)
  PROVE  LET r == req[p] IN
         /\ witness' = witness
         /\ \A w \in WillID \ {r.id} : will'[w] = will[w]
         /\ Exists(r.id) /\ will'[r.id].status # "absent"
         /\ will'[r.id].testator = will[r.id].testator
         /\ will'[r.id].parent = will[r.id].parent
         /\ will'[r.id].supersededBy = will[r.id].supersededBy
         /\ will[r.id].signed # NULL => will'[r.id].signed # NULL
         /\ will'[r.id].status \in PostLock \cup {will[r.id].status}
  <1> DEFINE r == req[p]
  <1>1. r # Idle /\ r \in Request /\ r.id \in WillID
    BY WriterBusy DEF Writes
  <1>2. ~Creating(r)
    BY DEF RowWrites, SignTestatorWrite, LockWrite, UnlockNow,
           StartCoolingOff, CompleteUnlockWrite, ConfirmLivenessWrite,
           SendReminderWrite, At, Creating
  <1>3. Exists(r.id)
    BY <1>1, <1>2 DEF RequestInv
  <1>4. will[r.id] \in Row
    BY <1>1 DEF TypeOK
  <1>5. CASE SignTestatorWrite(p)
    <2>1. r.hash # NULL
      BY <1>1, <1>5, NullAssumption DEF SignTestatorWrite, At, RequestInv
    <2> QED
      BY <1>1, <1>3, <1>4, <1>5, <2>1
      DEF SignTestatorWrite, RecordTestatorSignature, TypeOK, Row, Exists,
        PostLock
  <1>6. CASE LockWrite(p)
    BY <1>1, <1>3, <1>4, <1>6 DEF LockWrite, UpdateStatus, TypeOK, Row, Exists,
        PostLock
  <1>7. CASE UnlockNow(p)
    BY <1>1, <1>3, <1>4, <1>7 DEF UnlockNow, UpdateStatus, TypeOK, Row, Exists,
        PostLock
  <1>8. CASE StartCoolingOff(p)
    BY <1>1, <1>3, <1>4, <1>8
    DEF StartCoolingOff, NotifyDeath, TypeOK, Row, Exists,
        PostLock
  <1>9. CASE CompleteUnlockWrite(p)
    BY <1>1, <1>3, <1>4, <1>9
    DEF CompleteUnlockWrite, UpdateStatus, TypeOK, Row, Exists,
        PostLock
  <1>10. CASE ConfirmLivenessWrite(p)
    BY <1>1, <1>3, <1>4, <1>10
    DEF ConfirmLivenessWrite, RecordLivenessConfirmation, TypeOK, Row,
        Exists, PostLock
  <1>11. CASE SendReminderWrite(p)
    BY <1>1, <1>3, <1>4, <1>11
    DEF SendReminderWrite, RecordLivenessReminder, TypeOK, Row, Exists,
        PostLock
  <1> QED
    BY <1>5, <1>6, <1>7, <1>8, <1>9, <1>10, <1>11 DEF RowWrites

(* Adding a witness row. *)
LEMMA WitnessUpdate ==
  ASSUME TypeOK, NEW p \in Procs, RequestInv(p), SignWitnessWrite(p)
  PROVE  LET r == req[p] IN
         /\ will' = will
         /\ \A w \in WillID \ {r.id} : witness'[w] = witness[w]
         /\ Exists(r.id)
         /\ r.by # will[r.id].testator /\ will[r.id].signed # NULL
         /\ Len(witness'[r.id]) = Len(witness[r.id]) + 1
         /\ \A i \in 1..Len(witness'[r.id]) :
              witness'[r.id][i].flt =
                IF i <= Len(witness[r.id]) THEN witness[r.id][i].flt
                                           ELSE r.by
  <1> DEFINE r == req[p]
  <1>1. r # Idle /\ r.id \in WillID
    BY WriterBusy DEF Writes
  <1>2. r.op = "SignWitness" /\ r.pc = "write"
    BY DEF SignWitnessWrite, At
  <1>3. /\ Exists(r.id) /\ r.by \in FLT /\ r.hash \in Hash
        /\ r.by # will[r.id].testator /\ will[r.id].signed # NULL
    BY <1>1, <1>2 DEF RequestInv, Creating
  <1>4. witness[r.id] \in Seq(WitnessSignature)
    BY <1>1 DEF TypeOK
  <1>5. [flt |-> r.by, hash |-> r.hash] \in WitnessSignature
    BY <1>3 DEF WitnessSignature
  <1>6. /\ witness'[r.id] = Append(witness[r.id],
                                   [flt |-> r.by, hash |-> r.hash])
        /\ \A w \in WillID \ {r.id} : witness'[w] = witness[w]
    BY <1>1 DEF SignWitnessWrite, RecordWitnessSignature, TypeOK
  <1>7. Len(witness'[r.id]) = Len(witness[r.id]) + 1
    BY <1>4, <1>5, <1>6
  <1>8. ASSUME NEW i \in 1..Len(witness'[r.id])
        PROVE  witness'[r.id][i].flt =
                 IF i <= Len(witness[r.id]) THEN witness[r.id][i].flt
                                            ELSE r.by
    BY <1>4, <1>5, <1>6, <1>7
  <1> QED
    BY <1>3, <1>6, <1>7, <1>8 DEF SignWitnessWrite

(* Every step only adds. *)
LEMMA NextGrows ==
  ASSUME ServiceInv, [Next]_vars
  PROVE  Grows
  <1> USE DEF ServiceInv
  <1>0. TypeOK'
    BY NextTypeOK
  <1>1. \A id \in WillID : Len(witness[id]) \in Nat
    BY DEF TypeOK
  <1>2. now <= now' /\ \A id \in WillID : notices[id] \subseteq notices'[id]
    <2>1. CASE UNCHANGED <<notices, now>>
      BY <2>1 DEF TypeOK
    <2>2. CASE Tick
      BY <2>2 DEF Tick, TypeOK
    <2>3. ASSUME NEW p \in Procs, NotifyDeathRead(p)
          PROVE  now <= now' /\ \A id \in WillID :
                                  notices[id] \subseteq notices'[id]
      <3>1. PICK id \in WillID, d \in NoticeDelays :
              notices' = [notices EXCEPT ![id] =
                              @ \cup {[at |-> now, delay |-> d]}]
        BY <2>3 DEF NotifyDeathRead
      <3> QED
        BY <2>3, <3>1 DEF NotifyDeathRead, TypeOK
    <2>4. ASSUME NEW p \in Procs, Receive(p)
          PROVE  UNCHANGED <<notices, now>> \/ NotifyDeathRead(p)
      BY <2>4 DEF Receive, CreateDraftRead, CreateCodicilRead,
                  SignTestatorRead, SignWitnessRead, LockRead,
                  GetWillElapsed, GetWillServe, NotifyAllRead,
                  AddClauseRead, ConfirmLivenessRead, SendReminderRead
    <2>5. ASSUME NEW p \in Procs, Continue(p) \/ RecordFails(p) \/ Fail(p)
          PROVE  UNCHANGED <<notices, now>>
      BY <2>5 DEF Continue, CreateDraftTx, CreateCodicilTx,
                  SignTestatorWrite, SignWitnessWrite, LockFetch, LockWrite,
                  UnlockNow, StartCoolingOff, CompleteUnlockRead,
                  CompleteUnlockWrite, Reload, Respond, InsertDigitalAsset,
                  InsertPropertyClause, InsertClause,
                  ConfirmLivenessWrite, SendReminderWrite, Record,
                  RecordFails, Fail
    <2> QED
      BY <2>1, <2>2, <2>3, <2>4, <2>5 DEF Next, vars
  <1> DEFINE Kept(id) ==
        /\ Exists(id) => /\ will'[id].status # "absent"
                         /\ will'[id].testator = will[id].testator
                         /\ will'[id].parent = will[id].parent
        /\ will[id].signed # NULL => will'[id].signed # NULL
        /\ Len(witness[id]) <= Len(witness'[id])
  <1>3. ASSUME NEW id \in WillID
        PROVE  Kept(id)
    <2>1. CASE UNCHANGED <<will, witness>>
      BY <2>1, <1>1 DEF Exists
    <2>2. ASSUME NEW p \in Procs, CreateDraftTx(p) \/ CreateCodicilTx(p)
          PROVE  Kept(id)
      <3>1. TypeOK /\ RequestInv(p) /\ TableInv(id) /\ will[id] \in Row
        BY DEF TypeOK
      <3>2. CASE id = req[p].id
        <4>1. ~Exists(id) /\ witness' = witness
          BY <2>2, <3>1, <3>2, Creation
        <4>2. will[id].signed = NULL
          BY <3>1, <4>1 DEF TableInv, NoRow
        <4> QED
          BY <1>1, <4>1, <4>2
      <3>3. CASE id # req[p].id
        <4>1. \/ will'[id] = will[id]
              \/ Superseded(will[id], will'[id], req[p].id)
          BY <2>2, <3>1, <3>3, Creation
        <4>2. witness' = witness
          BY <2>2, <3>1, Creation
        <4> QED
          BY <1>1, <4>1, <4>2 DEF Superseded, Exists
      <3> QED
        BY <3>2, <3>3
    <2>3. ASSUME NEW p \in Procs, RowWrites(p)
          PROVE  Kept(id)
      BY <1>1, <2>3, RowUpdate DEF Exists
    <2>4. ASSUME NEW p \in Procs, SignWitnessWrite(p)
          PROVE  Kept(id)
      BY <1>1, <2>4, WitnessUpdate DEF Exists
    <2> QED
      BY <2>1, <2>2, <2>3, <2>4, NonWrites DEF Writes
  <1> QED
    BY <1>2, <1>3 DEF Grows, Exists

(* No witness row is by the testator, before and after every step. *)
LEMMA WitnessesKept ==
  ASSUME ServiceInv, [Next]_vars, NEW id \in WillID,
         NEW i \in 1..Len(witness'[id])
  PROVE  witness'[id][i].flt # will'[id].testator
  <1> USE DEF ServiceInv
  <1>1. TableInv(id) /\ Len(witness[id]) \in Nat
    BY DEF TypeOK
  <1>2. CASE UNCHANGED <<will, witness>>
    BY <1>1, <1>2 DEF TableInv
  <1>3. ASSUME NEW p \in Procs, CreateDraftTx(p) \/ CreateCodicilTx(p)
        PROVE  witness'[id][i].flt # will'[id].testator
    <2>1. witness' = witness /\ ~Exists(req[p].id)
      BY <1>3, Creation
    <2>2. id # req[p].id
      BY <1>1, <2>1 DEF TableInv
    <2>3. \/ will'[id] = will[id]
          \/ Superseded(will[id], will'[id], req[p].id)
      BY <1>3, <2>2, Creation
    <2>4. will'[id].testator = will[id].testator
      BY <2>3 DEF Superseded
    <2> QED
      BY <1>1, <2>1, <2>4 DEF TableInv
  <1>4. ASSUME NEW p \in Procs, RowWrites(p)
        PROVE  witness'[id][i].flt # will'[id].testator
    <2>1. witness' = witness /\ will'[id].testator = will[id].testator
      BY <1>4, RowUpdate
    <2> QED
      BY <1>1, <2>1 DEF TableInv
  <1>5. ASSUME NEW p \in Procs, SignWitnessWrite(p)
        PROVE  witness'[id][i].flt # will'[id].testator
    <2>1. CASE id = req[p].id
      <3>1. \A j \in 1..Len(witness'[id]) :
              witness'[id][j].flt =
                IF j <= Len(witness[id]) THEN witness[id][j].flt
                                         ELSE req[p].by
        BY <1>5, <2>1, WitnessUpdate
      <3>2. will' = will /\ req[p].by # will[id].testator
            /\ Len(witness'[id]) = Len(witness[id]) + 1
        BY <1>5, <2>1, WitnessUpdate
      <3>3. CASE i <= Len(witness[id])
        BY <1>1, <3>1, <3>2, <3>3 DEF TableInv
      <3>4. CASE ~(i <= Len(witness[id]))
        BY <3>1, <3>2, <3>4
      <3> QED
        BY <3>3, <3>4
    <2>2. CASE id # req[p].id
      <3>1. will' = will /\ witness'[id] = witness[id]
        BY <1>5, <2>2, WitnessUpdate
      <3> QED
        BY <1>1, <3>1 DEF TableInv
    <2> QED
      BY <2>1, <2>2
  <1>6. UNCHANGED <<will, witness>> \/ \E p \in Procs : Writes(p)
    BY NonWrites
  <1> QED
    BY <1>2, <1>3, <1>4, <1>5, <1>6 DEF Writes

(* An executed will stays executed, an earned unlock stays earned. *)
LEMMA Stable ==
  ASSUME ServiceInv, [Next]_vars, NEW id \in WillID
  PROVE  /\ Executed(id) => Executed(id)'
         /\ \A t : Earned(id, t) => \E n \in notices'[id] : t >= n.at + n.delay
  <1>1. Grows
    BY NextGrows
  <1>2. TypeOK /\ TypeOK'
    BY NextTypeOK DEF ServiceInv
  <1>3. Len(witness[id]) \in Nat /\ Len(witness'[id]) \in Nat
    BY <1>2 DEF TypeOK
  <1>4. Executed(id) => Executed(id)'
    BY <1>1, <1>3, WitnessesKept DEF Grows, Executed
  <1> QED
    BY <1>1, <1>4 DEF Grows, Earned

-----------------------------------------------------------------------------
(* What the tables say of a will that a step leaves alone stays true. *)
LEMMA TableUntouched ==
  ASSUME ServiceInv, [Next]_vars, NEW id \in WillID,
         will'[id] = will[id], witness'[id] = witness[id]
  PROVE  TableInv(id)'
  <1>1. TableInv(id) /\ will[id] \in Row
    BY DEF ServiceInv, TypeOK
  <1>2. now <= now' /\ now \in Int /\ now' \in Int
    BY NextGrows, NextTypeOK DEF Grows, ServiceInv, TypeOK
  <1>3. Executed(id) => Executed(id)'
    BY Stable
  <1>4. \A t : Earned(id, t) => \E n \in notices'[id] : t >= n.at + n.delay
    BY Stable
  <1>5. will[id].unlockAfter # NULL => Earned(id, will[id].unlockAfter)'
    BY <1>1, <1>4 DEF TableInv, Earned
  <1>6. will[id].status = "unlocked_at_death" =>
          /\ will[id].unlockedAt # NULL /\ will[id].unlockedAt <= now'
          /\ Earned(id, will[id].unlockedAt)'
    <2>1. SUFFICES ASSUME will[id].status = "unlocked_at_death"
                   PROVE  /\ will[id].unlockedAt # NULL
                          /\ will[id].unlockedAt <= now'
                          /\ Earned(id, will[id].unlockedAt)'
      OBVIOUS
    <2>2. /\ will[id].unlockedAt # NULL /\ will[id].unlockedAt <= now
          /\ Earned(id, will[id].unlockedAt)
      BY <1>1, <2>1 DEF TableInv
    <2>3. will[id].unlockedAt \in Int
      BY <1>1, <2>2 DEF Row
    <2> QED
      BY <1>2, <1>4, <2>2, <2>3 DEF Earned
  <1> QED
    BY <1>1, <1>3, <1>5, <1>6 DEF TableInv, Exists

(* What the tables say of a will after it was created or superseded. *)
LEMMA TableCreation ==
  ASSUME ServiceInv, [Next]_vars, NEW p \in Procs,
         CreateDraftTx(p) \/ CreateCodicilTx(p), NEW id \in WillID
  PROVE  TableInv(id)'
  <1>1. TypeOK /\ TableInv(id) /\ RequestInv(p)
    BY DEF ServiceInv
  <1>2. witness' = witness
    BY <1>1, Creation
  <1>3. CASE id = req[p].id
    <2>1. /\ ~Exists(id) /\ will'[id].status = "draft"
          /\ will'[id].testator \in FLT /\ will'[id].unlockAfter = NULL
      BY <1>1, <1>3, Creation
    <2>2. witness'[id] = <<>>
      BY <1>1, <1>2, <2>1 DEF TableInv
    <2> QED
      BY <2>1, <2>2 DEF TableInv, Exists, PostLock
  <1>4. CASE id # req[p].id /\ will'[id] = will[id]
    BY <1>2, <1>4, TableUntouched
  <1>5. CASE Exists(id) /\ Superseded(will[id], will'[id], req[p].id)
    <2>1. /\ will'[id].status = "superseded"
          /\ will'[id].testator = will[id].testator
          /\ will'[id].signed = will[id].signed
          /\ will'[id].unlockAfter = will[id].unlockAfter
      BY <1>5 DEF Superseded
    <2>2. will[id].unlockAfter # NULL => Earned(id, will[id].unlockAfter)'
      BY <1>1, Stable, <2>1 DEF TableInv, Earned
    <2> QED
      BY <1>1, <1>2, <1>5, <2>1, <2>2 DEF TableInv, Exists, PostLock
  <1> QED
    BY <1>1, <1>3, <1>4, <1>5, Creation

(* What the tables say of a will after one of its rows was written. *)
LEMMA TableWrites ==
  ASSUME ServiceInv, [Next]_vars, NEW p \in Procs, NEW id \in WillID,
         id = req[p].id, SignWitnessWrite(p) \/ RowWrites(p)
  PROVE  TableInv(id)'
  <1> DEFINE r == req[p]
  <1>1. TypeOK /\ TableInv(id) /\ RequestInv(p) /\ will[id] \in Row
    BY DEF ServiceInv, TypeOK
  <1>2. r # Idle /\ r \in Request /\ r.pc = "write" /\ r.at \in Int
        /\ r.delay \in Int
    BY <1>1, WriterBusy DEF Writes, Request
  <1>3. /\ Executed(id) => Executed(id)'
        /\ \A t : Earned(id, t) =>
              \E n \in notices'[id] : t >= n.at + n.delay
    BY Stable
  <1>4. now <= now' /\ now \in Int /\ now' \in Int
    BY NextGrows, NextTypeOK DEF Grows, ServiceInv, TypeOK
  <1>5. /\ Exists(id) /\ Exists(id)'
        /\ will'[id].testator = will[id].testator
        /\ will[id].testator \in FLT
        /\ witness[id] # <<>> => will'[id].signed # NULL
    <2>1. CASE SignWitnessWrite(p)
      BY <1>1, <2>1, WitnessUpdate DEF TableInv, Exists
    <2>2. CASE ~SignWitnessWrite(p)
      BY <1>1, <2>2, RowUpdate DEF TableInv, Exists
    <2> QED
      BY <2>1, <2>2
  <1>6. \A i \in 1..Len(witness'[id]) :
           witness'[id][i].flt # will'[id].testator
    BY WitnessesKept
  <1>7. will[id].unlockAfter # NULL => Earned(id, will[id].unlockAfter)
    BY <1>1 DEF TableInv
  <1>8. CASE SignWitnessWrite(p)
    <2>1. will' = will /\ will[id].signed # NULL
      BY <1>1, <1>8, WitnessUpdate
    <2>2. will[id].status = "unlocked_at_death" =>
            /\ will[id].unlockedAt # NULL /\ will[id].unlockedAt <= now
            /\ Earned(id, will[id].unlockedAt)
      BY <1>1 DEF TableInv
    <2>3. will[id].unlockedAt # NULL => will[id].unlockedAt \in Int
      BY <1>1 DEF Row
    <2>4. will'[id].status = "unlocked_at_death" =>
            /\ will'[id].unlockedAt # NULL /\ will'[id].unlockedAt <= now'
            /\ Earned(id, will[id].unlockedAt)'
      BY <1>3, <1>4, <2>1, <2>2, <2>3 DEF Earned
    <2>5. will'[id].unlockAfter # NULL => Earned(id, will[id].unlockAfter)'
      BY <1>3, <1>7, <2>1 DEF Earned
    <2>6. will'[id].status \in PostLock => Executed(id)'
      BY <1>1, <1>3, <2>1 DEF TableInv
    <2> QED
      BY <1>5, <1>6, <2>1, <2>4, <2>5, <2>6 DEF TableInv
  <1>9. CASE \/ SignTestatorWrite(p) \/ ConfirmLivenessWrite(p)
             \/ SendReminderWrite(p)
    <2>1. /\ will'[id].status = will[id].status
          /\ will'[id].unlockAfter = will[id].unlockAfter
          /\ will'[id].unlockedAt = will[id].unlockedAt
      <3>1. CASE SignTestatorWrite(p)
        BY <1>1, <3>1
        DEF SignTestatorWrite, RecordTestatorSignature, Row, TypeOK
      <3>2. CASE ConfirmLivenessWrite(p)
        BY <1>1, <3>2
        DEF ConfirmLivenessWrite, RecordLivenessConfirmation, Row, TypeOK
      <3>3. CASE SendReminderWrite(p)
        BY <1>1, <3>3
        DEF SendReminderWrite, RecordLivenessReminder, Row, TypeOK
      <3> QED
        BY <1>9, <3>1, <3>2, <3>3
    <2>2. will[id].status = "unlocked_at_death" =>
            /\ will[id].unlockedAt # NULL /\ will[id].unlockedAt <= now
            /\ Earned(id, will[id].unlockedAt)
      BY <1>1 DEF TableInv
    <2>3. will[id].unlockedAt # NULL => will[id].unlockedAt \in Int
      BY <1>1 DEF Row
    <2>4. will'[id].status = "unlocked_at_death" =>
            /\ will'[id].unlockedAt # NULL /\ will'[id].unlockedAt <= now'
            /\ Earned(id, will[id].unlockedAt)'
      BY <1>3, <1>4, <2>1, <2>2, <2>3 DEF Earned
    <2>5. will'[id].unlockAfter # NULL => Earned(id, will[id].unlockAfter)'
      BY <1>3, <1>7, <2>1 DEF Earned
    <2>6. will'[id].status \in PostLock => Executed(id)'
      BY <1>1, <1>3, <2>1 DEF TableInv
    <2>7. witness' = witness
      BY <1>9 DEF SignTestatorWrite, ConfirmLivenessWrite, SendReminderWrite
    <2> QED
      BY <1>5, <1>6, <2>1, <2>4, <2>5, <2>6, <2>7 DEF TableInv
  <1>10. CASE LockWrite(p)
    <2>1. /\ will'[id].status = "locked"
          /\ will'[id].unlockAfter = will[id].unlockAfter
          /\ witness' = witness
      BY <1>1, <1>10 DEF LockWrite, UpdateStatus, Row, TypeOK
    <2>2. will[id].signed # NULL /\ Len(witness[id]) >= 2
      BY <1>1, <1>2, <1>10 DEF LockWrite, At, RequestInv
    <2>3. Executed(id)'
      BY <1>1, <1>3, <1>5, <2>2 DEF TableInv, Executed
    <2>4. will'[id].unlockAfter # NULL => Earned(id, will[id].unlockAfter)'
      BY <1>3, <1>7, <2>1 DEF Earned
    <2> QED
      BY <1>5, <1>6, <2>1, <2>3, <2>4 DEF TableInv
  <1>11. CASE UnlockNow(p)
    <2>1. /\ will'[id].status = "unlocked_at_death"
          /\ will'[id].unlockedAt = r.at
          /\ will'[id].unlockAfter = will[id].unlockAfter
          /\ witness' = witness
      BY <1>1, <1>11 DEF UnlockNow, UpdateStatus, Row, TypeOK
    <2>2. /\ Executed(id) /\ r.at <= now /\ r.delay = 0
          /\ [at |-> r.at, delay |-> r.delay] \in notices[id]
      BY <1>1, <1>2, <1>11 DEF UnlockNow, At, RequestInv
    <2>3. r.at >= [at |-> r.at, delay |-> r.delay].at
                    + [at |-> r.at, delay |-> r.delay].delay
      BY <1>2, <2>2
    <2>4. Earned(id, r.at)
      BY <2>2, <2>3 DEF Earned
    <2>5. Earned(id, will[id].unlockedAt)'
      BY <1>3, <2>1, <2>4 DEF Earned
    <2>6. will'[id].unlockAfter # NULL => Earned(id, will[id].unlockAfter)'
      BY <1>3, <1>7, <2>1 DEF Earned
    <2>7. will'[id].unlockedAt # NULL /\ will'[id].unlockedAt <= now'
      BY <1>2, <1>4, <2>1, <2>2, NullAssumption
    <2> QED
      BY <1>3, <1>5, <1>6, <2>1, <2>2, <2>5, <2>6, <2>7 DEF TableInv
  <1>12. CASE StartCoolingOff(p)
    <2>1. /\ will'[id].status = "death_notified"
          /\ will'[id].unlockAfter = r.at + r.delay
          /\ witness' = witness
      BY <1>1, <1>12 DEF StartCoolingOff, NotifyDeath, Row, TypeOK
    <2>2. /\ Executed(id)
          /\ [at |-> r.at, delay |-> r.delay] \in notices[id]
      BY <1>1, <1>2, <1>12 DEF StartCoolingOff, At, RequestInv
    <2>3. r.at + r.delay >= [at |-> r.at, delay |-> r.delay].at
                              + [at |-> r.at, delay |-> r.delay].delay
      BY <1>2
    <2>4. Earned(id, r.at + r.delay)
      BY <2>2, <2>3 DEF Earned
    <2>5. Earned(id, will[id].unlockAfter)'
      BY <1>3, <2>1, <2>4 DEF Earned
    <2> QED
      BY <1>3, <1>5, <1>6, <2>1, <2>2, <2>5 DEF TableInv
  <1>13. CASE CompleteUnlockWrite(p)
    <2>1. /\ will'[id].status = "unlocked_at_death"
          /\ will'[id].unlockedAt = r.at
          /\ will'[id].unlockAfter = will[id].unlockAfter
          /\ witness' = witness
      BY <1>1, <1>13 DEF CompleteUnlockWrite, UpdateStatus, Row, TypeOK
    <2>2. Executed(id) /\ r.at <= now /\ Earned(id, r.at)
      BY <1>1, <1>2, <1>13 DEF CompleteUnlockWrite, At, RequestInv
    <2>3. Earned(id, will[id].unlockedAt)'
      BY <1>3, <2>1, <2>2 DEF Earned
    <2>4. will'[id].unlockAfter # NULL => Earned(id, will[id].unlockAfter)'
      BY <1>3, <1>7, <2>1 DEF Earned
    <2>5. will'[id].unlockedAt # NULL /\ will'[id].unlockedAt <= now'
      BY <1>2, <1>4, <2>1, <2>2, NullAssumption
    <2> QED
      BY <1>3, <1>5, <1>6, <2>1, <2>2, <2>3, <2>4, <2>5 DEF TableInv
  <1> QED
    BY <1>8, <1>9, <1>10, <1>11, <1>12, <1>13 DEF RowWrites

(* Every step keeps what the tables say of every will. *)
LEMMA NextTableInv ==
  ASSUME ServiceInv, [Next]_vars, NEW id \in WillID
  PROVE  TableInv(id)'
  <1>1. CASE UNCHANGED <<will, witness>>
    BY <1>1, TableUntouched
  <1>2. ASSUME NEW p \in Procs, Writes(p)
        PROVE  TableInv(id)'
    <2>1. TypeOK /\ RequestInv(p)
      BY DEF ServiceInv
    <2>2. CASE CreateDraftTx(p) \/ CreateCodicilTx(p)
      BY <2>2, TableCreation
    <2>3. CASE ~(CreateDraftTx(p) \/ CreateCodicilTx(p)) /\ id = req[p].id
      BY <1>2, <2>3, TableWrites DEF Writes
    <2>4. CASE ~(CreateDraftTx(p) \/ CreateCodicilTx(p)) /\ id # req[p].id
      <3>1. will'[id] = will[id] /\ witness'[id] = witness[id]
        BY <1>2, <2>1, <2>4, RowUpdate, WitnessUpdate DEF Writes
      <3> QED
        BY <3>1, TableUntouched
    <2> QED
      BY <2>2, <2>3, <2>4
  <1>3. UNCHANGED <<will, witness>> \/ \E p \in Procs : Writes(p)
    BY NonWrites
  <1> QED
    BY <1>1, <1>2, <1>3

-----------------------------------------------------------------------------
(* A will appears only by one of the creating transactions. *)
LEMMA NewWill ==
  ASSUME ServiceInv, [Next]_vars, NEW id \in WillID,
         ~Exists(id), will'[id].status # "absent"
  PROVE  \E p \in Procs : /\ CreateDraftTx(p) \/ CreateCodicilTx(p)
                          /\ id = req[p].id
  <1>1. ASSUME NEW p \in Procs, Writes(p),
               ~(CreateDraftTx(p) \/ CreateCodicilTx(p))
        PROVE  FALSE
    <2>1. TypeOK /\ RequestInv(p)
      BY DEF ServiceInv
    <2> QED
      BY <1>1, <2>1, RowUpdate, WitnessUpdate DEF Writes, Exists
  <1>2. ASSUME NEW p \in Procs, CreateDraftTx(p) \/ CreateCodicilTx(p),
               id # req[p].id
        PROVE  FALSE
    <2>1. TypeOK /\ RequestInv(p)
      BY DEF ServiceInv
    <2> QED
      BY <1>2, <2>1, Creation DEF Exists
  <1>3. UNCHANGED <<will, witness>> \/ \E p \in Procs : Writes(p)
    BY NonWrites
  <1> QED
    BY <1>1, <1>2, <1>3 DEF Exists

(* Every step keeps codicils attached. *)
LEMMA NextCodicilAttached ==
  ASSUME ServiceInv, [Next]_vars
  PROVE  CodicilAttached'
  <1>1. SUFFICES ASSUME NEW id \in WillID, will'[id].parent # NULL
                 PROVE  /\ Executed(will[id].parent)'
                        /\ will'[will'[id].parent].testator
                             = will'[id].testator
    BY DEF CodicilAttached
  <1> DEFINE parent == will'[id].parent
  <1>2. parent \in WillID
    <2>1. will'[id] \in Row
      BY NextTypeOK DEF ServiceInv, TypeOK
    <2> QED
      BY <1>1, <2>1 DEF Row
  <1>3. SUFFICES Executed(parent) /\ will[parent].testator = will'[id].testator
    <2>1. ASSUME Executed(parent) PROVE Executed(will[id].parent)'
      BY <1>2, <2>1, Stable DEF Executed, Exists
    <2>2. ASSUME Executed(parent)
          PROVE  will'[parent].testator = will[parent].testator
      BY <1>2, <2>2, NextGrows DEF Grows, Executed
    <2> QED
      BY <2>1, <2>2
  <1>4. CASE Exists(id)
    <2>1. /\ will'[id].parent = will[id].parent
          /\ will'[id].testator = will[id].testator
      BY <1>4, NextGrows DEF Grows
    <2> QED
      BY <1>1, <2>1 DEF ServiceInv, CodicilAttached
  <1>5. CASE ~Exists(id)
    <2>1. TableInv(id)'
      BY NextTableInv
    <2>2. will'[id].status # "absent"
      BY <1>1, <2>1 DEF TableInv, Exists, NoRow
    <2>3. PICK p \in Procs : /\ CreateDraftTx(p) \/ CreateCodicilTx(p)
                             /\ id = req[p].id
      BY <1>5, <2>2, NewWill
    <2>4. TypeOK /\ RequestInv(p)
      BY DEF ServiceInv
    <2>5. will'[id] = req[p].draft /\ req[p].draft.testator = req[p].by
      BY <2>3, <2>4, Creation
    <2>6. req[p] # Idle /\ req[p].pc = "write"
      BY <2>3, <2>4, WriterBusy DEF Writes
    <2>7. req[p].op = "CreateCodicil"
      BY <1>1, <2>3, <2>4, <2>5, <2>6
      DEF RequestInv, CreateDraftTx, CreateCodicilTx, At
    <2> QED
      BY <2>4, <2>5, <2>6, <2>7 DEF RequestInv
  <1> QED
    BY <1>4, <1>5

(* Every step keeps superseded wills bound to a successor. *)
LEMMA NextSuperseded ==
  ASSUME ServiceInv, [Next]_vars
  PROVE  SupersededBySuccessor'
  <1> DEFINE Succ(id, s) ==
        /\ will'[s].status # "absent"
        /\ will'[s].testator = will'[id].testator
        /\ will'[s].parent = NULL
  <1>1. SUFFICES ASSUME NEW id \in WillID
                 PROVE  /\ will'[id].status = "superseded" =>
                              will'[id].supersededBy # NULL
                        /\ will'[id].supersededBy # NULL =>
                              Succ(id, will'[id].supersededBy)
    BY DEF SupersededBySuccessor, Exists
  <1>2. TypeOK /\ TableInv(id) /\ will[id] \in Row
    BY DEF ServiceInv, TypeOK
  <1>3. /\ will[id].status = "superseded" => will[id].supersededBy # NULL
        /\ will[id].supersededBy # NULL =>
              /\ Exists(will[id].supersededBy)
              /\ will[will[id].supersededBy].testator = will[id].testator
              /\ will[will[id].supersededBy].parent = NULL
    BY DEF ServiceInv, SupersededBySuccessor
  <1>4. CASE /\ will'[id].supersededBy = will[id].supersededBy
             /\ will'[id].status \in PostLock \cup {will[id].status, "draft"}
    <2>1. will'[id].status = "superseded" => will'[id].supersededBy # NULL
      BY <1>3, <1>4 DEF PostLock
    <2>2. ASSUME will'[id].supersededBy # NULL
          PROVE  Succ(id, will'[id].supersededBy)
      <3>1. will[id].supersededBy \in WillID
        BY <1>2, <1>4, <2>2 DEF Row
      <3>2. Exists(id)
        BY <1>2, <1>4, <2>2 DEF TableInv, NoRow
      <3>3. will'[id].testator = will[id].testator
        BY <3>2, NextGrows DEF Grows
      <3> QED
        BY <1>3, <1>4, <2>2, <3>1, <3>3, NextGrows DEF Grows, Exists
    <2> QED
      BY <2>1, <2>2
  <1>5. CASE UNCHANGED <<will, witness>>
    BY <1>4, <1>5
  <1>6. ASSUME NEW p \in Procs, CreateDraftTx(p) \/ CreateCodicilTx(p)
        PROVE  /\ will'[id].status = "superseded" =>
                     will'[id].supersededBy # NULL
               /\ will'[id].supersededBy # NULL =>
                     Succ(id, will'[id].supersededBy)
    <2>1. RequestInv(p)
      BY DEF ServiceInv
    <2>2. req[p] # Idle /\ req[p].id \in WillID /\ req[p].pc = "write"
      BY <1>2, <1>6, <2>1, WriterBusy DEF Writes
    <2>3. CASE id = req[p].id
      <3>1. will'[id].status = "draft" /\ will'[id].supersededBy = NULL
        BY <1>2, <1>6, <2>1, <2>3, Creation
      <3> QED
        BY <3>1
    <2>4. CASE will'[id] = will[id]
      BY <1>4, <2>4
    <2>5. CASE /\ CreateDraftTx(p) /\ id \in req[p].sup /\ Exists(id)
               /\ Superseded(will[id], will'[id], req[p].id)
      <3>1. /\ will'[id].supersededBy = req[p].id
            /\ will'[id].testator = will[id].testator
        BY <2>5 DEF Superseded
      <3>2. will[id].testator = req[p].by /\ req[p].draft.parent = NULL
        BY <2>1, <2>2, <2>5 DEF RequestInv, CreateDraftTx, At
      <3>3. /\ will'[req[p].id] = req[p].draft
            /\ req[p].draft.status = "draft"
            /\ req[p].draft.testator = req[p].by
        BY <1>2, <1>6, <2>1, Creation
      <3> QED
        BY <2>2, <3>1, <3>2, <3>3, NullAssumption
    <2> QED
      BY <1>2, <1>6, <2>1, <2>3, <2>4, <2>5, Creation
  <1>7. ASSUME NEW p \in Procs, RowWrites(p)
        PROVE  /\ will'[id].supersededBy = will[id].supersededBy
               /\ will'[id].status \in PostLock \cup {will[id].status}
    <2>1. TypeOK /\ RequestInv(p)
      BY DEF ServiceInv
    <2> QED
      BY <1>7, <2>1, RowUpdate
  <1>8. ASSUME NEW p \in Procs, SignWitnessWrite(p)
        PROVE  will' = will
    BY <1>8 DEF SignWitnessWrite
  <1>9. UNCHANGED <<will, witness>> \/ \E p \in Procs : Writes(p)
    BY NonWrites
  <1> QED
    BY <1>4, <1>5, <1>6, <1>7, <1>8, <1>9 DEF Writes

-----------------------------------------------------------------------------
(***************************************************************************)
(* Requests.  A step of goroutine p moves p alone, and the will id that p  *)
(* then holds is its old one, that of a stored will, or a fresh one.       *)
(***************************************************************************)
Moves(p) ==
    /\ \A q \in Procs \ {p} : req'[q] = req[q]
    /\ \/ req'[p].id \in {req[p].id, NULL}
       \/ /\ req'[p].id \in WillID
          /\ Exists(req'[p].id) \/ \A q \in Procs : req[q].id # req'[p].id
    /\ Creating(req[p]) => req'[p] # req[p]

(* Executed after the step, of a will named before it. *)
ExecutedAfter(id) ==
    /\ will'[id].status # "absent"
    /\ will'[id].signed # NULL
    /\ Len(witness'[id]) >= 2
    /\ \A i \in 1..Len(witness'[id]) :
            witness'[id][i].flt # will'[id].testator

(* What a goroutine that did not move relied on, it may still rely on. *)
LEMMA OtherRequests ==
  ASSUME ServiceInv, [Next]_vars, NEW q \in Procs, req'[q] = req[q],
         Creating(req[q]) =>
            /\ \A o \in Procs \ {q} : req'[o].id # req[q].id
            /\ will'[req[q].id].status = "absent"
  PROVE  RequestInv(q)'
  <1> DEFINE r == req[q]
  <1>1. SUFFICES ASSUME r # Idle
                 PROVE  RequestInv(q)'
    BY DEF RequestInv, Idle, NoRow
  <1>2. RequestInv(q) /\ TypeOK /\ Grows
    BY NextGrows DEF ServiceInv
  <1>3. r.id \in WillID /\ r.op \in Op /\ r.pc # "idle"
    BY <1>1, <1>2 DEF RequestInv
  <1>4. now \in Int /\ now' \in Int /\ now <= now' /\ r.at \in Int
    BY <1>2, NextTypeOK DEF Grows, ServiceInv, TypeOK, Request
  <1>5. \A id \in WillID : Executed(id) => ExecutedAfter(id)
    BY Stable DEF Executed, Exists, ExecutedAfter
  <1>6. \A t : Earned(r.id, t) =>
                 \E n \in notices'[r.id] : t >= n.at + n.delay
    BY <1>3, Stable
  <1>7. ~Creating(r) => will'[r.id].status # "absent"
    BY <1>1, <1>2, <1>3 DEF RequestInv, Grows, Exists
  <1>8. ~Creating(r) => will'[r.id].testator = will[r.id].testator
    BY <1>1, <1>2, <1>3 DEF RequestInv, Grows
  <1>9. /\ will[r.id].signed # NULL => will'[r.id].signed # NULL
        /\ Len(witness[r.id]) >= 2 => Len(witness'[r.id]) >= 2
    <2>1. Len(witness[r.id]) \in Nat /\ Len(witness'[r.id]) \in Nat
      BY <1>3, NextTypeOK DEF ServiceInv, TypeOK
    <2> QED
      BY <1>2, <1>3, <2>1 DEF Grows
  <1>10. r.op = "CreateDraft" /\ r.pc = "write" =>
           \A w \in r.sup : /\ will'[w].status # "absent"
                            /\ will'[w].testator = r.by
                            /\ will'[w].parent = NULL
    <2>1. r.sup \subseteq WillID
      BY <1>2 DEF TypeOK, Request
    <2> QED
      BY <1>1, <1>2, <2>1 DEF RequestInv, Grows, Exists
  <1>11. r.op = "CreateCodicil" /\ r.pc = "write" =>
            /\ ExecutedAfter(r.draft.parent)
            /\ will'[r.draft.parent].testator = r.by
    <2>1. SUFFICES ASSUME r.op = "CreateCodicil", r.pc = "write"
                   PROVE  /\ ExecutedAfter(r.draft.parent)
                          /\ will'[r.draft.parent].testator = r.by
      OBVIOUS
    <2>2. /\ r.draft.parent \in WillID /\ Executed(r.draft.parent)
          /\ will[r.draft.parent].testator = r.by
      BY <1>1, <1>2, <2>1 DEF RequestInv
    <2> QED
      BY <1>2, <1>5, <2>2 DEF Grows, Executed
  <1>12. r.op = "NotifyDeath" /\ r.pc = "write" =>
            /\ ExecutedAfter(r.id) /\ r.at <= now'
            /\ [at |-> r.at, delay |-> r.delay] \in notices'[r.id]
    <2>1. SUFFICES ASSUME r.op = "NotifyDeath", r.pc = "write"
                   PROVE  /\ ExecutedAfter(r.id) /\ r.at <= now'
                          /\ [at |-> r.at, delay |-> r.delay] \in notices'[r.id]
      OBVIOUS
    <2>2. /\ Executed(r.id) /\ r.at <= now
          /\ [at |-> r.at, delay |-> r.delay] \in notices[r.id]
      BY <1>1, <1>2, <2>1 DEF RequestInv
    <2> QED
      BY <1>2, <1>3, <1>4, <1>5, <2>2 DEF Grows
  <1>13. r.op = "GetWill" /\ r.pc \in {"complete", "write"} =>
            /\ ExecutedAfter(r.id) /\ r.at <= now'
            /\ \E n \in notices'[r.id] : r.at >= n.at + n.delay
    <2>1. SUFFICES ASSUME r.op = "GetWill", r.pc \in {"complete", "write"}
                   PROVE  /\ ExecutedAfter(r.id) /\ r.at <= now'
                          /\ \E n \in notices'[r.id] : r.at >= n.at + n.delay
      OBVIOUS
    <2>2. Executed(r.id) /\ r.at <= now /\ Earned(r.id, r.at)
      BY <1>1, <1>2, <2>1 DEF RequestInv
    <2> QED
      BY <1>3, <1>4, <1>5, <1>6, <2>2
  <1>14. r.pc = "respond" => \E n \in notices'[r.id] : now' >= n.at + n.delay
    <2>1. SUFFICES ASSUME r.pc = "respond"
                   PROVE  \E n \in notices'[r.id] : now' >= n.at + n.delay
      OBVIOUS
    <2>2. Earned(r.id, now)
      BY <1>1, <1>2, <2>1 DEF RequestInv
    <2>3. PICK n \in notices'[r.id] : now >= n.at + n.delay
      BY <1>6, <2>2
    <2>4. n.at \in Int /\ n.delay \in Int
      BY <1>3, NextTypeOK DEF ServiceInv, TypeOK, Notice
    <2> QED
      BY <1>4, <2>3, <2>4
  <1>15. Creating(r) =>
            /\ will'[r.id].status = "absent"
            /\ \A o \in Procs \ {q} : req'[o].id # r.id
            /\ r.by \in FLT
            /\ r.draft.status = "draft"
            /\ r.draft.testator = r.by
            /\ r.draft.signed = NULL
            /\ r.draft.unlockAfter = NULL
            /\ r.draft.supersededBy = NULL
    BY <1>1, <1>2 DEF RequestInv
  <1> HIDE DEF r
  <1>16. req'[q] = r /\ RequestInv(q)
    BY <1>2 DEF r
  <1>17. /\ r.op = "CreateDraft" /\ r.pc = "write" => r.draft.parent = NULL
         /\ r.op = "CreateCodicil" /\ r.pc = "write" => r.draft.parent \in WillID
         /\ r.op = "SignTestator" /\ r.pc = "write" => r.hash \in Hash
         /\ r.op = "SignWitness" /\ r.pc = "write" =>
              /\ r.hash \in Hash /\ r.by \in FLT
              /\ r.by # will[r.id].testator /\ will[r.id].signed # NULL
         /\ r.op = "Lock" /\ r.pc \in {"fetch", "write"} =>
              will[r.id].signed # NULL
         /\ r.op = "Lock" /\ r.pc = "write" => Len(witness[r.id]) >= 2
    BY <1>1, <1>2 DEF RequestInv, r
  <1>18. r.op = "SignWitness" => ~Creating(r)
    BY DEF Creating
  <1> QED
    BY <1>3, <1>7, <1>8, <1>9, <1>10, <1>11, <1>12, <1>13, <1>14, <1>15,
       <1>16, <1>17, <1>18
    DEF RequestInv, Earned, Exists, Executed, ExecutedAfter

(* A request that ends. *)
LEMMA FinishRequest ==
  ASSUME TypeOK, NEW p \in Procs, Finish(p), req[p].pc # "idle"
  PROVE  RequestInv(p)' /\ Moves(p)
  <1>1. req'[p] = Idle /\ \A q \in Procs \ {p} : req'[q] = req[q]
    BY DEF Finish, TypeOK
  <1>2. Idle.id = NULL /\ Idle.pc = "idle"
    BY DEF Idle
  <1> QED
    BY <1>1, <1>2 DEF RequestInv, Moves

(* A request that has written and turns to its audit entries. *)
LEMMA AuditRequest ==
  ASSUME TypeOK, NEW p \in Procs, NEW entries, ToAudit(p, entries),
         req[p].id \in WillID, req[p].op \in Op, req[p].pc # "audit",
         will'[req[p].id].status # "absent"
  PROVE  RequestInv(p)' /\ Moves(p)
  <1>1. /\ req'[p].op = req[p].op /\ req'[p].id = req[p].id
        /\ req'[p].pc = "audit"
        /\ \A q \in Procs \ {p} : req'[q] = req[q]
    BY IdleType DEF ToAudit, TypeOK, Request
  <1>2. ~Creating(req'[p])
    BY <1>1 DEF Creating
  <1>3. RequestInv(p)'
    BY <1>1, <1>2 DEF RequestInv, Exists, Creating
  <1> QED
    BY <1>1, <1>3 DEF Moves

(* An open vault was earned by now. *)
LEMMA OpenEarned ==
  ASSUME ServiceInv, NEW id \in WillID,
         will[id].status = "unlocked_at_death"
  PROVE  Earned(id, now)
  <1>1. /\ will[id].unlockedAt # NULL /\ will[id].unlockedAt <= now
        /\ Earned(id, will[id].unlockedAt)
    BY DEF ServiceInv, TableInv
  <1>2. will[id].unlockedAt \in Int /\ now \in Int
    BY <1>1 DEF ServiceInv, TypeOK, Row
  <1>3. PICK n \in notices[id] : will[id].unlockedAt >= n.at + n.delay
    BY <1>1 DEF Earned
  <1>4. n.at \in Int /\ n.delay \in Int
    BY DEF ServiceInv, TypeOK, Notice
  <1> QED
    BY <1>1, <1>2, <1>3, <1>4 DEF Earned

(* A request whose checks passed on what it read. *)
LEMMA ReceiveRequest ==
  ASSUME ServiceInv, NEW p \in Procs, Receive(p)
  PROVE  RequestInv(p)' /\ Moves(p)
  <1>1. TypeOK /\ will' = will /\ witness' = witness
        /\ now' = now /\ now \in Int
    <2>1. UNCHANGED <<will, witness, now>>
      BY DEF Receive, CreateDraftRead, CreateCodicilRead, SignTestatorRead,
             SignWitnessRead, LockRead, NotifyDeathRead, GetWillElapsed,
             GetWillServe, NotifyAllRead, AddClauseRead,
             ConfirmLivenessRead, SendReminderRead, tables
    <2> QED
      BY <2>1 DEF ServiceInv, TypeOK
  <1>2. ASSUME NEW r, Accept(p, r)
        PROVE  /\ req[p] = Idle /\ req'[p] = r
               /\ \A q \in Procs \ {p} : req'[q] = req[q]
    BY <1>1, <1>2 DEF Accept, TypeOK
  <1>3. ~Creating(Idle)
    BY DEF Creating, Idle
  <1>4. ASSUME NEW r, Accept(p, r), r.id \in WillID,
               Exists(r.id) \/ \A q \in Procs : req[q].id # r.id
        PROVE  Moves(p)
    BY <1>2, <1>3, <1>4 DEF Moves
  <1>5. CASE CreateDraftRead(p)
    <2> DEFINE R(id, by, ex, d) ==
          [Idle EXCEPT !.op = "CreateDraft", !.pc = "write", !.id = id,
                       !.by = by, !.draft = buildWill(by, ex, d, NULL),
                       !.sup = FindActiveByTestatorFLT(will, by)]
    <2>1. PICK id \in WillID, by \in Testators, ex \in ExecutorLists,
               d \in WillDelays : Fresh(id) /\ Accept(p, R(id, by, ex, d))
      BY <1>5 DEF CreateDraftRead
    <2>2. by \in FLT
      BY ServiceAssumption
    <2>3. /\ R(id, by, ex, d).op = "CreateDraft"
          /\ R(id, by, ex, d).pc = "write"
          /\ R(id, by, ex, d).id = id /\ R(id, by, ex, d).by = by
          /\ R(id, by, ex, d).draft = buildWill(by, ex, d, NULL)
          /\ R(id, by, ex, d).sup = FindActiveByTestatorFLT(will, by)
      BY IdleType DEF Request
    <2>4. LET w == buildWill(by, ex, d, NULL) IN
          /\ w.status = "draft" /\ w.testator = by /\ w.signed = NULL
          /\ w.unlockAfter = NULL /\ w.supersededBy = NULL
          /\ w.parent = NULL
      BY DEF buildWill, NoRow
    <2>5. \A w \in FindActiveByTestatorFLT(will, by) :
             /\ will[w].status # "absent" /\ will[w].testator = by
             /\ will[w].parent = NULL
      BY DEF FindActiveByTestatorFLT
    <2>6. Moves(p)
      BY <1>4, <2>1, <2>3 DEF Fresh
    <2> HIDE DEF R
    <2>7. /\ req'[p] = R(id, by, ex, d)
          /\ \A q \in Procs \ {p} : req'[q].id # id
          /\ will'[id].status = "absent"
      BY <1>1, <1>2, <2>1 DEF Fresh
    <2>8. RequestInv(p)'
      BY <1>1, <2>2, <2>3, <2>4, <2>5, <2>7
      DEF RequestInv, Creating, Exists, Op
    <2> QED
      BY <2>6, <2>8
  <1>6. CASE CreateCodicilRead(p)
    <2> DEFINE R(id, by, ex, d, parent) ==
          [Idle EXCEPT !.op = "CreateCodicil", !.pc = "write", !.id = id,
                       !.by = by, !.draft = buildWill(by, ex, d, parent)]
    <2>1. PICK id \in WillID, parent \in WillID, by \in FLT,
               ex \in ExecutorLists, d \in WillDelays :
            /\ will[parent].status = "locked" /\ will[parent].testator = by
            /\ Fresh(id) /\ Accept(p, R(id, by, ex, d, parent))
      BY <1>6 DEF CreateCodicilRead
    <2>2. /\ R(id, by, ex, d, parent).op = "CreateCodicil"
          /\ R(id, by, ex, d, parent).pc = "write"
          /\ R(id, by, ex, d, parent).id = id
          /\ R(id, by, ex, d, parent).by = by
          /\ R(id, by, ex, d, parent).draft = buildWill(by, ex, d, parent)
      BY IdleType DEF Request
    <2>3. LET w == buildWill(by, ex, d, parent) IN
          /\ w.status = "draft" /\ w.testator = by /\ w.signed = NULL
          /\ w.unlockAfter = NULL /\ w.supersededBy = NULL
          /\ w.parent = parent
      BY DEF buildWill, NoRow
    <2>4. Executed(parent)
      BY <2>1 DEF ServiceInv, TableInv, PostLock
    <2>5. Moves(p)
      BY <1>4, <2>1, <2>2 DEF Fresh
    <2> HIDE DEF R
    <2>6. /\ req'[p] = R(id, by, ex, d, parent)
          /\ \A q \in Procs \ {p} : req'[q].id # id
          /\ will'[id].status = "absent"
      BY <1>1, <1>2, <2>1 DEF Fresh
    <2>7. RequestInv(p)'
      BY <1>1, <2>1, <2>2, <2>3, <2>4, <2>6
      DEF RequestInv, Creating, Exists, Executed, Op
    <2> QED
      BY <2>5, <2>7
  <1>7. CASE SignTestatorRead(p)
    <2> DEFINE R(id, by, h) ==
          [Idle EXCEPT !.op = "SignTestator", !.pc = "write", !.id = id,
                       !.by = by, !.hash = h]
    <2>1. PICK id \in WillID, by \in FLT, h \in Hash :
            will[id].status = "draft" /\ Accept(p, R(id, by, h))
      BY <1>7 DEF SignTestatorRead
    <2>2. /\ R(id, by, h).op = "SignTestator" /\ R(id, by, h).pc = "write"
          /\ R(id, by, h).id = id /\ R(id, by, h).hash = h
      BY IdleType DEF Request
    <2>3. Moves(p)
      BY <1>4, <2>1, <2>2 DEF Exists
    <2> HIDE DEF R
    <2>4. RequestInv(p)'
      BY <1>1, <1>2, <2>1, <2>2 DEF RequestInv, Creating, Exists, Op
    <2> QED
      BY <2>3, <2>4
  <1>8. CASE SignWitnessRead(p)
    <2> DEFINE R(id, by, h) ==
          [Idle EXCEPT !.op = "SignWitness", !.pc = "write", !.id = id,
                       !.by = by, !.hash = h]
    <2>1. PICK id \in WillID, by \in FLT, h \in Hash :
            /\ will[id].status = "draft" /\ will[id].testator # by
            /\ will[id].signed # NULL /\ Accept(p, R(id, by, h))
      BY <1>8 DEF SignWitnessRead
    <2>2. /\ R(id, by, h).op = "SignWitness" /\ R(id, by, h).pc = "write"
          /\ R(id, by, h).id = id /\ R(id, by, h).hash = h
          /\ R(id, by, h).by = by
      BY IdleType DEF Request
    <2>3. Moves(p)
      BY <1>4, <2>1, <2>2 DEF Exists
    <2> HIDE DEF R
    <2>4. RequestInv(p)'
      BY <1>1, <1>2, <2>1, <2>2 DEF RequestInv, Creating, Exists, Op
    <2> QED
      BY <2>3, <2>4
  <1>9. CASE LockRead(p)
    <2> DEFINE R(id) == [Idle EXCEPT !.op = "Lock", !.pc = "fetch", !.id = id,
                                     !.at = now]
    <2>1. PICK id \in WillID :
            /\ will[id].status = "draft" /\ will[id].signed # NULL
            /\ Accept(p, R(id))
      BY <1>9 DEF LockRead
    <2>2. R(id).op = "Lock" /\ R(id).pc = "fetch" /\ R(id).id = id
      BY IdleType DEF Request
    <2>3. Moves(p)
      BY <1>4, <2>1, <2>2 DEF Exists
    <2> HIDE DEF R
    <2>4. RequestInv(p)'
      BY <1>1, <1>2, <2>1, <2>2 DEF RequestInv, Creating, Exists, Op
    <2> QED
      BY <2>3, <2>4
  <1>10. CASE NotifyDeathRead(p)
    <2> DEFINE R(id, d) ==
          [Idle EXCEPT !.op = "NotifyDeath", !.pc = "write", !.id = id,
                       !.delay = d, !.at = now]
    <2>1. PICK id \in WillID, d \in NoticeDelays :
            /\ will[id].status = "locked" /\ Accept(p, R(id, d))
            /\ notices' = [notices EXCEPT ![id] =
                              @ \cup {[at |-> now, delay |-> d]}]
      BY <1>10 DEF NotifyDeathRead
    <2>2. /\ R(id, d).op = "NotifyDeath" /\ R(id, d).pc = "write"
          /\ R(id, d).id = id /\ R(id, d).at = now /\ R(id, d).delay = d
      BY IdleType DEF Request
    <2>3. Executed(id)
      BY <2>1 DEF ServiceInv, TableInv, PostLock
    <2>4. [at |-> now, delay |-> d] \in notices'[id]
      BY <1>1, <2>1 DEF TypeOK
    <2>5. Moves(p)
      BY <1>4, <2>1, <2>2 DEF Exists
    <2> HIDE DEF R
    <2>6. RequestInv(p)'
      BY <1>1, <1>2, <2>1, <2>2, <2>3, <2>4
      DEF RequestInv, Creating, Exists, Executed, Op
    <2> QED
      BY <2>5, <2>6
  <1>11. CASE \E id \in WillID : GetWillElapsed(p, id)
    <2> DEFINE R(id, by) ==
          [Idle EXCEPT !.op = "GetWill", !.pc = "complete", !.id = id,
                       !.by = by, !.at = now]
    <2>1. PICK id \in WillID, by \in FLT :
            /\ will[id].status = "death_notified" /\ Elapsed(will[id], now)
            /\ Accept(p, R(id, by)) /\ notices' = notices
      BY <1>11 DEF GetWillElapsed
    <2>2. /\ R(id, by).op = "GetWill" /\ R(id, by).pc = "complete"
          /\ R(id, by).id = id /\ R(id, by).at = now
      BY IdleType DEF Request
    <2>3. Executed(id)
      BY <2>1 DEF ServiceInv, TableInv, PostLock
    <2>4. Earned(id, now)
      <3>1. /\ will[id].unlockAfter # NULL /\ now >= will[id].unlockAfter
            /\ will[id].unlockAfter \in Int
        BY <1>1, <2>1 DEF Elapsed, TypeOK, Row
      <3>2. PICK n \in notices[id] : will[id].unlockAfter >= n.at + n.delay
        BY <3>1 DEF ServiceInv, TableInv, Earned
      <3>3. n.at \in Int /\ n.delay \in Int
        BY <1>1 DEF TypeOK, Notice
      <3> QED
        BY <1>1, <3>1, <3>2, <3>3 DEF Earned
    <2>5. Moves(p)
      BY <1>4, <2>1, <2>2 DEF Exists
    <2> HIDE DEF R
    <2>6. RequestInv(p)'
      BY <1>1, <1>2, <2>1, <2>2, <2>3, <2>4
      DEF RequestInv, Creating, Exists, Executed, Earned, Op
    <2> QED
      BY <2>5, <2>6
  <1>12. CASE GetWillServe(p)
    <2> DEFINE R(id, by) ==
          [Idle EXCEPT !.op = "GetWill", !.pc = "respond", !.id = id,
                       !.by = by]
    <2>1. PICK id \in WillID, by \in FLT :
            /\ will[id].status = "unlocked_at_death"
            /\ Accept(p, R(id, by)) /\ notices' = notices
      BY <1>12 DEF GetWillServe
    <2>2. /\ R(id, by).op = "GetWill" /\ R(id, by).pc = "respond"
          /\ R(id, by).id = id
      BY IdleType DEF Request
    <2>3. Earned(id, now)
      BY <1>1, <2>1, OpenEarned
    <2>4. Moves(p)
      BY <1>4, <2>1, <2>2 DEF Exists
    <2> HIDE DEF R
    <2>5. RequestInv(p)'
      BY <1>1, <1>2, <2>1, <2>2, <2>3
      DEF RequestInv, Creating, Exists, Earned, Op
    <2> QED
      BY <2>4, <2>5
  <1>13. CASE AddClauseRead(p)
    <2> DEFINE R(id, op) == [Idle EXCEPT !.op = op, !.pc = "write", !.id = id]
    <2>1. PICK id \in WillID,
               op \in {"AddDigitalAssetClause", "AddPropertyClause"} :
            will[id].status = "draft" /\ Accept(p, R(id, op))
      BY <1>13 DEF AddClauseRead
    <2>2. R(id, op).op = op /\ R(id, op).pc = "write" /\ R(id, op).id = id
      BY IdleType DEF Request
    <2>3. Moves(p)
      BY <1>4, <2>1, <2>2 DEF Exists
    <2> HIDE DEF R
    <2>4. RequestInv(p)'
      BY <1>1, <1>2, <2>1, <2>2 DEF RequestInv, Creating, Exists, Op
    <2> QED
      BY <2>3, <2>4
  <1>14. CASE NotifyAllRead(p)
    <2> DEFINE R(id) ==
          [Idle EXCEPT !.op = "NotifyAll", !.pc = "respond", !.id = id]
    <2>1. PICK id \in WillID :
            /\ will[id].status = "unlocked_at_death"
            /\ Accept(p, R(id)) /\ notices' = notices
      BY <1>14 DEF NotifyAllRead
    <2>2. R(id).op = "NotifyAll" /\ R(id).pc = "respond" /\ R(id).id = id
      BY IdleType DEF Request
    <2>3. Earned(id, now)
      BY <1>1, <2>1, OpenEarned
    <2>4. Moves(p)
      BY <1>4, <2>1, <2>2 DEF Exists
    <2> HIDE DEF R
    <2>5. RequestInv(p)'
      BY <1>1, <1>2, <2>1, <2>2, <2>3
      DEF RequestInv, Creating, Exists, Earned, Op
    <2> QED
      BY <2>4, <2>5
  <1>15. CASE ConfirmLivenessRead(p)
    <2> DEFINE R(id, by) ==
          [Idle EXCEPT !.op = "ConfirmLiveness", !.pc = "write", !.id = id,
                       !.by = by, !.at = now]
    <2>1. PICK id \in WillID, by \in FLT :
            will[id].status # "absent" /\ Accept(p, R(id, by))
      BY <1>15 DEF ConfirmLivenessRead
    <2>2. /\ R(id, by).op = "ConfirmLiveness" /\ R(id, by).pc = "write"
          /\ R(id, by).id = id
      BY IdleType DEF Request
    <2>3. Moves(p)
      BY <1>4, <2>1, <2>2 DEF Exists
    <2> HIDE DEF R
    <2>4. RequestInv(p)'
      BY <1>1, <1>2, <2>1, <2>2 DEF RequestInv, Creating, Exists, Op
    <2> QED
      BY <2>3, <2>4
  <1>16. CASE SendReminderRead(p)
    <2> DEFINE R(id) ==
          [Idle EXCEPT !.op = "SendReminder", !.pc = "write", !.id = id,
                       !.at = now]
    <2>1. PICK id \in WillID :
            will[id].status # "absent" /\ Accept(p, R(id))
      BY <1>16 DEF SendReminderRead
    <2>2. R(id).op = "SendReminder" /\ R(id).pc = "write" /\ R(id).id = id
      BY IdleType DEF Request
    <2>3. Moves(p)
      BY <1>4, <2>1, <2>2 DEF Exists
    <2> HIDE DEF R
    <2>4. RequestInv(p)'
      BY <1>1, <1>2, <2>1, <2>2 DEF RequestInv, Creating, Exists, Op
    <2> QED
      BY <2>3, <2>4
  <1> QED
    BY <1>5, <1>6, <1>7, <1>8, <1>9, <1>10, <1>11, <1>12, <1>13, <1>14,
       <1>15, <1>16
    DEF Receive

(* A request that records, or fails to record, one of its entries. *)
LEMMA EntryRequest ==
  ASSUME ServiceInv, NEW p \in Procs, NEW e, req[p].pc = "audit",
         EntryDone(p, e), UNCHANGED <<will, witness, notices, now>>
  PROVE  RequestInv(p)' /\ Moves(p)
  <1>1. TypeOK /\ RequestInv(p) /\ req[p] \in Request
    BY DEF ServiceInv, TypeOK
  <1>2. req[p] # Idle
    BY DEF Idle
  <1>3. req[p].id \in WillID /\ req[p].op \in Op /\ Exists(req[p].id)
        /\ ~Creating(req[p])
    BY <1>1, <1>2 DEF RequestInv, Creating
  <1>4. CASE Finish(p)
    BY <1>1, <1>4, FinishRequest
  <1>5. CASE ~Finish(p)
    <2>1. /\ req'[p].op = req[p].op /\ req'[p].id = req[p].id
          /\ req'[p].pc \in {"audit", "reload"}
          /\ \A q \in Procs \ {p} : req'[q] = req[q]
      BY <1>1, <1>5 DEF EntryDone, TypeOK, Request
    <2>2. RequestInv(p)'
      BY <1>3, <2>1 DEF RequestInv, Exists, Creating
    <2> QED
      BY <1>3, <2>1, <2>2 DEF Moves
  <1> QED
    BY <1>4, <1>5

(* A request under way moves on. *)
LEMMA ContinueRequest ==
  ASSUME ServiceInv, [Next]_vars, NEW p \in Procs, Continue(p)
  PROVE  RequestInv(p)' /\ Moves(p)
  <1> DEFINE r == req[p]
  <1>1. TypeOK /\ RequestInv(p) /\ r \in Request
    BY DEF ServiceInv, TypeOK
  <1>2. CASE Writes(p)
    <2>1. r # Idle /\ r.id \in WillID /\ r.pc = "write"
      BY <1>1, <1>2, WriterBusy
    <2>2. r.op \in Op
      BY <1>1, <2>1 DEF RequestInv
    <2>3. PICK entries : ToAudit(p, entries)
      BY <1>2 DEF Writes, RowWrites, CreateDraftTx, CreateCodicilTx,
                  SignTestatorWrite, SignWitnessWrite, LockWrite, UnlockNow,
                  StartCoolingOff, CompleteUnlockWrite,
                  ConfirmLivenessWrite, SendReminderWrite
    <2>4. will'[r.id].status # "absent"
      <3>1. CASE CreateDraftTx(p) \/ CreateCodicilTx(p)
        BY <1>1, <3>1, Creation
      <3>2. CASE SignWitnessWrite(p)
        BY <1>1, <3>2, WitnessUpdate DEF Exists
      <3>3. CASE RowWrites(p)
        BY <1>1, <3>3, RowUpdate
      <3> QED
        BY <1>2, <3>1, <3>2, <3>3 DEF Writes
    <2> QED
      BY <1>1, <2>1, <2>2, <2>3, <2>4, AuditRequest
  <1>3. CASE Record(p)
    BY <1>3, EntryRequest DEF Record, NextEntry, tables
  <1>4. ASSUME ~Writes(p), ~Record(p)
        PROVE  /\ r # Idle /\ r.pc # "idle" /\ UNCHANGED <<will, witness, notices, now>>
               /\ r.pc \in {"fetch", "complete", "reload", "respond"}
                    \/ r.op \in {"AddDigitalAssetClause", "AddPropertyClause"}
    BY <1>4 DEF Continue, Writes, RowWrites, At, LockFetch,
                CompleteUnlockRead, Reload,
                Respond, InsertDigitalAsset, InsertPropertyClause,
                InsertClause, tables, Idle
  <1>5. CASE Finish(p) /\ ~Writes(p) /\ ~Record(p)
    BY <1>1, <1>4, <1>5, FinishRequest
  <1>6. ASSUME NEW pc \in {"write", "respond"}, Goto(p, pc)
        PROVE  /\ req'[p].op = r.op /\ req'[p].id = r.id /\ req'[p].pc = pc
               /\ req'[p].at = r.at
               /\ \A q \in Procs \ {p} : req'[q] = req[q]
    BY <1>1, <1>6 DEF Goto, TypeOK, Request
  <1>7. CASE LockFetch(p) /\ ~Finish(p)
    <2>1. /\ r.op = "Lock" /\ r.pc = "fetch" /\ Len(witness[r.id]) >= 2
          /\ Goto(p, "write") /\ UNCHANGED <<will, witness>>
      BY <1>7 DEF LockFetch, At, tables
    <2>2. r # Idle /\ ~Creating(r)
      BY <2>1 DEF Idle, Creating
    <2>3. /\ r.id \in WillID /\ Exists(r.id) /\ will[r.id].signed # NULL
      BY <1>1, <2>1, <2>2 DEF RequestInv
    <2>4. RequestInv(p)'
      BY <1>6, <2>1, <2>3 DEF RequestInv, Creating, Exists, Op
    <2> QED
      BY <1>6, <2>1, <2>2, <2>4 DEF Moves
  <1>8. CASE CompleteUnlockRead(p) /\ ~Finish(p)
    <2>1. /\ r.op = "GetWill" /\ r.pc = "complete" /\ Goto(p, "write")
          /\ UNCHANGED <<will, witness, notices, now>>
      BY <1>8 DEF CompleteUnlockRead, At, tables
    <2>2. r # Idle /\ ~Creating(r)
      BY <2>1 DEF Idle, Creating
    <2>3. /\ r.id \in WillID /\ Exists(r.id) /\ Executed(r.id)
          /\ r.at <= now /\ Earned(r.id, r.at)
      BY <1>1, <2>1, <2>2 DEF RequestInv
    <2>4. RequestInv(p)'
      BY <1>6, <2>1, <2>3
      DEF RequestInv, Creating, Exists, Executed, Earned, Op
    <2> QED
      BY <1>6, <2>1, <2>2, <2>4 DEF Moves
  <1>9. CASE Reload(p) /\ ~Finish(p)
    <2>1. /\ r.op = "GetWill" /\ r.pc = "reload" /\ Goto(p, "respond")
          /\ will[r.id].status = "unlocked_at_death"
          /\ UNCHANGED <<will, witness, notices, now>>
      BY <1>9 DEF Reload, At, tables
    <2>2. r # Idle /\ ~Creating(r)
      BY <2>1 DEF Idle, Creating
    <2>3. r.id \in WillID
      BY <1>1, <2>2 DEF RequestInv
    <2>4. Earned(r.id, now)
      BY <2>1, <2>3, OpenEarned
    <2>5. RequestInv(p)'
      BY <1>6, <2>1, <2>3, <2>4 DEF RequestInv, Creating, Exists, Earned, Op
    <2> QED
      BY <1>6, <2>1, <2>2, <2>5 DEF Moves
  <1>10. CASE \/ Respond(p) \/ InsertDigitalAsset(p)
              \/ InsertPropertyClause(p)
    <2>1. Finish(p) /\ r.pc # "idle"
      BY <1>10 DEF Respond, InsertDigitalAsset, InsertPropertyClause,
                   InsertClause, At
    <2> QED
      BY <1>1, <2>1, FinishRequest
  <1> QED
    BY <1>2, <1>3, <1>5, <1>7, <1>8, <1>9, <1>10
    DEF Continue, Writes, RowWrites

(* Every step keeps what every request under way relies on. *)
LEMMA NextRequestInv ==
  ASSUME ServiceInv, [Next]_vars
  PROVE  \A q \in Procs : RequestInv(q)'
  <1>1. \A q \in Procs : RequestInv(q)
    BY DEF ServiceInv
  <1>2. CASE UNCHANGED <<req, will>>
    <2>1. ASSUME NEW q \in Procs
          PROVE  RequestInv(q)'
      <3>1. Creating(req[q]) => req[q] # Idle
        BY DEF Creating, Idle
      <3> QED
        BY <1>1, <1>2, <3>1, OtherRequests DEF RequestInv, Exists
    <2> QED
      BY <2>1
  <1>3. ASSUME NEW p \in Procs, RequestInv(p)', Moves(p)
        PROVE  \A q \in Procs : RequestInv(q)'
    <2>1. ASSUME NEW q \in Procs, q # p
          PROVE  RequestInv(q)'
      <3>1. req'[q] = req[q]
        BY <1>3, <2>1 DEF Moves
      <3>2. ASSUME Creating(req[q])
            PROVE  /\ \A o \in Procs \ {q} : req'[o].id # req[q].id
                   /\ will'[req[q].id].status = "absent"
        <4>1. req[q] # Idle
          BY <3>2 DEF Creating, Idle
        <4>2. /\ req[q].id \in WillID /\ ~Exists(req[q].id)
              /\ \A o \in Procs \ {q} : req[o].id # req[q].id
          BY <1>1, <3>2, <4>1 DEF RequestInv
        <4>3. \A o \in Procs \ {q} : req'[o].id # req[q].id
          BY <1>3, <4>2, NullAssumption DEF Moves
        <4>4. ASSUME will'[req[q].id].status # "absent"
              PROVE  FALSE
          <5>1. PICK o \in Procs : /\ CreateDraftTx(o) \/ CreateCodicilTx(o)
                                   /\ req[q].id = req[o].id
            BY <4>2, <4>4, NewWill
          <5>2. o = q
            BY <4>2, <5>1
          <5>3. /\ req[q].pc = "write"
                /\ \E entries : ToAudit(q, entries)
            BY <5>1, <5>2 DEF CreateDraftTx, CreateCodicilTx, At
          <5>4. PICK entries : ToAudit(q, entries)
            BY <5>3
          <5>5. req \in [Procs -> Request]
            BY DEF ServiceInv, TypeOK
          <5>6. req'[q].pc = "audit"
            BY <5>4, <5>5, IdleType DEF ToAudit, Request
          <5> QED
            BY <3>1, <5>3, <5>6
        <4> QED
          BY <4>3, <4>4
      <3> QED
        BY <3>1, <3>2, OtherRequests
    <2> QED
      BY <1>3, <2>1
  <1>4. ASSUME NEW p \in Procs, Receive(p)
        PROVE  RequestInv(p)' /\ Moves(p)
    BY <1>4, ReceiveRequest
  <1>5. ASSUME NEW p \in Procs, Continue(p)
        PROVE  RequestInv(p)' /\ Moves(p)
    BY <1>5, ContinueRequest
  <1>6. ASSUME NEW p \in Procs, RecordFails(p)
        PROVE  RequestInv(p)' /\ Moves(p)
    BY <1>6, EntryRequest DEF RecordFails, NextEntry, tables
  <1>7. ASSUME NEW p \in Procs, Fail(p)
        PROVE  RequestInv(p)' /\ Moves(p)
    BY <1>7, FinishRequest DEF Fail, ServiceInv
  <1>8. CASE UNCHANGED vars \/ Tick
    BY <1>2, <1>8 DEF vars, Tick, tables
  <1> QED
    BY <1>3, <1>4, <1>5, <1>6, <1>7, <1>8 DEF Next

-----------------------------------------------------------------------------
(***************************************************************************)
(* The inductive invariant holds in every reachable state.                 *)
(***************************************************************************)
THEOREM Invariance == Spec => []ServiceInv
  <1>1. Init => ServiceInv
    <2>1. SUFFICES ASSUME Init PROVE ServiceInv
      OBVIOUS
    <2>2. TypeOK
      BY <2>1, InitTypeOK
    <2>3. ASSUME NEW id \in WillID
          PROVE  will[id] = NoRow /\ witness[id] = <<>>
      BY <2>1 DEF Init
    <2>4. ASSUME NEW id \in WillID
          PROVE  TableInv(id)
      <3>1. /\ will[id].status = "absent"
            /\ will[id].unlockAfter = NULL
        BY <2>3 DEF NoRow
      <3>2. witness[id] = <<>> /\ Len(witness[id]) = 0
        BY <2>3
      <3>3. \A i \in 1..Len(witness[id]) :
                witness[id][i].flt # will[id].testator
        BY <3>2
      <3> QED
        BY <2>3, <3>1, <3>2, <3>3 DEF TableInv, Exists, PostLock
    <2>5. \A p \in Procs : RequestInv(p)
      BY <2>1 DEF Init, RequestInv
    <2>6. CodicilAttached /\ SupersededBySuccessor
      BY <2>3 DEF CodicilAttached, SupersededBySuccessor, NoRow
    <2> QED
      BY <2>2, <2>4, <2>5, <2>6 DEF ServiceInv
  <1>2. ServiceInv /\ [Next]_vars => ServiceInv'
    <2>1. SUFFICES ASSUME ServiceInv, [Next]_vars PROVE ServiceInv'
      OBVIOUS
    <2>2. TypeOK'
      BY <2>1, NextTypeOK DEF ServiceInv
    <2>3. \A id \in WillID : TableInv(id)'
      BY <2>1, NextTableInv
    <2>4. \A p \in Procs : RequestInv(p)'
      BY <2>1, NextRequestInv
    <2>5. CodicilAttached' /\ SupersededBySuccessor'
      BY <2>1, NextCodicilAttached, NextSuperseded
    <2> QED
      BY <2>2, <2>3, <2>4, <2>5 DEF ServiceInv
  <1> QED
    BY <1>1, <1>2, PTL DEF Spec

(* Every variable has its type, whatever requests interleave or fail. *)
THEOREM TypeCorrect == Spec => []TypeOK
  <1>1. ServiceInv => TypeOK
    BY DEF ServiceInv
  <1> QED
    BY <1>1, Invariance, PTL

(***************************************************************************)
(* A locked, death-notified or unlocked will carries the testator's        *)
(* signature and two witness rows by others, for any number of concurrent  *)
(* requests: Lock, NotifyDeath and CompleteUnlock check on stale reads,    *)
(* but nothing they checked of the signatures is ever taken back.          *)
(***************************************************************************)
THEOREM LockedExecuted == Spec => []LockedIsExecuted
  <1>1. ServiceInv => LockedIsExecuted
    BY DEF ServiceInv, TableInv, LockedIsExecuted
  <1> QED
    BY <1>1, Invariance, PTL

(***************************************************************************)
(* No vault opens, and GetWill serves no will, before the cooling-off      *)
(* period of one of the will's death notifications is over.                *)
(***************************************************************************)
THEOREM VaultEarned == Spec => []UnlockEarned
  <1>1. ServiceInv => UnlockEarned
    <2>1. SUFFICES ASSUME ServiceInv PROVE UnlockEarned
      OBVIOUS
    <2>2. ASSUME NEW p \in Procs, req[p].pc = "respond"
          PROVE  Earned(req[p].id, now)
      <3>1. req[p] # Idle
        BY <2>2 DEF Idle
      <3> QED
        BY <2>1, <2>2, <3>1 DEF ServiceInv, RequestInv
    <2> QED
      BY <2>1, <2>2 DEF ServiceInv, TableInv, UnlockEarned
  <1> QED
    BY <1>1, Invariance, PTL

(* A codicil hangs on an executed will of its own testator. *)
THEOREM CodicilsAttached == Spec => []CodicilAttached
  <1>1. ServiceInv => CodicilAttached
    BY DEF ServiceInv
  <1> QED
    BY <1>1, Invariance, PTL

(* A superseded will names a stored successor of its own testator. *)
THEOREM SuccessorsNamed == Spec => []SupersededBySuccessor
  <1>1. ServiceInv => SupersededBySuccessor
    BY DEF ServiceInv
  <1> QED
    BY <1>1, Invariance, PTL
=============================================================================
