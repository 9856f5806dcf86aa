---------------------------- MODULE WillService ----------------------------
(***************************************************************************)
(* The HTTP handlers and the will service over a shared PostgreSQL pool.   *)
(* Every request runs in a goroutine of its own.  A handler reads a will,  *)
(* checks it in Go, and then writes with a statement that does not repeat  *)
(* the check, so the read and the write are two steps here; the audit      *)
(* entries of the request are recorded in further steps.  Only CreateDraft *)
(* runs a database transaction.  A request whose checks fail changes       *)
(* nothing and is not represented.                                         *)
(***************************************************************************)
EXTENDS WillRepo

CONSTANTS
    Procs,          \* goroutines serving requests: one = serial service
    Endpoints,      \* the operations clients call
    Testators,      \* identities that create wills
    ExecutorLists,  \* sets of executor FLTs a will may be created with
    WillDelays,     \* values of vaultUnlockDelayDays in a create request
    NoticeDelays,   \* values of delayDays in a BDM notification
    MaxTime,        \* bound on the clock, in days
    MaxFails,       \* bound on database errors, cancelled contexts, crashes
    MaxSigs,        \* a witness request is accepted below this many rows
    MaxClauses,     \* a clause request is accepted below this many rows
    MaxNotices      \* bound on the notifications accepted for one will

Op == {"CreateDraft", "CreateCodicil", "SignTestator", "SignWitness", "Lock",
       "NotifyDeath", "GetWill", "NotifyAll", "AddDigitalAssetClause",
       "AddPropertyClause", "ConfirmLiveness", "SendReminder"}

ASSUME ServiceAssumption ==
    /\ Endpoints \subseteq Op
    /\ Testators \subseteq FLT
    /\ ExecutorLists \subseteq SUBSET (FLT \cup {NoFLT})
    /\ WillDelays \subseteq Int
    /\ NoticeDelays \subseteq Int
    /\ MaxTime \in Nat
    /\ MaxFails \in Nat

VARIABLES
    will,       \* table will: id -> row
    witness,    \* table will_witness_signature: id -> rows in signing order
    clauses,    \* the digital asset and property clause tables: id -> rows
    audit,      \* table will_audit_log: id -> events recorded
    notices,    \* history: the death notifications accepted for each will
    req,        \* the request each goroutine is serving
    now,        \* time.Now(), in days
    fails       \* failures so far

tables == <<will, witness, clauses>>
vars == <<will, witness, clauses, audit, notices, req, now, fails>>

Event == {"will_created", "testator_signed", "witness_signed", "locked",
          "death_notified", "vault_unlocked", "codicil_created",
          "codicil_appended", "superseded", "liveness_confirmed",
          "liveness_reminder_sent"}

ClauseKind == {"digital_asset", "property_verified", "property_unverified"}

Entry == WillID \X Event     \* an audit entry to record

Notice == [at : Int, delay : Int]

(***************************************************************************)
(* What a handler holds in local variables: the caller (by), the arguments *)
(* (id, hash, delay), the instant it read the clock (at), the result of    *)
(* FindActiveByTestatorFLT (sup), the row it is about to insert (draft)    *)
(* and the audit entries it has still to record (pend).                    *)
(***************************************************************************)
PC == {"idle", "fetch", "complete", "write", "audit", "reload", "respond"}

Request == [op    : Op \cup {"none"},
            pc    : PC,
            id    : WillID \cup {NULL},
            by    : FLT \cup {NULL},
            hash  : Hash \cup {NULL},
            delay : Int,
            at    : Int,
            sup   : SUBSET WillID,
            draft : Row,
            pend  : SUBSET Entry]

Idle == [op |-> "none", pc |-> "idle", id |-> NULL, by |-> NULL,
         hash |-> NULL, delay |-> 0, at |-> 0, sup |-> {}, draft |-> NoRow,
         pend |-> {}]

Init ==
    /\ will = [w \in WillID |-> NoRow]
    /\ witness = [w \in WillID |-> <<>>]
    /\ clauses = [w \in WillID |-> <<>>]
    /\ audit = [w \in WillID |-> {}]
    /\ notices = [w \in WillID |-> {}]
    /\ req = [p \in Procs |-> Idle]
    /\ now = 0
    /\ fails = 0

-----------------------------------------------------------------------------
(* A goroutine takes a request that passed its first checks. *)
Accept(p, r) ==
    /\ req[p] = Idle
    /\ r.op \in Endpoints
    /\ req' = [req EXCEPT ![p] = r]

At(p, op, pc) == req[p].op = op /\ req[p].pc = pc

Goto(p, pc) == req' = [req EXCEPT ![p].pc = pc]

Finish(p) == req' = [req EXCEPT ![p] = Idle]

(* The write is done: what is left is to record the entries. *)
ToAudit(p, entries) ==
    req' = [req EXCEPT ![p] = [Idle EXCEPT !.op = req[p].op, !.pc = "audit",
                                           !.id = req[p].id, !.by = req[p].by,
                                           !.pend = entries]]

(* newWillID: a random UUID, equal to no stored one nor to one in flight. *)
Fresh(id) ==
    /\ will[id].status = "absent"
    /\ \A q \in Procs : req[q].id # id

-----------------------------------------------------------------------------
(* CreateDraft: find the wills to supersede, then insert and supersede in  *)
(* one transaction.                                                        *)
CreateDraftRead(p) ==
    /\ \E id \in WillID, by \in Testators, ex \in ExecutorLists,
          d \in WillDelays :
        /\ Fresh(id)
        /\ Accept(p, [Idle EXCEPT
                        !.op = "CreateDraft", !.pc = "write", !.id = id,
                        !.by = by, !.draft = buildWill(by, ex, d, NULL),
                        !.sup = FindActiveByTestatorFLT(will, by)])
    /\ UNCHANGED <<tables, audit, notices, now, fails>>

CreateDraftTx(p) ==
    LET r == req[p] IN
    /\ At(p, "CreateDraft", "write")
    /\ will' = CreateDraft(will, r.id, r.draft, r.sup)
    /\ ToAudit(p, {<<r.id, "will_created">>} \cup (r.sup \X {"superseded"}))
    /\ UNCHANGED <<witness, clauses, audit, notices, now, fails>>

\* Mutants of CreateCodicilRead: a draft can be amended; the codicil is
\* given its own id as parent.
CreateCodicilRead_AnyStatus(p) ==
    /\ \E id, parent \in WillID, by \in FLT, ex \in ExecutorLists,
          d \in WillDelays :
        /\ will[parent].testator = by
        /\ Fresh(id)
        /\ Accept(p, [Idle EXCEPT
                        !.op = "CreateCodicil", !.pc = "write", !.id = id,
                        !.by = by, !.draft = buildWill(by, ex, d, parent)])
    /\ UNCHANGED <<tables, audit, notices, now, fails>>

CreateCodicilRead_OwnParent(p) ==
    /\ \E id, parent \in WillID, by \in FLT, ex \in ExecutorLists,
          d \in WillDelays :
        /\ will[parent].status = "locked"
        /\ will[parent].testator = by
        /\ Fresh(id)
        /\ Accept(p, [Idle EXCEPT
                        !.op = "CreateCodicil", !.pc = "write", !.id = id,
                        !.by = by, !.draft = buildWill(by, ex, d, id)])
    /\ UNCHANGED <<tables, audit, notices, now, fails>>

(* CreateCodicil: the parent is locked and belongs to the caller. *)
CreateCodicilRead(p) ==
    /\ \E id, parent \in WillID, by \in FLT, ex \in ExecutorLists,
          d \in WillDelays :
        /\ will[parent].status = "locked"
        /\ will[parent].testator = by
        /\ Fresh(id)
        /\ Accept(p, [Idle EXCEPT
                        !.op = "CreateCodicil", !.pc = "write", !.id = id,
                        !.by = by, !.draft = buildWill(by, ex, d, parent)])
    /\ UNCHANGED <<tables, audit, notices, now, fails>>

\* Mutants of CreateCodicilTx: the codicil supersedes its parent; nothing is
\* recorded for the parent.
CreateCodicilTx_Supersedes(p) ==
    LET r == req[p] IN
    /\ At(p, "CreateCodicil", "write")
    /\ will' = CreateDraft(will, r.id, r.draft, {r.draft.parent})
    /\ ToAudit(p, {<<r.id, "codicil_created">>,
                   <<r.draft.parent, "codicil_appended">>})
    /\ UNCHANGED <<witness, clauses, audit, notices, now, fails>>

CreateCodicilTx_ParentUnrecorded(p) ==
    LET r == req[p] IN
    /\ At(p, "CreateCodicil", "write")
    /\ will' = CreateDraft(will, r.id, r.draft, {})
    /\ ToAudit(p, {<<r.id, "codicil_created">>})
    /\ UNCHANGED <<witness, clauses, audit, notices, now, fails>>

CreateCodicilTx(p) ==
    LET r == req[p] IN
    /\ At(p, "CreateCodicil", "write")
    /\ will' = CreateDraft(will, r.id, r.draft, {})
    /\ ToAudit(p, {<<r.id, "codicil_created">>,
                   <<r.draft.parent, "codicil_appended">>})
    /\ UNCHANGED <<witness, clauses, audit, notices, now, fails>>

-----------------------------------------------------------------------------
SignTestatorRead(p) ==
    /\ \E id \in WillID, by \in FLT, h \in Hash :
        /\ will[id].status = "draft"
        /\ will[id].testator = by
        /\ Accept(p, [Idle EXCEPT !.op = "SignTestator", !.pc = "write",
                                  !.id = id, !.by = by, !.hash = h])
    /\ UNCHANGED <<tables, audit, notices, now, fails>>

SignTestatorWrite(p) ==
    LET r == req[p] IN
    /\ At(p, "SignTestator", "write")
    /\ will' = [will EXCEPT ![r.id] = RecordTestatorSignature(@, r.hash)]
    /\ ToAudit(p, {<<r.id, "testator_signed">>})
    /\ UNCHANGED <<witness, clauses, audit, notices, now, fails>>

\* Mutant: the testator need not have signed.
SignWitnessRead_Unsigned(p) ==
    /\ \E id \in WillID, by \in FLT, h \in Hash :
        /\ will[id].status = "draft"
        /\ will[id].testator # by
        /\ Len(witness[id]) < MaxSigs
        /\ Accept(p, [Idle EXCEPT !.op = "SignWitness", !.pc = "write",
                                  !.id = id, !.by = by, !.hash = h])
    /\ UNCHANGED <<tables, audit, notices, now, fails>>

SignWitnessRead(p) ==
    /\ \E id \in WillID, by \in FLT, h \in Hash :
        /\ will[id].status = "draft"
        /\ will[id].testator # by
        /\ will[id].signed # NULL
        /\ Len(witness[id]) < MaxSigs
        /\ Accept(p, [Idle EXCEPT !.op = "SignWitness", !.pc = "write",
                                  !.id = id, !.by = by, !.hash = h])
    /\ UNCHANGED <<tables, audit, notices, now, fails>>

SignWitnessWrite(p) ==
    LET r == req[p] IN
    /\ At(p, "SignWitness", "write")
    /\ witness' = [witness EXCEPT ![r.id] =
                        RecordWitnessSignature(@, r.by, r.hash)]
    /\ ToAudit(p, {<<r.id, "witness_signed">>})
    /\ UNCHANGED <<will, clauses, audit, notices, now, fails>>

-----------------------------------------------------------------------------
(* Lock: GetByID reads the will row, then the witness rows. *)
LockRead(p) ==
    /\ \E id \in WillID :
        /\ will[id].status = "draft"
        /\ will[id].signed # NULL
        /\ Accept(p, [Idle EXCEPT !.op = "Lock", !.pc = "fetch", !.id = id,
                                  !.at = now])
    /\ UNCHANGED <<tables, audit, notices, now, fails>>

\* Mutant: one witness is enough.
LockFetch_OneWitness(p) ==
    /\ At(p, "Lock", "fetch")
    /\ IF Len(witness[req[p].id]) >= 1 THEN Goto(p, "write") ELSE Finish(p)
    /\ UNCHANGED <<tables, audit, notices, now, fails>>

LockFetch(p) ==
    /\ At(p, "Lock", "fetch")
    /\ IF Len(witness[req[p].id]) >= 2 THEN Goto(p, "write") ELSE Finish(p)
    /\ UNCHANGED <<tables, audit, notices, now, fails>>

LockWrite(p) ==
    LET r == req[p] IN
    /\ At(p, "Lock", "write")
    /\ will' = [will EXCEPT ![r.id] = UpdateStatus(@, "locked", r.at, NULL)]
    /\ ToAudit(p, {<<r.id, "locked">>})
    /\ UNCHANGED <<witness, clauses, audit, notices, now, fails>>

-----------------------------------------------------------------------------
(* The BDM webhook.  The delay is the payload's; the clock is bounded, so  *)
(* the end of the cooling-off period has to lie within MaxTime.            *)
NotifyDeathRead(p) ==
    /\ \E id \in WillID, d \in NoticeDelays :
        /\ will[id].status = "locked"
        /\ now + d <= MaxTime
        /\ Cardinality(notices[id]) < MaxNotices
        /\ Accept(p, [Idle EXCEPT !.op = "NotifyDeath", !.pc = "write",
                                  !.id = id, !.delay = d, !.at = now])
        /\ notices' = [notices EXCEPT ![id] =
                            @ \cup {[at |-> now, delay |-> d]}]
    /\ UNCHANGED <<tables, audit, now, fails>>

UnlockNow(p) ==
    LET r == req[p] IN
    /\ At(p, "NotifyDeath", "write")
    /\ r.delay = 0
    /\ will' = [will EXCEPT ![r.id] =
                    UpdateStatus(@, "unlocked_at_death", NULL, r.at)]
    /\ ToAudit(p, {<<r.id, "vault_unlocked">>})
    /\ UNCHANGED <<witness, clauses, audit, notices, now, fails>>

\* Mutant: unlock_after is the day of the notification.
StartCoolingOff_NoDelay(p) ==
    LET r == req[p] IN
    /\ At(p, "NotifyDeath", "write")
    /\ r.delay # 0
    /\ will' = [will EXCEPT ![r.id] = NotifyDeath(@, r.at, r.at)]
    /\ ToAudit(p, {<<r.id, "death_notified">>})
    /\ UNCHANGED <<witness, clauses, audit, notices, now, fails>>

StartCoolingOff(p) ==
    LET r == req[p] IN
    /\ At(p, "NotifyDeath", "write")
    /\ r.delay # 0
    /\ will' = [will EXCEPT ![r.id] = NotifyDeath(@, r.at, r.at + r.delay)]
    /\ ToAudit(p, {<<r.id, "death_notified">>})
    /\ UNCHANGED <<witness, clauses, audit, notices, now, fails>>

-----------------------------------------------------------------------------
(* Executor access.  Elapsed: the cooling-off is over by the handler's     *)
(* clock, and the handler calls CompleteUnlock with that instant.          *)
Elapsed(row, t) == row.unlockAfter # NULL /\ t >= row.unlockAfter

GetWillElapsed(p, id) ==
    /\ \E by \in FLT :
        /\ will[id].status = "death_notified"
        /\ Elapsed(will[id], now)
        /\ Accept(p, [Idle EXCEPT !.op = "GetWill", !.pc = "complete",
                                  !.id = id, !.by = by, !.at = now])
    /\ UNCHANGED <<tables, audit, notices, now, fails>>

(* CompleteUnlock reads the will again and checks it again. *)
CompleteUnlockRead(p) ==
    LET r == req[p]  row == will[req[p].id] IN
    /\ At(p, "GetWill", "complete")
    /\ IF row.status = "death_notified"
            /\ (row.unlockAfter = NULL \/ r.at >= row.unlockAfter)
       THEN Goto(p, "write")
       ELSE Finish(p)
    /\ UNCHANGED <<tables, audit, notices, now, fails>>

CompleteUnlockWrite(p) ==
    LET r == req[p] IN
    /\ At(p, "GetWill", "write")
    /\ will' = [will EXCEPT ![r.id] =
                    UpdateStatus(@, "unlocked_at_death", NULL, r.at)]
    /\ ToAudit(p, {<<r.id, "vault_unlocked">>})
    /\ UNCHANGED <<witness, clauses, audit, notices, now, fails>>

(* GetByID reads the executor rows with errors swallowed. *)
ReadExecutors(id, seen) ==
    \E failing \in BOOLEAN :
        /\ failing => fails < MaxFails
        /\ fails' = IF failing THEN fails + 1 ELSE fails
        /\ seen \in fetchExecutors(will[id], failing)

GetWillServe(p) ==
    /\ \E id \in WillID, by \in FLT, seen \in SUBSET (FLT \cup {NoFLT}) :
        /\ will[id].status = "unlocked_at_death"
        /\ ReadExecutors(id, seen)
        /\ isNominatedExecutor(seen, by)
        /\ Accept(p, [Idle EXCEPT !.op = "GetWill", !.pc = "respond",
                                  !.id = id, !.by = by])
    /\ UNCHANGED <<tables, audit, notices, now>>

(* After CompleteUnlock the handler loads the will a third time. *)
Reload(p) ==
    LET r == req[p] IN
    /\ At(p, "GetWill", "reload")
    /\ \E seen \in SUBSET (FLT \cup {NoFLT}) :
        /\ ReadExecutors(r.id, seen)
        /\ IF will[r.id].status = "unlocked_at_death"
                /\ isNominatedExecutor(seen, r.by)
           THEN Goto(p, "respond")
           ELSE Finish(p)
    /\ UNCHANGED <<tables, audit, notices, now>>

(* The executor asks to notify the beneficiaries of an open will. *)
NotifyAllRead(p) ==
    /\ \E id \in WillID :
        /\ will[id].status = "unlocked_at_death"
        /\ Accept(p, [Idle EXCEPT !.op = "NotifyAll", !.pc = "respond",
                                  !.id = id])
    /\ UNCHANGED <<tables, audit, notices, now, fails>>

Respond(p) ==
    /\ req[p].pc = "respond"
    /\ Finish(p)
    /\ UNCHANGED <<tables, audit, notices, now, fails>>

-----------------------------------------------------------------------------
\* Mutant: the status is not checked.
AddClauseRead_AnyStatus(p) ==
    /\ \E id \in WillID, by \in FLT,
          op \in {"AddDigitalAssetClause", "AddPropertyClause"} :
        /\ will[id].testator = by
        /\ Len(clauses[id]) < MaxClauses
        /\ Accept(p, [Idle EXCEPT !.op = op, !.pc = "write", !.id = id])
    /\ UNCHANGED <<tables, audit, notices, now, fails>>

(* AddDigitalAssetClause and AddPropertyClause: the second asks LINZ over  *)
(* the network between the check and the insert, and stores the clause     *)
(* whatever the answer.  Neither records an audit entry.                   *)
AddClauseRead(p) ==
    /\ \E id \in WillID, by \in FLT,
          op \in {"AddDigitalAssetClause", "AddPropertyClause"} :
        /\ will[id].status = "draft"
        /\ will[id].testator = by
        /\ Len(clauses[id]) < MaxClauses
        /\ Accept(p, [Idle EXCEPT !.op = op, !.pc = "write", !.id = id])
    /\ UNCHANGED <<tables, audit, notices, now, fails>>

InsertClause(p, kind) ==
    /\ clauses' = [clauses EXCEPT ![req[p].id] = Append(@, kind)]
    /\ Finish(p)
    /\ UNCHANGED <<will, witness, audit, notices, now, fails>>

InsertDigitalAsset(p) ==
    /\ At(p, "AddDigitalAssetClause", "write")
    /\ InsertClause(p, "digital_asset")

(* What SearchByTitleReference comes back with: an error (transport, HTTP  *)
(* status, undecodable body), no parcel of that title, or some.            *)
TitleSearch == {"error", "no_parcel", "parcels"}

(* VerifyTitle takes the first parcel; an empty answer is an error to it. *)
VerifyTitle(titles) == titles = "parcels"

InsertPropertyClause(p) ==
    /\ At(p, "AddPropertyClause", "write")
    /\ \E titles \in TitleSearch :
            InsertClause(p, IF VerifyTitle(titles) THEN "property_verified"
                                                   ELSE "property_unverified")

-----------------------------------------------------------------------------
(* The testator confirms that the will is still current. *)
ConfirmLivenessRead(p) ==
    /\ \E id \in WillID, by \in FLT :
        /\ will[id].status \notin {"absent", "superseded", "unlocked_at_death"}
        /\ will[id].testator = by
        /\ Accept(p, [Idle EXCEPT !.op = "ConfirmLiveness", !.pc = "write",
                                  !.id = id, !.by = by, !.at = now])
    /\ UNCHANGED <<tables, audit, notices, now, fails>>

(* The clock is read after the checks and before the UPDATE. *)
ConfirmLivenessWrite(p) ==
    LET r == req[p] IN
    /\ At(p, "ConfirmLiveness", "write")
    /\ \E t \in r.at..now :
            will' = [will EXCEPT ![r.id] = RecordLivenessConfirmation(@, t)]
    /\ ToAudit(p, {<<r.id, "liveness_confirmed">>})
    /\ UNCHANGED <<witness, clauses, audit, notices, now, fails>>

(* 24 hours on the clock, which counts days. *)
ReminderInterval == 1

RemindedRecently(row, t) ==
    /\ row.livenessNotifiedAt # NULL
    /\ t - row.livenessNotifiedAt < ReminderInterval

(* The scheduler asks to remind the testator of an active will; within 24  *)
(* hours of the last reminder the request is answered as skipped.          *)
SendReminderRead(p) ==
    /\ \E id \in WillID :
        /\ will[id].status \in {"draft", "locked"}
        /\ ~RemindedRecently(will[id], now)
        /\ Accept(p, [Idle EXCEPT !.op = "SendReminder", !.pc = "write",
                                  !.id = id, !.at = now])
    /\ UNCHANGED <<tables, audit, notices, now, fails>>

(* The instant recorded is a second reading of the clock. *)
SendReminderWrite(p) ==
    LET r == req[p] IN
    /\ At(p, "SendReminder", "write")
    /\ \E t \in r.at..now :
            will' = [will EXCEPT ![r.id] = RecordLivenessReminder(@, t)]
    /\ ToAudit(p, {<<r.id, "liveness_reminder_sent">>})
    /\ UNCHANGED <<witness, clauses, audit, notices, now, fails>>

-----------------------------------------------------------------------------
(* The service records the entry of the request's own will first. *)
NextEntry(p) ==
    {e \in req[p].pend :
        e[1] = req[p].id \/ \A f \in req[p].pend : f[1] # req[p].id}

EntryDone(p, e) ==
    IF req[p].pend # {e}
    THEN req' = [req EXCEPT ![p].pend = @ \ {e}]
    ELSE IF req[p].op = "GetWill"
    THEN req' = [req EXCEPT ![p].pend = {}, ![p].pc = "reload"]
    ELSE Finish(p)

Record(p) ==
    /\ req[p].pc = "audit"
    /\ \E e \in NextEntry(p) :
        /\ audit' = [audit EXCEPT ![e[1]] = @ \cup {e[2]}]
        /\ EntryDone(p, e)
    /\ UNCHANGED <<tables, notices, now, fails>>

(* Recording failed: the error is logged and the request goes on. *)
RecordFails(p) ==
    /\ req[p].pc = "audit"
    /\ fails < MaxFails
    /\ fails' = fails + 1
    /\ \E e \in NextEntry(p) : EntryDone(p, e)
    /\ UNCHANGED <<tables, audit, notices, now>>

\* Mutant: the error of Lock's UPDATE is dropped.
Fail_ErrorDropped(p) ==
    /\ req[p].pc # "idle"
    /\ fails < MaxFails
    /\ fails' = fails + 1
    /\ IF At(p, "Lock", "write")
       THEN ToAudit(p, {<<req[p].id, "locked">>})
       ELSE Finish(p)
    /\ UNCHANGED <<tables, audit, notices, now>>

(* The handler returns with an error, or the server stops. *)
Fail(p) ==
    /\ req[p].pc # "idle"
    /\ fails < MaxFails
    /\ fails' = fails + 1
    /\ Finish(p)
    /\ UNCHANGED <<tables, audit, notices, now>>

Tick ==
    /\ now < MaxTime
    /\ now' = now + 1
    /\ UNCHANGED <<tables, audit, notices, req, fails>>

-----------------------------------------------------------------------------
Receive(p) ==
    \/ CreateDraftRead(p) \/ CreateCodicilRead(p)
    \/ SignTestatorRead(p) \/ SignWitnessRead(p)
    \/ LockRead(p) \/ NotifyDeathRead(p)
    \/ \E id \in WillID : GetWillElapsed(p, id)
    \/ GetWillServe(p) \/ NotifyAllRead(p) \/ AddClauseRead(p)
    \/ ConfirmLivenessRead(p) \/ SendReminderRead(p)

Continue(p) ==
    \/ CreateDraftTx(p) \/ CreateCodicilTx(p)
    \/ SignTestatorWrite(p) \/ SignWitnessWrite(p)
    \/ LockFetch(p) \/ LockWrite(p)
    \/ UnlockNow(p) \/ StartCoolingOff(p)
    \/ CompleteUnlockRead(p) \/ CompleteUnlockWrite(p)
    \/ Reload(p) \/ Respond(p)
    \/ InsertDigitalAsset(p) \/ InsertPropertyClause(p)
    \/ ConfirmLivenessWrite(p) \/ SendReminderWrite(p)
    \/ Record(p)

Next ==
    \/ \E p \in Procs :
            Receive(p) \/ Continue(p) \/ RecordFails(p) \/ Fail(p)
    \/ Tick

Spec == Init /\ [][Next]_vars

(***************************************************************************)
(* Fairness: a handler that was started runs on (the Go scheduler), time   *)
(* passes, and executors ask again after "202 Accepted", so that a will    *)
(* whose cooling-off is over again and again finds a goroutine to serve    *)
(* the request.                                                            *)
(***************************************************************************)
Fairness ==
    /\ \A p \in Procs : WF_vars(Continue(p))
    /\ WF_vars(Tick)
    /\ \A id \in WillID :
            SF_vars(\E p \in Procs : GetWillElapsed(p, id))

FairSpec == Spec /\ Fairness

=============================================================================
