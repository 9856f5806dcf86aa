--------------------------- MODULE WillAuditProofs ---------------------------
(***************************************************************************)
(* More proofs about the will service for any number of goroutines: the    *)
(* graphs of codicils and successors have no cycles, the audit log tells   *)
(* the truth, and, while nothing fails, tells all of it.  Everything here  *)
(* is inductive relative to ServiceInv.                                    *)
(***************************************************************************)
EXTENDS WillServiceProofs

-----------------------------------------------------------------------------
(* Only the creating transactions touch the two columns of the graphs. *)
LEMMA LinksKept ==
  ASSUME ServiceInv, [Next]_vars,
         ~\E p \in Procs : CreateDraftTx(p) \/ CreateCodicilTx(p),
         NEW id \in WillID
  PROVE  /\ will'[id].parent = will[id].parent
         /\ will'[id].supersededBy = will[id].supersededBy
  <1>1. CASE UNCHANGED <<will, witness>>
    BY <1>1
  <1>2. ASSUME NEW p \in Procs, Writes(p)
        PROVE  /\ will'[id].parent = will[id].parent
               /\ will'[id].supersededBy = will[id].supersededBy
    <2>1. TypeOK /\ RequestInv(p)
      BY DEF ServiceInv
    <2>2. CASE RowWrites(p)
      BY <2>1, <2>2, RowUpdate
    <2>3. CASE SignWitnessWrite(p)
      BY <2>3 DEF SignWitnessWrite
    <2> QED
      BY <1>2, <2>2, <2>3 DEF Writes
  <1> QED
    BY <1>1, <1>2, NonWrites

(***************************************************************************)
(* A new codicil names a stored will and no stored will names the new one, *)
(* so a creation closes no cycle of parents.                               *)
(***************************************************************************)
LEMMA NextRooted ==
  ASSUME ServiceInv, CodicilRooted, [Next]_vars
  PROVE  CodicilRooted'
  <1> SUFFICES ASSUME NEW S \in (SUBSET WillID) \ {{}}
               PROVE  \E id \in S : will'[id].parent \notin S
    BY DEF CodicilRooted
  <1>1. CASE ~\E p \in Procs : CreateDraftTx(p) \/ CreateCodicilTx(p)
    <2>1. \A id \in S : will'[id].parent = will[id].parent
      BY <1>1, LinksKept
    <2> QED
      BY <2>1 DEF CodicilRooted
  <1>2. ASSUME NEW p \in Procs, CreateDraftTx(p) \/ CreateCodicilTx(p)
        PROVE  \E id \in S : will'[id].parent \notin S
    <2> DEFINE new == req[p].id
    <2>1. TypeOK /\ RequestInv(p)
      BY DEF ServiceInv
    <2>2. new \in WillID /\ req[p] # Idle /\ req[p].pc = "write"
      BY <1>2, <2>1, WriterBusy DEF Writes
    <2>3. ~Exists(new) /\ will'[new] = req[p].draft
      BY <1>2, <2>1, Creation
    <2>4. \A w \in WillID \ {new} : will'[w].parent = will[w].parent
      BY <1>2, <2>1, Creation DEF Superseded
    <2>5. CASE S = {new}
      <3>1. \/ req[p].draft.parent = NULL
            \/ Executed(req[p].draft.parent)
        BY <1>2, <2>1, <2>2
        DEF RequestInv, CreateDraftTx, CreateCodicilTx, At
      <3>2. will'[new].parent # new
        BY <2>2, <2>3, <3>1, NullAssumption DEF Executed
      <3> QED
        BY <2>5, <3>2
    <2>6. CASE S # {new}
      <3>1. S \ {new} \in (SUBSET WillID) \ {{}}
        BY <2>6
      <3>2. PICK id \in S \ {new} : will[id].parent \notin S \ {new}
        BY <3>1 DEF CodicilRooted
      <3>3. will[id].parent # new
        <4>1. will[id].parent # NULL => Executed(will[id].parent)
          BY <3>2 DEF ServiceInv, CodicilAttached
        <4> QED
          BY <2>2, <2>3, <4>1, NullAssumption DEF Executed
      <3> QED
        BY <2>4, <3>2, <3>3
    <2> QED
      BY <2>5, <2>6
  <1> QED
    BY <1>1, <1>2

(***************************************************************************)
(* A new will has no successor, and those it supersedes point to it.       *)
(***************************************************************************)
LEMMA NextAcyclic ==
  ASSUME ServiceInv, SupersessionAcyclic, [Next]_vars
  PROVE  SupersessionAcyclic'
  <1> SUFFICES ASSUME NEW S \in (SUBSET WillID) \ {{}}
               PROVE  \E id \in S : will'[id].supersededBy \notin S
    BY DEF SupersessionAcyclic
  <1>1. PICK id \in S : will[id].supersededBy \notin S
    BY DEF SupersessionAcyclic
  <1>2. CASE ~\E p \in Procs : CreateDraftTx(p) \/ CreateCodicilTx(p)
    BY <1>1, <1>2, LinksKept
  <1>3. ASSUME NEW p \in Procs, CreateDraftTx(p) \/ CreateCodicilTx(p)
        PROVE  \E w \in S : will'[w].supersededBy \notin S
    <2> DEFINE new == req[p].id
    <2>1. TypeOK /\ RequestInv(p)
      BY DEF ServiceInv
    <2>2. will'[new].supersededBy = NULL
      BY <1>3, <2>1, Creation
    <2>3. CASE new \in S
      BY <2>2, <2>3, NullAssumption
    <2>4. CASE new \notin S
      <3>1. \/ will'[id] = will[id]
            \/ Superseded(will[id], will'[id], new)
        BY <1>3, <2>1, <2>4, Creation
      <3> QED
        BY <1>1, <2>4, <3>1 DEF Superseded
    <2> QED
      BY <2>3, <2>4
  <1> QED
    BY <1>2, <1>3

(***************************************************************************)
(* Following parents always ends at a will that is not a codicil, however  *)
(* many codicils are created at the same time.                             *)
(***************************************************************************)
THEOREM CodicilsRooted == Spec => []CodicilRooted
  <1>1. Init => CodicilRooted
    BY NullAssumption DEF Init, CodicilRooted, NoRow
  <1>2. ServiceInv /\ CodicilRooted /\ [Next]_vars => CodicilRooted'
    BY NextRooted
  <1> QED
    BY <1>1, <1>2, Invariance, PTL DEF Spec

(***************************************************************************)
(* Following superseded_by never comes back, also when several new wills   *)
(* of one testator supersede each other's predecessors at the same time.   *)
(***************************************************************************)
THEOREM SuccessionEnds == Spec => []SupersessionAcyclic
  <1>1. Init => SupersessionAcyclic
    BY NullAssumption DEF Init, SupersessionAcyclic, NoRow
  <1>2. ServiceInv /\ SupersessionAcyclic /\ [Next]_vars
            => SupersessionAcyclic'
    BY NextAcyclic
  <1> QED
    BY <1>1, <1>2, Invariance, PTL DEF Spec

-----------------------------------------------------------------------------
(* A step of goroutine p leaves the requests of the others alone. *)
Only(p) == \A q \in Procs \ {p} : req'[q] = req[q]

(* A request that was just accepted has nothing to record. *)
Fresher(r) == r.pend = {} /\ r.pc \notin {"idle", "audit"}

(* Every request starts with nothing to record and writes nothing. *)
LEMMA ReceiveStep ==
  ASSUME TypeOK, NEW p \in Procs, Receive(p)
  PROVE  /\ req[p] = Idle /\ Only(p) /\ Fresher(req'[p])
         /\ UNCHANGED <<tables, audit, now>>
  <1>1. UNCHANGED <<tables, audit, now>>
    BY DEF Receive, CreateDraftRead, CreateCodicilRead, SignTestatorRead,
           SignWitnessRead, LockRead, NotifyDeathRead, GetWillElapsed,
           GetWillServe, NotifyAllRead, AddClauseRead, ConfirmLivenessRead,
           SendReminderRead
  <1>a. req \in [Procs -> Request]
    BY DEF TypeOK
  <1>2. req[p] = Idle /\ Only(p) /\ Fresher(req'[p])
    <2>1. CASE CreateDraftRead(p)
      BY <1>a, <2>1 DEF CreateDraftRead, Accept, Only, Fresher, Idle
    <2>2. CASE CreateCodicilRead(p)
      BY <1>a, <2>2 DEF CreateCodicilRead, Accept, Only, Fresher, Idle
    <2>3. CASE SignTestatorRead(p)
      BY <1>a, <2>3 DEF SignTestatorRead, Accept, Only, Fresher, Idle
    <2>4. CASE SignWitnessRead(p)
      BY <1>a, <2>4 DEF SignWitnessRead, Accept, Only, Fresher, Idle
    <2>5. CASE LockRead(p)
      BY <1>a, <2>5 DEF LockRead, Accept, Only, Fresher, Idle
    <2>6. CASE NotifyDeathRead(p)
      BY <1>a, <2>6 DEF NotifyDeathRead, Accept, Only, Fresher, Idle
    <2>7. CASE \E id \in WillID : GetWillElapsed(p, id)
      BY <1>a, <2>7 DEF GetWillElapsed, Accept, Only, Fresher, Idle
    <2>8. CASE GetWillServe(p)
      BY <1>a, <2>8 DEF GetWillServe, Accept, Only, Fresher, Idle
    <2>9. CASE NotifyAllRead(p)
      BY <1>a, <2>9 DEF NotifyAllRead, Accept, Only, Fresher, Idle
    <2>10. CASE AddClauseRead(p)
      BY <1>a, <2>10 DEF AddClauseRead, Accept, Only, Fresher, Idle
    <2>11. CASE ConfirmLivenessRead(p)
      BY <1>a, <2>11 DEF ConfirmLivenessRead, Accept, Only, Fresher, Idle
    <2>12. CASE SendReminderRead(p)
      BY <1>a, <2>12 DEF SendReminderRead, Accept, Only, Fresher, Idle
    <2> QED
      BY <2>1, <2>2, <2>3, <2>4, <2>5, <2>6, <2>7, <2>8, <2>9, <2>10, <2>11,
         <2>12 DEF Receive
  <1> QED
    BY <1>1, <1>2

(* A step that neither writes to the will tables nor records. *)
Passes(p) ==
    /\ req[p].pc \notin {"idle", "audit"}
    /\ Only(p)
    /\ \/ req'[p] = Idle
       \/ /\ req'[p].pend = req[p].pend /\ req'[p].pc # "audit"
          /\ req'[p].id = req[p].id /\ req'[p].op = req[p].op
          /\ \/ req'[p].pc = "respond"
             \/ req[p].op = "Lock"
             \/ req[p].op = "GetWill" /\ req[p].pc = "complete"
    /\ UNCHANGED <<will, witness, audit>>

(* A step that ticks off entry e, recorded or not. *)
Ticks(p, e) ==
    /\ Only(p)
    /\ e \in req[p].pend /\ req'[p].pend = req[p].pend \ {e}
    /\ req'[p].pc = "audit" \/ req'[p].pend = {}
    /\ req'[p].pc \in {"audit", "reload", "idle"}
    /\ UNCHANGED <<tables, now>>

(* A write turns to the entries it has to record. *)
LEMMA ToAuditStep ==
  ASSUME TypeOK, NEW p \in Procs, NEW entries, ToAudit(p, entries)
  PROVE  Only(p) /\ req'[p].pend = entries /\ req'[p].pc = "audit"
  BY DEF ToAudit, TypeOK, Only, Idle

(* Moving on to another step, or ending. *)
LEMMA GotoStep ==
  ASSUME TypeOK, NEW p \in Procs, NEW pc
  PROVE  /\ Finish(p) => Only(p) /\ req'[p] = Idle
         /\ Goto(p, pc) =>
              /\ Only(p) /\ req'[p].pend = req[p].pend /\ req'[p].pc = pc
              /\ req'[p].id = req[p].id /\ req'[p].op = req[p].op
  <1>1. req[p] \in Request /\ req \in [Procs -> Request]
    BY DEF TypeOK
  <1>2. ASSUME Goto(p, pc)
        PROVE  /\ Only(p) /\ req'[p].pend = req[p].pend /\ req'[p].pc = pc
               /\ req'[p].id = req[p].id /\ req'[p].op = req[p].op
    <2>1. /\ req'[p] = [req[p] EXCEPT !.pc = pc]
          /\ Only(p)
      BY <1>1, <1>2 DEF Goto, Only
    <2>2. /\ req'[p].pend = req[p].pend /\ req'[p].pc = pc
          /\ req'[p].id = req[p].id /\ req'[p].op = req[p].op
      BY <1>1, <2>1 DEF Request
    <2> QED
      BY <2>1, <2>2
  <1>3. Finish(p) => Only(p) /\ req'[p] = Idle
    BY <1>1 DEF Finish, Only
  <1> QED
    BY <1>2, <1>3

(* Ticking off an entry. *)
LEMMA EntryStep ==
  ASSUME TypeOK, NEW p \in Procs, NEW e \in NextEntry(p), EntryDone(p, e),
         UNCHANGED <<tables, now>>, req[p].pc = "audit"
  PROVE  Ticks(p, e)
  <1>1. req[p] \in Request /\ req \in [Procs -> Request] /\ e \in req[p].pend
    BY DEF TypeOK, NextEntry
  <1>2. CASE req[p].pend # {e}
    <2>1. /\ req'[p] = [req[p] EXCEPT !.pend = @ \ {e}]
          /\ Only(p)
      BY <1>1, <1>2 DEF EntryDone, Only
    <2>2. req'[p].pend = req[p].pend \ {e} /\ req'[p].pc = "audit"
      BY <1>1, <2>1 DEF Request
    <2> QED
      BY <1>1, <2>1, <2>2 DEF Ticks
  <1>3. CASE req[p].pend = {e}
    <2>1. /\ Only(p) /\ req'[p].pend = {}
          /\ req'[p].pc \in {"audit", "reload", "idle"}
      BY <1>1, <1>3 DEF EntryDone, Finish, Only, Idle, Request
    <2> QED
      BY <1>1, <1>3, <2>1 DEF Ticks
  <1> QED
    BY <1>2, <1>3

(* Every step of a request under way writes, records or passes. *)
LEMMA ContinueStep ==
  ASSUME TypeOK, NEW p \in Procs, Continue(p)
  PROVE  \/ Writes(p)
         \/ Passes(p)
         \/ \E e \in req[p].pend :
              Ticks(p, e) /\ audit' = [audit EXCEPT ![e[1]] = @ \cup {e[2]}]
  <1>1. CASE Record(p)
    <2>1. PICK e \in NextEntry(p) :
            /\ audit' = [audit EXCEPT ![e[1]] = @ \cup {e[2]}]
            /\ EntryDone(p, e)
      BY <1>1 DEF Record
    <2>2. UNCHANGED <<tables, now>> /\ req[p].pc = "audit"
      BY <1>1 DEF Record
    <2> QED
      BY <2>1, <2>2, EntryStep DEF NextEntry
  <1>2. CASE \/ LockFetch(p) \/ CompleteUnlockRead(p) \/ Reload(p)
             \/ Respond(p) \/ InsertDigitalAsset(p) \/ InsertPropertyClause(p)
    <2>1. \/ Finish(p)
          \/ /\ Goto(p, "write")
             /\ \/ req[p].op = "Lock"
                \/ req[p].op = "GetWill" /\ req[p].pc = "complete"
          \/ Goto(p, "respond")
      BY <1>2 DEF LockFetch, CompleteUnlockRead, Reload, Respond, At,
                  InsertDigitalAsset, InsertPropertyClause, InsertClause
    <2>2. req[p].pc \notin {"idle", "audit"}
      BY <1>2 DEF LockFetch, CompleteUnlockRead, Reload, Respond,
                  InsertDigitalAsset, InsertPropertyClause, At
    <2>3. UNCHANGED <<will, witness, audit>>
      BY <1>2 DEF LockFetch, CompleteUnlockRead, Reload, Respond,
                  InsertDigitalAsset, InsertPropertyClause, InsertClause,
                  tables
    <2> QED
      BY <2>1, <2>2, <2>3, GotoStep DEF Passes
  <1> QED
    BY <1>1, <1>2 DEF Continue, Writes, RowWrites

(* A request that fails, in the middle or at one of its entries. *)
LEMMA FailStep ==
  ASSUME TypeOK, NEW p \in Procs
  PROVE  /\ Fail(p) => /\ Only(p) /\ req'[p] = Idle
                       /\ UNCHANGED <<tables, audit, now>>
         /\ RecordFails(p) => \E e \in req[p].pend :
                                Ticks(p, e) /\ audit' = audit
  <1>1. Fail(p) => Only(p) /\ req'[p] = Idle /\ UNCHANGED <<tables, audit, now>>
    BY DEF Fail, Finish, TypeOK, Only
  <1>2. ASSUME RecordFails(p)
        PROVE  \E e \in req[p].pend : Ticks(p, e) /\ audit' = audit
    <2>1. PICK e \in NextEntry(p) : EntryDone(p, e)
      BY <1>2 DEF RecordFails
    <2>2. UNCHANGED <<tables, now, audit>> /\ req[p].pc = "audit"
      BY <1>2 DEF RecordFails
    <2> QED
      BY <2>1, <2>2, EntryStep DEF NextEntry
  <1> QED
    BY <1>1, <1>2

-----------------------------------------------------------------------------
(* A column that was filled is never emptied, and a will keeps its past. *)
LEMMA ColumnsKept ==
  ASSUME ServiceInv, [Next]_vars, NEW id \in WillID
  PROVE  /\ will[id].had \subseteq will'[id].had
         /\ will[id].lastConfirmedAt # NULL => will'[id].lastConfirmedAt # NULL
         /\ will[id].livenessNotifiedAt # NULL
              => will'[id].livenessNotifiedAt # NULL
  <1> DEFINE Kept ==
        /\ will[id].had \subseteq will'[id].had
        /\ will[id].lastConfirmedAt # NULL => will'[id].lastConfirmedAt # NULL
        /\ will[id].livenessNotifiedAt # NULL
             => will'[id].livenessNotifiedAt # NULL
  <1>1. CASE UNCHANGED <<will, witness>>
    BY <1>1
  <1>2. ASSUME NEW p \in Procs, Writes(p)
        PROVE  Kept
    <2>1. TypeOK /\ RequestInv(p) /\ will[id] \in Row /\ TableInv(id)
      BY DEF ServiceInv, TypeOK
    <2>2. /\ req[p] # Idle /\ req[p] \in Request /\ req[p].id \in WillID
          /\ req[p].at \in Int /\ req[p].delay \in Int
          /\ will \in [WillID -> Row] /\ now \in Int
      BY <1>2, <2>1, WriterBusy DEF TypeOK, Request
    <2>3. CASE SignWitnessWrite(p)
      BY <2>3 DEF SignWitnessWrite
    <2>4. CASE CreateDraftTx(p) \/ CreateCodicilTx(p)
      <3>1. CASE id = req[p].id
        <4>1. will[id] = NoRow
          BY <2>1, <2>4, <3>1, Creation DEF TableInv
        <4> QED
          BY <4>1 DEF NoRow
      <3>2. CASE id # req[p].id
        <4>1. \/ will'[id] = will[id]
              \/ will'[id] = Supersede(will[id], req[p].id)
          BY <2>4, <3>2 DEF CreateDraftTx, CreateCodicilTx, CreateDraft
        <4> QED
          BY <2>1, <4>1 DEF Row, Supersede
      <3> QED
        BY <3>1, <3>2
    <2>5. CASE RowWrites(p) /\ id # req[p].id
      BY <2>1, <2>5, RowUpdate
    <2>6. CASE RowWrites(p) /\ id = req[p].id
      <3>1. CASE SignTestatorWrite(p)
        BY <2>1, <2>2, <2>6, <3>1
        DEF SignTestatorWrite, RecordTestatorSignature, Row
      <3>2. CASE LockWrite(p)
        BY <2>1, <2>2, <2>6, <3>2 DEF LockWrite, UpdateStatus, Row
      <3>3. CASE UnlockNow(p)
        BY <2>1, <2>2, <2>6, <3>3 DEF UnlockNow, UpdateStatus, Row
      <3>4. CASE CompleteUnlockWrite(p)
        BY <2>1, <2>2, <2>6, <3>4 DEF CompleteUnlockWrite, UpdateStatus, Row
      <3>5. CASE StartCoolingOff(p)
        BY <2>1, <2>2, <2>6, <3>5, NullAssumption
        DEF StartCoolingOff, NotifyDeath, Row
      <3>6. CASE ConfirmLivenessWrite(p)
        BY <2>1, <2>2, <2>6, <3>6, NullAssumption
        DEF ConfirmLivenessWrite, RecordLivenessConfirmation, Row
      <3>7. CASE SendReminderWrite(p)
        BY <2>1, <2>2, <2>6, <3>7, NullAssumption
        DEF SendReminderWrite, RecordLivenessReminder, Row
      <3> QED
        BY <2>6, <3>1, <3>2, <3>3, <3>4, <3>5, <3>6, <3>7 DEF RowWrites
    <2> QED
      BY <1>2, <2>3, <2>4, <2>5, <2>6 DEF Writes
  <1> QED
    BY <1>1, <1>2, NonWrites

(* What has happened to a will has happened for good. *)
LEMMA HappenedStable ==
  ASSUME ServiceInv, [Next]_vars, NEW id \in WillID, NEW e \in Event,
         Happened(id, e)
  PROVE  Happened(id, e)'
  <1>1. Grows
    BY NextGrows
  <1>2. CASE e \in {"will_created", "codicil_created"}
    BY <1>1, <1>2 DEF Happened, Grows, Exists
  <1>3. CASE e = "codicil_appended"
    <2>1. PICK c \in WillID : will[c].parent = id
      BY <1>3 DEF Happened
    <2>2. TableInv(c)
      BY DEF ServiceInv
    <2>3. Exists(c)
      BY <2>1, <2>2, NullAssumption DEF TableInv, NoRow
    <2>4. will'[c].parent = id
      BY <1>1, <2>1, <2>3 DEF Grows
    <2> QED
      BY <1>3, <2>4 DEF Happened
  <1>4. CASE e = "testator_signed"
    BY <1>1, <1>4 DEF Happened, Grows
  <1>5. CASE e = "witness_signed"
    <2>1. /\ witness[id] \in Seq(WitnessSignature)
          /\ witness'[id] \in Seq(WitnessSignature)
      BY NextTypeOK DEF ServiceInv, TypeOK
    <2>2. witness[id] # <<>> /\ Len(witness[id]) <= Len(witness'[id])
      BY <1>1, <1>5 DEF Happened, Grows
    <2>3. witness'[id] # <<>>
      BY <2>1, <2>2
    <2> QED
      BY <1>5, <2>3 DEF Happened
  <1>6. CASE e \in {"locked", "death_notified", "vault_unlocked", "superseded",
                    "liveness_confirmed", "liveness_reminder_sent"}
    BY <1>6, ColumnsKept DEF Happened
  <1> QED
    BY <1>2, <1>3, <1>4, <1>5, <1>6 DEF Event

(* The entries that each write leaves to be recorded. *)
LEMMA WriteEntries ==
  ASSUME TypeOK, NEW p \in Procs
  PROVE  LET r == req[p]
             Leaves(entries) == /\ Only(p) /\ req'[p].pend = entries
                                /\ req'[p].pc = "audit" IN
         /\ CreateDraftTx(p) =>
              Leaves({<<r.id, "will_created">>} \cup (r.sup \X {"superseded"}))
         /\ CreateCodicilTx(p) =>
              Leaves({<<r.id, "codicil_created">>,
                      <<r.draft.parent, "codicil_appended">>})
         /\ SignTestatorWrite(p) => Leaves({<<r.id, "testator_signed">>})
         /\ SignWitnessWrite(p) => Leaves({<<r.id, "witness_signed">>})
         /\ LockWrite(p) => Leaves({<<r.id, "locked">>})
         /\ StartCoolingOff(p) => Leaves({<<r.id, "death_notified">>})
         /\ UnlockNow(p) => Leaves({<<r.id, "vault_unlocked">>})
         /\ CompleteUnlockWrite(p) => Leaves({<<r.id, "vault_unlocked">>})
         /\ ConfirmLivenessWrite(p) => Leaves({<<r.id, "liveness_confirmed">>})
         /\ SendReminderWrite(p) =>
              Leaves({<<r.id, "liveness_reminder_sent">>})
  BY ToAuditStep DEF CreateDraftTx, CreateCodicilTx, SignTestatorWrite,
     SignWitnessWrite, LockWrite, StartCoolingOff, UnlockNow,
     CompleteUnlockWrite, ConfirmLivenessWrite, SendReminderWrite

(* What a write is about to record has happened with the write. *)
LEMMA WriteHappened ==
  ASSUME ServiceInv, [Next]_vars, NEW p \in Procs, Writes(p),
         NEW e \in req'[p].pend
  PROVE  Happened(e[1], e[2])'
  <1> DEFINE r == req[p]
  <1>1. TypeOK /\ RequestInv(p)
    BY DEF ServiceInv
  <1>2. /\ r # Idle /\ r \in Request /\ r.id \in WillID /\ r.pc = "write"
        /\ r.at \in Int /\ r.delay \in Int /\ r.sup \in SUBSET WillID
        /\ will \in [WillID -> Row] /\ now \in Int /\ will[r.id] \in Row
    BY <1>1, WriterBusy DEF TypeOK, Request
  <1>3. CASE CreateDraftTx(p)
    <2>1. e = <<r.id, "will_created">> \/ e \in r.sup \X {"superseded"}
      BY <1>1, <1>3, WriteEntries
    <2>2. /\ ~Exists(r.id) /\ will'[r.id] = r.draft
          /\ r.draft.status = "draft" /\ r.draft.parent = NULL
      BY <1>1, <1>2, <1>3, Creation DEF RequestInv, CreateDraftTx, At
    <2>3. CASE e = <<r.id, "will_created">>
      BY <2>2, <2>3 DEF Happened, Exists
    <2>4. CASE e \in r.sup \X {"superseded"}
      <3>1. e[1] \in r.sup /\ e[1] \in WillID /\ e[2] = "superseded"
        BY <1>2, <2>4
      <3>2. Exists(e[1])
        BY <1>1, <1>2, <1>3, <3>1 DEF RequestInv, CreateDraftTx, At
      <3>3. will'[e[1]] = Supersede(will[e[1]], r.id)
        BY <1>3, <2>2, <3>1, <3>2 DEF CreateDraftTx, CreateDraft, Exists
      <3>4. "superseded" \in will'[e[1]].had
        BY <1>2, <3>1, <3>3 DEF Row, Supersede
      <3> QED
        BY <3>1, <3>4 DEF Happened
    <2> QED
      BY <2>1, <2>3, <2>4
  <1>4. CASE CreateCodicilTx(p)
    <2>1. e = <<r.id, "codicil_created">>
            \/ e = <<r.draft.parent, "codicil_appended">>
      BY <1>1, <1>4, WriteEntries
    <2>2. /\ will'[r.id] = r.draft /\ r.draft.status = "draft"
          /\ r.draft.parent \in WillID
      BY <1>1, <1>2, <1>4, Creation DEF RequestInv, CreateCodicilTx, At
    <2>3. CASE e = <<r.id, "codicil_created">>
      <3>1. will'[r.id].status # "absent" /\ will'[r.id].parent # NULL
        BY <2>2, NullAssumption
      <3> QED
        BY <2>3, <3>1 DEF Happened, Exists
    <2>4. CASE e = <<r.draft.parent, "codicil_appended">>
      <3>1. e[1] = r.draft.parent /\ e[2] = "codicil_appended"
        BY <2>4
      <3>2. \E c \in WillID : will'[c].parent = e[1]
        BY <1>2, <2>2, <3>1
      <3> QED
        BY <3>1, <3>2 DEF Happened
    <2> QED
      BY <2>1, <2>3, <2>4
  <1>5. CASE SignTestatorWrite(p)
    <2>1. e = <<r.id, "testator_signed">>
      BY <1>1, <1>5, WriteEntries
    <2>2. r.hash \in Hash
      BY <1>1, <1>2, <1>5 DEF RequestInv, SignTestatorWrite, At
    <2>3. will'[r.id].signed = r.hash
      BY <1>2, <1>5 DEF SignTestatorWrite, RecordTestatorSignature, Row
    <2> QED
      BY <2>1, <2>2, <2>3, NullAssumption DEF Happened
  <1>6. CASE SignWitnessWrite(p)
    <2>1. e = <<r.id, "witness_signed">>
      BY <1>1, <1>6, WriteEntries
    <2>2. Len(witness'[r.id]) = Len(witness[r.id]) + 1
      BY <1>1, <1>6, WitnessUpdate
    <2>3. Len(witness[r.id]) \in Nat
      BY <1>1, <1>2 DEF TypeOK
    <2>4. witness'[r.id] # <<>>
      BY <2>2, <2>3
    <2> QED
      BY <2>1, <2>4 DEF Happened
  <1>7. CASE LockWrite(p)
    <2>1. e = <<r.id, "locked">>
      BY <1>1, <1>7, WriteEntries
    <2>2. "locked" \in will'[r.id].had
      BY <1>2, <1>7 DEF LockWrite, UpdateStatus, Row
    <2> QED
      BY <2>1, <2>2 DEF Happened
  <1>8. CASE StartCoolingOff(p)
    <2>1. e = <<r.id, "death_notified">>
      BY <1>1, <1>8, WriteEntries
    <2>2. "death_notified" \in will'[r.id].had
      BY <1>2, <1>8 DEF StartCoolingOff, NotifyDeath, Row
    <2> QED
      BY <2>1, <2>2 DEF Happened
  <1>9. CASE UnlockNow(p) \/ CompleteUnlockWrite(p)
    <2>1. e = <<r.id, "vault_unlocked">>
      BY <1>1, <1>9, WriteEntries
    <2>2. "unlocked_at_death" \in will'[r.id].had
      <3>1. will' = [will EXCEPT ![r.id] =
                       UpdateStatus(@, "unlocked_at_death", NULL, r.at)]
        BY <1>9 DEF UnlockNow, CompleteUnlockWrite
      <3> QED
        BY <1>2, <3>1 DEF UpdateStatus, Row
    <2> QED
      BY <2>1, <2>2 DEF Happened
  <1>10. CASE ConfirmLivenessWrite(p)
    <2>1. e = <<r.id, "liveness_confirmed">>
      BY <1>1, <1>10, WriteEntries
    <2>2. PICK t \in r.at..now :
            will' = [will EXCEPT ![r.id] = RecordLivenessConfirmation(@, t)]
      BY <1>10 DEF ConfirmLivenessWrite
    <2>3. will'[r.id].lastConfirmedAt = t /\ t \in Int
      BY <1>2, <2>2 DEF RecordLivenessConfirmation, Row
    <2> QED
      BY <2>1, <2>3, NullAssumption DEF Happened
  <1>11. CASE SendReminderWrite(p)
    <2>1. e = <<r.id, "liveness_reminder_sent">>
      BY <1>1, <1>11, WriteEntries
    <2>2. PICK t \in r.at..now :
            will' = [will EXCEPT ![r.id] = RecordLivenessReminder(@, t)]
      BY <1>11 DEF SendReminderWrite
    <2>3. will'[r.id].livenessNotifiedAt = t /\ t \in Int
      BY <1>2, <2>2 DEF RecordLivenessReminder, Row
    <2> QED
      BY <2>1, <2>3, NullAssumption DEF Happened
  <1> QED
    BY <1>3, <1>4, <1>5, <1>6, <1>7, <1>8, <1>9, <1>10, <1>11
    DEF Writes, RowWrites

(* The writes leave the log to later steps. *)
LEMMA WritesUnlogged ==
  ASSUME NEW p \in Procs, Writes(p)
  PROVE  audit' = audit
  BY DEF Writes, RowWrites, CreateDraftTx, CreateCodicilTx, SignTestatorWrite,
     SignWitnessWrite, LockWrite, StartCoolingOff, UnlockNow,
     CompleteUnlockWrite, ConfirmLivenessWrite, SendReminderWrite

(* A writer leaves the requests of the others alone. *)
LEMMA WritesOnly ==
  ASSUME TypeOK, NEW p \in Procs, Writes(p)
  PROVE  Only(p) /\ req'[p].pc = "audit"
  BY WriteEntries DEF Writes, RowWrites

(* Every step keeps the log truthful. *)
LEMMA NextTruthful ==
  ASSUME ServiceInv, AuditTruthful, [Next]_vars
  PROVE  AuditTruthful'
  <1>1. TypeOK /\ TypeOK'
    BY NextTypeOK DEF ServiceInv
  <1>2. /\ \A q \in Procs : req[q].pend \in SUBSET Entry
        /\ \A id \in WillID : audit[id] \in SUBSET Event
        /\ audit \in [WillID -> SUBSET Event]
    BY <1>1 DEF TypeOK, Request
  <1>3. \A id \in WillID : \A e \in audit[id] : Happened(id, e)'
    <2>1. SUFFICES ASSUME NEW id \in WillID, NEW e \in audit[id]
                   PROVE  Happened(id, e)'
      OBVIOUS
    <2>2. e \in Event /\ Happened(id, e)
      BY <1>2 DEF AuditTruthful
    <2> QED
      BY <2>2, HappenedStable
  <1>4. \A q \in Procs : \A e \in req[q].pend : Happened(e[1], e[2])'
    <2>1. SUFFICES ASSUME NEW q \in Procs, NEW e \in req[q].pend
                   PROVE  Happened(e[1], e[2])'
      OBVIOUS
    <2>2. e[1] \in WillID /\ e[2] \in Event /\ Happened(e[1], e[2])
      BY <1>2 DEF AuditTruthful, Entry
    <2> QED
      BY <2>2, HappenedStable
  <1>5. SUFFICES
          /\ \A id \in WillID : \A e \in audit'[id] :
               e \in audit[id] \/ \E q \in Procs : <<id, e>> \in req[q].pend
          /\ \A q \in Procs :
               req'[q].pend \subseteq req[q].pend \/ Writes(q)
    <2>1. ASSUME NEW id \in WillID, NEW e \in audit'[id],
                 \/ e \in audit[id]
                 \/ \E q \in Procs : <<id, e>> \in req[q].pend
          PROVE  Happened(id, e)'
      <3>1. CASE e \in audit[id]
        BY <1>3, <3>1
      <3>2. ASSUME NEW q \in Procs, <<id, e>> \in req[q].pend
            PROVE  Happened(id, e)'
        BY <1>4, <3>2
      <3> QED
        BY <2>1, <3>1, <3>2
    <2>2. ASSUME NEW q \in Procs,
                 req'[q].pend \subseteq req[q].pend \/ Writes(q),
                 NEW e \in req'[q].pend
          PROVE  Happened(e[1], e[2])'
      BY <1>4, <2>2, WriteHappened
    <2> QED
      BY <2>1, <2>2 DEF AuditTruthful
  <1>6. CASE UNCHANGED vars \/ Tick
    BY <1>6 DEF vars, Tick
  <1>7. ASSUME NEW p \in Procs, Receive(p)
        PROVE  /\ audit' = audit
               /\ \A q \in Procs : req'[q].pend \subseteq req[q].pend
    BY <1>1, <1>7, ReceiveStep DEF Only, Fresher
  <1>8. ASSUME NEW p \in Procs, Fail(p)
        PROVE  /\ audit' = audit
               /\ \A q \in Procs : req'[q].pend \subseteq req[q].pend
    BY <1>1, <1>8, FailStep DEF Only, Idle
  <1>9. ASSUME NEW p \in Procs, RecordFails(p)
        PROVE  /\ audit' = audit
               /\ \A q \in Procs : req'[q].pend \subseteq req[q].pend
    BY <1>1, <1>9, FailStep DEF Only, Ticks
  <1>10. ASSUME NEW p \in Procs, Writes(p)
         PROVE  /\ audit' = audit
                /\ \A q \in Procs :
                     req'[q].pend \subseteq req[q].pend \/ Writes(q)
    BY <1>1, <1>10, WritesUnlogged, WritesOnly DEF Only
  <1>11. ASSUME NEW p \in Procs, Passes(p)
         PROVE  /\ audit' = audit
                /\ \A q \in Procs : req'[q].pend \subseteq req[q].pend
    BY <1>11 DEF Passes, Only, Idle
  <1>12. ASSUME NEW p \in Procs, NEW e \in req[p].pend, Ticks(p, e),
                audit' = [audit EXCEPT ![e[1]] = @ \cup {e[2]}]
         PROVE  /\ \A id \in WillID : \A f \in audit'[id] :
                     \/ f \in audit[id]
                     \/ \E q \in Procs : <<id, f>> \in req[q].pend
                /\ \A q \in Procs : req'[q].pend \subseteq req[q].pend
    <2>1. e = <<e[1], e[2]>> /\ e[1] \in WillID
      BY <1>2 DEF Entry
    <2>2. ASSUME NEW id \in WillID, NEW f \in audit'[id], f \notin audit[id]
          PROVE  <<id, f>> \in req[p].pend
      BY <1>2, <1>12, <2>1, <2>2
    <2> QED
      BY <1>12, <2>2 DEF Ticks, Only
  <1>13. ASSUME NEW p \in Procs, Continue(p)
         PROVE  /\ \A id \in WillID : \A f \in audit'[id] :
                     \/ f \in audit[id]
                     \/ \E q \in Procs : <<id, f>> \in req[q].pend
                /\ \A q \in Procs :
                     req'[q].pend \subseteq req[q].pend \/ Writes(q)
    BY <1>1, <1>10, <1>11, <1>12, <1>13, ContinueStep
  <1> QED
    BY <1>6, <1>7, <1>8, <1>9, <1>13 DEF Next

(***************************************************************************)
(* The log never runs ahead of the tables: an event that is recorded, or   *)
(* about to be, has happened, for any number of concurrent requests and    *)
(* whatever step of theirs fails.                                          *)
(***************************************************************************)
THEOREM LogTruthful == Spec => []AuditTruthful
  <1>1. Init => AuditTruthful
    BY DEF Init, AuditTruthful, Idle
  <1>2. ServiceInv /\ AuditTruthful /\ [Next]_vars => AuditTruthful'
    BY NextTruthful
  <1> QED
    BY <1>1, <1>2, Invariance, PTL DEF Spec

-----------------------------------------------------------------------------
(* Which transition of will id goroutine p's step makes. *)
Changed(p, id) ==
    /\ ~Exists(id) /\ will'[id].status # "absent" =>
        (CreateDraftTx(p) \/ CreateCodicilTx(p)) /\ id = req[p].id
    /\ will'[id].signed # will[id].signed =>
        SignTestatorWrite(p) /\ id = req[p].id
    /\ witness'[id] # witness[id] => SignWitnessWrite(p) /\ id = req[p].id
    /\ \A s \in will'[id].had \ will[id].had :
        \/ s = "draft"
        \/ s = "superseded" /\ CreateDraftTx(p) /\ id \in req[p].sup
        \/ s = "locked" /\ LockWrite(p) /\ id = req[p].id
        \/ s = "death_notified" /\ StartCoolingOff(p) /\ id = req[p].id
        \/ /\ s = "unlocked_at_death" /\ id = req[p].id
           /\ UnlockNow(p) \/ CompleteUnlockWrite(p)
    /\ will'[id].parent # will[id].parent =>
        /\ CreateCodicilTx(p) /\ id = req[p].id
        /\ will'[id].parent = req[p].draft.parent
    /\ will'[id].lastConfirmedAt # will[id].lastConfirmedAt =>
        ConfirmLivenessWrite(p) /\ id = req[p].id
    /\ will'[id].livenessNotifiedAt # will[id].livenessNotifiedAt =>
        SendReminderWrite(p) /\ id = req[p].id

(* Each column is written by the handlers it belongs to. *)
LEMMA Changes ==
  ASSUME ServiceInv, NEW p \in Procs, Writes(p), ClerkInv(req[p]),
         NEW id \in WillID
  PROVE  Changed(p, id)
  <1> DEFINE r == req[p]
  <1>1. TypeOK /\ RequestInv(p) /\ TableInv(id) /\ will[id] \in Row
    BY DEF ServiceInv, TypeOK
  <1>2. /\ r # Idle /\ r \in Request /\ r.id \in WillID /\ r.pc = "write"
        /\ will \in [WillID -> Row]
    BY <1>1, WriterBusy DEF TypeOK
  <1>3. CASE (CreateDraftTx(p) \/ CreateCodicilTx(p)) /\ id = r.id
    <2>1. /\ will[id] = NoRow /\ ~Exists(id) /\ Creating(r)
          /\ will'[id] = r.draft /\ witness' = witness
          /\ r.draft.status = "draft" /\ r.draft.signed = NULL
      BY <1>1, <1>3, Creation DEF TableInv
    <2>2. CreateDraftTx(p) => r.draft.parent = NULL
      BY <1>1, <1>2 DEF CreateDraftTx, At, RequestInv
    <2>3. /\ r.draft.had = {"draft"} /\ r.draft.lastConfirmedAt = NULL
          /\ r.draft.livenessNotifiedAt = NULL
      BY <2>1 DEF ClerkInv
    <2>4. /\ will[id].signed = NULL /\ will[id].parent = NULL
          /\ will[id].lastConfirmedAt = NULL
          /\ will[id].livenessNotifiedAt = NULL
      BY <2>1 DEF NoRow
    <2> QED
      BY <1>3, <2>1, <2>2, <2>3, <2>4 DEF Changed
  <1>4. CASE (CreateDraftTx(p) \/ CreateCodicilTx(p)) /\ id # r.id
    <2>1. \/ will'[id] = will[id]
          \/ /\ CreateDraftTx(p) /\ id \in r.sup /\ Exists(id)
             /\ will'[id] = Supersede(will[id], r.id)
      BY <1>4 DEF CreateDraftTx, CreateCodicilTx, CreateDraft, Exists
    <2>2. witness' = witness
      BY <1>4 DEF CreateDraftTx, CreateCodicilTx
    <2>3. CASE will'[id] = will[id]
      BY <2>2, <2>3 DEF Changed, Exists
    <2>4. CASE /\ CreateDraftTx(p) /\ id \in r.sup /\ Exists(id)
               /\ will'[id] = Supersede(will[id], r.id)
      <3>1. /\ will'[id].had = will[id].had \cup {"superseded"}
            /\ will'[id].signed = will[id].signed
            /\ will'[id].parent = will[id].parent
            /\ will'[id].lastConfirmedAt = will[id].lastConfirmedAt
            /\ will'[id].livenessNotifiedAt = will[id].livenessNotifiedAt
        BY <1>1, <2>4 DEF Row, Supersede
      <3> QED
        BY <2>2, <2>4, <3>1 DEF Changed
    <2> QED
      BY <2>1, <2>3, <2>4
  <1>5. CASE SignWitnessWrite(p)
    <2>1. will' = will /\ (id # r.id => witness'[id] = witness[id])
      BY <1>1, <1>5, WitnessUpdate
    <2> QED
      BY <1>5, <2>1 DEF Changed, Exists
  <1>6. CASE RowWrites(p) /\ id # r.id
    <2>1. will'[id] = will[id] /\ witness' = witness
      BY <1>1, <1>6, RowUpdate
    <2> QED
      BY <2>1 DEF Changed, Exists
  <1>7. CASE RowWrites(p) /\ id = r.id
    <2>1. Exists(id) /\ witness' = witness
      BY <1>1, <1>7, RowUpdate
    <2>2. CASE SignTestatorWrite(p)
      BY <1>1, <1>2, <1>7, <2>1, <2>2
      DEF SignTestatorWrite, RecordTestatorSignature, Row, Changed
    <2>3. CASE LockWrite(p)
      BY <1>1, <1>2, <1>7, <2>1, <2>3 DEF LockWrite, UpdateStatus, Row, Changed
    <2>4. CASE UnlockNow(p)
      BY <1>1, <1>2, <1>7, <2>1, <2>4 DEF UnlockNow, UpdateStatus, Row, Changed
    <2>5. CASE CompleteUnlockWrite(p)
      BY <1>1, <1>2, <1>7, <2>1, <2>5
      DEF CompleteUnlockWrite, UpdateStatus, Row, Changed
    <2>6. CASE StartCoolingOff(p)
      BY <1>1, <1>2, <1>7, <2>1, <2>6
      DEF StartCoolingOff, NotifyDeath, Row, Changed
    <2>7. CASE ConfirmLivenessWrite(p)
      <3>1. PICK t : will' = [will EXCEPT ![r.id] = RecordLivenessConfirmation(@, t)]
        BY <2>7 DEF ConfirmLivenessWrite
      <3> QED
        BY <1>1, <1>2, <1>7, <2>1, <2>7, <3>1
        DEF RecordLivenessConfirmation, Row, Changed
    <2>8. CASE SendReminderWrite(p)
      <3>1. PICK t : will' = [will EXCEPT ![r.id] = RecordLivenessReminder(@, t)]
        BY <2>8 DEF SendReminderWrite
      <3> QED
        BY <1>1, <1>2, <1>7, <2>1, <2>8, <3>1
        DEF RecordLivenessReminder, Row, Changed
    <2> QED
      BY <1>7, <2>2, <2>3, <2>4, <2>5, <2>6, <2>7, <2>8 DEF RowWrites
  <1> QED
    BY <1>3, <1>4, <1>5, <1>6, <1>7 DEF Writes

-----------------------------------------------------------------------------
(* A state without failures is reached by steps that did not fail. *)
LEMMA NoFailure ==
  ASSUME TypeOK, fails' = 0, [Next]_vars
  PROVE  /\ fails = 0
         /\ \A p \in Procs : ~Fail(p) /\ ~RecordFails(p)
  <1>a. fails \in Nat
    BY DEF TypeOK
  <1>1. \A p \in Procs : ~Fail(p) /\ ~RecordFails(p)
    BY <1>a DEF Fail, RecordFails
  <1>2. ASSUME NEW id, NEW seen, ReadExecutors(id, seen)
        PROVE  fails = 0
    BY <1>2, <1>a DEF ReadExecutors
  <1>3. ASSUME NEW p \in Procs, GetWillServe(p) \/ Reload(p)
        PROVE  fails = 0
    BY <1>2, <1>3 DEF GetWillServe, Reload
  <1>4. ASSUME NEW p \in Procs, Receive(p)
        PROVE  fails = 0
    BY <1>3, <1>4 DEF Receive, CreateDraftRead, CreateCodicilRead,
           SignTestatorRead, SignWitnessRead, LockRead, NotifyDeathRead,
           GetWillElapsed, NotifyAllRead, AddClauseRead,
           ConfirmLivenessRead, SendReminderRead
  <1>5. ASSUME NEW p \in Procs, Continue(p)
        PROVE  fails = 0
    BY <1>3, <1>5 DEF Continue, CreateDraftTx, CreateCodicilTx,
           SignTestatorWrite, SignWitnessWrite, LockFetch, LockWrite,
           UnlockNow, StartCoolingOff, CompleteUnlockRead,
           CompleteUnlockWrite, Respond, InsertDigitalAsset,
           InsertPropertyClause, InsertClause, ConfirmLivenessWrite,
           SendReminderWrite, Record
  <1> QED
    BY <1>1, <1>4, <1>5 DEF Next, Tick, vars

(* While nothing fails, what is logged stays logged. *)
LEMMA LoggedStable ==
  ASSUME ServiceInv, CompleteInv, fails' = 0, [Next]_vars,
         NEW id \in WillID, NEW e, Logged(id, e)
  PROVE  Logged(id, e)'
  <1>1. TypeOK /\ audit \in [WillID -> SUBSET Event]
    BY DEF ServiceInv, TypeOK
  <1>2. \A p \in Procs : req[p].pc # "audit" => req[p].pend = {}
    BY DEF CompleteInv, ClerkInv
  <1>3. CASE UNCHANGED vars \/ Tick
    BY <1>3 DEF vars, Tick, Logged
  <1>4. ASSUME NEW p \in Procs, audit' = audit, Only(p), req[p].pc # "audit"
        PROVE  Logged(id, e)'
    BY <1>2, <1>4 DEF Logged, Only
  <1>5. ASSUME NEW p \in Procs, Receive(p)
        PROVE  Logged(id, e)'
    BY <1>1, <1>4, <1>5, ReceiveStep DEF Idle
  <1>6. ASSUME NEW p \in Procs, Writes(p)
        PROVE  Logged(id, e)'
    <2>1. RequestInv(p)
      BY DEF ServiceInv
    <2> QED
      BY <1>1, <1>4, <1>6, <2>1, WriterBusy, WritesOnly, WritesUnlogged
  <1>7. ASSUME NEW p \in Procs, Passes(p)
        PROVE  Logged(id, e)'
    BY <1>4, <1>7 DEF Passes
  <1>8. ASSUME NEW p \in Procs, NEW f \in req[p].pend, Ticks(p, f),
               audit' = [audit EXCEPT ![f[1]] = @ \cup {f[2]}]
        PROVE  Logged(id, e)'
    <2>1. CASE e \in audit[id]
      BY <1>1, <1>8, <2>1 DEF Logged
    <2>2. ASSUME NEW q \in Procs, <<id, e>> \in req[q].pend
          PROVE  Logged(id, e)'
      <3>1. CASE q # p \/ <<id, e>> # f
        BY <1>8, <2>2, <3>1 DEF Logged, Ticks, Only
      <3>2. CASE q = p /\ <<id, e>> = f
        BY <1>1, <1>8, <3>2 DEF Logged
      <3> QED
        BY <3>1, <3>2
    <2> QED
      BY <2>1, <2>2 DEF Logged
  <1>9. ASSUME NEW p \in Procs, Continue(p)
        PROVE  Logged(id, e)'
    BY <1>1, <1>6, <1>7, <1>8, <1>9, ContinueStep
  <1> QED
    BY <1>1, <1>3, <1>5, <1>9, NoFailure DEF Next

(* While nothing fails, every transition is logged in the step it is made. *)
LEMMA NextLogged ==
  ASSUME ServiceInv, CompleteInv, fails' = 0, [Next]_vars, NEW id \in WillID
  PROVE  LoggedInv(id)'
  <1>1. \A e : Logged(id, e) => Logged(id, e)'
    BY LoggedStable
  <1>2. LoggedInv(id) /\ TypeOK
    BY NoFailure DEF CompleteInv, ServiceInv
  <1>3. CASE UNCHANGED <<will, witness>>
    BY <1>1, <1>2, <1>3 DEF LoggedInv, Exists
  <1>4. ASSUME NEW p \in Procs, Writes(p)
        PROVE  LoggedInv(id)'
    <2>1. ClerkInv(req[p]) /\ RequestInv(p)
      BY DEF CompleteInv, ServiceInv
    <2>2. \A w \in WillID : Changed(p, w)
      BY <1>4, <2>1, Changes
    <2>3. \A e : <<id, e>> \in req'[p].pend => Logged(id, e)'
      BY DEF Logged
    <2>4. ASSUME will'[id].status # "absent"
          PROVE  \/ Logged(id, "will_created")'
                 \/ Logged(id, "codicil_created")'
      <3>1. CASE Exists(id)
        BY <1>1, <1>2, <3>1 DEF LoggedInv
      <3>2. CASE ~Exists(id)
        <4>1. (CreateDraftTx(p) \/ CreateCodicilTx(p)) /\ id = req[p].id
          BY <2>2, <2>4, <3>2 DEF Changed
        <4> QED
          BY <1>2, <2>3, <4>1, WriteEntries
      <3> QED
        BY <3>1, <3>2
    <2>5. ASSUME will'[id].signed # NULL
          PROVE  Logged(id, "testator_signed")'
      <3>1. CASE SignTestatorWrite(p) /\ id = req[p].id
        BY <1>2, <2>3, <3>1, WriteEntries
      <3> QED
        BY <1>1, <1>2, <2>2, <2>5, <3>1 DEF Changed, LoggedInv
    <2>6. ASSUME witness'[id] # <<>>
          PROVE  Logged(id, "witness_signed")'
      <3>1. CASE SignWitnessWrite(p) /\ id = req[p].id
        BY <1>2, <2>3, <3>1, WriteEntries
      <3> QED
        BY <1>1, <1>2, <2>2, <2>6, <3>1 DEF Changed, LoggedInv
    <2>7. ASSUME "locked" \in will'[id].had
          PROVE  Logged(id, "locked")'
      <3>1. CASE LockWrite(p) /\ id = req[p].id
        BY <1>2, <2>3, <3>1, WriteEntries
      <3> QED
        BY <1>1, <1>2, <2>2, <2>7, <3>1 DEF Changed, LoggedInv
    <2>8. ASSUME "death_notified" \in will'[id].had
          PROVE  Logged(id, "death_notified")'
      <3>1. CASE StartCoolingOff(p) /\ id = req[p].id
        BY <1>2, <2>3, <3>1, WriteEntries
      <3> QED
        BY <1>1, <1>2, <2>2, <2>8, <3>1 DEF Changed, LoggedInv
    <2>9. ASSUME "unlocked_at_death" \in will'[id].had
          PROVE  Logged(id, "vault_unlocked")'
      <3>1. CASE (UnlockNow(p) \/ CompleteUnlockWrite(p)) /\ id = req[p].id
        BY <1>2, <2>3, <3>1, WriteEntries
      <3> QED
        BY <1>1, <1>2, <2>2, <2>9, <3>1 DEF Changed, LoggedInv
    <2>10. ASSUME "superseded" \in will'[id].had
          PROVE  Logged(id, "superseded")'
      <3>1. CASE CreateDraftTx(p) /\ id \in req[p].sup
        BY <1>2, <2>3, <3>1, WriteEntries
      <3> QED
        BY <1>1, <1>2, <2>2, <2>10, <3>1 DEF Changed, LoggedInv
    <2>11. ASSUME NEW c \in WillID, will'[c].parent = id
           PROVE  Logged(id, "codicil_appended")'
      <3>1. CASE CreateCodicilTx(p) /\ req[p].draft.parent = id
        BY <1>2, <2>3, <3>1, WriteEntries
      <3>2. CASE will[c].parent = id
        BY <1>1, <1>2, <3>2 DEF LoggedInv
      <3> QED
        BY <2>2, <2>11, <3>1, <3>2 DEF Changed
    <2>12. ASSUME will'[id].lastConfirmedAt # NULL
           PROVE  Logged(id, "liveness_confirmed")'
      <3>1. CASE ConfirmLivenessWrite(p) /\ id = req[p].id
        BY <1>2, <2>3, <3>1, WriteEntries
      <3> QED
        BY <1>1, <1>2, <2>2, <2>12, <3>1 DEF Changed, LoggedInv
    <2>13. ASSUME will'[id].livenessNotifiedAt # NULL
           PROVE  Logged(id, "liveness_reminder_sent")'
      <3>1. CASE SendReminderWrite(p) /\ id = req[p].id
        BY <1>2, <2>3, <3>1, WriteEntries
      <3> QED
        BY <1>1, <1>2, <2>2, <2>13, <3>1 DEF Changed, LoggedInv
    <2> HIDE DEF Logged
    <2> QED
      BY <2>4, <2>5, <2>6, <2>7, <2>8, <2>9, <2>10, <2>11, <2>12, <2>13
      DEF LoggedInv, Exists
  <1> QED
    BY <1>3, <1>4, NonWrites

(* A request starts with a blank draft and nothing to record. *)
LEMMA ReceiveClerk ==
  ASSUME ServiceInv, NEW p \in Procs, Receive(p)
  PROVE  ClerkInv(req[p])'
  <1>1. TypeOK /\ req \in [Procs -> Request]
    BY DEF ServiceInv, TypeOK
  <1>2. Fresher(req'[p])
    BY <1>1, ReceiveStep
  <1>3. CASE CreateDraftRead(p)
    <2>1. PICK id \in WillID, by \in Testators, ex \in ExecutorLists,
               d \in WillDelays :
            Accept(p, [Idle EXCEPT
                         !.op = "CreateDraft", !.pc = "write", !.id = id,
                         !.by = by, !.draft = buildWill(by, ex, d, NULL),
                         !.sup = FindActiveByTestatorFLT(will, by)])
      BY <1>3 DEF CreateDraftRead
    <2>2. /\ req'[p].op = "CreateDraft" /\ req'[p].pend = {}
          /\ req'[p].draft = buildWill(by, ex, d, NULL)
      BY <1>1, <2>1 DEF Accept, Idle
    <2> QED
      BY <1>2, <2>2 DEF ClerkInv, buildWill, NoRow
  <1>4. CASE CreateCodicilRead(p)
    <2>1. PICK id \in WillID, parent \in WillID, by \in FLT,
               ex \in ExecutorLists, d \in WillDelays :
            Accept(p, [Idle EXCEPT
                         !.op = "CreateCodicil", !.pc = "write", !.id = id,
                         !.by = by, !.draft = buildWill(by, ex, d, parent)])
      BY <1>4 DEF CreateCodicilRead
    <2>2. /\ req'[p].op = "CreateCodicil" /\ req'[p].pend = {}
          /\ req'[p].draft = buildWill(by, ex, d, parent)
      BY <1>1, <2>1 DEF Accept, Idle
    <2> QED
      BY <1>2, <2>2 DEF ClerkInv, buildWill, NoRow
  <1>5. ASSUME req'[p].op \notin {"CreateDraft", "CreateCodicil"}
        PROVE  ClerkInv(req[p])'
    BY <1>2, <1>5 DEF ClerkInv, Fresher, Creating
  <1>6. CASE SignTestatorRead(p)
    BY <1>1, <1>5, <1>6 DEF SignTestatorRead, Accept, Idle
  <1>7. CASE SignWitnessRead(p)
    BY <1>1, <1>5, <1>7 DEF SignWitnessRead, Accept, Idle
  <1>8. CASE LockRead(p)
    BY <1>1, <1>5, <1>8 DEF LockRead, Accept, Idle
  <1>9. CASE NotifyDeathRead(p)
    BY <1>1, <1>5, <1>9 DEF NotifyDeathRead, Accept, Idle
  <1>10. CASE \E id \in WillID : GetWillElapsed(p, id)
    BY <1>1, <1>5, <1>10 DEF GetWillElapsed, Accept, Idle
  <1>11. CASE GetWillServe(p)
    BY <1>1, <1>5, <1>11 DEF GetWillServe, Accept, Idle
  <1>12. CASE NotifyAllRead(p)
    BY <1>1, <1>5, <1>12 DEF NotifyAllRead, Accept, Idle
  <1>13. CASE AddClauseRead(p)
    BY <1>1, <1>5, <1>13 DEF AddClauseRead, Accept, Idle
  <1>14. CASE ConfirmLivenessRead(p)
    BY <1>1, <1>5, <1>14 DEF ConfirmLivenessRead, Accept, Idle
  <1>15. CASE SendReminderRead(p)
    BY <1>1, <1>5, <1>15 DEF SendReminderRead, Accept, Idle
  <1> QED
    BY <1>3, <1>4, <1>6, <1>7, <1>8, <1>9, <1>10, <1>11, <1>12, <1>13,
       <1>14, <1>15
    DEF Receive

(* Every step keeps what every request knows. *)
LEMMA NextClerk ==
  ASSUME ServiceInv, CompleteInv, [Next]_vars, NEW q \in Procs
  PROVE  ClerkInv(req[q])'
  <1>1. TypeOK /\ ClerkInv(req[q]) /\ RequestInv(q) /\ req[q] \in Request
    BY DEF ServiceInv, CompleteInv, TypeOK
  <1>2. ASSUME req'[q] = req[q]
        PROVE  ClerkInv(req[q])'
    BY <1>1, <1>2 DEF ClerkInv, Creating
  <1>3. ASSUME \/ req'[q].pc = "audit"
               \/ req'[q].pend = {} /\ req'[q].pc \in {"reload", "idle", "respond"}
        PROVE  ClerkInv(req[q])'
    BY <1>3 DEF ClerkInv, Creating
  <1>4. CASE UNCHANGED vars \/ Tick
    BY <1>2, <1>4 DEF vars, Tick
  <1>5. ASSUME NEW p \in Procs, Receive(p)
        PROVE  ClerkInv(req[q])'
    <2>1. CASE p = q
      BY <1>5, <2>1, ReceiveClerk
    <2>2. CASE p # q
      BY <1>1, <1>2, <1>5, <2>2, ReceiveStep DEF Only
    <2> QED
      BY <2>1, <2>2
  <1>6. ASSUME NEW p \in Procs, Writes(p)
        PROVE  ClerkInv(req[q])'
    BY <1>1, <1>2, <1>3, <1>6, WritesOnly DEF Only
  <1>7. ASSUME NEW p \in Procs, NEW e, Ticks(p, e)
        PROVE  ClerkInv(req[q])'
    BY <1>2, <1>3, <1>7 DEF Only, Ticks
  <1>8. ASSUME NEW p \in Procs, Passes(p)
        PROVE  ClerkInv(req[q])'
    <2>1. CASE p # q
      BY <1>2, <1>8, <2>1 DEF Passes, Only
    <2>2. CASE p = q /\ req'[q] = Idle
      BY <1>3, <2>2 DEF Idle
    <2>3. CASE p = q /\ req'[q] # Idle
      <3>1. /\ req'[q].pend = {} /\ req'[q].id = req[q].id
            /\ req'[q].op = req[q].op
        BY <1>1, <1>8, <2>3 DEF Passes, ClerkInv
      <3>2. CASE req'[q].pc = "respond"
        BY <1>3, <3>1, <3>2
      <3>3. CASE req[q].op \in {"Lock", "GetWill"}
        BY <3>1, <3>3 DEF ClerkInv, Creating
      <3> QED
        BY <1>8, <2>3, <3>2, <3>3 DEF Passes
    <2> QED
      BY <2>1, <2>2, <2>3
  <1>9. ASSUME NEW p \in Procs, Continue(p)
        PROVE  ClerkInv(req[q])'
    BY <1>1, <1>6, <1>7, <1>8, <1>9, ContinueStep
  <1>10. ASSUME NEW p \in Procs, RecordFails(p)
         PROVE  ClerkInv(req[q])'
    BY <1>1, <1>7, <1>10, FailStep
  <1>11. ASSUME NEW p \in Procs, Fail(p)
         PROVE  ClerkInv(req[q])'
    BY <1>1, <1>2, <1>3, <1>11, FailStep DEF Only, Idle
  <1> QED
    BY <1>4, <1>5, <1>9, <1>10, <1>11 DEF Next

(***************************************************************************)
(* The inductive invariant of the audit log.  At every step of any number  *)
(* of concurrent requests, as long as none has failed, each transition of  *)
(* a will is in will_audit_log or held by the request that is about to     *)
(* record it: Record drops an entry only once it is stored, and a          *)
(* handler's write puts the entries of its transition in hand.             *)
(***************************************************************************)
THEOREM CompleteInvariance == Spec => []CompleteInv
  <1>1. Init => CompleteInv
    <2> SUFFICES ASSUME Init PROVE CompleteInv
      OBVIOUS
    <2>1. \A p \in Procs : ClerkInv(req[p])
      BY DEF Init, ClerkInv, Idle, Creating
    <2>2. \A id \in WillID : LoggedInv(id)
      BY NullAssumption DEF Init, LoggedInv, NoRow, Exists
    <2> QED
      BY <2>1, <2>2 DEF CompleteInv
  <1>2. ServiceInv /\ CompleteInv /\ [Next]_vars => CompleteInv'
    <2> SUFFICES ASSUME ServiceInv, CompleteInv, [Next]_vars
                 PROVE  CompleteInv'
      OBVIOUS
    <2>1. \A p \in Procs : ClerkInv(req[p])'
      BY NextClerk
    <2>2. ASSUME fails' = 0
          PROVE  \A id \in WillID : LoggedInv(id)'
      BY <2>2, NextLogged
    <2> QED
      BY <2>1, <2>2 DEF CompleteInv
  <1> QED
    BY <1>1, <1>2, Invariance, PTL DEF Spec

(***************************************************************************)
(* "Tamper-evident log of every state transition": for any number of       *)
(* concurrent requests, as long as no statement has failed and once every  *)
(* request has ended, each transition of each will is in its log.          *)
(***************************************************************************)
THEOREM LogComplete == Spec => []AuditComplete
  <1>1. CompleteInv => AuditComplete
    <2> SUFFICES ASSUME CompleteInv, fails = 0,
                        \A p \in Procs : req[p] = Idle, NEW id \in WillID
                 PROVE  LET L(e) == e \in audit[id] IN
                        /\ Exists(id) =>
                             L("will_created") \/ L("codicil_created")
                        /\ will[id].signed # NULL => L("testator_signed")
                        /\ witness[id] # <<>> => L("witness_signed")
                        /\ "locked" \in will[id].had => L("locked")
                        /\ "death_notified" \in will[id].had =>
                             L("death_notified")
                        /\ "unlocked_at_death" \in will[id].had =>
                             L("vault_unlocked")
                        /\ "superseded" \in will[id].had => L("superseded")
                        /\ (\E c \in WillID : will[c].parent = id) =>
                             L("codicil_appended")
                        /\ will[id].lastConfirmedAt # NULL =>
                             L("liveness_confirmed")
                        /\ will[id].livenessNotifiedAt # NULL =>
                             L("liveness_reminder_sent")
      BY DEF AuditComplete
    <2>1. \A e : Logged(id, e) => e \in audit[id]
      BY DEF Logged, Idle
    <2>2. LoggedInv(id)
      BY DEF CompleteInv
    <2> QED
      BY <2>1, <2>2 DEF LoggedInv
  <1> QED
    BY <1>1, CompleteInvariance, PTL
=============================================================================
