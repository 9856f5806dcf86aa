-------------------------- MODULE WillRecordProofs --------------------------
(***************************************************************************)
(* Any number of goroutines implement WillRecord.  The simulation needs    *)
(* ServiceInv and nothing else: whatever a handler read, RequestInv says   *)
(* what of it is still true when it writes, and that is just what the      *)
(* guards of WillRecord ask for.                                           *)
(***************************************************************************)
EXTENDS WillServiceProofs

(* The columns of the will table that the record shows. *)
Statuses == [w \in WillID |-> will[w].status]
Owners == [w \in WillID |-> will[w].testator]
Parents == [w \in WillID |-> will[w].parent]
Successors == [w \in WillID |-> will[w].supersededBy]
Signatures == [w \in WillID |-> will[w].signed]

(* The record's own terms, read off the tables, are the service's. *)
LEMMA RecordTerms ==
  ASSUME NEW w \in WillID
  PROVE  /\ Archive!Exists(w) <=> Exists(w)
         /\ Archive!Executed(w) <=> Executed(w)
  BY DEF Archive!Exists, Archive!Executed, Exists, Executed

(* Each action of the record is one of its steps. *)
LEMMA RecordSteps ==
  ASSUME NEW w \in WillID
  PROVE  /\ \A o \in FLT : \A replaced \in SUBSET Archive!WillsOf(o) :
              Archive!NewWill(w, o, replaced) => Archive!Next
         /\ \A parent \in WillID : Archive!NewCodicil(w, parent) => Archive!Next
         /\ \A hash \in Hash : Archive!Sign(w, hash) => Archive!Next
         /\ \A by \in FLT, hash \in Hash :
              Archive!Witness(w, by, hash) => Archive!Next
         /\ \A d \in NoticeDelays : Archive!Notice(w, d) => Archive!Next
         /\ Archive!Seal(w) \/ Archive!DeathNotified(w) \/ Archive!Open(w)
              => Archive!Next
  BY DEF Archive!Next

(* Of the row that an UPDATE writes, the record sees these columns. *)
LEMMA ColumnsUpdated ==
  ASSUME TypeOK, NEW w \in WillID, NEW row,
         will' = [will EXCEPT ![w] = row],
         row.testator = will[w].testator,
         row.parent = will[w].parent,
         row.supersededBy = will[w].supersededBy
  PROVE  /\ Statuses' = [Statuses EXCEPT ![w] = row.status]
         /\ Signatures' = [Signatures EXCEPT ![w] = row.signed]
         /\ UNCHANGED <<Owners, Parents, Successors>>
  <1>1. \A v \in WillID : will'[v] = IF v = w THEN row ELSE will[v]
    BY DEF TypeOK
  <1>2. Statuses' = [Statuses EXCEPT ![w] = row.status]
    <2>1. \A v \in WillID :
            will'[v].status = IF v = w THEN row.status ELSE will[v].status
      BY <1>1
    <2> QED
      BY <2>1 DEF Statuses
  <1>3. Signatures' = [Signatures EXCEPT ![w] = row.signed]
    <2>1. \A v \in WillID :
            will'[v].signed = IF v = w THEN row.signed ELSE will[v].signed
      BY <1>1
    <2> QED
      BY <2>1 DEF Signatures
  <1>4. Owners' = Owners
    BY <1>1 DEF Owners
  <1>5. Parents' = Parents
    BY <1>1 DEF Parents
  <1>6. Successors' = Successors
    BY <1>1 DEF Successors
  <1> QED
    BY <1>2, <1>3, <1>4, <1>5, <1>6

(* A write that keeps a column keeps it. *)
LEMMA ColumnKept ==
  ASSUME NEW w \in WillID
  PROVE  /\ [Statuses EXCEPT ![w] = will[w].status] = Statuses
         /\ [Signatures EXCEPT ![w] = will[w].signed] = Signatures
  BY DEF Statuses, Signatures

-----------------------------------------------------------------------------
(* CreateDraft's transaction replaces wills of the same testator only.     *)
LEMMA CreateDraftRecord ==
  ASSUME ServiceInv, NEW p \in Procs, CreateDraftTx(p)
  PROVE  Archive!Next
  <1> DEFINE r == req[p]
  <1>1. TypeOK /\ RequestInv(p)
    BY DEF ServiceInv
  <1>2. /\ r # Idle /\ r.id \in WillID /\ r \in Request
        /\ r.op = "CreateDraft" /\ r.pc = "write"
    BY <1>1, WriterBusy DEF Writes, CreateDraftTx, At
  <1>3. /\ ~Exists(r.id) /\ r.by \in FLT /\ r.draft.status = "draft"
        /\ r.draft.testator = r.by /\ r.draft.signed = NULL
        /\ r.draft.parent = NULL /\ r.draft.supersededBy = NULL
        /\ \A v \in r.sup : /\ Exists(v) /\ will[v].testator = r.by
                            /\ will[v].parent = NULL
    BY <1>1, <1>2 DEF RequestInv, Creating
  <1>4. r.sup \subseteq WillID
    BY <1>2 DEF Request
  <1>5. /\ will'[r.id] = r.draft
        /\ \A v \in WillID \ {r.id} :
             will'[v] = IF v \in r.sup
                        THEN Supersede(will[v], r.id)
                        ELSE will[v]
    BY <1>2, <1>3 DEF CreateDraftTx, CreateDraft, Exists
  <1>6. \A v \in WillID : will[v] \in Row
    BY <1>1 DEF TypeOK
  <1>7. will[r.id] = NoRow /\ r.id \notin r.sup
    BY <1>2, <1>3 DEF ServiceInv, TableInv
  <1>8. \A v \in WillID :
          /\ will'[v].status = IF v = r.id THEN "draft"
                               ELSE IF v \in r.sup THEN "superseded"
                               ELSE will[v].status
          /\ will'[v].supersededBy = IF v \in r.sup THEN r.id
                                     ELSE will[v].supersededBy
          /\ will'[v].testator = IF v = r.id THEN r.by ELSE will[v].testator
          /\ will'[v].parent = will[v].parent
          /\ will'[v].signed = will[v].signed
    <2>1. ASSUME NEW v \in r.sup
          PROVE  /\ will'[v].status = "superseded"
                 /\ will'[v].supersededBy = r.id
                 /\ will'[v].testator = will[v].testator
                 /\ will'[v].parent = will[v].parent
                 /\ will'[v].signed = will[v].signed
      BY <1>4, <1>5, <1>6, <1>7 DEF Row, Supersede
    <2>2. \A v \in WillID \ {r.id} : v \notin r.sup => will'[v] = will[v]
      BY <1>5
    <2>3. /\ will'[r.id].status = "draft" /\ will'[r.id].testator = r.by
          /\ will'[r.id].supersededBy = will[r.id].supersededBy
          /\ will'[r.id].parent = will[r.id].parent
          /\ will'[r.id].signed = will[r.id].signed
      <3>1. /\ NoRow.supersededBy = NULL /\ NoRow.parent = NULL
            /\ NoRow.signed = NULL
        BY DEF NoRow
      <3> QED
        BY <1>3, <1>5, <1>7, <3>1
    <2> QED
      BY <1>7, <2>1, <2>2, <2>3
  <1>9. /\ Statuses' = [v \in WillID |->
                          IF v = r.id THEN "draft"
                          ELSE IF v \in r.sup THEN "superseded"
                          ELSE Statuses[v]]
        /\ Successors' = [v \in WillID |-> IF v \in r.sup THEN r.id
                                           ELSE Successors[v]]
        /\ Owners' = [Owners EXCEPT ![r.id] = r.by]
        /\ UNCHANGED <<Parents, Signatures, witness, notices, now>>
    <2>1. Statuses' = [v \in WillID |->
                         IF v = r.id THEN "draft"
                         ELSE IF v \in r.sup THEN "superseded"
                         ELSE Statuses[v]]
      BY <1>8 DEF Statuses
    <2>2. Successors' = [v \in WillID |-> IF v \in r.sup THEN r.id
                                          ELSE Successors[v]]
      BY <1>8 DEF Successors
    <2>3. Owners' = [Owners EXCEPT ![r.id] = r.by]
      BY <1>2, <1>8 DEF Owners
    <2>4. UNCHANGED <<Parents, Signatures>>
      BY <1>8 DEF Parents, Signatures
    <2> QED
      BY <2>1, <2>2, <2>3, <2>4 DEF CreateDraftTx
  <1>10. r.sup \in SUBSET Archive!WillsOf(r.by)
    BY <1>3, <1>4, RecordTerms DEF Archive!WillsOf
  <1>11. ~Archive!Exists(r.id)
    BY <1>2, <1>3, RecordTerms
  <1>12. PICK w \in WillID, o \in FLT, replaced \in SUBSET WillID :
           w = r.id /\ o = r.by /\ replaced = r.sup
    BY <1>2, <1>3, <1>4
  <1>13. Archive!NewWill(w, o, replaced) /\ replaced \in SUBSET Archive!WillsOf(o)
    BY <1>9, <1>10, <1>11, <1>12
    DEF Archive!NewWill, Statuses, Successors, Owners, Parents, Signatures
  <1> QED
    BY <1>13, RecordSteps

(* CreateCodicil's transaction, whatever became of the parent's status. *)
LEMMA CreateCodicilRecord ==
  ASSUME ServiceInv, NEW p \in Procs, CreateCodicilTx(p)
  PROVE  Archive!Next
  <1> DEFINE r == req[p]
  <1>1. TypeOK /\ RequestInv(p)
    BY DEF ServiceInv
  <1>2. /\ r # Idle /\ r.id \in WillID
        /\ r.op = "CreateCodicil" /\ r.pc = "write"
    BY <1>1, WriterBusy DEF Writes, CreateCodicilTx, At
  <1>3. /\ ~Exists(r.id) /\ r.draft.status = "draft"
        /\ r.draft.testator = r.by /\ r.draft.signed = NULL
        /\ r.draft.supersededBy = NULL
        /\ r.draft.parent \in WillID /\ Executed(r.draft.parent)
        /\ will[r.draft.parent].testator = r.by
    BY <1>1, <1>2 DEF RequestInv, Creating
  <1>4. will[r.id] = NoRow
    BY <1>2, <1>3 DEF ServiceInv, TableInv
  <1>5. \A v \in WillID : will'[v] = IF v = r.id THEN r.draft ELSE will[v]
    BY DEF CreateCodicilTx, CreateDraft
  <1>6. /\ Statuses' = [Statuses EXCEPT ![r.id] = "draft"]
        /\ Owners' = [Owners EXCEPT ![r.id] = Owners[r.draft.parent]]
        /\ Parents' = [Parents EXCEPT ![r.id] = r.draft.parent]
        /\ UNCHANGED <<Successors, Signatures, witness, notices, now>>
    <2>1. /\ \A v \in WillID :
               /\ will'[v].status = IF v = r.id THEN "draft" ELSE will[v].status
               /\ will'[v].testator = IF v = r.id THEN r.by ELSE will[v].testator
               /\ will'[v].parent = IF v = r.id THEN r.draft.parent
                                                ELSE will[v].parent
               /\ will'[v].signed = will[v].signed
               /\ will'[v].supersededBy = will[v].supersededBy
          /\ r.by = Owners[r.draft.parent]
      BY <1>2, <1>3, <1>4, <1>5 DEF NoRow, Owners
    <2>2. Statuses' = [Statuses EXCEPT ![r.id] = "draft"]
      BY <1>2, <2>1 DEF Statuses
    <2>3. Owners' = [Owners EXCEPT ![r.id] = r.by]
      BY <1>2, <2>1 DEF Owners
    <2>4. Parents' = [Parents EXCEPT ![r.id] = r.draft.parent]
      BY <1>2, <2>1 DEF Parents
    <2>5. UNCHANGED <<Successors, Signatures>>
      BY <2>1 DEF Successors, Signatures
    <2> QED
      BY <2>1, <2>2, <2>3, <2>4, <2>5 DEF CreateCodicilTx
  <1>7. ~Archive!Exists(r.id) /\ Archive!Executed(r.draft.parent)
    BY <1>2, <1>3, RecordTerms
  <1>8. PICK w \in WillID, parent \in WillID :
          w = r.id /\ parent = r.draft.parent
    BY <1>2, <1>3
  <1>9. Archive!NewCodicil(w, parent)
    BY <1>6, <1>7, <1>8
    DEF Archive!NewCodicil, Statuses, Successors, Owners, Parents, Signatures
  <1> QED
    BY <1>9, RecordSteps

(* SignWitness appends a row, also to a will that was locked meanwhile. *)
LEMMA SignWitnessRecord ==
  ASSUME ServiceInv, NEW p \in Procs, SignWitnessWrite(p)
  PROVE  Archive!Next
  <1> DEFINE r == req[p]
  <1>1. TypeOK /\ RequestInv(p)
    BY DEF ServiceInv
  <1>2. /\ r # Idle /\ r.id \in WillID
        /\ r.op = "SignWitness" /\ r.pc = "write"
    BY <1>1, WriterBusy DEF Writes, SignWitnessWrite, At
  <1>3. /\ Exists(r.id) /\ r.by \in FLT /\ r.hash \in Hash
        /\ r.by # will[r.id].testator /\ will[r.id].signed # NULL
    BY <1>1, <1>2 DEF RequestInv, Creating
  <1>4. /\ witness' = [witness EXCEPT ![r.id] =
                          Append(@, [flt |-> r.by, hash |-> r.hash])]
        /\ UNCHANGED <<will, notices, now>>
    BY DEF SignWitnessWrite, RecordWitnessSignature
  <1>5. Archive!Exists(r.id)
    BY <1>2, <1>3, RecordTerms
  <1>6. Archive!Witness(r.id, r.by, r.hash)
    BY <1>2, <1>3, <1>4, <1>5 DEF Archive!Witness
  <1> QED
    BY <1>2, <1>3, <1>6, RecordSteps

(* The UPDATE of an executed will's status, over whatever status it has. *)
LEMMA MoveRecord ==
  ASSUME TypeOK, NEW w \in WillID, Executed(w), NEW row, NEW to,
         row.status = to,
         will' = [will EXCEPT ![w] = row],
         row.testator = will[w].testator,
         row.parent = will[w].parent,
         row.supersededBy = will[w].supersededBy,
         row.signed = will[w].signed,
         UNCHANGED <<witness, notices, now>>
  PROVE  Archive!Move(w, to)
  <1>1. /\ Statuses' = [Statuses EXCEPT ![w] = row.status]
        /\ Signatures' = [Signatures EXCEPT ![w] = row.signed]
        /\ UNCHANGED <<Owners, Parents, Successors>>
    BY ColumnsUpdated
  <1>2. Signatures' = Signatures
    BY <1>1, ColumnKept
  <1>3. Archive!Executed(w)
    BY RecordTerms
  <1> QED
    BY <1>1, <1>2, <1>3
    DEF Archive!Move, Archive!record, Statuses, Signatures, Owners, Parents,
        Successors

(* Lock, NotifyDeath and CompleteUnlock write on an executed will. *)
LEMMA StatusRecord ==
  ASSUME ServiceInv, NEW p \in Procs,
         \/ LockWrite(p) \/ UnlockNow(p)
         \/ StartCoolingOff(p) \/ CompleteUnlockWrite(p)
  PROVE  Archive!Next
  <1> DEFINE r == req[p]
  <1>1. TypeOK /\ RequestInv(p)
    BY DEF ServiceInv
  <1>2. r # Idle /\ r \in Request /\ r.id \in WillID /\ r.pc = "write"
    BY <1>1, WriterBusy DEF Writes, RowWrites
  <1>3. PICK w \in WillID : w = r.id
    BY <1>2
  <1>4. /\ will[w] \in Row /\ now \in Int /\ r.at \in Int
        /\ \A n \in notices[w] : n.at \in Int /\ n.delay \in Int
    BY <1>1, <1>2 DEF TypeOK, Request, Notice
  <1>5. CASE LockWrite(p)
    <2> DEFINE row == UpdateStatus(will[w], "locked", r.at, NULL)
    <2>1. Executed(w)
      <3>1. /\ will[w].signed # NULL /\ Len(witness[w]) >= 2 /\ Exists(w)
        BY <1>1, <1>2, <1>3, <1>5 DEF LockWrite, At, RequestInv, Creating
      <3> QED
        BY <3>1 DEF ServiceInv, TableInv, Executed
    <2>2. /\ row.testator = will[w].testator /\ row.parent = will[w].parent
          /\ row.supersededBy = will[w].supersededBy
          /\ row.signed = will[w].signed /\ row.status = "locked"
      BY <1>4 DEF UpdateStatus, Row
    <2>3. /\ will' = [will EXCEPT ![w] = row]
          /\ UNCHANGED <<witness, notices, now>>
      BY <1>3, <1>5 DEF LockWrite
    <2> HIDE DEF row
    <2>4. Archive!Move(w, "locked")
      BY <1>1, <2>1, <2>2, <2>3, MoveRecord
    <2>5. Archive!Seal(w)
      BY <2>2, <2>4 DEF Archive!Seal
    <2> QED
      BY <2>5, RecordSteps
  <1>6. CASE StartCoolingOff(p)
    <2> DEFINE row == NotifyDeath(will[w], r.at, r.at + r.delay)
    <2>1. Executed(w) /\ notices[w] # {}
      BY <1>1, <1>2, <1>3, <1>6 DEF StartCoolingOff, At, RequestInv
    <2>2. /\ row.testator = will[w].testator /\ row.parent = will[w].parent
          /\ row.supersededBy = will[w].supersededBy
          /\ row.signed = will[w].signed /\ row.status = "death_notified"
      BY <1>4 DEF NotifyDeath, Row
    <2>3. /\ will' = [will EXCEPT ![w] = row]
          /\ UNCHANGED <<witness, notices, now>>
      BY <1>3, <1>6 DEF StartCoolingOff
    <2> HIDE DEF row
    <2>4. Archive!Move(w, "death_notified")
      BY <1>1, <2>1, <2>2, <2>3, MoveRecord
    <2>5. Archive!DeathNotified(w)
      BY <2>1, <2>2, <2>4 DEF Archive!DeathNotified
    <2> QED
      BY <2>5, RecordSteps
  <1>7. CASE UnlockNow(p) \/ CompleteUnlockWrite(p)
    <2> DEFINE row == UpdateStatus(will[w], "unlocked_at_death", NULL, r.at)
    <2>1. Executed(w) /\ r.at <= now /\ Earned(w, r.at)
      <3>1. CASE UnlockNow(p)
        <4>1. /\ Executed(w) /\ r.at <= now /\ r.delay = 0
              /\ [at |-> r.at, delay |-> r.delay] \in notices[w]
          BY <1>1, <1>2, <1>3, <3>1 DEF UnlockNow, At, RequestInv
        <4> QED
          BY <1>4, <4>1 DEF Earned
      <3>2. CASE CompleteUnlockWrite(p)
        BY <1>1, <1>2, <1>3, <3>2 DEF CompleteUnlockWrite, At, RequestInv
      <3> QED
        BY <1>7, <3>1, <3>2
    <2>2. \E n \in notices[w] : now >= n.at + n.delay
      BY <1>4, <2>1 DEF Earned
    <2>3. /\ row.testator = will[w].testator /\ row.parent = will[w].parent
          /\ row.supersededBy = will[w].supersededBy
          /\ row.signed = will[w].signed /\ row.status = "unlocked_at_death"
      BY <1>4 DEF UpdateStatus, Row
    <2>4. /\ will' = [will EXCEPT ![w] = row]
          /\ UNCHANGED <<witness, notices, now>>
      BY <1>3, <1>7 DEF UnlockNow, CompleteUnlockWrite
    <2> HIDE DEF row
    <2>5. Archive!Move(w, "unlocked_at_death")
      BY <1>1, <2>1, <2>3, <2>4, MoveRecord
    <2>6. Archive!Open(w)
      BY <2>2, <2>3, <2>5 DEF Archive!Open
    <2> QED
      BY <2>6, RecordSteps
  <1> QED
    BY <1>5, <1>6, <1>7

(* SignTestator replaces the signature and leaves the rest of the row. *)
LEMMA SignTestatorRecord ==
  ASSUME ServiceInv, NEW p \in Procs, SignTestatorWrite(p)
  PROVE  Archive!Next
  <1> DEFINE r == req[p]
  <1>1. TypeOK /\ RequestInv(p)
    BY DEF ServiceInv
  <1>2. /\ r # Idle /\ r.id \in WillID
        /\ r.op = "SignTestator" /\ r.pc = "write"
    BY <1>1, WriterBusy DEF Writes, RowWrites, SignTestatorWrite, At
  <1>3. Exists(r.id) /\ r.hash \in Hash
    BY <1>1, <1>2 DEF RequestInv, Creating
  <1>4. PICK w \in WillID, hash \in Hash : w = r.id /\ hash = r.hash
    BY <1>2, <1>3
  <1> DEFINE row == RecordTestatorSignature(will[w], hash)
  <1>5. will[w] \in Row
    BY <1>1 DEF TypeOK
  <1>6. /\ row.testator = will[w].testator /\ row.parent = will[w].parent
        /\ row.supersededBy = will[w].supersededBy
        /\ row.status = will[w].status /\ row.signed = hash
    BY <1>5 DEF RecordTestatorSignature, Row
  <1>7. /\ will' = [will EXCEPT ![w] = row]
        /\ UNCHANGED <<witness, notices, now>>
    BY <1>4 DEF SignTestatorWrite
  <1> HIDE DEF row
  <1>8. /\ Statuses' = [Statuses EXCEPT ![w] = row.status]
        /\ Signatures' = [Signatures EXCEPT ![w] = row.signed]
        /\ UNCHANGED <<Owners, Parents, Successors>>
    BY <1>1, <1>6, <1>7, ColumnsUpdated
  <1>9. Statuses' = Statuses /\ Archive!Exists(w)
    BY <1>3, <1>4, <1>6, <1>8, ColumnKept, RecordTerms
  <1>10. Archive!Sign(w, hash)
    BY <1>6, <1>7, <1>8, <1>9
    DEF Archive!Sign, Statuses, Signatures, Owners, Parents, Successors
  <1> QED
    BY <1>10, RecordSteps

(* The record shows nothing of reminders and confirmations. *)
LEMMA LivenessRecord ==
  ASSUME ServiceInv, NEW p \in Procs,
         ConfirmLivenessWrite(p) \/ SendReminderWrite(p)
  PROVE  UNCHANGED Archive!vars
  <1> DEFINE r == req[p]
  <1>1. TypeOK /\ RequestInv(p)
    BY DEF ServiceInv
  <1>2. r.id \in WillID
    BY <1>1, WriterBusy DEF Writes, RowWrites
  <1>3. PICK t : \/ will' = [will EXCEPT ![r.id] =
                               RecordLivenessConfirmation(@, t)]
                 \/ will' = [will EXCEPT ![r.id] =
                               RecordLivenessReminder(@, t)]
    BY DEF ConfirmLivenessWrite, SendReminderWrite
  <1>4. will[r.id] \in Row
    BY <1>1, <1>2 DEF TypeOK
  <1>5. \A v \in WillID :
          /\ will'[v].status = will[v].status
          /\ will'[v].testator = will[v].testator
          /\ will'[v].parent = will[v].parent
          /\ will'[v].supersededBy = will[v].supersededBy
          /\ will'[v].signed = will[v].signed
    <2>1. \A v \in WillID \ {r.id} : will'[v] = will[v]
      BY <1>1, <1>2, <1>3 DEF TypeOK
    <2>2. \/ will'[r.id] = [will[r.id] EXCEPT !.lastConfirmedAt = t]
          \/ will'[r.id] = [will[r.id] EXCEPT !.livenessNotifiedAt = t]
      BY <1>1, <1>2, <1>3
      DEF TypeOK, RecordLivenessConfirmation, RecordLivenessReminder
    <2>3. /\ will'[r.id].status = will[r.id].status
          /\ will'[r.id].testator = will[r.id].testator
          /\ will'[r.id].parent = will[r.id].parent
          /\ will'[r.id].supersededBy = will[r.id].supersededBy
          /\ will'[r.id].signed = will[r.id].signed
      BY <1>4, <2>2 DEF Row
    <2> QED
      BY <2>1, <2>3
  <1>6. UNCHANGED <<witness, notices, now>>
    BY DEF ConfirmLivenessWrite, SendReminderWrite
  <1>7. UNCHANGED <<Statuses, Owners, Parents, Successors, Signatures>>
    BY <1>5 DEF Statuses, Owners, Parents, Successors, Signatures
  <1> QED
    BY <1>6, <1>7
    DEF Archive!vars, Archive!record, Statuses, Owners, Parents, Successors,
        Signatures

(* The webhook's notification of a locked, hence executed, will. *)
LEMMA NotifyDeathRecord ==
  ASSUME ServiceInv, NEW p \in Procs, NotifyDeathRead(p)
  PROVE  Archive!Next
  <1>1. PICK w \in WillID, d \in NoticeDelays :
          /\ will[w].status = "locked"
          /\ notices' = [notices EXCEPT ![w] =
                            @ \cup {[at |-> now, delay |-> d]}]
          /\ UNCHANGED <<will, witness, now>>
    BY DEF NotifyDeathRead, tables
  <1>2. Executed(w)
    BY <1>1 DEF ServiceInv, TableInv, PostLock
  <1>3. Archive!Notice(w, d)
    BY <1>1, <1>2, RecordTerms DEF Archive!Notice
  <1> QED
    BY <1>3, RecordSteps

-----------------------------------------------------------------------------
(* Every step is a step of the record or changes nothing it shows. *)
LEMMA NextRecord ==
  ASSUME ServiceInv, [Next]_vars
  PROVE  [Archive!Next]_(Archive!vars)
  <1>1. CASE UNCHANGED <<will, witness, notices, now>>
    BY <1>1 DEF Archive!vars, Archive!record
  <1>2. CASE Tick
    BY <1>2 DEF Tick, tables, Archive!Next, Archive!Tick
  <1>3. ASSUME NEW p \in Procs, Receive(p)
        PROVE  UNCHANGED <<will, witness, notices, now>> \/ NotifyDeathRead(p)
    BY <1>3 DEF Receive, CreateDraftRead, CreateCodicilRead,
                SignTestatorRead, SignWitnessRead, LockRead,
                GetWillElapsed, GetWillServe, NotifyAllRead,
                AddClauseRead, ConfirmLivenessRead, SendReminderRead, tables
  <1>4. ASSUME NEW p \in Procs, Continue(p)
        PROVE  UNCHANGED <<will, witness, notices, now>> \/ Writes(p)
    BY <1>4 DEF Continue, Writes, RowWrites, LockFetch, CompleteUnlockRead,
                Reload, Respond, InsertDigitalAsset, InsertPropertyClause,
                InsertClause, Record, tables
  <1>5. ASSUME NEW p \in Procs, RecordFails(p) \/ Fail(p)
        PROVE  UNCHANGED <<will, witness, notices, now>>
    BY <1>5 DEF RecordFails, Fail, tables
  <1>6. ASSUME NEW p \in Procs, Writes(p)
        PROVE  [Archive!Next]_(Archive!vars)
    BY <1>6, CreateDraftRecord, CreateCodicilRecord, SignWitnessRecord,
       SignTestatorRecord, StatusRecord, LivenessRecord
    DEF Writes, RowWrites
  <1>7. ASSUME NEW p \in Procs, NotifyDeathRead(p)
        PROVE  Archive!Next
    BY <1>7, NotifyDeathRecord
  <1>8. UNCHANGED vars => UNCHANGED <<will, witness, notices, now>>
    BY DEF vars
  <1> QED
    BY <1>1, <1>2, <1>3, <1>4, <1>5, <1>6, <1>7, <1>8 DEF Next

(***************************************************************************)
(* For any number of goroutines serving requests at once, and wherever     *)
(* they fail, the handlers of internal/api/handlers/wills.go and the SQL   *)
(* of will_repo.go implement WillRecord.  LifecycleImplemented needs a     *)
(* service that serves one request at a time; what the database is left    *)
(* with otherwise is this: one owner and one parent for ever, signatures   *)
(* only added, nothing sealed, notified or opened that is not executed,    *)
(* no vault open before its time, and no will replaced but by its owner's  *)
(* new will in the transaction that inserts it.                            *)
(***************************************************************************)
THEOREM RecordImplemented == Spec => ImplementsRecord
  <1>1. Init => Archive!Init
    BY DEF Init, Archive!Init, NoRow
  <1>2. ServiceInv /\ [Next]_vars => [Archive!Next]_(Archive!vars)
    BY NextRecord
  <1> QED
    BY <1>1, <1>2, Invariance, PTL DEF Spec, ImplementsRecord, Archive!Spec
=============================================================================
