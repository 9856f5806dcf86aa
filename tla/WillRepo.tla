------------------------------ MODULE WillRepo ------------------------------
(***************************************************************************)
(* The will table and the SQL statements of internal/repository/will_repo  *)
(* as operators on rows and tables.  A row is a record of the columns that *)
(* some operation reads back or some property speaks of; names, emails,    *)
(* ciphertext and free text are left out.  A will id with no row in the    *)
(* table has the row NoRow.  SQL NULL is the model value NULL.             *)
(***************************************************************************)
EXTENDS Integers, Sequences, FiniteSets

CONSTANTS
    WillID,     \* will identifiers (UUID v4 strings)
    FLT,        \* RealMe federated login tags: the verified identities
    Hash,       \* payload hashes the clients sign
    NULL,       \* SQL NULL, and the absent pointer of the Go models
    NoFLT       \* the empty FLT of an executor captured before Feature 1

ASSUME NullAssumption ==
    /\ NULL \notin WillID
    /\ NULL \notin FLT
    /\ NULL \notin Hash
    /\ NULL \notin Int
    /\ NoFLT \notin FLT

Status == {"absent", "draft", "locked", "death_notified",
           "unlocked_at_death", "superseded"}

\* The statuses a will can only have once it was locked.
PostLock == {"locked", "death_notified", "unlocked_at_death"}

(***************************************************************************)
(* signed is the pair of columns testator_signed_at, testator_payload_hash *)
(* (always written together): NULL, or the hash.  parent is the pair       *)
(* is_codicil, parent_will_id (CreateCodicil sets both, CreateDraft        *)
(* neither).  executors is the set of FLTs of the rows of will_executor.   *)
(* had is no column: it is a history that nothing but a property reads,    *)
(* the statuses that UPDATEs have given the row so far.                    *)
(***************************************************************************)
Row == [status          : Status,
        testator        : FLT \cup {NULL},
        signed          : Hash \cup {NULL},
        lockedAt        : Int \cup {NULL},
        unlockedAt      : Int \cup {NULL},
        deathNotifiedAt : Int \cup {NULL},
        unlockAfter     : Int \cup {NULL},
        delayDays       : Int,
        lastConfirmedAt : Int \cup {NULL},
        livenessNotifiedAt : Int \cup {NULL},
        parent          : WillID \cup {NULL},
        supersededBy    : WillID \cup {NULL},
        executors       : SUBSET (FLT \cup {NoFLT}),
        had             : SUBSET Status]

NoRow == [status |-> "absent", testator |-> NULL, signed |-> NULL,
          lockedAt |-> NULL, unlockedAt |-> NULL, deathNotifiedAt |-> NULL,
          unlockAfter |-> NULL, delayDays |-> 0,
          lastConfirmedAt |-> NULL, livenessNotifiedAt |-> NULL,
          parent |-> NULL,
          supersededBy |-> NULL, executors |-> {}, had |-> {}]

WitnessSignature == [flt : FLT, hash : Hash]

-----------------------------------------------------------------------------
(* The row that buildWill prepares and CreateDraft inserts. *)
buildWill(testator, executors, delayDays, parent) ==
    [NoRow EXCEPT !.status = "draft", !.testator = testator,
                  !.executors = executors, !.delayDays = delayDays,
                  !.parent = parent, !.had = {"draft"}]

(* The UPDATE that CreateDraft makes to a will it supersedes. *)
Supersede(row, id) ==
    [row EXCEPT !.status = "superseded", !.supersededBy = id,
                !.had = @ \cup {"superseded"}]

\* Mutants of CreateDraft: superseded_by left NULL; the new row supersedes
\* itself; the locked wills are left in force.
CreateDraft_NoSuccessor(table, id, row, supersede) ==
    [w \in WillID |->
        IF w = id THEN row
        ELSE IF w \in supersede /\ table[w].status # "absent"
        THEN [table[w] EXCEPT !.status = "superseded",
                              !.had = @ \cup {"superseded"}]
        ELSE table[w]]

CreateDraft_SupersedesItself(table, id, row, supersede) ==
    [w \in WillID |->
        IF w = id
        THEN [row EXCEPT !.status = "superseded", !.supersededBy = id]
        ELSE IF w \in supersede /\ table[w].status # "absent"
        THEN Supersede(table[w], id)
        ELSE table[w]]

CreateDraft_DraftsOnly(table, id, row, supersede) ==
    [w \in WillID |->
        IF w = id THEN row
        ELSE IF w \in supersede /\ table[w].status = "draft"
        THEN Supersede(table[w], id)
        ELSE table[w]]

(***************************************************************************)
(* The transaction of CreateDraft: one INSERT of the new row, then one     *)
(* UPDATE by primary key for each will to supersede.  The UPDATE does not  *)
(* look at the status the row has by then.                                 *)
(***************************************************************************)
CreateDraft(table, id, row, supersede) ==
    [w \in WillID |->
        IF w = id THEN row
        ELSE IF w \in supersede /\ table[w].status # "absent"
        THEN Supersede(table[w], id)
        ELSE table[w]]

(* Wills of a testator in draft or locked state that are not codicils. *)
FindActiveByTestatorFLT(table, flt) ==
    {w \in WillID : /\ table[w].testator = flt
                    /\ table[w].status \in {"draft", "locked"}
                    /\ table[w].parent = NULL}

(* All three columns are written, so a NULL argument erases a time. *)
UpdateStatus(row, status, lockedAt, unlockedAt) ==
    [row EXCEPT !.status = status, !.lockedAt = lockedAt,
                !.unlockedAt = unlockedAt, !.had = @ \cup {status}]

\* Mutant: the column unlock_after is not written.
NotifyDeath_NoUnlockAfter(row, notifiedAt, unlockAfter) ==
    [row EXCEPT !.status = "death_notified", !.deathNotifiedAt = notifiedAt,
                !.had = @ \cup {"death_notified"}]

NotifyDeath(row, notifiedAt, unlockAfter) ==
    [row EXCEPT !.status = "death_notified",
                !.deathNotifiedAt = notifiedAt,
                !.unlockAfter = unlockAfter,
                !.had = @ \cup {"death_notified"}]

RecordTestatorSignature(row, payloadHash) ==
    [row EXCEPT !.signed = payloadHash]

(* An INSERT keyed by will and nanosecond (a clash is a failed request). *)
RecordWitnessSignature(signatures, witness, payloadHash) ==
    Append(signatures, [flt |-> witness, hash |-> payloadHash])

RecordLivenessConfirmation(row, confirmedAt) ==
    [row EXCEPT !.lastConfirmedAt = confirmedAt]

RecordLivenessReminder(row, notifiedAt) ==
    [row EXCEPT !.livenessNotifiedAt = notifiedAt]

(***************************************************************************)
(* fetchExecutors swallows errors: when the query or the scan fails it     *)
(* returns the rows read so far, in no particular order.                   *)
(***************************************************************************)
fetchExecutors(row, failing) ==
    IF failing THEN SUBSET row.executors ELSE {row.executors}

(***************************************************************************)
(* An exact match is let through, and so is everybody when no executor of  *)
(* the list has an FLT.                                                    *)
(***************************************************************************)
isNominatedExecutor(executors, flt) ==
    LET stored == executors \ {NoFLT} IN flt \in stored \/ stored = {}
=============================================================================
