------------------------- MODULE WillProperties -------------------------
(***************************************************************************)
(* What the will service promises, stated over the state of WillService.   *)
(***************************************************************************)
EXTENDS WillService

(* Every variable has its type. *)
TypeOK ==
    /\ will \in [WillID -> Row]
    /\ witness \in [WillID -> Seq(WitnessSignature)]
    /\ clauses \in [WillID -> Seq(ClauseKind)]
    /\ audit \in [WillID -> SUBSET Event]
    /\ notices \in [WillID -> SUBSET Notice]
    /\ req \in [Procs -> Request]
    /\ now \in Nat
    /\ fails \in Nat

Exists(id) == will[id].status # "absent"

Executed(id) ==
    /\ Exists(id)
    /\ will[id].signed # NULL
    /\ Len(witness[id]) >= 2
    /\ \A i \in 1..Len(witness[id]) :
            witness[id][i].flt # will[id].testator

Earned(id, t) == \E n \in notices[id] : t >= n.at + n.delay

(***************************************************************************)
(* Lock's checks (testator signed, two witness rows, none of them by the   *)
(* testator) are made in Go on an earlier read, and so are those of        *)
(* NotifyDeath and CompleteUnlock.  Whatever runs in between, a will that  *)
(* is locked, death-notified or unlocked carries those signatures.  One    *)
(* person may have written both witness rows (see TwoWitnesses).           *)
(***************************************************************************)
LockedIsExecuted ==
    \A id \in WillID : will[id].status \in PostLock => Executed(id)

(***************************************************************************)
(* "Two-witness signing": a will that is locked, death-notified or         *)
(* unlocked was counter-signed by two different people.                    *)
(***************************************************************************)
TwoWitnesses ==
    \A id \in WillID : will[id].status \in PostLock =>
        \E i, j \in 1..Len(witness[id]) :
            witness[id][i].flt # witness[id][j].flt

(***************************************************************************)
(* The vault opens only on a death notification, and not before the        *)
(* cooling-off period that one of the will's notifications came with is    *)
(* over: neither in the unlocked_at column nor in an answer that GetWill,  *)
(* or NotifyAll to the beneficiaries, is about to give.  The will's own    *)
(* column vault_unlock_delay_days plays no part, here as in the code.      *)
(***************************************************************************)
UnlockEarned ==
    /\ \A id \in WillID :
        will[id].status = "unlocked_at_death" =>
            /\ will[id].unlockedAt # NULL
            /\ Earned(id, will[id].unlockedAt)
    /\ \A p \in Procs :
        req[p].pc = "respond" => Earned(req[p].id, now)

(***************************************************************************)
(* CreateCodicil checks its parent before it inserts.  Whatever happens to *)
(* the parent in between, a codicil hangs on an executed will of the same  *)
(* testator.                                                               *)
(***************************************************************************)
CodicilAttached ==
    \A id \in WillID : will[id].parent # NULL =>
        /\ Executed(will[id].parent)
        /\ will[will[id].parent].testator = will[id].testator

(* Following parents always ends at a will that is not a codicil. *)
CodicilRooted ==
    \A S \in (SUBSET WillID) \ {{}} :
        \E id \in S : will[id].parent \notin S

(***************************************************************************)
(* CreateDraft supersedes the wills it found earlier.  A superseded will   *)
(* names a successor, and a successor is a stored will, not a codicil, of  *)
(* the same testator.                                                      *)
(***************************************************************************)
SupersededBySuccessor ==
    \A id \in WillID :
        /\ will[id].status = "superseded" => will[id].supersededBy # NULL
        /\ will[id].supersededBy # NULL =>
            /\ Exists(will[id].supersededBy)
            /\ will[will[id].supersededBy].testator = will[id].testator
            /\ will[will[id].supersededBy].parent = NULL

(***************************************************************************)
(* Following superseded_by never comes back, also when two new wills of    *)
(* one testator are created at the same time.                              *)
(***************************************************************************)
SupersessionAcyclic ==
    \A S \in (SUBSET WillID) \ {{}} :
        \E id \in S : will[id].supersededBy \notin S

(* What an audit event says happened, as the tables, or the statuses that  *)
(* a will was given, show it for good.                                     *)
Happened(id, event) ==
    CASE event = "will_created"     -> Exists(id) /\ will[id].parent = NULL
      [] event = "codicil_created"  -> Exists(id) /\ will[id].parent # NULL
      [] event = "codicil_appended" -> \E c \in WillID : will[c].parent = id
      [] event = "testator_signed"  -> will[id].signed # NULL
      [] event = "witness_signed"   -> witness[id] # <<>>
      [] event = "locked"           -> "locked" \in will[id].had
      [] event = "death_notified"   -> "death_notified" \in will[id].had
      [] event = "vault_unlocked"   -> "unlocked_at_death" \in will[id].had
      [] event = "superseded"       -> "superseded" \in will[id].had
      [] event = "liveness_confirmed" -> will[id].lastConfirmedAt # NULL
      [] event = "liveness_reminder_sent" ->
            will[id].livenessNotifiedAt # NULL

(***************************************************************************)
(* The log never runs ahead of the tables: an event that is recorded, or   *)
(* that a handler is about to record, has happened, even when requests     *)
(* fail between their steps.                                               *)
(***************************************************************************)
AuditTruthful ==
    /\ \A id \in WillID : \A e \in audit[id] : Happened(id, e)
    /\ \A p \in Procs : \A e \in req[p].pend : Happened(e[1], e[2])

(***************************************************************************)
(* "Tamper-evident log of every state transition": once every request has  *)
(* ended and none failed, each transition of a will is in its log, also    *)
(* one that a concurrent request has undone since.                         *)
(***************************************************************************)
AuditComplete ==
    fails = 0 /\ (\A p \in Procs : req[p] = Idle) =>
        \A id \in WillID :
            /\ Exists(id) =>
                audit[id] \cap {"will_created", "codicil_created"} # {}
            /\ will[id].signed # NULL => "testator_signed" \in audit[id]
            /\ witness[id] # <<>> => "witness_signed" \in audit[id]
            /\ "locked" \in will[id].had => "locked" \in audit[id]
            /\ "death_notified" \in will[id].had =>
                "death_notified" \in audit[id]
            /\ "unlocked_at_death" \in will[id].had =>
                "vault_unlocked" \in audit[id]
            /\ "superseded" \in will[id].had => "superseded" \in audit[id]
            /\ (\E c \in WillID : will[c].parent = id) =>
                "codicil_appended" \in audit[id]
            /\ will[id].lastConfirmedAt # NULL =>
                "liveness_confirmed" \in audit[id]
            /\ will[id].livenessNotifiedAt # NULL =>
                "liveness_reminder_sent" \in audit[id]

(***************************************************************************)
(* A new will supersedes the draft and locked wills of its testator, so    *)
(* there are never two competing instruments (codicils aside).             *)
(***************************************************************************)
OneActiveWill ==
    \A t \in FLT : Cardinality(FindActiveByTestatorFLT(will, t)) <= 1

(***************************************************************************)
(* "No further edits are permitted" once a will is locked: its signatures  *)
(* and its clauses stay as they are.                                       *)
(***************************************************************************)
LockedIsFrozen ==
    [][\A id \in WillID : will[id].status \in PostLock =>
            /\ will'[id].signed = will[id].signed
            /\ witness'[id] = witness[id]
            /\ clauses'[id] = clauses[id]]_vars

(***************************************************************************)
(* "Once FLTs are stored, only the exact executor may access the will":    *)
(* GetWill answers nobody else.                                            *)
(***************************************************************************)
OnlyExactExecutor ==
    \A p \in Procs : At(p, "GetWill", "respond") =>
        \/ req[p].by \in will[req[p].id].executors
        \/ will[req[p].id].executors \subseteq {NoFLT}

(***************************************************************************)
(* A death-notified will does not stay closed: once the cooling-off period *)
(* is over an executor's request opens the vault (GetWill completes the    *)
(* unlock lazily), also when requests fail between their steps.            *)
(***************************************************************************)
VaultOpens ==
    \A id \in WillID :
        will[id].status = "death_notified"
            ~> will[id].status = "unlocked_at_death"

-----------------------------------------------------------------------------
(***************************************************************************)
(* The inductive invariant: what the tables say of one will, and what a    *)
(* handler may still rely on, of all that it read, when it comes to write. *)
(***************************************************************************)
TableInv(id) ==
    /\ ~Exists(id) => will[id] = NoRow /\ witness[id] = <<>>
    /\ Exists(id) => will[id].testator \in FLT
    /\ witness[id] # <<>> => will[id].signed # NULL
    /\ \A i \in 1..Len(witness[id]) :
            witness[id][i].flt # will[id].testator
    /\ will[id].status \in PostLock => Executed(id)
    /\ will[id].unlockAfter # NULL => Earned(id, will[id].unlockAfter)
    /\ will[id].status = "unlocked_at_death" =>
        /\ will[id].unlockedAt # NULL
        /\ will[id].unlockedAt <= now
        /\ Earned(id, will[id].unlockedAt)

Creating(r) == r.op \in {"CreateDraft", "CreateCodicil"} /\ r.pc = "write"

RequestInv(p) ==
    LET r == req[p] IN
    r # Idle =>
        /\ r.id \in WillID
        /\ r.op \in Op
        /\ r.pc # "idle"
        /\ Creating(r) =>
            /\ ~Exists(r.id)
            /\ \A q \in Procs \ {p} : req[q].id # r.id
            /\ r.by \in FLT
            /\ r.draft.status = "draft"
            /\ r.draft.testator = r.by
            /\ r.draft.signed = NULL
            /\ r.draft.unlockAfter = NULL
            /\ r.draft.supersededBy = NULL
        /\ ~Creating(r) => Exists(r.id)
        /\ r.op = "CreateDraft" /\ r.pc = "write" =>
            /\ r.draft.parent = NULL
            /\ \A w \in r.sup :
                Exists(w) /\ will[w].testator = r.by /\ will[w].parent = NULL
        /\ r.op = "CreateCodicil" /\ r.pc = "write" =>
            /\ r.draft.parent \in WillID
            /\ Executed(r.draft.parent)
            /\ will[r.draft.parent].testator = r.by
        /\ r.op = "SignTestator" /\ r.pc = "write" => r.hash \in Hash
        /\ r.op = "SignWitness" /\ r.pc = "write" =>
            /\ r.hash \in Hash
            /\ r.by \in FLT
            /\ r.by # will[r.id].testator
            /\ will[r.id].signed # NULL
        /\ r.op = "Lock" /\ r.pc \in {"fetch", "write"} =>
            will[r.id].signed # NULL
        /\ r.op = "Lock" /\ r.pc = "write" => Len(witness[r.id]) >= 2
        /\ r.op = "NotifyDeath" /\ r.pc = "write" =>
            /\ Executed(r.id)
            /\ r.at <= now
            /\ [at |-> r.at, delay |-> r.delay] \in notices[r.id]
        /\ r.op = "GetWill" /\ r.pc \in {"complete", "write"} =>
            /\ Executed(r.id)
            /\ r.at <= now
            /\ Earned(r.id, r.at)
        /\ r.pc = "respond" => Earned(r.id, now)

(***************************************************************************)
(* What every handler may rely on at its next write although it checked on *)
(* an earlier read: the facts above only ever become true.                 *)
(***************************************************************************)
ServiceInv ==
    /\ TypeOK
    /\ \A id \in WillID : TableInv(id)
    /\ \A p \in Procs : RequestInv(p)
    /\ CodicilAttached
    /\ SupersededBySuccessor

-----------------------------------------------------------------------------
(* An event is in the log of a will, or about to be recorded there. *)
Logged(id, e) ==
    e \in audit[id] \/ \E p \in Procs : <<id, e>> \in req[p].pend

(* Each transition of a will is logged. *)
LoggedInv(id) ==
    /\ Exists(id) => Logged(id, "will_created") \/ Logged(id, "codicil_created")
    /\ will[id].signed # NULL => Logged(id, "testator_signed")
    /\ witness[id] # <<>> => Logged(id, "witness_signed")
    /\ "locked" \in will[id].had => Logged(id, "locked")
    /\ "death_notified" \in will[id].had => Logged(id, "death_notified")
    /\ "unlocked_at_death" \in will[id].had => Logged(id, "vault_unlocked")
    /\ "superseded" \in will[id].had => Logged(id, "superseded")
    /\ (\E c \in WillID : will[c].parent = id) => Logged(id, "codicil_appended")
    /\ will[id].lastConfirmedAt # NULL => Logged(id, "liveness_confirmed")
    /\ will[id].livenessNotifiedAt # NULL =>
        Logged(id, "liveness_reminder_sent")

(* What a request under way knows of the log and of its draft. *)
ClerkInv(r) ==
    /\ r.pc # "audit" => r.pend = {}
    /\ Creating(r) =>
        /\ r.draft.had = {"draft"}
        /\ r.draft.lastConfirmedAt = NULL
        /\ r.draft.livenessNotifiedAt = NULL

(***************************************************************************)
(* The inductive invariant behind AuditComplete: until something fails, an *)
(* entry is dropped from a request only when it is in the log.             *)
(***************************************************************************)
CompleteInv ==
    /\ \A p \in Procs : ClerkInv(req[p])
    /\ fails = 0 => \A id \in WillID : LoggedInv(id)

-----------------------------------------------------------------------------
(***************************************************************************)
(* What a handler that runs alone may rely on at its next write: the check *)
(* it made on an earlier read still holds.  None of these survives a       *)
(* second goroutine.                                                       *)
(***************************************************************************)
ReadHolds(r) ==
    /\ r.op = "CreateDraft" /\ r.pc = "write" =>
        r.sup = FindActiveByTestatorFLT(will, r.by)
    /\ r.op = "CreateCodicil" /\ r.pc = "write" =>
        will[r.draft.parent].status = "locked"
    /\ r.op \in {"SignTestator", "SignWitness", "AddDigitalAssetClause",
                  "AddPropertyClause"} /\ r.pc = "write" =>
        will[r.id].status = "draft"
    /\ r.op = "Lock" /\ r.pc \in {"fetch", "write"} =>
        will[r.id].status = "draft"
    /\ r.op = "NotifyDeath" /\ r.pc = "write" => will[r.id].status = "locked"
    /\ r.op = "GetWill" /\ r.pc \in {"complete", "write"} =>
        will[r.id].status = "death_notified"
    /\ r.op = "ConfirmLiveness" /\ r.pc = "write" =>
        will[r.id].status \in {"draft", "locked", "death_notified"}
    /\ r.op = "SendReminder" /\ r.pc = "write" =>
        /\ will[r.id].status \in {"draft", "locked"}
        /\ will[r.id].livenessNotifiedAt # NULL =>
            will[r.id].livenessNotifiedAt + ReminderInterval <= r.at

(***************************************************************************)
(* The inductive invariant of the service that serves one request at a     *)
(* time: no testator has two wills in force, a will that is not stored has *)
(* no clauses, and the request under way can trust what it read.           *)
(***************************************************************************)
SerialInv ==
    /\ \A t \in FLT : \A v, w \in FindActiveByTestatorFLT(will, t) : v = w
    /\ \A id \in WillID : ~Exists(id) => clauses[id] = <<>>
    /\ \A p \in Procs : ReadHolds(req[p])

-----------------------------------------------------------------------------
(* The lifecycle a testator sees, read off the tables. *)
Lifecycle == INSTANCE WillLifecycle WITH
    Owner <- FLT, Nobody <- NULL, NoWill <- NULL,
    Blank <- <<NULL, <<>>, <<>>>>,
    status <- [w \in WillID |-> will[w].status],
    owner <- [w \in WillID |-> will[w].testator],
    amends <- [w \in WillID |-> will[w].parent],
    content <- [w \in WillID |-> <<will[w].signed, witness[w], clauses[w]>>]

(***************************************************************************)
(* Served one request at a time, the handlers implement WillLifecycle:     *)
(* each write is one of its steps, every other step changes nothing it     *)
(* shows, and a request that fails half way leaves no half-made step.      *)
(***************************************************************************)
ImplementsLifecycle == Lifecycle!Spec

-----------------------------------------------------------------------------
(* The record of signatures, notices and successors, read off the tables. *)
Archive == INSTANCE WillRecord WITH
    Person <- FLT, Delay <- NoticeDelays,
    Nobody <- NULL, NoWill <- NULL, Unsigned <- NULL,
    status <- [w \in WillID |-> will[w].status],
    owner <- [w \in WillID |-> will[w].testator],
    amends <- [w \in WillID |-> will[w].parent],
    successor <- [w \in WillID |-> will[w].supersededBy],
    signed <- [w \in WillID |-> will[w].signed],
    witnesses <- witness

(***************************************************************************)
(* However many requests run at once and wherever they fail, the handlers  *)
(* implement WillRecord: every write, although its checks were made on an  *)
(* earlier read, is a step that the record allows in the state it finds.   *)
(***************************************************************************)
ImplementsRecord == Archive!Spec
=============================================================================
