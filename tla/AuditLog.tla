------------------------------ MODULE AuditLog ------------------------------
(***************************************************************************)
(* The hash-chained audit log of one will (services/audit.go and           *)
(* repository/audit_repo.go).  Record reads the clock, asks the table for  *)
(* the latest entry and inserts an entry chained to it, with no            *)
(* transaction around the two statements.                                  *)
(*                                                                         *)
(* Time is counted in the smallest unit the clock shows; the column        *)
(* created_at (TIMESTAMPTZ) keeps whole microseconds, that is multiples of *)
(* Micro.  SHA-256 is taken to be injective, so an entry id is the tuple   *)
(* of what was hashed, and equality of ids is equality of the inputs.      *)
(***************************************************************************)
EXTENDS Integers, FiniteSets

CONSTANTS
    Recorder,       \* goroutines that call AuditService.Record
    Event,          \* audit events
    Micro,          \* clock units in one microsecond
    ClockStep,      \* resolution of time.Now() in clock units
    MaxTime,        \* bound on the clock
    MaxEntries,     \* bound on the entries of the log
    MaxFails        \* bound on failed statements

ASSUME AuditAssumption ==
    /\ Micro \in Nat \ {0}
    /\ ClockStep \in Nat \ {0}
    /\ MaxTime \in Nat /\ MaxEntries \in Nat /\ MaxFails \in Nat

VARIABLES
    log,        \* table will_audit_log, the rows of one will
    rec,        \* what each goroutine is recording
    now,        \* the clock
    overlap,    \* history: two requests recorded at the same time
    fails       \* statements that failed

vars == <<log, rec, now, overlap, fails>>

NoEntry == <<>>     \* the empty previous_entry_id at the start of the chain

Quiet == [pc |-> "idle"]

Init ==
    /\ log = {}
    /\ rec = [r \in Recorder |-> Quiet]
    /\ now = 0
    /\ overlap = FALSE
    /\ fails = 0

deriveEntryID(prevID, at, event) == <<prevID, at, event>>

(* What is left of an instant in a TIMESTAMPTZ column. *)
Stored(at) == at - (at % Micro)

\* Mutant: ORDER BY created_at ASC.
GetLatestEntryID_Oldest(entries) ==
    IF entries = {} THEN {NoEntry}
    ELSE {e.id : e \in {f \in entries : \A g \in entries : g.at >= f.at}}

(* ORDER BY created_at DESC LIMIT 1: any of the latest when several tie. *)
GetLatestEntryID(entries) ==
    IF entries = {} THEN {NoEntry}
    ELSE {e.id : e \in {f \in entries : \A g \in entries : g.at <= f.at}}

(* A statement takes the database at least a microsecond. *)
RoundTrip ==
    /\ now + Micro <= MaxTime
    /\ now' = now + Micro

(* Nobody else is recording. *)
Alone(r) == \A q \in Recorder \ {r} : rec[q] = Quiet

\* Mutant: the clock is read in a zone ahead of UTC.
Record_Ahead(r) ==
    /\ rec[r] = Quiet
    /\ Cardinality(log) < MaxEntries
    /\ \E e \in Event :
        rec' = [rec EXCEPT ![r] = [pc |-> "read", event |-> e,
                                   at |-> now + Micro]]
    /\ overlap' = (overlap \/ ~Alone(r))
    /\ UNCHANGED <<log, now, fails>>

(* The request read time.Now() and starts to record the event. *)
Record(r) ==
    /\ rec[r] = Quiet
    /\ Cardinality(log) < MaxEntries
    /\ \E e \in Event :
        rec' = [rec EXCEPT ![r] = [pc |-> "read", event |-> e, at |-> now]]
    /\ overlap' = (overlap \/ ~Alone(r))
    /\ UNCHANGED <<log, now, fails>>

ReadLatest(r) ==
    /\ rec[r].pc = "read"
    /\ \E prev \in GetLatestEntryID(log) :
        rec' = [rec EXCEPT ![r] = [pc |-> "insert", event |-> rec[r].event,
                                   at |-> rec[r].at, prev |-> prev]]
    /\ RoundTrip
    /\ UNCHANGED <<log, overlap, fails>>

\* Mutant: the new id is also stored as previous_entry_id.
Insert_SelfLinked(r) ==
    LET m  == rec[r]
        id == deriveEntryID(m.prev, m.at, m.event) IN
    /\ m.pc = "insert"
    /\ log' = IF \E e \in log : e.id = id THEN log
              ELSE log \cup {[id |-> id, prev |-> id, event |-> m.event,
                              at |-> Stored(m.at)]}
    /\ rec' = [rec EXCEPT ![r] = Quiet]
    /\ RoundTrip
    /\ UNCHANGED <<overlap, fails>>

(* The primary key refuses an id that is already there. *)
Insert(r) ==
    LET m  == rec[r]
        id == deriveEntryID(m.prev, m.at, m.event) IN
    /\ m.pc = "insert"
    /\ log' = IF \E e \in log : e.id = id THEN log
              ELSE log \cup {[id |-> id, prev |-> m.prev, event |-> m.event,
                              at |-> Stored(m.at)]}
    /\ rec' = [rec EXCEPT ![r] = Quiet]
    /\ RoundTrip
    /\ UNCHANGED <<overlap, fails>>

(* Errors are logged, not returned: the entry is missing from then on. *)
RecordFails(r) ==
    /\ rec[r] # Quiet
    /\ fails < MaxFails
    /\ fails' = fails + 1
    /\ rec' = [rec EXCEPT ![r] = Quiet]
    /\ RoundTrip
    /\ UNCHANGED <<log, overlap>>

Tick ==
    /\ now + ClockStep <= MaxTime
    /\ now' = now + ClockStep
    /\ UNCHANGED <<log, rec, overlap, fails>>

Next ==
    \/ \E r \in Recorder :
            Record(r) \/ ReadLatest(r) \/ Insert(r) \/ RecordFails(r)
    \/ Tick

Spec == Init /\ [][Next]_vars

(* Re-derive every id from the row as it is read back from the table. *)
VerifyChain(entries) ==
    \A e \in entries : deriveEntryID(e.prev, e.at, e.event) = e.id
-----------------------------------------------------------------------------
(* Entries carry a stored time and a known event; a recording in progress *)
(* remembers a time that is not ahead of the clock.                        *)
TypeOK ==
    /\ \A e \in log : e.at \in 0..now /\ e.event \in Event
    /\ \A r \in Recorder : rec[r].pc \in {"idle", "read", "insert"}
    /\ \A r \in Recorder :
        rec[r].pc # "idle" => rec[r].at \in 0..now /\ rec[r].event \in Event
    /\ now \in 0..MaxTime
    /\ overlap \in BOOLEAN
    /\ fails \in 0..MaxFails

(***************************************************************************)
(* As long as no two requests recorded at the same time, in chronological  *)
(* order (as GetByWillID returns them) every entry is chained to the one   *)
(* before it: no fork, no second start, no entry that claims a predecessor *)
(* recorded after itself.                                                  *)
(***************************************************************************)
LinearChain ==
    ~overlap =>
    \A e \in log :
        LET before == {f \in log : f.at < e.at} IN
        /\ before = {} => e.prev = NoEntry
        /\ \A f \in before :
                (\A g \in before : g.at <= f.at) => e.prev = f.id
        /\ \A f \in log : f.at = e.at => f = e

(***************************************************************************)
(* What is left of the chain when requests record at the same time and     *)
(* inserts fail.  Two entries may follow the same one, but an id names one *)
(* entry, the predecessor of an entry is in the log, and going back from   *)
(* predecessor to predecessor ends at an entry that has none: the log can  *)
(* always be walked to a start.                                            *)
(***************************************************************************)
ChainJoined ==
    /\ \A e, f \in log : e.id = f.id => e = f
    /\ \A e \in log : e.prev = NoEntry \/ \E f \in log : f.id = e.prev
    /\ \A S \in (SUBSET log) \ {{}} :
            \E e \in S : \A f \in S : f.id # e.prev

(* A log that only Record has written to passes VerifyChain. *)
ChainVerifies == VerifyChain(log)
-----------------------------------------------------------------------------
(* The chain that starts with id ends in the log, or is empty. *)
Known(id) == id = NoEntry \/ \E f \in log : f.id = id

(***************************************************************************)
(* The inductive invariant.  What a request read as the latest entry stays *)
(* in the log.  As long as requests do not overlap it also stays the       *)
(* latest, and since every statement takes a microsecond, the time of the  *)
(* request under way is later than every stored entry even after the       *)
(* column has cut it down.                                                 *)
(***************************************************************************)
ChainInv ==
    /\ TypeOK
    /\ ChainJoined
    /\ LinearChain
    /\ \A e \in log : e.at + Micro <= now
    /\ \A r \in Recorder : rec[r].pc = "insert" => Known(rec[r].prev)
    /\ ~overlap =>
        \A r \in Recorder : rec[r] # Quiet =>
            /\ Alone(r)
            /\ \A e \in log : e.at + Micro <= rec[r].at
            /\ rec[r].pc = "insert" => rec[r].prev \in GetLatestEntryID(log)
=============================================================================
