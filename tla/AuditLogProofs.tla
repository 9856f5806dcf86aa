----------------------------- MODULE AuditLogProofs -----------------------------
(***************************************************************************)
(* Proofs about the audit log.  For any number of goroutines and any       *)
(* resolution of the clock: its types; that every entry leads back to a    *)
(* start of the chain; and that, as long as no two requests overlap, the   *)
(* log is one chain in the order of its timestamps.  Requests that overlap *)
(* fork the chain, and VerifyChain rejects the log when the clock is finer *)
(* than the column (the counterexample of the run audit_precision).        *)
(***************************************************************************)
EXTENDS AuditLog, TLAPS

(* What the proofs need of the variables besides TypeOK. *)
AuditInv == TypeOK /\ DOMAIN rec = Recorder

(* The column cuts an instant down by less than a microsecond. *)
LEMMA StoredBounds ==
  ASSUME NEW x \in Nat
  PROVE  Stored(x) \in 0..x /\ x < Stored(x) + Micro
  <1>1. x % Micro \in 0..(Micro - 1)
    BY AuditAssumption
  <1>2. x % Micro <= x
    <2>1. x = Micro * (x \div Micro) + (x % Micro) /\ x \div Micro \in Nat
      BY AuditAssumption
    <2>2. Micro * (x \div Micro) >= 0
      BY <2>1, AuditAssumption
    <2> QED
      BY <1>1, <2>1, <2>2, AuditAssumption
  <1> QED
    BY <1>1, <1>2, AuditAssumption DEF Stored

-----------------------------------------------------------------------------
(* The table is empty and nobody records: the types hold. *)
LEMMA InitType == Init => AuditInv
  <1> SUFFICES ASSUME Init PROVE AuditInv
    OBVIOUS
  <1>1. overlap \in BOOLEAN
    BY Zenon DEF Init
  <1> QED
    BY <1>1, AuditAssumption DEF Init, AuditInv, TypeOK, Quiet

(* The history of overlaps stays a truth value. *)
LEMMA NextOverlap == overlap \in BOOLEAN /\ [Next]_vars => overlap' \in BOOLEAN
  <1> SUFFICES ASSUME overlap \in BOOLEAN, [Next]_vars
               PROVE  overlap' \in BOOLEAN
    OBVIOUS
  <1>1. ASSUME NEW r \in Recorder, Record(r) PROVE overlap' \in BOOLEAN
    <2>1. overlap' = (overlap \/ ~Alone(r))
      BY <1>1, Zenon DEF Record
    <2> QED
      BY <2>1, Zenon
  <1>2. ASSUME NEW r \in Recorder, ReadLatest(r) PROVE overlap' \in BOOLEAN
    BY <1>2, Zenon DEF ReadLatest
  <1>3. ASSUME NEW r \in Recorder, Insert(r) PROVE overlap' \in BOOLEAN
    BY <1>3, Zenon DEF Insert
  <1>4. ASSUME NEW r \in Recorder, RecordFails(r) PROVE overlap' \in BOOLEAN
    BY <1>4, Zenon DEF RecordFails
  <1>5. CASE Tick
    BY <1>5, Zenon DEF Tick
  <1>6. CASE UNCHANGED vars
    BY <1>6, Zenon DEF vars
  <1> QED
    BY <1>1, <1>2, <1>3, <1>4, <1>5, <1>6, Zenon DEF Next

(* Every step keeps the types. *)
LEMMA NextType == AuditInv /\ [Next]_vars => AuditInv'
  <1> SUFFICES ASSUME AuditInv, [Next]_vars PROVE AuditInv'
    OBVIOUS
  <1>0. overlap' \in BOOLEAN
    BY NextOverlap, Zenon DEF AuditInv, TypeOK
  <1>1. ASSUME NEW r \in Recorder, Record(r)
        PROVE  AuditInv'
    <2>1. PICK e \in Event :
            rec' = [rec EXCEPT ![r] = [pc |-> "read", event |-> e, at |-> now]]
      BY <1>1 DEF Record
    <2>2. UNCHANGED <<log, now, fails>>
      BY <1>1 DEF Record
    <2> QED
      BY <1>0, <2>1, <2>2, AuditAssumption DEF AuditInv, TypeOK
  <1>2. ASSUME NEW r \in Recorder, ReadLatest(r)
        PROVE  AuditInv'
    <2>1. PICK prev \in GetLatestEntryID(log) :
            rec' = [rec EXCEPT ![r] =
                       [pc |-> "insert", event |-> rec[r].event,
                        at |-> rec[r].at, prev |-> prev]]
      BY <1>2 DEF ReadLatest
    <2>2. UNCHANGED <<log, fails>> /\ rec[r].pc = "read"
      BY <1>2 DEF ReadLatest
    <2>3. now' = now + Micro /\ now' \in 0..MaxTime /\ now \in 0..now'
      BY <1>2, AuditAssumption DEF ReadLatest, RoundTrip, AuditInv, TypeOK
    <2> QED
      BY <1>0, <2>1, <2>2, <2>3, AuditAssumption DEF AuditInv, TypeOK
  <1>3. ASSUME NEW r \in Recorder, Insert(r)
        PROVE  AuditInv'
    <2> DEFINE m == rec[r]
               id == deriveEntryID(m.prev, m.at, m.event)
               new == [id |-> id, prev |-> m.prev, event |-> m.event,
                       at |-> Stored(m.at)]
    <2>1. /\ log' = IF \E e \in log : e.id = id THEN log ELSE log \cup {new}
          /\ rec' = [rec EXCEPT ![r] = Quiet]
          /\ m.pc = "insert" /\ fails' = fails
      BY <1>3 DEF Insert
    <2>2. now' = now + Micro /\ now' \in 0..MaxTime /\ now \in 0..now'
      BY <1>3, AuditAssumption DEF Insert, RoundTrip, AuditInv, TypeOK
    <2>3. m.at \in 0..now
      BY <2>1 DEF AuditInv, TypeOK
    <2>4. Stored(m.at) \in 0..now'
      BY <2>2, <2>3, StoredBounds
    <2> QED
      BY <1>0, <2>1, <2>2, <2>3, <2>4, AuditAssumption DEF AuditInv, TypeOK, Quiet
  <1>4. ASSUME NEW r \in Recorder, RecordFails(r)
        PROVE  AuditInv'
    <2>1. now' = now + Micro /\ now' \in 0..MaxTime /\ now \in 0..now'
      BY <1>4, AuditAssumption DEF RecordFails, RoundTrip, AuditInv, TypeOK
    <2> QED
      BY <1>0, <1>4, <2>1, AuditAssumption DEF RecordFails, AuditInv, TypeOK, Quiet
  <1>5. CASE Tick
    BY <1>5, AuditAssumption DEF Tick, AuditInv, TypeOK
  <1>6. CASE UNCHANGED vars
    BY <1>6 DEF vars, AuditInv, TypeOK
  <1> QED
    BY <1>1, <1>2, <1>3, <1>4, <1>5, <1>6 DEF Next

(***************************************************************************)
(* Every recorded entry and every recording in progress has a time that    *)
(* is not ahead of the clock, for any number of goroutines.                *)
(***************************************************************************)
THEOREM AuditTyped == Spec => []TypeOK
  <1>1. AuditInv => TypeOK
    BY DEF AuditInv
  <1> QED
    BY <1>1, InitType, NextType, PTL DEF Spec

-----------------------------------------------------------------------------
(* What overlapping requests leave of the chain. *)
JoinInv ==
    /\ ChainJoined
    /\ \A r \in Recorder : rec[r].pc = "insert" => Known(rec[r].prev)

(* The latest entry is an entry, if there is one. *)
LEMMA LatestKnown ==
  ASSUME NEW prev \in GetLatestEntryID(log)
  PROVE  Known(prev)
  BY DEF GetLatestEntryID, Known

(* An entry with a new id and a known predecessor joins the log: nobody
   names it as predecessor yet, so it closes no cycle. *)
LEMMA EntryJoins ==
  ASSUME ChainJoined, NEW new, Known(new.prev), new.id # NoEntry,
         \A e \in log : e.id # new.id, log' = log \cup {new}
  PROVE  ChainJoined'
  <1>1. \A e, f \in log' : e.id = f.id => e = f
    BY DEF ChainJoined
  <1>2. \A e \in log' : e.prev = NoEntry \/ \E f \in log' : f.id = e.prev
    BY DEF ChainJoined, Known
  <1>3. \A e \in log : e.prev # new.id
    BY DEF ChainJoined
  <1>4. new.prev # new.id
    BY DEF Known
  <1>5. ASSUME NEW S \in (SUBSET log') \ {{}}
        PROVE  \E e \in S : \A f \in S : f.id # e.prev
    <2>1. CASE S \subseteq {new}
      BY <1>4, <2>1
    <2>2. CASE ~(S \subseteq {new})
      <3>1. S \ {new} \in (SUBSET log) \ {{}}
        BY <2>2
      <3>2. PICK e \in S \ {new} : \A f \in S \ {new} : f.id # e.prev
        BY <3>1 DEF ChainJoined
      <3>3. e \in log
        BY <3>1, <3>2
      <3> QED
        BY <1>3, <3>2, <3>3
    <2> QED
      BY <2>1, <2>2
  <1> QED
    BY <1>1, <1>2, <1>5 DEF ChainJoined

(* An empty log has nothing to join. *)
LEMMA InitJoin == Init => JoinInv
  BY DEF Init, JoinInv, ChainJoined, Quiet

(* Every step keeps the entries joined, whoever else is recording. *)
LEMMA NextJoin == AuditInv /\ JoinInv /\ [Next]_vars => JoinInv'
  <1> SUFFICES ASSUME AuditInv, JoinInv, [Next]_vars PROVE JoinInv'
    OBVIOUS
  <1>1. ASSUME log' = log PROVE ChainJoined' /\ \A id : Known(id) => Known(id)'
    BY <1>1 DEF JoinInv, ChainJoined, Known
  <1>2. ASSUME NEW r \in Recorder, Record(r)
        PROVE  JoinInv'
    <2>1. PICK e \in Event :
            rec' = [rec EXCEPT ![r] = [pc |-> "read", event |-> e, at |-> now]]
      BY <1>2 DEF Record
    <2>2. log' = log
      BY <1>2 DEF Record
    <2> QED
      BY <1>1, <2>1, <2>2 DEF AuditInv, JoinInv
  <1>3. ASSUME NEW r \in Recorder, ReadLatest(r)
        PROVE  JoinInv'
    <2>1. PICK prev \in GetLatestEntryID(log) :
            rec' = [rec EXCEPT ![r] =
                       [pc |-> "insert", event |-> rec[r].event,
                        at |-> rec[r].at, prev |-> prev]]
      BY <1>3 DEF ReadLatest
    <2>2. log' = log
      BY <1>3 DEF ReadLatest
    <2>3. Known(prev)
      BY LatestKnown
    <2> QED
      BY <1>1, <2>1, <2>2, <2>3 DEF AuditInv, JoinInv
  <1>4. ASSUME NEW r \in Recorder, Insert(r)
        PROVE  JoinInv'
    <2> DEFINE m == rec[r]
               id == deriveEntryID(m.prev, m.at, m.event)
               new == [id |-> id, prev |-> m.prev, event |-> m.event,
                       at |-> Stored(m.at)]
    <2>1. /\ log' = IF \E e \in log : e.id = id THEN log ELSE log \cup {new}
          /\ rec' = [rec EXCEPT ![r] = Quiet]
          /\ m.pc = "insert"
      BY <1>4 DEF Insert
    <2>2. \A x : Known(x) => Known(x)'
      BY <2>1 DEF Known
    <2>3. ChainJoined'
      <3>1. CASE \E e \in log : e.id = id
        BY <1>1, <2>1, <3>1
      <3>2. CASE ~\E e \in log : e.id = id
        <4>1. new.id = id /\ new.prev = m.prev
          OBVIOUS
        <4>2. id # NoEntry
          BY DEF deriveEntryID, NoEntry
        <4>3. Known(m.prev) /\ ChainJoined
          BY <2>1 DEF JoinInv
        <4> HIDE DEF id, new, m
        <4> QED
          BY <2>1, <3>2, <4>1, <4>2, <4>3, EntryJoins
      <3> QED
        BY <3>1, <3>2
    <2>4. \A q \in Recorder : rec'[q].pc = "insert" => rec'[q] = rec[q]
      BY <2>1 DEF AuditInv, Quiet
    <2> QED
      BY <2>2, <2>3, <2>4 DEF JoinInv
  <1>5. ASSUME NEW r \in Recorder, RecordFails(r)
        PROVE  JoinInv'
    BY <1>1, <1>5 DEF RecordFails, AuditInv, JoinInv, Quiet
  <1>6. CASE Tick
    BY <1>1, <1>6 DEF Tick, JoinInv
  <1>7. CASE UNCHANGED vars
    BY <1>1, <1>7 DEF vars, JoinInv
  <1> QED
    BY <1>2, <1>3, <1>4, <1>5, <1>6, <1>7 DEF Next

(***************************************************************************)
(* AuditService.Record reads the latest entry and inserts in two           *)
(* statements.  However many requests do so at once, whatever fails and    *)
(* whatever the clock's resolution, no entry names a predecessor that is   *)
(* not stored, and every entry leads back to a start: the log is a forest. *)
(***************************************************************************)
THEOREM ChainRooted == Spec => []ChainJoined
  <1>1. JoinInv => ChainJoined
    BY DEF JoinInv
  <1> QED
    BY <1>1, InitType, NextType, InitJoin, NextJoin, PTL DEF Spec

-----------------------------------------------------------------------------
(* What requests that do not overlap give. *)
OrderInv ==
    /\ LinearChain
    /\ \A e \in log : e.at + Micro <= now
    /\ ~overlap =>
        \A r \in Recorder : rec[r] # Quiet =>
            /\ Alone(r)
            /\ \A e \in log : e.at + Micro <= rec[r].at
            /\ rec[r].pc = "insert" => rec[r].prev \in GetLatestEntryID(log)

(* An entry that is later than all others and names the latest of them
   continues the chain. *)
LEMMA ChainGrows ==
  ASSUME LinearChain, ~overlap, \A e \in log : e.at \in Nat,
         NEW new, new.at \in Nat, \A e \in log : e.at < new.at,
         new.prev \in GetLatestEntryID(log), log' = log \cup {new}
  PROVE  LinearChain'
  <1> SUFFICES ASSUME NEW e \in log'
               PROVE  /\ {f \in log' : f.at < e.at} = {} => e.prev = NoEntry
                      /\ \A f \in {h \in log' : h.at < e.at} :
                            (\A g \in {h \in log' : h.at < e.at} :
                                g.at <= f.at) => e.prev = f.id
                      /\ \A f \in log' : f.at = e.at => f = e
    BY DEF LinearChain
  <1>1. CASE e \in log
    <2>1. {f \in log' : f.at < e.at} = {f \in log : f.at < e.at}
      BY <1>1
    <2>2. \A f \in log' : f.at = e.at => f = e
      BY <1>1 DEF LinearChain
    <2> QED
      BY <1>1, <2>1, <2>2 DEF LinearChain
  <1>2. CASE e = new
    <2>1. {f \in log' : f.at < e.at} = log
      BY <1>2
    <2>2. log = {} => e.prev = NoEntry
      BY <1>2 DEF GetLatestEntryID
    <2>3. ASSUME NEW f \in log, \A g \in log : g.at <= f.at
          PROVE  e.prev = f.id
      <3>1. PICK h \in log : (\A g \in log : g.at <= h.at) /\ new.prev = h.id
        BY <2>3 DEF GetLatestEntryID
      <3>2. h.at = f.at
        BY <2>3, <3>1
      <3> QED
        BY <1>2, <3>1, <3>2 DEF LinearChain
    <2>4. \A f \in log' : f.at = e.at => f = e
      BY <1>2
    <2> QED
      BY <2>1, <2>2, <2>3, <2>4
  <1> QED
    BY <1>1, <1>2

(* An empty log is a chain. *)
LEMMA InitOrder == Init => OrderInv
  BY DEF Init, OrderInv, LinearChain, Quiet

(* A step keeps the order: trivially once requests have overlapped, else
   because the one that moves is alone. *)
LEMMA NextOrder == AuditInv /\ OrderInv /\ [Next]_vars => OrderInv'
  <1> SUFFICES ASSUME AuditInv, OrderInv, [Next]_vars PROVE OrderInv'
    OBVIOUS
  <1>1. /\ now \in Nat /\ Micro \in Nat \ {0} /\ ClockStep \in Nat \ {0}
        /\ \A e \in log : e.at \in Nat
        /\ \A r \in Recorder : rec[r].pc # "idle" => rec[r].at \in 0..now
        /\ overlap \in BOOLEAN
    BY AuditAssumption DEF AuditInv, TypeOK
  <1>2. /\ now' \in Nat /\ now <= now'
        /\ \/ log' = log
           \/ \E r \in Recorder : Insert(r)
    <2>1. CASE UNCHANGED <<log, now>>
      BY <1>1, <2>1
    <2>2. CASE RoundTrip
      <3>1. now' \in Nat /\ now <= now'
        BY <1>1, <2>2 DEF RoundTrip
      <3> QED
        BY <3>1 DEF Next, Record, ReadLatest, RecordFails, Tick, vars
    <2>3. CASE Tick
      BY <1>1, <2>3 DEF Tick
    <2> QED
      BY <2>1, <2>2, <2>3 DEF Next, Record, ReadLatest, Insert, RecordFails, vars
  <1>3. \A e \in log' : e.at + Micro <= now'
    <2>1. CASE log' = log
      BY <1>1, <1>2, <2>1 DEF OrderInv
    <2>2. ASSUME NEW r \in Recorder, Insert(r)
          PROVE  \A e \in log' : e.at + Micro <= now'
      <3> DEFINE m == rec[r]
      <3>1. m.at \in Nat /\ m.at <= now /\ now' = now + Micro
        BY <1>1, <2>2 DEF Insert, RoundTrip
      <3>2. Stored(m.at) \in 0..m.at
        BY <3>1, StoredBounds
      <3>3. \A e \in log' : e \in log \/ e.at = Stored(m.at)
        BY <2>2 DEF Insert
      <3> QED
        BY <1>1, <3>1, <3>2, <3>3 DEF OrderInv
    <2> QED
      BY <1>2, <2>1, <2>2
  <1>4. overlap => overlap'
    BY DEF Next, Record, ReadLatest, Insert, RecordFails, Tick, vars
  <1>5. CASE overlap'
    BY <1>3, <1>5 DEF OrderInv, LinearChain
  <1>6. CASE ~overlap'
    <2> DEFINE Latest(q) ==
          /\ \A e \in log' : e.at + Micro <= rec'[q].at
          /\ rec'[q].pc = "insert" => rec'[q].prev \in GetLatestEntryID(log')
    <2>1. ~overlap
      BY <1>4, <1>6
    <2>2. ASSUME log' = log PROVE LinearChain'
      BY <2>1, <2>2 DEF OrderInv, LinearChain
    <2>3. ASSUME NEW r \in Recorder, rec[r] # Quiet
          PROVE  /\ Alone(r) /\ \A e \in log : e.at + Micro <= rec[r].at
                 /\ rec[r].pc = "insert" => rec[r].prev \in GetLatestEntryID(log)
      BY <2>1, <2>3 DEF OrderInv
    <2>4. ASSUME NEW r \in Recorder, Alone(r), LinearChain',
                 \A q \in Recorder \ {r} : rec'[q] = rec[q],
                 rec'[r] # Quiet => Latest(r)
          PROVE  OrderInv'
      <3>1. \A q \in Recorder \ {r} : rec'[q] = Quiet
        BY <2>4 DEF Alone
      <3>2. \A q \in Recorder : rec'[q] # Quiet => Alone(q)' /\ Latest(q)
        BY <2>4, <3>1 DEF Alone
      <3> QED
        BY <1>3, <2>4, <3>2 DEF OrderInv
    <2>5. ASSUME NEW r \in Recorder, Record(r)
          PROVE  OrderInv'
      <3>1. PICK e \in Event :
              rec' = [rec EXCEPT ![r] = [pc |-> "read", event |-> e, at |-> now]]
        BY <2>5 DEF Record
      <3>2. log' = log /\ Alone(r)
        BY <1>6, <2>5 DEF Record
      <3>3. rec'[r].pc = "read" /\ rec'[r].at = now
            /\ \A q \in Recorder \ {r} : rec'[q] = rec[q]
        BY <3>1 DEF AuditInv
      <3> QED
        BY <2>2, <2>4, <3>2, <3>3 DEF OrderInv
    <2>6. ASSUME NEW r \in Recorder, ReadLatest(r)
          PROVE  OrderInv'
      <3>1. PICK prev \in GetLatestEntryID(log) :
              rec' = [rec EXCEPT ![r] =
                         [pc |-> "insert", event |-> rec[r].event,
                          at |-> rec[r].at, prev |-> prev]]
        BY <2>6 DEF ReadLatest
      <3>2. log' = log /\ rec[r].pc = "read"
        BY <2>6 DEF ReadLatest
      <3>3. rec[r] # Quiet
        BY <3>2 DEF Quiet
      <3>4. rec'[r].prev = prev /\ rec'[r].at = rec[r].at
            /\ \A q \in Recorder \ {r} : rec'[q] = rec[q]
        BY <3>1 DEF AuditInv
      <3> QED
        BY <2>2, <2>3, <2>4, <3>2, <3>3, <3>4
    <2>7. ASSUME NEW r \in Recorder, Insert(r)
          PROVE  OrderInv'
      <3> DEFINE m == rec[r]
                 id == deriveEntryID(m.prev, m.at, m.event)
                 new == [id |-> id, prev |-> m.prev, event |-> m.event,
                         at |-> Stored(m.at)]
      <3>1. /\ log' = IF \E e \in log : e.id = id THEN log ELSE log \cup {new}
            /\ rec' = [rec EXCEPT ![r] = Quiet]
            /\ m.pc = "insert"
        BY <2>7 DEF Insert
      <3>2. m # Quiet
        BY <3>1 DEF Quiet
      <3>3. LinearChain'
        <4>1. CASE log' = log \cup {new}
          <5>1. m.at \in Nat
            BY <1>1, <3>1
          <5>2. Stored(m.at) \in 0..m.at /\ m.at < Stored(m.at) + Micro
            BY <5>1, StoredBounds
          <5>3. \A e \in log : e.at < Stored(m.at)
            BY <1>1, <2>3, <3>2, <5>1, <5>2
          <5>4. new.at = Stored(m.at) /\ new.prev \in GetLatestEntryID(log)
            BY <2>3, <3>1, <3>2
          <5> HIDE DEF new
          <5> QED
            BY <1>1, <2>1, <4>1, <5>2, <5>3, <5>4, ChainGrows DEF OrderInv
        <4> QED
          BY <2>2, <3>1, <4>1
      <3>4. rec'[r] = Quiet /\ \A q \in Recorder \ {r} : rec'[q] = rec[q]
        BY <3>1 DEF AuditInv
      <3> QED
        BY <2>3, <2>4, <3>2, <3>3, <3>4
    <2>8. ASSUME NEW r \in Recorder, RecordFails(r)
          PROVE  OrderInv'
      <3>1. log' = log /\ rec[r] # Quiet /\ rec'[r] = Quiet
            /\ \A q \in Recorder \ {r} : rec'[q] = rec[q]
        BY <2>8 DEF RecordFails, AuditInv
      <3> QED
        BY <2>2, <2>3, <2>4, <3>1
    <2>9. CASE UNCHANGED <<log, rec>>
      BY <1>3, <2>2, <2>3, <2>9 DEF OrderInv, Alone
    <2> QED
      BY <2>5, <2>6, <2>7, <2>8, <2>9 DEF Next, Tick, vars
  <1> QED
    BY <1>5, <1>6

(***************************************************************************)
(* As long as no two requests record at the same time, the log is one      *)
(* chain in the order of its timestamps: whichever goroutines record,      *)
(* whatever the clock's resolution, however many recordings fail, and      *)
(* although the column cuts the timestamps down.                           *)
(***************************************************************************)
THEOREM ChainLinear == Spec => []LinearChain
  <1>1. OrderInv => LinearChain
    BY DEF OrderInv
  <1> QED
    BY <1>1, InitType, NextType, InitOrder, NextOrder, PTL DEF Spec

(***************************************************************************)
(* The inductive invariant that the run checks: what a request read as the *)
(* latest entry stays stored, and stays the latest while it is alone.      *)
(***************************************************************************)
THEOREM ChainInvariance == Spec => []ChainInv
  <1>1. AuditInv /\ JoinInv /\ OrderInv => ChainInv
    BY DEF AuditInv, JoinInv, OrderInv, ChainInv
  <1> QED
    BY <1>1, InitType, NextType, InitJoin, NextJoin, InitOrder, NextOrder,
       PTL DEF Spec
=================================================================================
