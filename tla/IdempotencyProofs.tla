--------------------------- MODULE IdempotencyProofs ---------------------------
(***************************************************************************)
(* Proofs about the idempotency middleware, for any keys and any finite    *)
(* number of goroutines: the replays of a key agree, and every repetition  *)
(* of an execution has a cause.  KeyInv counts the executions of a key     *)
(* against the goroutines that hold one not yet stored; a step of one      *)
(* goroutine changes each count by at most one (Count).                    *)
(***************************************************************************)
EXTENDS Idempotency, FiniteSetTheorems, TLAPS

(* A step of goroutine p leaves the requests of the others alone. *)
Only(p) == \A q \in Procs \ {p} : call'[q] = call[q]

(* p has a request of key k at step pc. *)
Has(p, k, pc) == call[p].key = k /\ call[p].pc = pc

(* The goroutines at a step are finitely many. *)
LEMMA HoldingFinite ==
  ASSUME NEW k, NEW pc
  PROVE  /\ IsFiniteSet(Holding(k, pc))
         /\ Cardinality(Holding(k, pc)) \in Nat
  <1>1. Holding(k, pc) \in SUBSET Procs
    BY DEF Holding
  <1> QED
    BY <1>1, FS_Subset, FS_CardinalityType, IdempotencyAssumption

(* A step of p adds p to the goroutines at a step, or takes it away. *)
LEMMA Count ==
  ASSUME NEW p \in Procs, Only(p), NEW k, NEW pc
  PROVE  LET H == Cardinality(Holding(k, pc)) IN
         /\ Has(p, k, pc)' /\ ~Has(p, k, pc) => H' = H + 1
         /\ ~Has(p, k, pc)' /\ Has(p, k, pc) => H' = H - 1
         /\ (Has(p, k, pc)' <=> Has(p, k, pc)) => H' = H
  <1> DEFINE S == Holding(k, pc)
  <1>1. IsFiniteSet(S) /\ Cardinality(S) \in Nat
    BY HoldingFinite
  <1>2. CASE Has(p, k, pc)' /\ ~Has(p, k, pc)
    <2>1. S' = S \cup {p} /\ p \notin S
      BY <1>2 DEF Holding, Has, Only
    <2> QED
      BY <1>1, <1>2, <2>1, FS_AddElement
  <1>3. CASE ~Has(p, k, pc)' /\ Has(p, k, pc)
    <2>1. S' = S \ {p} /\ p \in S
      BY <1>3 DEF Holding, Has, Only
    <2> QED
      BY <1>1, <1>3, <2>1, FS_RemoveElement
  <1>4. CASE Has(p, k, pc)' <=> Has(p, k, pc)
    <2>1. S' = S
      BY <1>4 DEF Holding, Has, Only
    <2> QED
      BY <1>4, <2>1
  <1> QED
    BY <1>2, <1>3, <1>4

-----------------------------------------------------------------------------
(* The part of KeyInv that speaks of one key. *)
OneKey(k) ==
    /\ keys[k] # NoKey => keys[k] \in 1..done[k]
    /\ replays[k] \subseteq {keys[k]}
    /\ keys[k] = NoKey =>
        /\ done[k] <= Cardinality(Holding(k, "store")) + spoiled[k]
        /\ Cardinality(Holding(k, "store"))
            + Cardinality(Holding(k, "execute")) <= 1 + overlaps[k]
    /\ keys[k] # NoKey =>
        done[k] + Cardinality(Holding(k, "execute"))
            <= 1 + overlaps[k] + spoiled[k]

(* A request starts, fails to be looked up or is refused: nothing is stored
   or executed. *)
LEMMA QuietKey ==
  ASSUME KeyInv, NEW p \in Procs, Only(p), TypeOK', NEW k \in Key,
         UNCHANGED <<keys, done, replays, overlaps>>,
         Has(p, k, "store")' <=> Has(p, k, "store"),
         \/ /\ Has(p, k, "execute")' => Has(p, k, "execute")
            /\ spoiled'[k] = spoiled[k]
         \/ keys[k] # NoKey /\ spoiled'[k] = spoiled[k] + 1
  PROVE  OneKey(k)'
  <1> DEFINE S == Cardinality(Holding(k, "store"))
             E == Cardinality(Holding(k, "execute"))
  <1>1. /\ S \in Nat /\ E \in Nat /\ done[k] \in Nat
        /\ spoiled[k] \in Nat /\ overlaps[k] \in Nat
    BY HoldingFinite DEF KeyInv, TypeOK
  <1>2. S' = S
    BY Count
  <1>3. /\ E' \in {E, E - 1, E + 1}
        /\ (Has(p, k, "execute")' => Has(p, k, "execute")) => E' \in {E, E - 1}
    <2>1. CASE Has(p, k, "execute")' /\ ~Has(p, k, "execute")
      BY <2>1, Count
    <2>2. CASE ~Has(p, k, "execute")' /\ Has(p, k, "execute")
      BY <2>2, Count
    <2>3. CASE Has(p, k, "execute")' <=> Has(p, k, "execute")
      BY <2>3, Count
    <2> QED
      BY <2>1, <2>2, <2>3
  <1>4. OneKey(k)
    BY DEF KeyInv, OneKey
  <1>5. /\ keys'[k] = keys[k] /\ done'[k] = done[k]
        /\ replays'[k] = replays[k] /\ overlaps'[k] = overlaps[k]
    OBVIOUS
  <1>6. keys[k] # NoKey => keys[k] \in 1..done[k]
    BY <1>4 DEF OneKey
  <1>7. keys[k] = NoKey => /\ done[k] <= S + spoiled'[k]
                           /\ S + E' <= 1 + overlaps[k]
    BY <1>1, <1>3, <1>4 DEF OneKey
  <1>8. keys[k] # NoKey => done[k] + E' <= 1 + overlaps[k] + spoiled'[k]
    BY <1>1, <1>3, <1>4 DEF OneKey
  <1>9. replays[k] \subseteq {keys[k]}
    BY <1>4 DEF OneKey
  <1> QED
    BY <1>2, <1>5, <1>6, <1>7, <1>8, <1>9 DEF OneKey

(* An execution that was to be stored is lost. *)
LEMMA LostKey ==
  ASSUME KeyInv, NEW p \in Procs, Only(p), TypeOK', NEW k \in Key,
         UNCHANGED <<keys, done, replays, overlaps>>,
         Has(p, k, "store"), ~Has(p, k, "store")',
         Has(p, k, "execute")' <=> Has(p, k, "execute"),
         spoiled'[k] = spoiled[k] + 1
  PROVE  OneKey(k)'
  <1> DEFINE S == Cardinality(Holding(k, "store"))
             E == Cardinality(Holding(k, "execute"))
  <1>1. /\ S \in Nat /\ E \in Nat /\ done[k] \in Nat
        /\ spoiled[k] \in Nat /\ overlaps[k] \in Nat
    BY HoldingFinite DEF KeyInv, TypeOK
  <1>2. S' = S - 1 /\ E' = E
    BY Count
  <1>3. OneKey(k)
    BY DEF KeyInv, OneKey
  <1>4. keys[k] # NoKey => keys[k] \in 1..done[k]
    BY <1>3 DEF OneKey
  <1>5. keys[k] = NoKey => /\ done[k] <= (S - 1) + (spoiled[k] + 1)
                           /\ (S - 1) + E <= 1 + overlaps[k]
    BY <1>1, <1>3 DEF OneKey
  <1>6. keys[k] # NoKey
          => done[k] + E <= 1 + overlaps[k] + (spoiled[k] + 1)
    BY <1>1, <1>3 DEF OneKey
  <1>7. replays[k] \subseteq {keys[k]}
    BY <1>3 DEF OneKey
  <1> QED
    BY <1>2, <1>4, <1>5, <1>6, <1>7 DEF OneKey

(* A key no step speaks of keeps its facts. *)
LEMMA OtherKey ==
  ASSUME KeyInv, NEW p \in Procs, Only(p), NEW k \in Key,
         keys'[k] = keys[k], done'[k] = done[k], replays'[k] = replays[k],
         spoiled'[k] = spoiled[k], overlaps'[k] = overlaps[k],
         Has(p, k, "store")' <=> Has(p, k, "store"),
         Has(p, k, "execute")' <=> Has(p, k, "execute")
  PROVE  OneKey(k)'
  <1>1. Cardinality(Holding(k, "store"))' = Cardinality(Holding(k, "store"))
    BY Count
  <1>2. Cardinality(Holding(k, "execute"))'
            = Cardinality(Holding(k, "execute"))
    BY Count
  <1>3. OneKey(k)
    BY DEF KeyInv, OneKey
  <1> QED
    BY <1>1, <1>2, <1>3 DEF OneKey

(* There is no row: the lookup overlaps the copies that are under way. *)
LEMMA MissKey ==
  ASSUME KeyInv, NEW p \in Procs, Miss(p), NEW k \in Key
  PROVE  OneKey(k)'
  <1> DEFINE c == call[p]
             S == Cardinality(Holding(k, "store"))
             E == Cardinality(Holding(k, "execute"))
  <1>1. /\ S \in Nat /\ E \in Nat /\ done[k] \in Nat
        /\ spoiled[k] \in Nat /\ overlaps[k] \in Nat
    BY HoldingFinite DEF KeyInv, TypeOK
  <1>2. /\ Only(p) /\ c \in Call /\ c.key \in Key /\ c.pc = "lookup"
        /\ call'[p].key = c.key /\ call'[p].pc = "execute"
    BY DEF Miss, Only, KeyInv, TypeOK, CallInv, Call
  <1>3. UNCHANGED <<keys, done, replays, spoiled>> /\ keys[c.key] = NoKey
    BY DEF Miss
  <1>4. CASE k # c.key
    <2>1. overlaps'[k] = overlaps[k]
      BY <1>4 DEF Miss, KeyInv, TypeOK
    <2> QED
      BY <1>2, <1>3, <1>4, <2>1, OtherKey DEF Has
  <1>5. CASE k = c.key
    <2>1. S' = S
      BY <1>2, <1>5, Count DEF Has
    <2>2. E' = E + 1
      BY <1>2, <1>5, Count DEF Has
    <2>3. OneKey(k)
      BY DEF KeyInv, OneKey
    <2>4. S + (E + 1) <= 1 + overlaps'[k]
      <3>1. CASE UnderWay(k) = {}
        <4>1. Holding(k, "store") = {} /\ Holding(k, "execute") = {}
          BY <3>1 DEF UnderWay
        <4>2. S = 0 /\ E = 0
          BY <4>1, FS_EmptySet
        <4>3. overlaps' = overlaps
          BY <1>5, <3>1 DEF Miss
        <4> QED
          BY <1>1, <4>2, <4>3
      <3>2. CASE UnderWay(k) # {}
        <4>1. overlaps'[k] = overlaps[k] + 1
          BY <1>5, <3>2 DEF Miss, KeyInv, TypeOK
        <4> QED
          BY <1>1, <1>3, <1>5, <2>3, <4>1 DEF OneKey
      <3> QED
        BY <3>1, <3>2
    <2> QED
      BY <1>3, <1>5, <2>1, <2>2, <2>3, <2>4 DEF OneKey
  <1> QED
    BY <1>4, <1>5

(* The request of goroutine p is carried out. *)
LEMMA ExecuteKey ==
  ASSUME KeyInv, NEW p \in Procs, Execute(p), NEW k \in Key
  PROVE  OneKey(k)'
  <1> DEFINE c == call[p]
             S == Cardinality(Holding(k, "store"))
             E == Cardinality(Holding(k, "execute"))
  <1>1. /\ S \in Nat /\ E \in Nat /\ done[k] \in Nat
        /\ spoiled[k] \in Nat /\ overlaps[k] \in Nat
    BY HoldingFinite DEF KeyInv, TypeOK
  <1>2. /\ Only(p) /\ c \in Call /\ c.key \in Key /\ c.pc = "execute"
        /\ call'[p].key = c.key /\ call'[p].pc = "store"
    BY DEF Execute, Only, KeyInv, TypeOK, CallInv, Call
  <1>3. UNCHANGED <<keys, replays, spoiled, overlaps>>
    BY DEF Execute
  <1>4. CASE k # c.key
    <2>1. done'[k] = done[k]
      BY <1>4 DEF Execute, KeyInv, TypeOK
    <2> QED
      BY <1>2, <1>3, <1>4, <2>1, OtherKey DEF Has
  <1>5. CASE k = c.key
    <2>1. done'[k] = done[k] + 1
      BY <1>5 DEF Execute, KeyInv, TypeOK
    <2>2. S' = S + 1
      BY <1>2, <1>5, Count DEF Has
    <2>3. E' = E - 1
      BY <1>2, <1>5, Count DEF Has
    <2>4. OneKey(k)
      BY DEF KeyInv, OneKey
    <2>5. keys[k] # NoKey => keys[k] \in 1..(done[k] + 1)
      BY <1>1, <2>4 DEF OneKey
    <2>6. keys[k] = NoKey => /\ done[k] + 1 <= (S + 1) + spoiled[k]
                             /\ (S + 1) + (E - 1) <= 1 + overlaps[k]
      BY <1>1, <2>4 DEF OneKey
    <2>7. keys[k] # NoKey
            => (done[k] + 1) + (E - 1) <= 1 + overlaps[k] + spoiled[k]
      BY <1>1, <2>4 DEF OneKey
    <2>8. replays[k] \subseteq {keys[k]}
      BY <2>4 DEF OneKey
    <2> QED
      BY <1>3, <2>1, <2>2, <2>3, <2>5, <2>6, <2>7, <2>8 DEF OneKey
  <1> QED
    BY <1>4, <1>5

(* The result is stored, or was already: those that execute now are the
   last that overlap. *)
LEMMA StoreKey ==
  ASSUME KeyInv, NEW p \in Procs, Store(p), NEW k \in Key
  PROVE  OneKey(k)'
  <1> DEFINE c == call[p]
             S == Cardinality(Holding(k, "store"))
             E == Cardinality(Holding(k, "execute"))
  <1>1. /\ S \in Nat /\ E \in Nat /\ done[k] \in Nat
        /\ spoiled[k] \in Nat /\ overlaps[k] \in Nat
    BY HoldingFinite DEF KeyInv, TypeOK
  <1>2. /\ Only(p) /\ c \in Call /\ c.key \in Key /\ c.pc = "store"
        /\ call'[p].key = c.key /\ call'[p].pc = "reply"
        /\ c.result \in 1..done[c.key]
    BY DEF Store, Only, KeyInv, TypeOK, CallInv, Call
  <1>3. UNCHANGED <<done, replays, spoiled, overlaps>>
    BY DEF Store
  <1>4. OneKey(k)
    BY DEF KeyInv, OneKey
  <1>5. CASE k # c.key
    <2>1. keys'[k] = keys[k]
      BY <1>5 DEF Store, KeyInv, TypeOK
    <2> QED
      BY <1>2, <1>3, <1>5, <2>1, OtherKey DEF Has
  <1>6. CASE k = c.key /\ keys[k] # NoKey
    <2>1. keys'[k] = keys[k]
      BY <1>6 DEF Store, storeKey, KeyInv, TypeOK
    <2>2. E' = E
      BY <1>2, <1>6, Count DEF Has
    <2> QED
      BY <1>3, <1>4, <1>6, <2>1, <2>2 DEF OneKey
  <1>7. CASE k = c.key /\ keys[k] = NoKey
    <2>1. keys'[k] = c.result
      BY <1>7 DEF Store, storeKey, KeyInv, TypeOK
    <2>2. c.result # NoKey
      BY <1>2, IdempotencyAssumption DEF Call
    <2>3. E' = E
      BY <1>2, <1>7, Count DEF Has
    <2>4. replays[k] = {}
      <3>1. replays[k] \subseteq Nat /\ replays[k] \subseteq {NoKey}
        BY <1>4, <1>7 DEF OneKey, KeyInv, TypeOK
      <3> QED
        BY <3>1, IdempotencyAssumption
    <2>5. done[k] + E <= 1 + overlaps[k] + spoiled[k]
      BY <1>1, <1>4, <1>7 DEF OneKey
    <2> QED
      BY <1>2, <1>3, <1>7, <2>1, <2>2, <2>3, <2>4, <2>5 DEF OneKey
  <1> QED
    BY <1>5, <1>6, <1>7

(* The answer goes out. *)
LEMMA ReplyKey ==
  ASSUME KeyInv, NEW p \in Procs, Reply(p), NEW k \in Key
  PROVE  OneKey(k)'
  <1> DEFINE c == call[p]
  <1>1. /\ Only(p) /\ c \in Call /\ c.key \in Key /\ c.pc = "reply"
        /\ call'[p] = Idle
        /\ c.replay => c.result = keys[c.key]
    BY DEF Reply, Only, KeyInv, TypeOK, CallInv
  <1>2. UNCHANGED <<keys, done, spoiled, overlaps>>
    BY DEF Reply
  <1>3. ~Has(p, k, "store") /\ ~Has(p, k, "store")'
    BY <1>1 DEF Has, Idle
  <1>4. ~Has(p, k, "execute") /\ ~Has(p, k, "execute")'
    BY <1>1 DEF Has, Idle
  <1>5. OneKey(k)
    BY DEF KeyInv, OneKey
  <1>6. CASE replays'[k] = replays[k]
    BY <1>1, <1>2, <1>3, <1>4, <1>6, OtherKey
  <1>7. CASE replays'[k] # replays[k]
    <2>1. k = c.key /\ c.replay /\ replays'[k] = replays[k] \cup {c.result}
      BY <1>7 DEF Reply, KeyInv, TypeOK
    <2>2. replays'[k] \subseteq {keys[k]}
      BY <1>1, <1>5, <2>1 DEF OneKey
    <2>3. /\ Cardinality(Holding(k, "store"))'
                = Cardinality(Holding(k, "store"))
          /\ Cardinality(Holding(k, "execute"))'
                = Cardinality(Holding(k, "execute"))
      BY <1>1, <1>3, <1>4, Count
    <2> QED
      BY <1>2, <1>5, <2>2, <2>3 DEF OneKey
  <1> QED
    BY <1>6, <1>7

-----------------------------------------------------------------------------
(* A request never started is a request. *)
LEMMA IdleType == Idle \in Call
  BY DEF Idle, Call, Refused

(* Init satisfies the invariant: no request, no row, no execution. *)
LEMMA InitKey == Init => KeyInv
  <1> SUFFICES ASSUME Init PROVE KeyInv
    OBVIOUS
  <1>1. TypeOK
    BY IdleType DEF Init, TypeOK
  <1>2. \A p \in Procs : CallInv(call[p])
    BY DEF Init, CallInv, Idle
  <1>3. ASSUME NEW k \in Key
        PROVE  OneKey(k)
    <2>1. Holding(k, "store") = {} /\ Holding(k, "execute") = {}
      BY DEF Init, Holding, Idle
    <2>2. /\ Cardinality(Holding(k, "store")) = 0
          /\ Cardinality(Holding(k, "execute")) = 0
      BY <2>1, FS_EmptySet
    <2> QED
      BY <2>2 DEF Init, OneKey
  <1> QED
    BY <1>1, <1>2, <1>3 DEF KeyInv, OneKey

(* Every step keeps the types. *)
LEMMA NextType ==
  ASSUME KeyInv, NEW p \in Procs,
         (\E k \in Key : Send(p, k)) \/ Serve(p) \/ HangUp(p) \/ Crash(p)
  PROVE  TypeOK'
  <1> DEFINE c == call[p]
  <1>1. TypeOK /\ c \in Call /\ (c.pc # "idle" => c.key \in Key)
    BY DEF KeyInv, TypeOK, CallInv
  <1>2. ASSUME NEW k \in Key, Send(p, k)
        PROVE  TypeOK'
    BY <1>1, <1>2 DEF Send, TypeOK, Idle, Call, Refused
  <1>3. CASE Replay(p)
    <2>1. keys[c.key] \in Nat
      BY <1>1, <1>3 DEF Replay, TypeOK
    <2> QED
      BY <1>1, <1>3, <2>1 DEF Replay, TypeOK, Call
  <1>4. CASE Miss(p)
    BY <1>1, <1>4 DEF Miss, TypeOK, Call
  <1>5. CASE LookupFails(p)
    BY <1>1, <1>5 DEF LookupFails, GoesWrong, TypeOK, Call
  <1>6. CASE Execute(p)
    <2>1. c.key \in Key /\ done[c.key] + 1 \in Nat
      BY <1>1, <1>6 DEF Execute, TypeOK
    <2> QED
      BY <1>1, <1>6, <2>1 DEF Execute, TypeOK, Call
  <1>7. CASE Refuse(p)
    BY <1>1, <1>7 DEF Refuse, GoesWrong, TypeOK, Call
  <1>8. CASE Store(p)
    <2>1. c.result \in Nat /\ c.key \in Key
      BY <1>1, <1>8 DEF Store, Call
    <2> QED
      BY <1>1, <1>8, <2>1 DEF Store, storeKey, TypeOK, Call
  <1>9. CASE StoreFails(p)
    BY <1>1, <1>9 DEF StoreFails, GoesWrong, TypeOK, Call
  <1>10. CASE Reply(p)
    <2>1. c.result \in Nat /\ c.key \in Key
      BY <1>1, <1>10 DEF Reply, Call
    <2>2. replays' \in [Key -> SUBSET Nat]
      BY <1>1, <1>10, <2>1 DEF Reply, TypeOK
    <2>3. client' \in [Key -> {"new", "waiting", "answered"}]
      BY <1>1, <1>10, <2>1 DEF Reply, TypeOK
    <2> QED
      BY <1>1, <1>10, <2>2, <2>3, IdleType DEF Reply, TypeOK
  <1>11. CASE HangUp(p)
    <2>1. [c EXCEPT !.live = FALSE] \in Call
      BY <1>1 DEF Call
    <2>2. call' = [call EXCEPT ![p] = [c EXCEPT !.live = FALSE]]
      BY <1>1, <1>11 DEF HangUp
    <2>3. call' \in [Procs -> Call]
      BY <1>1, <2>1, <2>2 DEF TypeOK
    <2> QED
      BY <1>1, <1>11, <2>3 DEF HangUp, TypeOK
  <1>12. CASE Crash(p)
    <2>1. c.key \in Key
      BY <1>1, <1>12 DEF Crash
    <2>2. spoiled' \in [Key -> Nat]
      BY <1>1, <1>12, <2>1 DEF Crash, TypeOK
    <2>3. call' \in [Procs -> Call]
      BY <1>1, <1>12, IdleType DEF Crash, TypeOK
    <2> QED
      BY <1>1, <1>12, <2>2, <2>3 DEF Crash, TypeOK
  <1> QED
    BY <1>2, <1>3, <1>4, <1>5, <1>6, <1>7, <1>8, <1>9, <1>10, <1>11, <1>12
    DEF Serve

(* A row that is there stays as it is, and executions only accumulate. *)
LEMMA RowsStay ==
  ASSUME KeyInv, NEW p \in Procs,
         (\E k \in Key : Send(p, k)) \/ Serve(p) \/ HangUp(p) \/ Crash(p),
         NEW k \in Key
  PROVE  /\ keys[k] # NoKey => keys'[k] = keys[k]
         /\ done[k] \in Nat /\ done'[k] \in Nat /\ done[k] <= done'[k]
  <1>1. CASE Store(p)
    BY <1>1 DEF Store, storeKey, KeyInv, TypeOK
  <1>2. CASE Execute(p)
    BY <1>2 DEF Execute, KeyInv, TypeOK
  <1>3. CASE ~Store(p) /\ ~Execute(p)
    <2>1. keys' = keys /\ done' = done
      BY <1>3 DEF Send, Serve, Replay, Miss, LookupFails, Refuse, StoreFails,
                  Reply, HangUp, Crash
    <2> QED
      BY <2>1 DEF KeyInv, TypeOK
  <1> QED
    BY <1>1, <1>2, <1>3

(* What the other goroutines rely on is not disturbed. *)
LEMMA OthersCall ==
  ASSUME KeyInv, NEW p \in Procs,
         (\E k \in Key : Send(p, k)) \/ Serve(p) \/ HangUp(p) \/ Crash(p),
         NEW c \in Call, CallInv(c)
  PROVE  CallInv(c)'
  <1>1. CASE c.pc = "idle"
    BY <1>1 DEF CallInv, Idle
  <1>2. CASE c.pc # "idle"
    <2>1. c.key \in Key
      BY <1>2 DEF CallInv
    <2>2. /\ keys[c.key] # NoKey => keys'[c.key] = keys[c.key]
          /\ done[c.key] \in Nat /\ done'[c.key] \in Nat
          /\ done[c.key] <= done'[c.key]
      BY <2>1, RowsStay
    <2>3. c.pc = "store" => c.result \in 1..done'[c.key]
      BY <2>2 DEF CallInv
    <2> QED
      BY <2>2, <2>3 DEF CallInv
  <1> QED
    BY <1>1, <1>2

(* What the goroutine that steps relies on next is so. *)
LEMMA OwnCall ==
  ASSUME KeyInv, NEW p \in Procs,
         (\E k \in Key : Send(p, k)) \/ Serve(p) \/ HangUp(p) \/ Crash(p)
  PROVE  CallInv(call[p])'
  <1> DEFINE c == call[p]
  <1>1. c \in Call /\ CallInv(c) /\ call \in [Procs -> Call]
    BY DEF KeyInv, TypeOK
  <1>2. ASSUME NEW k \in Key, Send(p, k)
        PROVE  CallInv(call[p])'
    <2>1. call'[p] = [pc |-> "lookup", key |-> k, result |-> Refused,
                      replay |-> FALSE, live |-> TRUE]
      BY <1>1, <1>2 DEF Send, Idle
    <2> QED
      BY <2>1 DEF CallInv
  <1>3. CASE Replay(p)
    <2>1. call'[p] = [c EXCEPT !.pc = "reply", !.replay = TRUE,
                               !.result = keys[c.key]]
      BY <1>1, <1>3 DEF Replay
    <2>2. keys' = keys /\ keys[c.key] # NoKey /\ c.pc = "lookup"
      BY <1>3 DEF Replay
    <2> QED
      BY <1>1, <2>1, <2>2 DEF CallInv, Call
  <1>4. CASE Miss(p) \/ LookupFails(p)
    <2>1. call'[p] = [c EXCEPT !.pc = "execute"] /\ c.pc = "lookup"
      BY <1>1, <1>4 DEF Miss, LookupFails
    <2> QED
      BY <1>1, <2>1 DEF CallInv, Call
  <1>5. CASE Execute(p)
    <2>1. /\ call'[p] = [c EXCEPT !.pc = "store", !.result = done[c.key] + 1]
          /\ c.pc = "execute" /\ c.key \in Key
      BY <1>1, <1>5 DEF Execute, CallInv
    <2>2. done[c.key] \in Nat /\ done'[c.key] = done[c.key] + 1
      BY <1>5, <2>1 DEF Execute, KeyInv, TypeOK
    <2>3. call'[p].key = c.key /\ call'[p].result \in 1..done'[c.key]
      BY <1>1, <2>1, <2>2 DEF Call
    <2> QED
      BY <1>1, <2>1, <2>3 DEF CallInv, Call
  <1>6. CASE Refuse(p) \/ Store(p) \/ StoreFails(p)
    <2>1. /\ call'[p] = [c EXCEPT !.pc = "reply"]
          /\ c.pc \in {"execute", "store"}
      BY <1>1, <1>6 DEF Refuse, Store, StoreFails
    <2> QED
      BY <1>1, <2>1 DEF CallInv, Call
  <1>7. CASE Reply(p) \/ Crash(p)
    <2>1. call'[p] = Idle
      BY <1>1, <1>7 DEF Reply, Crash
    <2> QED
      BY <2>1 DEF CallInv, Idle
  <1>8. CASE HangUp(p)
    <2>1. /\ call'[p] = [c EXCEPT !.live = FALSE] /\ c.live
          /\ UNCHANGED <<keys, done>>
      BY <1>1, <1>8 DEF HangUp
    <2>2. c.pc # "idle"
      BY <1>1, <2>1 DEF CallInv, Idle
    <2> QED
      BY <1>1, <2>1, <2>2 DEF CallInv, Call
  <1> QED
    BY <1>2, <1>3, <1>4, <1>5, <1>6, <1>7, <1>8 DEF Serve

(* Every step keeps what is known of a key. *)
LEMMA NextKey ==
  ASSUME KeyInv, NEW p \in Procs,
         (\E k \in Key : Send(p, k)) \/ Serve(p) \/ HangUp(p) \/ Crash(p),
         NEW k \in Key
  PROVE  OneKey(k)'
  <1> DEFINE c == call[p]
  <1>1. /\ c \in Call /\ CallInv(c) /\ call \in [Procs -> Call]
        /\ spoiled \in [Key -> Nat]
    BY DEF KeyInv, TypeOK
  <1>2. TypeOK'
    BY NextType
  <1>3. ASSUME NEW j \in Key, Send(p, j)
        PROVE  OneKey(k)'
    <2>1. /\ Only(p) /\ c.pc = "idle" /\ call'[p].pc = "lookup"
          /\ UNCHANGED <<keys, done, replays, spoiled, overlaps>>
      <3>1. Only(p) /\ UNCHANGED <<keys, done, replays, spoiled, overlaps>>
        BY <1>1, <1>3 DEF Send, Only
      <3>2. c = Idle /\ call'[p].pc = "lookup"
        BY <1>1, <1>3 DEF Send, Idle
      <3> QED
        BY <3>1, <3>2 DEF Idle
    <2> QED
      BY <1>2, <2>1, QuietKey DEF Has
  <1>4. CASE Replay(p)
    <2>1. /\ Only(p) /\ c.pc = "lookup" /\ call'[p].pc = "reply"
          /\ UNCHANGED <<keys, done, replays, spoiled, overlaps>>
      BY <1>1, <1>4 DEF Replay, Only, Call
    <2> QED
      BY <1>2, <2>1, QuietKey DEF Has
  <1>5. CASE Miss(p)
    BY <1>5, MissKey
  <1>6. CASE LookupFails(p)
    <2>1. /\ Only(p) /\ c.pc = "lookup" /\ call'[p].pc = "execute"
          /\ call'[p].key = c.key /\ keys[c.key] # NoKey
          /\ UNCHANGED <<keys, done, replays, overlaps>>
      BY <1>1, <1>6 DEF LookupFails, Only, Call
    <2>2. spoiled'[k] = IF k = c.key THEN spoiled[k] + 1 ELSE spoiled[k]
      BY <1>1, <1>6 DEF LookupFails
    <2> QED
      BY <1>2, <2>1, <2>2, QuietKey DEF Has
  <1>7. CASE Execute(p)
    BY <1>7, ExecuteKey
  <1>8. CASE Refuse(p)
    <2>1. /\ Only(p) /\ c.pc = "execute" /\ call'[p].pc = "reply"
          /\ UNCHANGED <<keys, done, replays, spoiled, overlaps>>
      BY <1>1, <1>8 DEF Refuse, Only, Call
    <2> QED
      BY <1>2, <2>1, QuietKey DEF Has
  <1>9. CASE Store(p)
    BY <1>9, StoreKey
  <1>10. CASE StoreFails(p) \/ (Crash(p) /\ c.pc = "store")
    <2>1. /\ Only(p) /\ c.pc = "store" /\ call'[p].pc \in {"reply", "idle"}
          /\ UNCHANGED <<keys, done, replays, overlaps>>
      BY <1>1, <1>10 DEF StoreFails, Crash, Only, Call, Idle
    <2>2. spoiled'[k] = IF k = c.key THEN spoiled[k] + 1 ELSE spoiled[k]
      BY <1>1, <1>10 DEF StoreFails, Crash
    <2>3. CASE k = c.key
      BY <1>2, <2>1, <2>2, <2>3, LostKey DEF Has
    <2>4. CASE k # c.key
      BY <1>2, <2>1, <2>2, <2>4, OtherKey DEF Has
    <2> QED
      BY <2>3, <2>4
  <1>11. CASE Reply(p)
    BY <1>11, ReplyKey
  <1>12. CASE HangUp(p)
    <2>1. /\ Only(p) /\ call'[p].pc = c.pc /\ call'[p].key = c.key
          /\ UNCHANGED <<keys, done, replays, spoiled, overlaps>>
      BY <1>1, <1>12 DEF HangUp, Only, Call
    <2> QED
      BY <1>2, <2>1, QuietKey DEF Has
  <1>13. CASE Crash(p) /\ c.pc # "store"
    <2>1. /\ Only(p) /\ call'[p].pc = "idle"
          /\ UNCHANGED <<keys, done, replays, spoiled, overlaps>>
      BY <1>1, <1>13 DEF Crash, Only, Idle
    <2> QED
      BY <1>2, <1>13, <2>1, QuietKey DEF Has
  <1> QED
    BY <1>3, <1>4, <1>5, <1>6, <1>7, <1>8, <1>9, <1>10, <1>11, <1>12, <1>13
    DEF Serve

(* KeyInv is inductive. *)
LEMMA NextInv == KeyInv /\ [Next]_vars => KeyInv'
  <1> SUFFICES ASSUME KeyInv, [Next]_vars PROVE KeyInv'
    OBVIOUS
  <1>1. CASE Next
    <2>1. PICK p \in Procs :
            (\E k \in Key : Send(p, k)) \/ Serve(p) \/ HangUp(p) \/ Crash(p)
      BY <1>1 DEF Next
    <2>2. TypeOK'
      BY <2>1, NextType
    <2>3. ASSUME NEW q \in Procs
          PROVE  CallInv(call[q])'
      <3>1. CASE q = p
        BY <2>1, <3>1, OwnCall
      <3>2. CASE q # p
        <4>1. call'[q] = call[q] /\ call[q] \in Call /\ CallInv(call[q])
          BY <2>1, <3>2 DEF KeyInv, TypeOK, Send, Serve, Replay, Miss,
             LookupFails, Execute, Refuse, Store, StoreFails, Reply, HangUp,
             Crash
        <4>2. PICK d \in Call : d = call[q]
          BY <4>1
        <4>3. CallInv(d)'
          BY <2>1, <4>1, <4>2, OthersCall
        <4> QED
          BY <4>1, <4>2, <4>3 DEF CallInv
      <3> QED
        BY <3>1, <3>2
    <2>4. ASSUME NEW k \in Key
          PROVE  OneKey(k)'
      BY <2>1, NextKey
    <2> QED
      BY <2>2, <2>3, <2>4 DEF KeyInv, OneKey
  <1>2. CASE UNCHANGED vars
    BY <1>2 DEF vars, KeyInv, TypeOK, CallInv, Holding
  <1> QED
    BY <1>1, <1>2

-----------------------------------------------------------------------------
(***************************************************************************)
(* In every behaviour the middleware keeps its books: a stored result is   *)
(* the outcome of an execution and never changes, only that result is      *)
(* replayed, and the executions of a key are accounted for by those still  *)
(* to be stored, those that overlapped another and those lost.             *)
(***************************************************************************)
THEOREM KeyInvariance == Spec => []KeyInv
  BY InitKey, NextInv, PTL DEF Spec

(***************************************************************************)
(* All replays of a key tell the client the same successful result,        *)
(* whatever number of copies are executed and stored at the same time.     *)
(***************************************************************************)
THEOREM ReplaysConsistent == Spec => []ReplaysAgree
  <1>1. ASSUME KeyInv PROVE ReplaysAgree
    <2> SUFFICES ASSUME NEW k \in Key
                 PROVE  /\ Cardinality(replays[k]) <= 1
                        /\ \A r \in replays[k] :
                             Succeeded(r) /\ r <= done[k]
      BY DEF ReplaysAgree
    <2>1. /\ replays[k] \subseteq {keys[k]} /\ replays[k] \subseteq Nat
          /\ keys[k] # NoKey => keys[k] \in 1..done[k]
          /\ done[k] \in Nat
      BY <1>1 DEF KeyInv, TypeOK
    <2>2. Cardinality(replays[k]) <= 1
      <3>1. CASE replays[k] = {}
        BY <3>1, FS_EmptySet
      <3>2. CASE replays[k] = {keys[k]}
        <4>1. Cardinality({keys[k]}) = 1
          BY FS_Singleton
        <4> QED
          BY <3>2, <4>1
      <3> QED
        <4>1. replays[k] = {} \/ replays[k] = {keys[k]}
          BY <2>1
        <4> QED
          BY <3>1, <3>2, <4>1
    <2>3. ASSUME NEW r \in replays[k]
          PROVE  Succeeded(r) /\ r <= done[k]
      <3>1. r = keys[k] /\ r \in Nat
        BY <2>1
      <3>2. keys[k] # NoKey
        BY <3>1, IdempotencyAssumption
      <3> QED
        BY <2>1, <3>1, <3>2 DEF Succeeded, Refused
    <2> QED
      BY <2>2, <2>3
  <1> QED
    BY <1>1, KeyInvariance, PTL

(***************************************************************************)
(* A request is carried out once, plus once for each lookup that another   *)
(* copy of it overlapped and once for each lookup or store that failed,    *)
(* for any number of goroutines: every repetition has a cause.             *)
(***************************************************************************)
THEOREM RepetitionsBounded == Spec => []RepetitionsExplained
  <1>1. ASSUME KeyInv PROVE RepetitionsExplained
    <2> SUFFICES ASSUME NEW k \in Key
                 PROVE  done[k] <= 1 + overlaps[k] + spoiled[k]
      BY DEF RepetitionsExplained
    <2> DEFINE S == Cardinality(Holding(k, "store"))
               E == Cardinality(Holding(k, "execute"))
    <2>1. S \in Nat /\ E \in Nat
      BY HoldingFinite
    <2>2. /\ done[k] \in Nat /\ spoiled[k] \in Nat /\ overlaps[k] \in Nat
          /\ keys[k] = NoKey => /\ done[k] <= S + spoiled[k]
                                /\ S + E <= 1 + overlaps[k]
          /\ keys[k] # NoKey => done[k] + E <= 1 + overlaps[k] + spoiled[k]
      BY <1>1 DEF KeyInv, TypeOK
    <2> QED
      BY <2>1, <2>2
  <1> QED
    BY <1>1, KeyInvariance, PTL
================================================================================
