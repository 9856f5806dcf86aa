---------------------------- MODULE Idempotency ----------------------------
(***************************************************************************)
(* The idempotency middleware of nz-common: a POST that carries an         *)
(* Idempotency-Key is looked up in a PostgreSQL table, served from it when *)
(* found, and otherwise executed and stored.  Lookup, execution and        *)
(* storing are separate steps of a goroutine; nothing locks the key.  Both *)
(* statements run under the context of the request, which ends when the    *)
(* client hangs up, and both drop their errors.  Requests that are no POST *)
(* or carry no key pass through and touch none of this state.              *)
(*                                                                         *)
(* Each key stands for one client that sends the same request until it is  *)
(* told of a success, and perhaps once more.                               *)
(***************************************************************************)
EXTENDS Integers, FiniteSets

CONSTANTS
    Key,        \* values of the Idempotency-Key header
    Procs,      \* goroutines serving requests
    MaxFails,   \* bound on hang-ups, database errors, refusals and crashes
    NoKey       \* no row for a key in the table

ASSUME IdempotencyAssumption ==
    /\ IsFiniteSet(Procs)
    /\ MaxFails \in Nat
    /\ NoKey \notin Nat

VARIABLES
    keys,       \* table idempotency_keys: key -> stored result, or NoKey
    call,       \* the request each goroutine is serving
    done,       \* history: how often next succeeded for each key
    replays,    \* history: the results replayed to the client of each key
    spoiled,    \* history: lookups and stores of each key that failed
    overlaps,   \* history: lookups of each key made while a copy of the
                \* request was executed or not yet stored
    client,     \* what the client of each key is up to
    fails       \* failures so far

vars == <<keys, call, done, replays, spoiled, overlaps, client, fails>>

(***************************************************************************)
(* A result is the number of the execution that produced it (status 2xx    *)
(* and a body), or Refused: any other status.                              *)
(***************************************************************************)
Refused == 0
Succeeded(result) == result > Refused

(* live: the client is still connected, so r.Context() is not cancelled. *)
Call == [pc     : {"idle", "lookup", "execute", "store", "reply"},
         key    : Key \cup {NoKey},
         result : Nat,
         replay : BOOLEAN,
         live   : BOOLEAN]

Idle == [pc |-> "idle", key |-> NoKey, result |-> Refused, replay |-> FALSE,
         live |-> FALSE]

TypeOK ==
    /\ keys \in [Key -> Nat \cup {NoKey}]
    /\ call \in [Procs -> Call]
    /\ done \in [Key -> Nat]
    /\ replays \in [Key -> SUBSET Nat]
    /\ spoiled \in [Key -> Nat]
    /\ overlaps \in [Key -> Nat]
    /\ client \in [Key -> {"new", "waiting", "answered"}]
    /\ fails \in Nat

Init ==
    /\ keys = [k \in Key |-> NoKey]
    /\ call = [p \in Procs |-> Idle]
    /\ done = [k \in Key |-> 0]
    /\ replays = [k \in Key |-> {}]
    /\ spoiled = [k \in Key |-> 0]
    /\ overlaps = [k \in Key |-> 0]
    /\ client = [k \in Key |-> "new"]
    /\ fails = 0

-----------------------------------------------------------------------------
(* A client sends its request, or sends it again while earlier copies are  *)
(* still being served.                                                     *)
Send(p, k) ==
    /\ call[p] = Idle
    /\ call' = [call EXCEPT ![p] =
                    [Idle EXCEPT !.pc = "lookup", !.key = k, !.live = TRUE]]
    /\ client' = [client EXCEPT ![k] = IF @ = "new" THEN "waiting" ELSE @]
    /\ UNCHANGED <<keys, done, replays, spoiled, overlaps, fails>>

(* The row of the key is found: its result is the answer. *)
Replay(p) ==
    LET c == call[p] IN
    /\ c.pc = "lookup" /\ c.live
    /\ keys[c.key] # NoKey
    /\ call' = [call EXCEPT ![p].pc = "reply", ![p].replay = TRUE,
                            ![p].result = keys[c.key]]
    /\ UNCHANGED <<keys, done, replays, spoiled, overlaps, client, fails>>

(* A step may go wrong: always when the client has hung up, else for one   *)
(* of the MaxFails failures.                                               *)
GoesWrong(p) ==
    /\ call[p].live => fails < MaxFails
    /\ fails' = IF call[p].live THEN fails + 1 ELSE fails

(* The goroutines that have a request of key k at step pc. *)
Holding(k, pc) == {p \in Procs : call[p].key = k /\ call[p].pc = pc}

UnderWay(k) == Holding(k, "execute") \cup Holding(k, "store")

(* There is no row, though another copy may be about to store one. *)
Miss(p) ==
    LET k == call[p].key IN
    /\ call[p].pc = "lookup"
    /\ keys[k] = NoKey
    /\ call' = [call EXCEPT ![p].pc = "execute"]
    /\ overlaps' = IF UnderWay(k) = {} THEN overlaps
                   ELSE [overlaps EXCEPT ![k] = @ + 1]
    /\ UNCHANGED <<keys, done, replays, spoiled, client, fails>>

(* Any error of the lookup is taken for "no row". *)
LookupFails(p) ==
    LET c == call[p] IN
    /\ c.pc = "lookup"
    /\ keys[c.key] # NoKey
    /\ GoesWrong(p)
    /\ call' = [call EXCEPT ![p].pc = "execute"]
    /\ spoiled' = [spoiled EXCEPT ![c.key] = @ + 1]
    /\ UNCHANGED <<keys, done, replays, overlaps, client>>

-----------------------------------------------------------------------------
(* next.ServeHTTP carries the request out and answers with a 2xx status. *)
Execute(p) ==
    LET c == call[p] IN
    /\ c.pc = "execute"
    /\ done' = [done EXCEPT ![c.key] = @ + 1]
    /\ call' = [call EXCEPT ![p].pc = "store", ![p].result = done[c.key] + 1]
    /\ UNCHANGED <<keys, replays, spoiled, overlaps, client, fails>>

\* Mutant: every response is persisted.
Refuse_Stored(p) ==
    /\ call[p].pc = "execute"
    /\ GoesWrong(p)
    /\ call' = [call EXCEPT ![p].pc = "store"]
    /\ UNCHANGED <<keys, done, replays, spoiled, overlaps, client>>

(* next answers with another status: that is not stored. *)
Refuse(p) ==
    /\ call[p].pc = "execute"
    /\ GoesWrong(p)
    /\ call' = [call EXCEPT ![p].pc = "reply"]
    /\ UNCHANGED <<keys, done, replays, spoiled, overlaps, client>>

-----------------------------------------------------------------------------
\* Mutants of storeKey: the last result wins; nothing is stored.
storeKey_Overwrites(row, result) == result
storeKey_Lost(row, result) == row

(* INSERT ... ON CONFLICT DO NOTHING *)
storeKey(row, result) == IF row = NoKey THEN result ELSE row

Store(p) ==
    LET c == call[p] IN
    /\ c.pc = "store" /\ c.live
    /\ keys' = [keys EXCEPT ![c.key] = storeKey(@, c.result)]
    /\ call' = [call EXCEPT ![p].pc = "reply"]
    /\ UNCHANGED <<done, replays, spoiled, overlaps, client, fails>>

(* The error of the insert is dropped and the answer goes out. *)
StoreFails(p) ==
    LET c == call[p] IN
    /\ c.pc = "store"
    /\ GoesWrong(p)
    /\ call' = [call EXCEPT ![p].pc = "reply"]
    /\ spoiled' = [spoiled EXCEPT ![c.key] = @ + 1]
    /\ UNCHANGED <<keys, done, replays, overlaps, client>>

(* The answer reaches the client if it is still there. *)
Reply(p) ==
    LET c == call[p] IN
    /\ c.pc = "reply"
    /\ call' = [call EXCEPT ![p] = Idle]
    /\ client' = [client EXCEPT ![c.key] =
                    IF c.live /\ Succeeded(c.result) THEN "answered" ELSE @]
    /\ replays' = [replays EXCEPT ![c.key] =
                    IF c.live /\ c.replay THEN @ \cup {c.result} ELSE @]
    /\ UNCHANGED <<keys, done, spoiled, overlaps, fails>>

-----------------------------------------------------------------------------
(* The client hangs up, or times out: the context is cancelled. *)
HangUp(p) ==
    /\ call[p].live
    /\ fails < MaxFails
    /\ fails' = fails + 1
    /\ call' = [call EXCEPT ![p].live = FALSE]
    /\ UNCHANGED <<keys, done, replays, spoiled, overlaps, client>>

(* The goroutine panics or the server stops; what next committed stays. *)
Crash(p) ==
    LET c == call[p] IN
    /\ c.pc # "idle"
    /\ fails < MaxFails
    /\ fails' = fails + 1
    /\ call' = [call EXCEPT ![p] = Idle]
    /\ spoiled' = IF c.pc = "store"
                  THEN [spoiled EXCEPT ![c.key] = @ + 1] ELSE spoiled
    /\ UNCHANGED <<keys, done, replays, overlaps, client>>

Serve(p) ==
    \/ Replay(p) \/ Miss(p) \/ LookupFails(p)
    \/ Execute(p) \/ Refuse(p)
    \/ Store(p) \/ StoreFails(p) \/ Reply(p)

Next ==
    \E p \in Procs :
        \/ \E k \in Key : Send(p, k)
        \/ Serve(p) \/ HangUp(p) \/ Crash(p)

Spec == Init /\ [][Next]_vars

(***************************************************************************)
(* Fairness: a goroutine that was started runs on, and a client repeats    *)
(* its request until it hears of a success.  A goroutine is free for it    *)
(* again and again.                                                        *)
(***************************************************************************)
Fairness ==
    /\ \A p \in Procs : WF_vars(Serve(p))
    /\ \A k \in Key :
        SF_vars(\E p \in Procs : client[k] # "answered" /\ Send(p, k))

FairSpec == Spec /\ Fairness

-----------------------------------------------------------------------------
(***************************************************************************)
(* All replays of a key tell the client the same thing, the outcome of an  *)
(* execution that succeeded: also when several copies of the request were  *)
(* executed at the same time and each tried to store its own result.       *)
(***************************************************************************)
ReplaysAgree ==
    \A k \in Key :
        /\ Cardinality(replays[k]) <= 1
        /\ \A r \in replays[k] : Succeeded(r) /\ r <= done[k]

(***************************************************************************)
(* Every repeated execution has a cause: the middleware carries a request  *)
(* out once, plus once for each lookup that another copy of the request    *)
(* overlapped and once for each lookup or store that failed.  A request    *)
(* that is sent again only after it was answered, and that meets no        *)
(* failure, is carried out once, whichever goroutines serve it.            *)
(***************************************************************************)
RepetitionsExplained ==
    \A k \in Key : done[k] <= 1 + overlaps[k] + spoiled[k]

(***************************************************************************)
(* A client that keeps sending its request is told of a success in the     *)
(* end: a failure is never stored, so that it cannot be replayed for ever. *)
(***************************************************************************)
Answered == \A k \in Key : client[k] = "waiting" ~> client[k] = "answered"

-----------------------------------------------------------------------------
(* What a goroutine may rely on between two statements. *)
CallInv(c) ==
    /\ c.pc = "idle" => c = Idle
    /\ c.pc # "idle" => c.key \in Key
    /\ c.pc = "store" => c.result \in 1..done[c.key]
    /\ c.pc # "reply" => ~c.replay
    /\ c.replay => c.result = keys[c.key] /\ keys[c.key] # NoKey

(***************************************************************************)
(* The inductive invariant.  What is stored, and so what is replayed, is   *)
(* one result for good.  While nothing is stored, every execution is still *)
(* to be stored or was lost, and of those under way all but one overlapped *)
(* another; from then on nobody begins to execute unless a lookup fails.   *)
(***************************************************************************)
KeyInv ==
    /\ TypeOK
    /\ \A p \in Procs : CallInv(call[p])
    /\ \A k \in Key :
        /\ keys[k] # NoKey => keys[k] \in 1..done[k]
        /\ replays[k] \subseteq {keys[k]}
        /\ keys[k] = NoKey =>
            /\ done[k] <= Cardinality(Holding(k, "store")) + spoiled[k]
            /\ Cardinality(Holding(k, "store"))
                + Cardinality(Holding(k, "execute")) <= 1 + overlaps[k]
        /\ keys[k] # NoKey =>
            done[k] + Cardinality(Holding(k, "execute"))
                <= 1 + overlaps[k] + spoiled[k]
=============================================================================
