----------------------------- MODULE WillRecord -----------------------------
(***************************************************************************)
(* What is left of a testator's record when any number of requests run at  *)
(* once.  WillLifecycle promises that a will moves from one status to the  *)
(* next; concurrent handlers do not keep that promise, because they check  *)
(* on one read and write later.  They do keep this one: a will has one     *)
(* owner and one place in the record for ever, its signatures are never    *)
(* taken back, only a will that carries its owner's signature and two      *)
(* signatures by others (by one other person, perhaps) is sealed, notified *)
(* or opened, none is opened before its time, and a will is replaced only  *)
(* by its owner's next one, in the step that creates it.                   *)
(***************************************************************************)
EXTENDS Integers, Sequences

CONSTANTS
    WillID, Person, Hash,
    Delay,          \* cooling-off periods, in days
    Nobody,         \* the owner of a will that does not exist
    NoWill,         \* the amended will, or successor, of a will without one
    Unsigned        \* the owner's signature before there is one

VARIABLES
    status, owner, amends, successor,
    signed,         \* the payload the owner signed
    witnesses,      \* the signatures of others, oldest first
    notices,        \* the death notifications received
    now

record == <<owner, amends, successor, signed, witnesses, notices, now>>
vars == <<status, record>>

Init ==
    /\ status = [w \in WillID |-> "absent"]
    /\ owner = [w \in WillID |-> Nobody]
    /\ amends = [w \in WillID |-> NoWill]
    /\ successor = [w \in WillID |-> NoWill]
    /\ signed = [w \in WillID |-> Unsigned]
    /\ witnesses = [w \in WillID |-> <<>>]
    /\ notices = [w \in WillID |-> {}]
    /\ now = 0

Exists(w) == status[w] # "absent"

Executed(w) ==
    /\ Exists(w)
    /\ signed[w] # Unsigned
    /\ Len(witnesses[w]) >= 2
    /\ \A i \in 1..Len(witnesses[w]) : witnesses[w][i].flt # owner[w]

(* The wills, codicils aside, of one person, whatever became of them. *)
WillsOf(o) ==
    {w \in WillID : Exists(w) /\ owner[w] = o /\ amends[w] = NoWill}

NewWill(w, o, replaced) ==
    /\ ~Exists(w)
    /\ replaced \subseteq WillsOf(o)
    /\ status' = [v \in WillID |-> IF v = w THEN "draft"
                                   ELSE IF v \in replaced THEN "superseded"
                                   ELSE status[v]]
    /\ successor' = [v \in WillID |-> IF v \in replaced THEN w
                                      ELSE successor[v]]
    /\ owner' = [owner EXCEPT ![w] = o]
    /\ UNCHANGED <<amends, signed, witnesses, notices, now>>

NewCodicil(w, parent) ==
    /\ ~Exists(w)
    /\ Executed(parent)
    /\ status' = [status EXCEPT ![w] = "draft"]
    /\ owner' = [owner EXCEPT ![w] = owner[parent]]
    /\ amends' = [amends EXCEPT ![w] = parent]
    /\ UNCHANGED <<successor, signed, witnesses, notices, now>>

Sign(w, hash) ==
    /\ Exists(w)
    /\ signed' = [signed EXCEPT ![w] = hash]
    /\ UNCHANGED <<status, owner, amends, successor, witnesses, notices, now>>

Witness(w, by, hash) ==
    /\ Exists(w)
    /\ signed[w] # Unsigned
    /\ by # owner[w]
    /\ witnesses' = [witnesses EXCEPT ![w] =
                        Append(@, [flt |-> by, hash |-> hash])]
    /\ UNCHANGED <<status, owner, amends, successor, signed, notices, now>>

(* The register reports the owner's death. *)
Notice(w, d) ==
    /\ Executed(w)
    /\ notices' = [notices EXCEPT ![w] = @ \cup {[at |-> now, delay |-> d]}]
    /\ UNCHANGED <<status, owner, amends, successor, signed, witnesses, now>>

Move(w, to) ==
    /\ Executed(w)
    /\ status' = [status EXCEPT ![w] = to]
    /\ UNCHANGED record

Seal(w) == Move(w, "locked")

DeathNotified(w) == notices[w] # {} /\ Move(w, "death_notified")

Open(w) ==
    /\ \E n \in notices[w] : now >= n.at + n.delay
    /\ Move(w, "unlocked_at_death")

Tick ==
    /\ now' = now + 1
    /\ UNCHANGED <<status, owner, amends, successor, signed, witnesses,
                   notices>>

Next ==
    \/ \E w \in WillID :
        \/ \E o \in Person : \E replaced \in SUBSET WillsOf(o) :
                NewWill(w, o, replaced)
        \/ \E parent \in WillID : NewCodicil(w, parent)
        \/ \E hash \in Hash : Sign(w, hash)
        \/ \E by \in Person, hash \in Hash : Witness(w, by, hash)
        \/ \E d \in Delay : Notice(w, d)
        \/ Seal(w) \/ DeathNotified(w) \/ Open(w)
    \/ Tick

Spec == Init /\ [][Next]_vars
=============================================================================
