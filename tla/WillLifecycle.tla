--------------------------- MODULE WillLifecycle ---------------------------
(***************************************************************************)
(* What a testator is promised, without requests, tables or clocks: each   *)
(* will has a status, an owner, a content (clauses and signatures), and    *)
(* every operation is one step.  A will is written while it is a draft; it *)
(* is sealed, the owner's death is notified, the vault opens; and a new    *)
(* will of the same owner replaces the one in force in the very step that  *)
(* creates it.  A codicil amends a sealed will and replaces nothing.       *)
(***************************************************************************)
CONSTANTS
    WillID, Owner,
    Nobody,         \* the owner of a will that does not exist
    NoWill,         \* the amended will of a will that is not a codicil
    Blank           \* the content of a new draft

VARIABLES status, owner, amends, content

vars == <<status, owner, amends, content>>

Init ==
    /\ status = [w \in WillID |-> "absent"]
    /\ owner = [w \in WillID |-> Nobody]
    /\ amends = [w \in WillID |-> NoWill]
    /\ content = [w \in WillID |-> Blank]

InForce(o) == {w \in WillID : /\ owner[w] = o
                              /\ amends[w] = NoWill
                              /\ status[w] \in {"draft", "locked"}}

Draft(w, o, parent) ==
    /\ status[w] = "absent"
    /\ owner' = [owner EXCEPT ![w] = o]
    /\ amends' = [amends EXCEPT ![w] = parent]
    /\ UNCHANGED content

NewWill(w, o) ==
    /\ Draft(w, o, NoWill)
    /\ status' = [v \in WillID |-> IF v = w THEN "draft"
                                   ELSE IF v \in InForce(o) THEN "superseded"
                                   ELSE status[v]]

NewCodicil(w, parent) ==
    /\ status[parent] = "locked"
    /\ Draft(w, owner[parent], parent)
    /\ status' = [status EXCEPT ![w] = "draft"]

Write(w) ==
    /\ status[w] = "draft"
    /\ content' = [content EXCEPT ![w] = content'[w]]
    /\ UNCHANGED <<status, owner, amends>>

Advance(w, from, to) ==
    /\ status[w] = from
    /\ status' = [status EXCEPT ![w] = to]
    /\ UNCHANGED <<owner, amends, content>>

Seal(w) == Advance(w, "draft", "locked")

DeathNotified(w) == Advance(w, "locked", "death_notified")

Open(w) == \/ Advance(w, "locked", "unlocked_at_death")
           \/ Advance(w, "death_notified", "unlocked_at_death")

Next ==
    \E w \in WillID :
        \/ \E o \in Owner : NewWill(w, o)
        \/ \E parent \in WillID : NewCodicil(w, parent)
        \/ Write(w) \/ Seal(w) \/ DeathNotified(w) \/ Open(w)

Spec == Init /\ [][Next]_vars
=============================================================================
