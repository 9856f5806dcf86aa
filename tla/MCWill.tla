------------------------------- MODULE MCWill -------------------------------
(* Small instances of the will service for TLC. *)
EXTENDS WillProperties, TLC

CONSTANTS w1, w2, w3, alice, bob, carol, h1, h2, p1, p2

(* Cooling-off periods of a payload, a negative one included. *)
EarlyOrLate == {-1, 0, 1}

Goroutines == Permutations({p1, p2})
ThreeWills == Permutations({w1, w2, w3})
ThreeWillsTwoProcs == ThreeWills \cup Goroutines
=============================================================================
