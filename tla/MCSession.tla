----------------------------- MODULE MCSession -----------------------------
(* A small instance of the RealMe session for TLC. *)
EXTENDS RealMeSession, TLC

CONSTANTS t1, t2, alice, bob, s1, s2

Symmetric ==
    Permutations({t1, t2}) \cup Permutations({alice, bob})
      \cup Permutations({s1, s2})
=============================================================================
