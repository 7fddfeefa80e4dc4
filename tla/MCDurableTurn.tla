--------------------------- MODULE MCDurableTurn ---------------------------
(* The requests of one session, for TLC. *)
EXTENDS DurableTurn, TLC

CONSTANTS r1, r2, r3

TwoRequests == {r1, r2}

ThreeRequests == {r1, r2, r3}

Symmetric == Permutations(ThreeRequests)
============================================================================
