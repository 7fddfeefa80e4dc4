------------------------- MODULE MCExecutorLeases -------------------------
(* Calls for one workspace, and one that pushes it out, for TLC. *)
EXTENDS ExecutorLeases, TLC

CONSTANTS i1, i2

Calls(one, another, all) == (i1 :> one) @@ (i2 :> another) @@ (NoId :> all)

Budgets == {Calls(3, 0, 1), Calls(1, 1, 1)}
===========================================================================
