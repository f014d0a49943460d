-------------------------- MODULE MCStrandExecutor --------------------------
(* Four items: with batches of two, an item can arrive before, in the       *)
(* middle of and after each of two batches.                                 *)
EXTENDS StrandExecutor
CONSTANTS i1, i2, i3, i4
MCItems == {i1, i2, i3, i4}
=============================================================================
