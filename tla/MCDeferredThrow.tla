--------------------------- MODULE MCDeferredThrow ---------------------------
(* The tree of MCDeferredExecutor, with an executor whose add() may throw. *)
EXTENDS DeferredThrow, MCDeferredExecutor
=============================================================================
