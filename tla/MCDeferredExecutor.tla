------------------------- MODULE MCDeferredExecutor -------------------------
(* A SemiFuture made by collect() from two others. *)
EXTENDS DeferredExecutor
CONSTANTS root, left, right
MCExecs == {root, left, right}
MCNested == [e \in MCExecs |-> IF e = root THEN {left, right} ELSE {}]
=============================================================================
