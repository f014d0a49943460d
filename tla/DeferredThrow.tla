---------------------------- MODULE DeferredThrow ----------------------------
(***************************************************************************)
(* DeferredExecutor.tla with an executor whose add() may throw when        *)
(* setExecutor() hands it the stored function.  The exception leaves       *)
(* SemiFuture::via() (Future-inl.h) and the SemiFuture still holds the     *)
(* deferred executor: it may be given another executor, and its destructor *)
(* detaches it.                                                            *)
(***************************************************************************)
EXTENDS DeferredExecutor

(***************************************************************************)
(* add() throws: the function is destroyed, all calls of setExecutor() are *)
(* left, and with them goes the list of nested executors that the outer    *)
(* call had taken out of nestedExecutors_.  A later call visits Root only. *)
(***************************************************************************)
ConsAddThrows ==
  /\ cpc = "take"
  /\ mode = "set" \/ (mode = "setInline" /\ cur # Root)
  /\ Finish(cur, func[cur], "drop")
  /\ func' = [func EXCEPT ![cur] = 0]
  /\ cpc' = "idle" /\ mode' = "own" /\ visited' = Execs \ {Root}
  /\ UNCHANGED <<state, executor, cur, producer, queue, terminated>>

ThrowNext == Next \/ ConsAddThrows

ThrowSpec == Init /\ [][ThrowNext]_vars
-----------------------------------------------------------------------------
(* The states that the consumer calls unexpected (terminate_unexpected_state *)
(* in setExecutor() and detach()) are not met when an add() that threw is    *)
(* followed by the destruction of the SemiFuture.                            *)
UnexpectedUnmet == NoTerminate
=============================================================================
