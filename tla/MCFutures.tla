------------------------------ MODULE MCFutures ------------------------------
(***************************************************************************)
(* What a future has besides its core: the tree of DeferredExecutors that  *)
(* holds the continuations of a SemiFuture; the WaitExecutor with which    *)
(* wait() runs them; and the interrupts raised along a chain of cores.  A  *)
(* behaviour is one of the three and leaves the others as they are: what a *)
(* WaitExecutor is given, and when, is any order in which the nested       *)
(* futures can complete, and interrupts do not touch the executors.        *)
(***************************************************************************)
EXTENDS MCDeferredExecutor, WaitExecutor, FutureInterrupt
CONSTANTS f1, f2, f3, f4
MCFuncs == {f1, f2, f3, f4}

VARIABLE subject

MCInit ==
  /\ subject \in {"DeferredExecutor", "WaitExecutor", "FutureInterrupt"}
  /\ Init /\ WaitExecutorInit /\ InterruptInit
  /\ subject # "WaitExecutor" => ~timed

MCNext ==
  \/ subject = "DeferredExecutor" /\ Next /\ UNCHANGED <<waitVars, interruptVars, subject>>
  \/ subject = "WaitExecutor" /\ WaitExecutorNext /\ UNCHANGED <<vars, interruptVars, subject>>
  \/ subject = "FutureInterrupt" /\ InterruptNext /\ UNCHANGED <<vars, waitVars, subject>>

\* The fairness of WaitExecutor.tla, in its behaviours: the waiting thread is inside wait() from
\* the start.
WaitFairness ==
  /\ WF_waitVars(subject = "WaitExecutor" /\ Waiting)
  /\ \A f \in Funcs : WF_waitVars(subject = "WaitExecutor" /\ Adding(f))
  /\ WF_waitVars(subject = "WaitExecutor" /\ Add(Final))

MCSpec == MCInit /\ [][MCNext]_<<vars, waitVars, interruptVars, subject>> /\ Fairness /\ WaitFairness
=============================================================================
