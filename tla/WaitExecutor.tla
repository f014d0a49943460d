---------------------------- MODULE WaitExecutor ----------------------------
(***************************************************************************)
(* SemiFuture::wait() on a deferred future (folly/futures/Future-inl.h):   *)
(* the waiting thread makes a WaitExecutor, gives it to the deferred       *)
(* executor and drives it until the last function of the chain has run, or *)
(* until its deadline.                                                     *)
(*                                                                         *)
(* The functions other than Final come from deferred executors nested in    *)
(* the future (collectAll and the like) and are added by any thread at any *)
(* time; Final, which fulfils the future that wait() waits for, is added    *)
(* once the others were run or dropped.  The baton is represented by what  *)
(* it promises, module Handoff, which module Baton implements.             *)
(***************************************************************************)
EXTENDS Integers, Sequences, SequencesExt, FiniteSets

CONSTANTS
  Funcs,   \* what the nested futures of the SemiFuture hand to the executor of one wait()
  Final    \* the one that completes the future waited for

ASSUME FinalAssumption == Final \in Funcs
ASSUME FuncsAssumption == IsFiniteSet(Funcs)

VARIABLES
  timed,                   \* wait(duration), not wait()
  funcs, detached,         \* queue_
  posted, wait,            \* baton_
  keepAlive,               \* keepAliveCount_
  apc,                     \* per function: where the call that adds it is
  fate,                    \* per function: "none", "queued", "ran", "dropped"
  driver,                  \* where the waiting thread is
  batch                    \* the functions it moved out of the queue

waitVars == <<timed, funcs, detached, posted, wait, keepAlive, apc, fate, driver, batch>>

B == INSTANCE Handoff

\* One reference for the waiting thread and one in each DeferredExecutor (executor_).
WaitExecutorInit ==
  /\ timed \in BOOLEAN
  /\ funcs = << >> /\ detached = FALSE
  /\ B!HInit
  /\ keepAlive = 1 + Cardinality(Funcs)
  /\ apc = [f \in Funcs |-> "idle"]
  /\ fate = [f \in Funcs |-> "none"]
  /\ driver = "check"
  /\ batch = << >>

Resolved(f) == fate[f] \in {"ran", "dropped"}
-----------------------------------------------------------------------------
(***************************************************************************)
(* WaitExecutor::add, called by DeferredExecutor::addFrom with a function  *)
(* that holds a reference of its own (KeepAlive::add).                     *)
(***************************************************************************)
\* Fault: add() posts also when functions are waiting already.
AddAlwaysPosts(f) ==
  /\ apc[f] = "idle"
  /\ f = Final => \A g \in Funcs \ {Final} : Resolved(g)
  /\ IF detached
     THEN /\ fate' = [fate EXCEPT ![f] = "dropped"]
          /\ apc' = [apc EXCEPT ![f] = "return"]
          /\ UNCHANGED <<funcs, keepAlive>>
     ELSE /\ fate' = [fate EXCEPT ![f] = "queued"]
          /\ funcs' = Append(funcs, f)
          /\ keepAlive' = keepAlive + 1
          /\ apc' = [apc EXCEPT ![f] = "post"]
  /\ UNCHANGED <<timed, detached, posted, wait, driver, batch>>

\* Under the lock: dropped once detached, queued before.  The call that finds the queue empty
\* has to post.
Add(f) ==
  /\ apc[f] = "idle"
  /\ f = Final => \A g \in Funcs \ {Final} : Resolved(g)
  /\ IF detached
     THEN /\ fate' = [fate EXCEPT ![f] = "dropped"]
          /\ apc' = [apc EXCEPT ![f] = "return"]
          /\ UNCHANGED <<funcs, keepAlive>>
     ELSE /\ fate' = [fate EXCEPT ![f] = "queued"]
          /\ funcs' = Append(funcs, f)
          /\ keepAlive' = keepAlive + 1
          /\ apc' = [apc EXCEPT ![f] = IF funcs = << >> THEN "post" ELSE "return"]
  /\ UNCHANGED <<timed, detached, posted, wait, driver, batch>>

\* A function that completes on this executor runs the next one inline.
AddInline(f) ==
  /\ apc[f] = "idle" /\ f = Final
  /\ driver = "run"
  /\ \A g \in Funcs \ {Final} : Resolved(g)
  /\ fate' = [fate EXCEPT ![f] = "ran"]
  /\ apc' = [apc EXCEPT ![f] = "return"]
  /\ UNCHANGED <<timed, funcs, detached, posted, wait, keepAlive, driver, batch>>

AddPost(f) ==
  /\ apc[f] = "post"
  /\ posted' = TRUE
  /\ apc' = [apc EXCEPT ![f] = "return"]
  /\ UNCHANGED <<timed, funcs, detached, wait, keepAlive, fate, driver, batch>>

\* The caller is done with the deferred executor, which holds a reference.
AddReturn(f) ==
  /\ apc[f] = "return"
  /\ keepAlive' = keepAlive - 1
  /\ apc' = [apc EXCEPT ![f] = "done"]
  /\ UNCHANGED <<timed, funcs, detached, posted, wait, fate, driver, batch>>
-----------------------------------------------------------------------------
(***************************************************************************)
(* The waiting thread: drive() or driveUntil() while the result is not     *)
(* ready, then detach().                                                   *)
(***************************************************************************)
DriveWait ==
  /\ driver = "check" /\ ~Resolved(Final)
  /\ B!BeginWait
  /\ driver' = "wait"
  /\ UNCHANGED <<timed, funcs, detached, keepAlive, apc, fate, batch>>

DriveWoken ==
  /\ driver = "wait"
  /\ B!Receive
  /\ driver' = "reset"
  /\ UNCHANGED <<timed, funcs, detached, keepAlive, apc, fate, batch>>

\* Fault: wait() gives up although it has no deadline.
DriveTimedOutAlways ==
  /\ driver = "wait"
  /\ B!GiveUp
  /\ driver' = "detach"
  /\ UNCHANGED <<timed, funcs, detached, keepAlive, apc, fate, batch>>

DriveTimedOut ==
  /\ driver = "wait" /\ timed
  /\ B!GiveUp
  /\ driver' = "detach"
  /\ UNCHANGED <<timed, funcs, detached, keepAlive, apc, fate, batch>>

DriveReset ==
  /\ driver = "reset"
  /\ B!Renew
  /\ driver' = "take"
  /\ UNCHANGED <<timed, funcs, detached, keepAlive, apc, fate, batch>>

DriveTake ==
  /\ driver = "take"
  /\ batch' = funcs /\ funcs' = << >>
  /\ driver' = "run"
  /\ UNCHANGED <<timed, detached, posted, wait, keepAlive, apc, fate>>

\* Fault: the reference of the function is kept.
DriveRunKeeps ==
  /\ driver = "run" /\ batch # << >>
  /\ fate' = [fate EXCEPT ![Head(batch)] = "ran"]
  /\ batch' = Tail(batch)
  /\ UNCHANGED <<timed, funcs, keepAlive, detached, posted, wait, apc, driver>>

\* Run the next function; it gives up its reference.
DriveRun ==
  /\ driver = "run" /\ batch # << >>
  /\ fate' = [fate EXCEPT ![Head(batch)] = "ran"]
  /\ keepAlive' = keepAlive - 1
  /\ batch' = Tail(batch)
  /\ UNCHANGED <<timed, funcs, detached, posted, wait, apc, driver>>

\* Fault: the baton is reset after the functions have run.
DriveAgainResets ==
  /\ driver = "run" /\ batch = << >>
  /\ driver' = "check"
  /\ posted' = FALSE /\ wait' = "idle"
  /\ UNCHANGED <<timed, funcs, detached, keepAlive, apc, fate, batch>>

DriveAgain ==
  /\ driver = "run" /\ batch = << >>
  /\ driver' = "check"
  /\ UNCHANGED <<timed, funcs, detached, posted, wait, keepAlive, apc, fate, batch>>

Ready ==
  /\ driver = "check" /\ Resolved(Final)
  /\ driver' = "detach"
  /\ UNCHANGED <<timed, funcs, detached, posted, wait, keepAlive, apc, fate, batch>>

Detach ==
  /\ driver = "detach"
  /\ detached' = TRUE
  /\ batch' = funcs /\ funcs' = << >>
  /\ driver' = "discard"
  /\ UNCHANGED <<timed, posted, wait, keepAlive, apc, fate>>

\* The functions that were moved out are destroyed, outside the lock.
Discard ==
  /\ driver = "discard"
  /\ fate' = [f \in Funcs |-> IF f \in ToSet(batch) THEN "dropped" ELSE fate[f]]
  /\ keepAlive' = keepAlive - Len(batch)
  /\ batch' = << >>
  /\ driver' = "leave"
  /\ UNCHANGED <<timed, funcs, detached, posted, wait, apc>>

WaitReturn ==
  /\ driver = "leave"
  /\ keepAlive' = keepAlive - 1
  /\ driver' = "done"
  /\ UNCHANGED <<timed, funcs, detached, posted, wait, apc, fate, batch>>
-----------------------------------------------------------------------------
Adding(f) == AddPost(f) \/ AddReturn(f)

Waiting == DriveWait \/ DriveWoken \/ DriveReset \/ DriveTake \/ DriveRun \/ DriveAgain
             \/ Ready \/ Detach \/ Discard \/ WaitReturn

WaitExecutorNext ==
  \/ \E f \in Funcs : Add(f) \/ AddInline(f) \/ Adding(f)
  \/ Waiting
  \/ DriveTimedOut

WaitExecutorSpec == WaitExecutorInit /\ [][WaitExecutorNext]_waitVars

\* The waiting thread and a thread inside add() keep running, and Final is added once the others
\* were resolved.  No deadline has to pass.
WaitExecutorFairness ==
  /\ WF_waitVars(Waiting)
  /\ \A f \in Funcs : WF_waitVars(Adding(f))
  /\ WF_waitVars(Add(Final))

WaitExecutorFairSpec == WaitExecutorSpec /\ WaitExecutorFairness
-----------------------------------------------------------------------------
WaitExecutorTypeOK ==
  /\ timed \in BOOLEAN /\ detached \in BOOLEAN /\ posted \in BOOLEAN
  /\ wait \in {"idle", "waiting", "got", "missed"}
  /\ funcs \in Seq(Funcs) /\ batch \in Seq(Funcs)
  /\ keepAlive \in Nat
  /\ apc \in [Funcs -> {"idle", "post", "return", "done"}]
  /\ fate \in [Funcs -> {"none", "queued", "ran", "dropped"}]
  /\ driver \in {"check", "wait", "reset", "take", "run", "detach", "discard", "leave", "done"}

\* The baton is posted at most once between two resets, as it requires: whoever is about to
\* post is the only one, and finds it not posted.
BatonContract ==
  \A f, g \in Funcs : apc[f] = "post" => ~posted /\ (apc[g] = "post" => g = f)

\* wait() without a deadline returns with every function run: none is dropped, none forgotten.
NothingDropped == (driver = "done" /\ ~timed) => \A f \in Funcs : fate[f] = "ran"

\* The executor is deleted when nobody uses it any more, and not before: not by a timed-out
\* wait() while another thread is between its push and its post.
DeletedOnTime ==
  (keepAlive = 0) <=> /\ driver = "done"
                      /\ \A f \in Funcs : apc[f] = "done" /\ Resolved(f)

\* Once the nested futures have completed, wait() returns, with no help from a deadline.
WaitReturns ==
  (\A f \in Funcs \ {Final} : apc[f] # "idle") ~> (driver = "done")
=============================================================================
