--------------------------- MODULE CPUThreadPool ---------------------------
(***************************************************************************)
(* CPUThreadPoolExecutor and its base ThreadPoolExecutor                   *)
(* (folly/executors): threads that come with the work and leave when idle, *)
(* resizing, stop() and join().                                            *)
(*                                                                         *)
(* Every task is added by a thread of its own.  One more thread, ctl,      *)
(* resizes the pool and ends it.  The task queue is the default one, an    *)
(* unbounded FIFO with a LifoSem; a post hands over to a thread that waits *)
(* if there is one, and then that thread can no longer time out.  What is  *)
(* done under threadListLock_ is one step, unless others can see it done   *)
(* in parts; then `lock` is held between the steps.                        *)
(***************************************************************************)
EXTENDS Naturals, Sequences, SequencesExt, FiniteSets

CONSTANTS
  Tasks, Threads,
  Sizes,                   \* the numbers of threads asked for
  MaxResizes,              \* bound on the calls of setNumThreads, to which one is added by which a
                           \* pool without threads gets some
  Unforeseen               \* the cases that the code does not provide for and that may happen all the same

VARIABLES
  queue, sem,              \* taskQueue_: its items, and the value of its semaphore
  maxThreads, minThreads, activeThreads, threadsToStop, threadsToJoin, isJoin,
  lock,                    \* who holds threadListLock_
  th,                      \* per thread: where it is, and the item it took
  ad,                      \* per task: where the call that adds it is, and its locals
  ctl, resizes,            \* where the controlling thread is and its locals; calls it has made
  ran,                     \* tasks that were run
  checks                   \* no assert or CHECK has failed

vars == <<queue, sem, maxThreads, minThreads, activeThreads, threadsToStop, threadsToJoin, isJoin,
          lock, th, ad, ctl, resizes, ran, checks>>
counts == <<maxThreads, minThreads, activeThreads, threadsToStop, threadsToJoin, isJoin>>

Poison == "poison"
Nothing == "nothing"
Free == "free"
Control == "ctl"
Returned == [pc |-> "done", mayAdd |-> FALSE, n |-> 0]
Idle == [pc |-> "idle", n |-> 0, toPost |-> 0, active |-> 0, final |-> FALSE]

At(k, pc) == th[k].pc = pc
ThreadList == {k \in Threads : th[k].pc \notin {"none", "stopped"}}
Stopped == {k \in Threads : At(k, "stopped")}
Provided(case, condition) == case \notin Unforeseen => condition

\* The constructor runs setNumThreads(max) with the minimum it was given; zero becomes one after that.
Init ==
  /\ queue = << >> /\ sem = 0
  /\ maxThreads \in Sizes \ {0} /\ minThreads \in 1..maxThreads
  /\ activeThreads \in {minThreads} \cup (IF minThreads = 1 THEN {0} ELSE {})
  /\ threadsToStop = 0 /\ threadsToJoin = 0 /\ isJoin = FALSE
  /\ lock = Free
  /\ LET live == CHOOSE S \in SUBSET Threads : Cardinality(S) = activeThreads
     IN th = [k \in Threads |-> [pc |-> IF k \in live THEN "take" ELSE "none", item |-> Nothing]]
  /\ ad = [t \in Tasks |-> [pc |-> "idle", mayAdd |-> FALSE, n |-> 0]]
  /\ ctl = Idle
  /\ resizes = 0 /\ ran = {} /\ checks = TRUE
-----------------------------------------------------------------------------
(***************************************************************************)
(* What the threads share.                                                 *)
(***************************************************************************)
\* sem_.post(): TRUE if it woke a thread, which will take an item.
Post(moved, reused) ==
  LET waiting == {k \in Threads : At(k, "wait")}
  IN /\ reused = (waiting # {})
     /\ IF waiting = {} THEN sem' = sem + 1 /\ th' = moved
        ELSE \E k \in waiting : sem' = sem /\ th' = [moved EXCEPT ![k].pc = "dequeue"]

\* addThreads: the caller holds the lock until the threads have started.  It does not matter which
\* of the threads that do not exist are created, nor which of the stopped ones is joined.
AddThreads(n) ==
  LET new == CHOOSE S \in SUBSET {k \in Threads : At(k, "none")} : Cardinality(S) = n
  IN th' = [k \in Threads |-> IF k \in new THEN [th[k] EXCEPT !.pc = "start"] ELSE th[k]]

Starting == \E k \in Threads : At(k, "start")

\* stoppedThreads_.take() and the join of what it returns.
TakeStopped ==
  /\ Stopped # {}
  /\ th' = [th EXCEPT ![CHOOSE k \in Stopped : TRUE] = [pc |-> "none", item |-> Nothing]]
-----------------------------------------------------------------------------
(***************************************************************************)
(* add(): whether threads may be missing is looked at before the task is   *)
(* queued.  If so the call keeps the pool alive until it has seen to it.   *)
(***************************************************************************)
\* Fault: a pool that may have no threads at all is not considered.
AddCheckActive(t) ==
  /\ ad[t].pc = "idle" /\ ~ctl.final
  /\ ad' = [ad EXCEPT ![t].pc = "enqueue", ![t].mayAdd = activeThreads < maxThreads]
  /\ UNCHANGED <<queue, sem, counts, lock, th, ctl, resizes, ran, checks>>

AddCheck(t) ==
  /\ ad[t].pc = "idle" /\ ~ctl.final
  /\ ad' = [ad EXCEPT ![t].pc = "enqueue",
                      ![t].mayAdd = minThreads = 0 \/ activeThreads < maxThreads]
  /\ UNCHANGED <<queue, sem, counts, lock, th, ctl, resizes, ran, checks>>

AddEnqueue(t) ==
  /\ ad[t].pc = "enqueue"
  /\ queue' = Append(queue, t)
  /\ ad' = [ad EXCEPT ![t].pc = "post"]
  /\ UNCHANGED <<sem, counts, lock, th, ctl, resizes, ran, checks>>

AddPost(t) ==
  /\ ad[t].pc = "post"
  /\ \E reused \in BOOLEAN :
       /\ Post(th, reused)
       /\ ad' = [ad EXCEPT ![t] = IF @.mayAdd /\ ~reused THEN [@ EXCEPT !.pc = "ensureJoined"] ELSE Returned]
  /\ UNCHANGED <<queue, counts, lock, ctl, resizes, ran, checks>>

EnsureJoined(t) ==
  /\ ad[t].pc = "ensureJoined"
  /\ ad' = [ad EXCEPT ![t].pc = IF threadsToJoin = 0 THEN "ensureActive" ELSE "claim"]
  /\ UNCHANGED <<queue, sem, counts, lock, th, ctl, resizes, ran, checks>>

\* Fault: the threads claimed are still noted for joining.
ClaimToJoinKept(t) ==
  /\ ad[t].pc = "claim" /\ lock = Free
  /\ ad' = [ad EXCEPT ![t].pc = "join", ![t].n = threadsToJoin]
  /\ UNCHANGED <<queue, sem, counts, lock, th, ctl, resizes, ran, checks>>

\* The threads to be joined are claimed under the lock, and joined without it.
ClaimToJoin(t) ==
  /\ ad[t].pc = "claim" /\ lock = Free
  /\ ad' = [ad EXCEPT ![t].pc = "join", ![t].n = threadsToJoin]
  /\ threadsToJoin' = 0
  /\ UNCHANGED <<queue, sem, maxThreads, minThreads, activeThreads, threadsToStop, isJoin,
                 lock, th, ctl, resizes, ran, checks>>

JoinClaimed(t) ==
  /\ ad[t].pc = "join"
  /\ IF ad[t].n = 0 THEN ad' = [ad EXCEPT ![t].pc = "ensureActive"] /\ UNCHANGED th
     ELSE ad' = [ad EXCEPT ![t].n = @ - 1] /\ TakeStopped
  /\ UNCHANGED <<queue, sem, counts, lock, ctl, resizes, ran, checks>>

EnsureActive(t) ==
  /\ ad[t].pc = "ensureActive"
  /\ ad' = [ad EXCEPT ![t] = IF activeThreads >= maxThreads THEN Returned
                                   ELSE [@ EXCEPT !.pc = "addThread"]]
  /\ UNCHANGED <<queue, sem, counts, lock, th, ctl, resizes, ran, checks>>

EnsureActiveLocked(t) ==
  /\ ad[t].pc = "addThread" /\ lock = Free
  /\ IF activeThreads >= maxThreads
     THEN ad' = [ad EXCEPT ![t] = Returned] /\ UNCHANGED <<lock, th>>
     ELSE ad' = [ad EXCEPT ![t].pc = "added"] /\ lock' = t /\ AddThreads(1)
  /\ UNCHANGED <<queue, sem, counts, ctl, resizes, ran, checks>>

CountAdded(t) ==
  /\ ad[t].pc = "added" /\ ~Starting
  /\ activeThreads' = activeThreads + 1
  /\ lock' = Free
  /\ ad' = [ad EXCEPT ![t] = Returned]
  /\ UNCHANGED <<queue, sem, maxThreads, minThreads, threadsToStop, threadsToJoin, isJoin,
                 th, ctl, resizes, ran, checks>>
-----------------------------------------------------------------------------
(***************************************************************************)
(* threadRun.                                                              *)
(***************************************************************************)
Go(k, pc) == th' = [th EXCEPT ![k] = [pc |-> pc, item |-> Nothing]]

Start(k) ==
  /\ At(k, "start") /\ Go(k, "take")
  /\ UNCHANGED <<queue, sem, counts, lock, ad, ctl, resizes, ran, checks>>

\* try_take_for: a permit of the semaphore, if there is one or one comes in time, then an item.
TakePermit(k) ==
  /\ At(k, "take")
  /\ IF sem > 0 THEN sem' = sem - 1 /\ Go(k, "dequeue") ELSE sem' = sem /\ Go(k, "wait")
  /\ UNCHANGED <<queue, counts, lock, ad, ctl, resizes, ran, checks>>

TimeOut(k) ==
  /\ At(k, "wait")
  /\ th' = [th EXCEPT ![k] = [pc |-> "shouldStop", item |-> Nothing]]
  /\ UNCHANGED <<queue, sem, counts, lock, ad, ctl, resizes, ran, checks>>

Dequeue(k) ==
  /\ At(k, "dequeue") /\ queue # << >>
  /\ queue' = Tail(queue)
  /\ th' = [th EXCEPT ![k] = [pc |-> IF Head(queue) = Poison THEN "shouldStop" ELSE "run",
                              item |-> Head(queue)]]
  /\ UNCHANGED <<sem, counts, lock, ad, ctl, resizes, ran, checks>>

RunTask(k) ==
  /\ At(k, "run")
  /\ ran' = ran \cup {th[k].item}
  /\ Go(k, "ran")
  /\ UNCHANGED <<queue, sem, counts, lock, ad, ctl, resizes, checks>>

\* Fault: a thread stops after a task even if the pool is being joined.
AfterTaskStop(k) ==
  /\ At(k, "ran")
  /\ Go(k, IF threadsToStop > 0 THEN "stopEarly" ELSE "take")
  /\ UNCHANGED <<queue, sem, counts, lock, ad, ctl, resizes, ran, checks>>

AfterTask(k) ==
  /\ At(k, "ran")
  /\ Go(k, IF threadsToStop > 0 /\ ~isJoin THEN "stopEarly" ELSE "take")
  /\ UNCHANGED <<queue, sem, counts, lock, ad, ctl, resizes, ran, checks>>

\* tryDecrToStop() is true: the thread leaves threadList_ for stoppedThreads_.
DecrToStop(k) ==
  /\ threadsToStop > 0 /\ threadsToStop' = threadsToStop - 1
  /\ Go(k, "stopped")
  /\ UNCHANGED <<queue, sem, maxThreads, minThreads, activeThreads, threadsToJoin, isJoin,
                 lock, ad, ctl, resizes, ran, checks>>

StopEarly(k) ==
  /\ At(k, "stopEarly") /\ lock = Free
  /\ \/ DecrToStop(k)
     \/ /\ threadsToStop = 0 /\ Go(k, "take")
        /\ UNCHANGED <<queue, sem, counts, lock, ad, ctl, resizes, ran, checks>>

\* taskShouldStop, up to the first store of tryTimeoutThread: others see it before the second.
TaskShouldStop(k) ==
  /\ At(k, "shouldStop") /\ lock = Free
  /\ \/ DecrToStop(k)
     \/ /\ threadsToStop = 0
        /\ th[k].item = Poison \/ activeThreads <= minThreads
        /\ Go(k, "take")
        /\ UNCHANGED <<queue, sem, counts, lock, ad, ctl, resizes, ran, checks>>
     \/ /\ threadsToStop = 0 /\ th[k].item = Nothing /\ activeThreads > minThreads
        /\ activeThreads' = activeThreads - 1
        /\ lock' = k /\ Go(k, "timedOut")
        /\ UNCHANGED <<queue, sem, maxThreads, minThreads, threadsToStop, threadsToJoin, isJoin,
                       ad, ctl, resizes, ran, checks>>

\* Fault: the thread is not noted for being joined.
TryTimeoutUnnoted(k) ==
  /\ At(k, "timedOut")
  /\ lock' = Free
  /\ IF queue # << >> THEN Go(k, "take") /\ activeThreads' = activeThreads + 1
     ELSE Go(k, "stopped") /\ UNCHANGED activeThreads
  /\ UNCHANGED <<queue, sem, maxThreads, minThreads, threadsToStop, threadsToJoin, isJoin,
                 ad, ctl, resizes, ran, checks>>

TryTimeoutThread(k) ==
  /\ At(k, "timedOut")
  /\ lock' = Free
  /\ IF queue # << >>
     THEN Go(k, "take") /\ activeThreads' = activeThreads + 1 /\ UNCHANGED threadsToJoin
     ELSE Go(k, "stopped") /\ threadsToJoin' = threadsToJoin + 1 /\ UNCHANGED activeThreads
  /\ UNCHANGED <<queue, sem, maxThreads, minThreads, threadsToStop, isJoin,
                 ad, ctl, resizes, ran, checks>>
-----------------------------------------------------------------------------
(***************************************************************************)
(* setNumThreads, stop and join.                                           *)
(***************************************************************************)
\* How many threads setNumThreads adds, for a maximum of n and a minimum of min.
ToAdd(n, min) ==
  LET wanted == Min({Len(queue), n - activeThreads})
  IN IF activeThreads + wanted < min THEN min - activeThreads ELSE wanted

\* Not provided for: an add() that found threads enough queues its task after the last has gone.
SetNumThreads(n) ==
  LET min == Min({n, minThreads})
      surplus == activeThreads - n
  IN /\ ctl.pc = "idle" /\ lock = Free
     /\ resizes < MaxResizes + (IF maxThreads = 0 /\ n > 0 THEN 1 ELSE 0)
     /\ Provided("emptied during add", n = 0 => \A t \in Tasks : ad[t].pc = "enqueue" => ad[t].mayAdd)
     /\ resizes' = resizes + 1
     /\ maxThreads' = n /\ minThreads' = min
     /\ IF activeThreads > n
        THEN /\ isJoin' = FALSE /\ threadsToStop' = threadsToStop + surplus
             /\ ctl' = [ctl EXCEPT !.pc = "poison", !.n = surplus, !.toPost = surplus, !.active = n]
             /\ checks' = (checks /\ surplus <= activeThreads - min)
             /\ lock' = Control /\ UNCHANGED th
        ELSE IF queue # << >> \/ activeThreads < min
        THEN /\ AddThreads(ToAdd(n, min))
             /\ ctl' = [ctl EXCEPT !.pc = "grow", !.active = activeThreads + ToAdd(n, min)]
             /\ lock' = Control /\ UNCHANGED <<isJoin, threadsToStop, checks>>
        ELSE UNCHANGED <<isJoin, threadsToStop, th, ctl, lock, checks>>
     /\ UNCHANGED <<queue, sem, activeThreads, threadsToJoin, ad, ran>>

Grown ==
  /\ ctl.pc = "grow" /\ ~Starting
  /\ activeThreads' = ctl.active
  /\ lock' = Free /\ ctl' = Idle
  /\ UNCHANGED <<queue, sem, maxThreads, minThreads, threadsToStop, threadsToJoin, isJoin,
                 th, ad, resizes, ran, checks>>

\* stop() or join(), once no add() is under way: those that may add threads keep the pool alive.
\* Two cases the code does not provide for: a thread that is to stop since an earlier resize is
\* still among the threads counted here; and a thread that is about to ask whether to stop, for
\* want of work or because of an earlier resize, is told so before it has taken the tasks left.
StopAndJoinAllThreads(join) ==
  LET n == Cardinality(ThreadList)
  IN /\ ctl.pc = "idle" /\ ~ctl.final /\ lock = Free
     /\ \A t \in Tasks : ad[t].pc \in {"idle", "done"}
     /\ Provided("stopping at join", threadsToStop = 0)
     /\ Provided("asking at join", /\ Poison \notin Range(queue)
                                   /\ \A k \in Threads : th[k].pc \notin {"shouldStop", "stopEarly"})
     /\ maxThreads' = 0 /\ activeThreads' = 0
     /\ isJoin' = join /\ threadsToStop' = threadsToStop + n
     /\ ctl' = [pc |-> "poison", n |-> n, toPost |-> n, active |-> maxThreads, final |-> TRUE]
     /\ lock' = Control
     /\ UNCHANGED <<queue, sem, minThreads, threadsToJoin, th, ad, resizes, ran, checks>>

AddPoison ==
  /\ ctl.pc = "poison" /\ ctl.toPost > 0
  /\ queue' = Append(queue, Poison)
  /\ ctl' = [ctl EXCEPT !.pc = "post", !.toPost = @ - 1]
  /\ UNCHANGED <<sem, counts, lock, th, ad, resizes, ran, checks>>

PostPoison ==
  /\ ctl.pc = "post"
  /\ \E reused \in BOOLEAN : Post(th, reused)
  /\ ctl' = [ctl EXCEPT !.pc = "poison"]
  /\ UNCHANGED <<queue, counts, lock, ad, resizes, ran, checks>>

\* The end of what is done under the lock.
EndPoison ==
  /\ ctl.pc = "poison" /\ ctl.toPost = 0
  /\ lock' = Free
  /\ IF ctl.final
     THEN /\ ctl' = [ctl EXCEPT !.pc = "join", !.n = @ + threadsToJoin]
          /\ threadsToJoin' = 0 /\ UNCHANGED activeThreads
     ELSE /\ ctl' = [ctl EXCEPT !.pc = "join"]
          /\ activeThreads' = ctl.active /\ UNCHANGED threadsToJoin
  /\ UNCHANGED <<queue, sem, maxThreads, minThreads, threadsToStop, isJoin,
                 th, ad, resizes, ran, checks>>

JoinStopped ==
  /\ ctl.pc = "join" /\ ctl.n > 0
  /\ TakeStopped
  /\ ctl' = [ctl EXCEPT !.n = @ - 1]
  /\ UNCHANGED <<queue, sem, counts, lock, ad, resizes, ran, checks>>

\* After the last call: its CHECKs, and those of the destructor.
Joined ==
  /\ ctl.pc = "join" /\ ctl.n = 0
  /\ ctl' = IF ctl.final THEN [ctl EXCEPT !.pc = "done"] ELSE Idle
  /\ checks' = (checks /\ (ctl.final => ThreadList = {} /\ Stopped = {} /\ threadsToStop = 0))
  /\ UNCHANGED <<queue, sem, counts, lock, th, ad, resizes, ran>>
-----------------------------------------------------------------------------
AddStep(t) ==
  \/ AddEnqueue(t) \/ AddPost(t) \/ EnsureJoined(t) \/ ClaimToJoin(t) \/ JoinClaimed(t)
  \/ EnsureActive(t) \/ EnsureActiveLocked(t) \/ CountAdded(t)

ThreadStep(k) ==
  \/ Start(k) \/ TakePermit(k) \/ Dequeue(k) \/ RunTask(k) \/ AfterTask(k)
  \/ StopEarly(k) \/ TaskShouldStop(k) \/ TryTimeoutThread(k)

ControlStep == Grown \/ AddPoison \/ PostPoison \/ EndPoison \/ JoinStopped \/ Joined

Next ==
  \/ \E t \in Tasks : AddCheck(t) \/ AddStep(t)
  \/ \E k \in Threads : ThreadStep(k) \/ TimeOut(k)
  \/ ControlStep
  \/ \E n \in Sizes : SetNumThreads(n)
  \/ \E join \in BOOLEAN : StopAndJoinAllThreads(join)

Spec == Init /\ [][Next]_vars

\* Every thread goes on; nobody has to call anything, and no wait has to time out.
Fairness ==
  /\ \A t \in Tasks : WF_vars(AddStep(t))
  /\ \A k \in Threads : WF_vars(ThreadStep(k))
  /\ WF_vars(ControlStep)

FairSpec == Spec /\ Fairness
-----------------------------------------------------------------------------
(***************************************************************************)
(* Properties.                                                             *)
(***************************************************************************)
Claimed == SumFunction([t \in Tasks |-> ad[t].n])

\* Whenever threadListLock_ is free the counters agree with the threads: activeThreads_ counts the
\* threads that are not about to be stopped, and as many threads have stopped or must stop as
\* somebody joins or has noted for joining; and no CHECK of the shutdown or assert fails.
CountsAgree ==
  /\ checks
  /\ lock = Free /\ ~ctl.final =>
       /\ activeThreads + threadsToStop = Cardinality(ThreadList)
       /\ activeThreads <= maxThreads
       /\ Cardinality(Stopped) + threadsToStop = threadsToJoin + Claimed + ctl.n

\* When join() has returned for a pool that had threads, every task that was added has been run.
JoinRunsAll ==
  ctl.pc = "done" /\ isJoin /\ ctl.active > 0 => \A t \in Tasks : ad[t].pc = "done" => t \in ran

\* A task that was added is run, as long as the pool may have threads: there is no end to the times
\* at which all of those added have been, unless the pool was left without.
EveryTaskRuns == []<>((\A t \in Tasks : ad[t].pc = "done" => t \in ran) \/ maxThreads = 0)

\* Every add(), setNumThreads(), stop() and join() returns: as they are called finitely often, none
\* is under way in the end.
CallsReturn == []<>(ctl.pc \in {"idle", "done"} /\ \A t \in Tasks : ad[t].pc \in {"idle", "done"})
=============================================================================
