--------------------------- MODULE StrandExecutor ---------------------------
(***************************************************************************)
(* StrandContext (folly/executors/StrandExecutor.{h,cpp}): functions added *)
(* through any of the StrandExecutors of a context run one at a time, in   *)
(* the order they were queued, each on the executor it was added with.     *)
(*                                                                         *)
(* Every item is one call of add() or addWithPriority(), by a thread of    *)
(* its own.  The executors are external: add() hands them a Task, and some *)
(* worker runs it at some later time.  An executor that refuses or drops   *)
(* a Task ends the program (~Task) and is left out.                        *)
(***************************************************************************)
EXTENDS Integers, Sequences, SequencesExt, FiniteSets

CONSTANTS
  Items, Executors, Workers,
  MaxBatch                 \* maxItemsToProcessSynchronously

ASSUME MaxBatchAssumption == MaxBatch \in Nat \ {0}
ASSUME ItemsAssumption == IsFiniteSet(Items)

VARIABLES
  executor,                \* per item: QueueItem::executor
  queue, scheduled,        \* queue_ and scheduled_ of the context
  apc,                     \* per item: where the call that adds it is
  tasks,                   \* per executor: the Tasks it has yet to run
  w,                       \* per worker: where it is in executeNext, and its locals
  arrived, finished,       \* the items in the order they were queued, and in which they ended
  dchecks                  \* no DCHECK has failed

vars == <<executor, queue, scheduled, apc, tasks, w, arrived, finished, dchecks>>

NoItem == "no item"
NoExecutor == "no executor"
Resting == [pc |-> "idle", on |-> NoExecutor, item |-> NoItem, i |-> 0, queueSize |-> 0, pendingCount |-> 0]

Init ==
  /\ executor \in [Items -> Executors]
  /\ queue = << >> /\ scheduled = 0
  /\ apc = [i \in Items |-> "idle"]
  /\ tasks = [e \in Executors |-> 0]
  /\ w = [k \in Workers |-> Resting]
  /\ arrived = << >> /\ finished = << >>
  /\ dchecks = TRUE

\* What a DCHECK claims is recorded; the step goes on as the release build does.
Expect(ok) == dchecks' = (dchecks /\ ok)
-----------------------------------------------------------------------------
(***************************************************************************)
(* addImpl: enqueue first, count second.  The thread that counts from zero *)
(* dispatches whatever item is first by then.                              *)
(***************************************************************************)
Enqueue(i) ==
  /\ apc[i] = "idle"
  /\ apc' = [apc EXCEPT ![i] = "count"]
  /\ queue' = Append(queue, i)
  /\ arrived' = Append(arrived, i)
  /\ UNCHANGED <<executor, scheduled, tasks, w, finished, dchecks>>

\* Fault: every call dispatches.
ScheduleAlways(i) ==
  /\ apc[i] = "count"
  /\ scheduled' = scheduled + 1
  /\ apc' = [apc EXCEPT ![i] = "dispatch"]
  /\ UNCHANGED <<executor, queue, tasks, w, arrived, finished, dchecks>>

Schedule(i) ==
  /\ apc[i] = "count"
  /\ scheduled' = scheduled + 1
  /\ apc' = [apc EXCEPT ![i] = IF scheduled = 0 THEN "dispatch" ELSE "done"]
  /\ UNCHANGED <<executor, queue, tasks, w, arrived, finished, dchecks>>

\* dispatchFrontQueueItem: a Task for the executor of the first item.
DispatchFront ==
  /\ queue # << >>
  /\ tasks' = [tasks EXCEPT ![executor[Head(queue)]] = @ + 1]

\* Fault: the item that was added is dispatched, not the first one.
AddDispatchOwn(i) ==
  /\ apc[i] = "dispatch"
  /\ Expect(queue # << >>)
  /\ tasks' = [tasks EXCEPT ![executor[i]] = @ + 1]
  /\ apc' = [apc EXCEPT ![i] = "done"]
  /\ UNCHANGED <<executor, queue, scheduled, w, arrived, finished>>

AddDispatch(i) ==
  /\ apc[i] = "dispatch"
  /\ Expect(queue # << >>)
  /\ DispatchFront
  /\ apc' = [apc EXCEPT ![i] = "done"]
  /\ UNCHANGED <<executor, queue, scheduled, w, arrived, finished>>
-----------------------------------------------------------------------------
(***************************************************************************)
(* executeNext: a worker of executor e runs a Task.                        *)
(***************************************************************************)
Start(k, e) ==
  /\ w[k].pc = "idle"
  /\ tasks[e] > 0
  /\ tasks' = [tasks EXCEPT ![e] = @ - 1]
  /\ w' = [w EXCEPT ![k] = [Resting EXCEPT !.pc = "dequeue", !.on = e, !.queueSize = scheduled]]
  /\ Expect(scheduled # 0)
  /\ UNCHANGED <<executor, queue, scheduled, apc, arrived, finished>>

\* queue_.dequeue() waits for an item; then its function is called.
Dequeue(k) ==
  /\ w[k].pc = "dequeue"
  /\ queue # << >>
  /\ queue' = Tail(queue)
  /\ w' = [w EXCEPT ![k].pc = "run", ![k].item = Head(queue)]
  /\ UNCHANGED <<executor, scheduled, apc, tasks, arrived, finished, dchecks>>

\* The function returned, or threw and that was caught.
Ran(k) ==
  /\ w[k].pc = "run"
  /\ finished' = Append(finished, w[k].item)
  /\ w' = [w EXCEPT ![k].pendingCount = @ + 1,
                    ![k].pc = IF w[k].pendingCount + 1 = w[k].queueSize THEN "settle" ELSE "peek"]
  /\ UNCHANGED <<executor, queue, scheduled, apc, tasks, arrived, dchecks>>

\* All items it knew of have run: take them off the count, and see what was added since.
Settle(k) ==
  /\ w[k].pc = "settle"
  /\ scheduled' = scheduled - w[k].pendingCount
  /\ w' = [w EXCEPT ![k] = IF scheduled' = 0 THEN Resting
                           ELSE [@ EXCEPT !.queueSize = scheduled', !.pendingCount = 0, !.pc = "peek"]]
  /\ UNCHANGED <<executor, queue, apc, tasks, arrived, finished, dchecks>>

\* Go on with the next item, unless it is for another executor or the batch is full.
Peek(k) ==
  LET same == queue # << >> /\ executor[Head(queue)] = executor[w[k].item] IN
  /\ w[k].pc = "peek"
  /\ Expect(queue # << >>)
  /\ w' = [w EXCEPT ![k].i = @ + 1,
                    ![k].pc = IF same /\ w[k].i + 1 < MaxBatch THEN "dequeue" ELSE "leave"]
  /\ UNCHANGED <<executor, queue, scheduled, apc, tasks, arrived, finished>>

\* Fault: the worker leaves without dispatching the items that are left.
LeaveNoDispatch(k) ==
  /\ w[k].pc = "leave"
  /\ Expect(w[k].pendingCount < w[k].queueSize /\ w[k].pendingCount < scheduled)
  /\ scheduled' = scheduled - w[k].pendingCount
  /\ w' = [w EXCEPT ![k] = Resting]
  /\ UNCHANGED <<executor, queue, apc, tasks, arrived, finished>>

\* Take what has run off the count; it does not reach zero.
Leave(k) ==
  /\ w[k].pc = "leave"
  /\ Expect(w[k].pendingCount < w[k].queueSize /\ w[k].pendingCount < scheduled)
  /\ scheduled' = scheduled - w[k].pendingCount
  /\ w' = [w EXCEPT ![k].pc = "dispatch"]
  /\ UNCHANGED <<executor, queue, apc, tasks, arrived, finished>>

Redispatch(k) ==
  /\ w[k].pc = "dispatch"
  /\ Expect(queue # << >>)
  /\ DispatchFront
  /\ w' = [w EXCEPT ![k] = Resting]
  /\ UNCHANGED <<executor, queue, scheduled, apc, arrived, finished>>
-----------------------------------------------------------------------------
Add(i) == Schedule(i) \/ AddDispatch(i)

ExecuteNext(k) == Dequeue(k) \/ Ran(k) \/ Settle(k) \/ Peek(k) \/ Leave(k) \/ Redispatch(k)

Next ==
  \/ \E i \in Items : Enqueue(i) \/ Add(i)
  \/ \E k \in Workers, e \in Executors : Start(k, e)
  \/ \E k \in Workers : ExecuteNext(k)

Spec == Init /\ [][Next]_vars

\* A thread inside add() goes on, executors run the Tasks they were given, functions return.
Fairness ==
  /\ \A i \in Items : WF_vars(Add(i))
  /\ \A e \in Executors : WF_vars(\E k \in Workers : Start(k, e))
  /\ \A k \in Workers : WF_vars(ExecuteNext(k))

FairSpec == Spec /\ Fairness
-----------------------------------------------------------------------------
WorkerState ==
  [pc : {"idle", "dequeue", "run", "settle", "peek", "leave", "dispatch"},
   on : Executors \cup {NoExecutor}, item : Items \cup {NoItem},
   i : 0 .. MaxBatch, queueSize : Nat, pendingCount : Nat]

TypeOK ==
  /\ executor \in [Items -> Executors]
  /\ queue \in Seq(Items) /\ arrived \in Seq(Items) /\ finished \in Seq(Items)
  /\ scheduled \in Nat
  /\ apc \in [Items -> {"idle", "count", "dispatch", "done"}]
  /\ tasks \in [Executors -> Nat]
  /\ w \in [Workers -> WorkerState]
  /\ dchecks \in BOOLEAN

\* Who is responsible for the strand: a thread about to dispatch, a Task or a worker.
Dispatching == {i \in Items : apc[i] = "dispatch"}
Tasked == {e \in Executors : tasks[e] > 0}
Active == {k \in Workers : w[k].pc # "idle"}

\* Exactly one thread or Task is responsible for the strand while the count is not zero, and
\* none while it is: functions never run at the same time, and no item is left without anyone
\* to run it.
OneOwner ==
  /\ \A e \in Executors : tasks[e] <= 1
  /\ Cardinality(Dispatching) + Cardinality(Tasked) + Cardinality(Active)
       = IF scheduled = 0 THEN 0 ELSE 1

\* Functions end in the order in which add() queued them, and each runs on the executor it was
\* added with, also in the middle of a batch and when another thread dispatched it.
RunAsAdded ==
  /\ IsPrefix(finished, arrived)
  /\ \A k \in Workers : w[k].pc = "run" => w[k].on = executor[w[k].item]

\* The DCHECKs of executeNext and dispatchFrontQueueItem hold: the item that the count
\* promises is in the queue, and the count is never taken to zero while items remain.
DChecksHold == dchecks

\* Every function that was added is run in the end.
EveryItemRuns == \A i \in Items : (apc[i] # "idle") ~> (i \in ToSet(finished))
=============================================================================
