------------------------ MODULE StrandExecutorProofs ------------------------
(***************************************************************************)
(* StrandContext hands the responsibility for its queue from thread to     *)
(* thread through a count that lags behind the queue.  The proofs relate   *)
(* the two: the queue holds what the count says, less what the worker has  *)
(* taken out and not yet subtracted, plus what was queued and not yet      *)
(* counted.                                                                *)
(***************************************************************************)
EXTENDS StrandExecutor, FiniteSetTheorems, TLAPS

-----------------------------------------------------------------------------
(* There is at most one owner, and there is one exactly when the count is   *)
(* not zero.                                                                *)
OwnerInv ==
  /\ \A i, j \in Items : apc[i] = "dispatch" /\ apc[j] = "dispatch" => i = j
  /\ \A e, f \in Executors : tasks[e] > 0 /\ tasks[f] > 0 => e = f
  /\ \A k, l \in Workers : w[k].pc # "idle" /\ w[l].pc # "idle" => k = l
  /\ \A i \in Items, e \in Executors : ~(apc[i] = "dispatch" /\ tasks[e] > 0)
  /\ \A i \in Items, k \in Workers : ~(apc[i] = "dispatch" /\ w[k].pc # "idle")
  /\ \A e \in Executors, k \in Workers : ~(tasks[e] > 0 /\ w[k].pc # "idle")
  /\ \A e \in Executors : tasks[e] <= 1
  /\ scheduled = 0 =>
       /\ \A i \in Items : apc[i] # "dispatch"
       /\ \A e \in Executors : tasks[e] = 0
       /\ \A k \in Workers : w[k].pc = "idle"
  /\ scheduled # 0 =>
       \/ \E i \in Items : apc[i] = "dispatch"
       \/ \E e \in Executors : tasks[e] > 0
       \/ \E k \in Workers : w[k].pc # "idle"

(* What worker k has taken out of the queue and not subtracted from the     *)
(* count.                                                                   *)
Inflight(k) ==
  IF w[k].pc = "run" THEN w[k].pendingCount + 1
  ELSE IF w[k].pc = "dispatch" THEN 0
  ELSE w[k].pendingCount

Uncounted == {i \in Items : apc[i] = "count"}

(* How the queue and the count are related. *)
SizeInv ==
  /\ (\A k \in Workers : w[k].pc = "idle") => Len(queue) = Cardinality(Uncounted) + scheduled
  /\ \A k \in Workers : w[k].pc # "idle" =>
       Len(queue) = Cardinality(Uncounted) + scheduled - Inflight(k)

(* The locals of a worker: it knows of no more items than are counted, and  *)
(* has run fewer than it knows of, except when it has to settle.            *)
WorkAt(k) ==
  /\ w[k].pc \in {"dequeue", "run", "peek", "leave"} =>
       w[k].pendingCount < w[k].queueSize /\ w[k].queueSize <= scheduled
  /\ w[k].pc = "settle" =>
       w[k].pendingCount = w[k].queueSize /\ w[k].queueSize <= scheduled
  /\ w[k].pc \in {"run", "settle", "peek"} =>
       w[k].item \in Items /\ w[k].on = executor[w[k].item]
  /\ w[k].pc \in {"dequeue", "run", "settle", "peek"} => w[k].i < MaxBatch

WorkInv == \A k \in Workers : WorkAt(k)

(* A Task, and a worker about to dequeue, are at the executor of the first  *)
(* item.                                                                    *)
FrontInv ==
  /\ \A e \in Executors : tasks[e] > 0 => executor[queue[1]] = e
  /\ \A k \in Workers : w[k].pc = "dequeue" => executor[queue[1]] = w[k].on

(* What was queued is what has run, what runs, and what is in the queue.    *)
OrderInv ==
  /\ \A n \in 1 .. Len(finished) : arrived[n] = finished[n]
  /\ (\A k \in Workers : w[k].pc # "run") =>
       /\ Len(arrived) = Len(finished) + Len(queue)
       /\ \A n \in 1 .. Len(queue) : arrived[Len(finished) + n] = queue[n]
  /\ \A k \in Workers : w[k].pc = "run" =>
       /\ Len(arrived) = Len(finished) + 1 + Len(queue)
       /\ arrived[Len(finished) + 1] = w[k].item
       /\ \A n \in 1 .. Len(queue) : arrived[Len(finished) + 1 + n] = queue[n]

IInv ==
  /\ TypeOK
  /\ OwnerInv
  /\ SizeInv
  /\ WorkInv
  /\ FrontInv
  /\ OrderInv
  /\ dchecks = TRUE
-----------------------------------------------------------------------------
(* The invariant holds initially. *)
LEMMA InitIInv == Init => IInv
<1> SUFFICES ASSUME Init PROVE IInv
  OBVIOUS
<1> USE MaxBatchAssumption DEF Init, Resting
<1>1. TypeOK
  BY DEF TypeOK, WorkerState
<1>2. OwnerInv
  BY DEF OwnerInv
<1>3. SizeInv
  <2>1. Uncounted = {}
    BY DEF Uncounted
  <2> QED BY <2>1, FS_EmptySet DEF SizeInv
<1>4. WorkInv /\ FrontInv /\ OrderInv
  BY DEF WorkInv, WorkAt, FrontInv, OrderInv
<1> QED BY <1>1, <1>2, <1>3, <1>4 DEF IInv

(* The number of items that were queued and not counted is finite, and      *)
(* queueing, or counting, an item changes it by one.                        *)
LEMMA UncountedFinite == IsFiniteSet(Uncounted) /\ Cardinality(Uncounted) \in Nat
<1>1. Uncounted \subseteq Items
  BY DEF Uncounted
<1> QED BY <1>1, ItemsAssumption, FS_Subset, FS_CardinalityType

(* While a worker is in executeNext nobody else owns the strand, the count  *)
(* is not zero, and the queue is as long as that worker expects.            *)
LEMMA Alone ==
  ASSUME IInv, NEW k \in Workers, w[k].pc # "idle"
  PROVE  /\ \A l \in Workers \ {k} : w[l].pc = "idle"
         /\ \A i \in Items : apc[i] # "dispatch"
         /\ \A e \in Executors : tasks[e] = 0
         /\ scheduled > 0
         /\ Len(queue) = Cardinality(Uncounted) + scheduled - Inflight(k)
  BY DEF IInv, OwnerInv, SizeInv, TypeOK

(* What is known of a worker in executeNext, besides Alone. *)
LEMMA Locals ==
  ASSUME IInv, NEW k \in Workers
  PROVE  /\ w[k].pc \in {"idle", "dequeue", "run", "settle", "peek", "leave", "dispatch"}
         /\ w[k].on \in Executors \union {NoExecutor} /\ w[k].item \in Items \union {NoItem}
         /\ w[k].i \in 0 .. MaxBatch /\ w[k].queueSize \in Nat /\ w[k].pendingCount \in Nat
         /\ scheduled \in Nat /\ Len(queue) \in Nat
  BY DEF IInv, TypeOK, WorkerState

(* A worker that is alone after its step is the owner if it goes on, and    *)
(* leaves the strand without owner if it stops with the count at zero.      *)
LEMMA SoleWorker ==
  ASSUME NEW k \in Workers,
         \A l \in Workers \ {k} : w'[l].pc = "idle",
         \A i \in Items : apc'[i] # "dispatch",
         \A e \in Executors : tasks'[e] = 0,
         w'[k].pc = "idle" <=> scheduled' = 0
  PROVE  OwnerInv'
  BY DEF OwnerInv

(* addImpl queues its item. *)
LEMMA StepEnqueue == ASSUME IInv, NEW i \in Items, Enqueue(i) PROVE IInv'
<1> USE DEF Enqueue, IInv
<1>1. TypeOK'
  BY DEF TypeOK
<1>2. OwnerInv'
  BY DEF OwnerInv, TypeOK
<1>3. SizeInv'
  <2>1. Uncounted' = Uncounted \union {i} /\ i \notin Uncounted
    BY DEF Uncounted, TypeOK
  <2>2. Cardinality(Uncounted') = Cardinality(Uncounted) + 1
    BY <2>1, UncountedFinite, FS_AddElement
  <2>3. Len(queue') = Len(queue) + 1
    BY DEF TypeOK
  <2>4. \A k \in Workers : Inflight(k) \in Nat /\ Inflight(k)' = Inflight(k)
    BY Locals DEF Inflight
  <2>5. scheduled \in Nat /\ Len(queue) \in Nat /\ scheduled' = scheduled /\ w' = w
    BY DEF TypeOK
  <2>s. SizeInv
    OBVIOUS
  <2> HIDE DEF Enqueue, IInv
  <2>6. ASSUME \A k \in Workers : w'[k].pc = "idle"
        PROVE  Len(queue') = Cardinality(Uncounted') + scheduled'
    BY <2>s, <2>2, <2>3, <2>5, <2>6, UncountedFinite DEF SizeInv
  <2>7. ASSUME NEW k \in Workers, w'[k].pc # "idle"
        PROVE  Len(queue') = Cardinality(Uncounted') + scheduled' - Inflight(k)'
    <3>1. Len(queue) = Cardinality(Uncounted) + scheduled - Inflight(k)
      BY <2>s, <2>5, <2>7 DEF SizeInv
    <3> QED BY <3>1, <2>2, <2>3, <2>4, <2>5, <2>7, UncountedFinite
  <2> QED BY <2>6, <2>7 DEF SizeInv
<1>4. WorkInv'
  BY DEF WorkInv, WorkAt
<1>5. FrontInv'
  <2>1. queue # << >> => queue'[1] = queue[1]
    BY DEF TypeOK
  <2>2. ASSUME queue = << >> PROVE (\A e \in Executors : tasks[e] = 0) /\ \A k \in Workers : w[k].pc # "dequeue"
    <3>1. Len(queue) = 0
      BY <2>2
    <3>2. (\A k \in Workers : w[k].pc = "idle") => scheduled = 0
      BY <3>1, UncountedFinite DEF SizeInv, TypeOK
    <3>3. \A k \in Workers : w[k].pc # "dequeue"
      <4> SUFFICES ASSUME NEW k \in Workers, w[k].pc = "dequeue" PROVE FALSE
        OBVIOUS
      <4>1. Len(queue) = Cardinality(Uncounted) + scheduled - w[k].pendingCount
        BY Alone DEF Inflight
      <4>2. w[k].pendingCount < scheduled /\ w[k].pendingCount \in Nat /\ scheduled \in Nat
        BY Locals DEF WorkInv, WorkAt
      <4> QED BY <3>1, <4>1, <4>2, UncountedFinite
    <3>4. ASSUME NEW e \in Executors PROVE tasks[e] = 0
      BY <3>2 DEF OwnerInv, TypeOK
    <3> QED BY <3>3, <3>4
  <2> QED BY <2>1, <2>2 DEF FrontInv, TypeOK
<1>6. OrderInv'
  <2>1. /\ Len(arrived') = Len(arrived) + 1 /\ arrived'[Len(arrived) + 1] = i
        /\ \A n \in 1 .. Len(arrived) : arrived'[n] = arrived[n]
        /\ Len(queue') = Len(queue) + 1 /\ queue'[Len(queue) + 1] = i
        /\ \A n \in 1 .. Len(queue) : queue'[n] = queue[n]
        /\ Len(arrived) \in Nat /\ Len(queue) \in Nat /\ Len(finished) \in Nat
        /\ finished' = finished /\ w' = w
    BY DEF TypeOK
  <2>2. Len(finished) <= Len(arrived)
    BY <2>1 DEF OrderInv
  <2>3. \A n \in 1 .. Len(finished') : arrived'[n] = finished'[n]
    BY <2>1, <2>2 DEF OrderInv
  <2>4. ASSUME \A k \in Workers : w'[k].pc # "run"
        PROVE  /\ Len(arrived') = Len(finished') + Len(queue')
               /\ \A n \in 1 .. Len(queue') : arrived'[Len(finished') + n] = queue'[n]
    BY <2>1, <2>4 DEF OrderInv
  <2>5. ASSUME NEW k \in Workers, w'[k].pc = "run"
        PROVE  /\ Len(arrived') = Len(finished') + 1 + Len(queue')
               /\ arrived'[Len(finished') + 1] = w'[k].item
               /\ \A n \in 1 .. Len(queue') : arrived'[Len(finished') + 1 + n] = queue'[n]
    <3>1. /\ Len(arrived) = Len(finished) + 1 + Len(queue)
          /\ arrived[Len(finished) + 1] = w[k].item
          /\ \A n \in 1 .. Len(queue) : arrived[Len(finished) + 1 + n] = queue[n]
      BY <2>1, <2>5 DEF OrderInv
    <3>2. Len(arrived') = Len(finished') + 1 + Len(queue') /\ arrived'[Len(finished') + 1] = w'[k].item
      BY <2>1, <3>1
    <3>3. ASSUME NEW n \in 1 .. Len(queue') PROVE arrived'[Len(finished') + 1 + n] = queue'[n]
      <4>1. CASE n = Len(queue) + 1
        <5>1. Len(finished') + 1 + n = Len(arrived) + 1
          BY <2>1, <3>1, <4>1
        <5> QED BY <2>1, <4>1, <5>1
      <4>2. CASE n \in 1 .. Len(queue)
        <5>1. Len(finished') + 1 + n \in 1 .. Len(arrived)
          BY <2>1, <3>1, <4>2
        <5> QED BY <2>1, <3>1, <4>2, <5>1
      <4>3. n = Len(queue) + 1 \/ n \in 1 .. Len(queue)
        BY <2>1
      <4> QED BY <4>1, <4>2, <4>3
    <3> QED BY <3>2, <3>3
  <2> QED BY <2>3, <2>4, <2>5 DEF OrderInv
<1> QED BY <1>1, <1>2, <1>3, <1>4, <1>5, <1>6

(* addImpl counts its item, and becomes the owner if it counts from zero.   *)
LEMMA StepSchedule == ASSUME IInv, NEW i \in Items, Schedule(i) PROVE IInv'
<1> USE DEF Schedule, IInv
<1>1. TypeOK'
  BY DEF TypeOK
<1>2. OwnerInv'
  BY DEF OwnerInv, TypeOK
<1>3. SizeInv'
  <2>1. Uncounted' = Uncounted \ {i} /\ i \in Uncounted
    BY DEF Uncounted, TypeOK
  <2>2. Cardinality(Uncounted') = Cardinality(Uncounted) - 1
    BY <2>1, UncountedFinite, FS_RemoveElement
  <2>3. \A k \in Workers : Inflight(k) \in Nat /\ Inflight(k)' = Inflight(k)
    BY Locals DEF Inflight
  <2>5. scheduled \in Nat /\ scheduled' = scheduled + 1 /\ queue' = queue /\ w' = w
    BY DEF TypeOK
  <2>s. SizeInv /\ Len(queue) \in Nat
    BY DEF TypeOK
  <2> HIDE DEF Schedule, IInv
  <2>6. ASSUME \A k \in Workers : w'[k].pc = "idle"
        PROVE  Len(queue') = Cardinality(Uncounted') + scheduled'
    BY <2>s, <2>2, <2>5, <2>6, UncountedFinite DEF SizeInv
  <2>7. ASSUME NEW k \in Workers, w'[k].pc # "idle"
        PROVE  Len(queue') = Cardinality(Uncounted') + scheduled' - Inflight(k)'
    <3>1. Len(queue) = Cardinality(Uncounted) + scheduled - Inflight(k)
      BY <2>s, <2>5, <2>7 DEF SizeInv
    <3> QED BY <3>1, <2>2, <2>3, <2>5, <2>7, UncountedFinite
  <2> QED BY <2>6, <2>7 DEF SizeInv
<1>4. WorkInv'
  <2> SUFFICES ASSUME NEW k \in Workers PROVE WorkAt(k)'
    BY DEF WorkInv
  <2>1. WorkAt(k)
    BY DEF WorkInv
  <2> QED BY <2>1, Locals DEF WorkAt
<1>5. FrontInv' /\ OrderInv'
  BY DEF FrontInv, OrderInv
<1> QED BY <1>1, <1>2, <1>3, <1>4, <1>5

(* The adding thread hands the strand to the executor of the first item.    *)
LEMMA StepAddDispatch == ASSUME IInv, NEW i \in Items, AddDispatch(i) PROVE IInv'
<1> USE DEF AddDispatch, DispatchFront, Expect, IInv
<1> DEFINE e == executor[Head(queue)]
<1>0. /\ queue # << >> /\ Head(queue) = queue[1] /\ e \in Executors
      /\ tasks' = [tasks EXCEPT ![e] = @ + 1] /\ tasks[e] = 0
  BY DEF TypeOK, OwnerInv
<1> HIDE DEF e
<1>6. dchecks' = TRUE
  BY <1>0
<1>1. TypeOK'
  BY <1>0, <1>6 DEF TypeOK
<1>2. OwnerInv'
  BY <1>0 DEF OwnerInv, TypeOK
<1>3. SizeInv'
  <2>1. Uncounted' = Uncounted
    BY DEF Uncounted, TypeOK
  <2>2. \A k \in Workers : Inflight(k)' = Inflight(k)
    BY DEF Inflight
  <2> QED BY <2>1, <2>2 DEF SizeInv
<1>4. WorkInv' /\ OrderInv'
  BY DEF WorkInv, WorkAt, OrderInv
<1>5. FrontInv'
  BY <1>0 DEF FrontInv, TypeOK, OwnerInv, e
<1> QED BY <1>1, <1>2, <1>3, <1>4, <1>5, <1>6

(* A worker of the executor takes the Task, and becomes the owner.          *)
LEMMA StepStart == ASSUME IInv, NEW k \in Workers, NEW e \in Executors, Start(k, e) PROVE IInv'
<1> USE DEF Start, Expect, Resting, IInv
<1>0. /\ scheduled # 0 /\ scheduled \in Nat /\ tasks[e] = 1 /\ tasks'[e] = 0
      /\ \A f \in Executors : tasks'[f] = 0
      /\ w'[k] = [pc |-> "dequeue", on |-> e, item |-> NoItem, i |-> 0,
                  queueSize |-> scheduled, pendingCount |-> 0]
      /\ \A l \in Workers \ {k} : w'[l] = w[l] /\ w[l].pc = "idle"
      /\ \A i \in Items : apc[i] # "dispatch"
  <2>1. scheduled # 0 /\ scheduled \in Nat /\ tasks[e] = 1
    BY DEF OwnerInv, TypeOK
  <2>2. \A f \in Executors : tasks'[f] = 0
    BY <2>1 DEF OwnerInv, TypeOK
  <2>3. \A l \in Workers \ {k} : w'[l] = w[l] /\ w[l].pc = "idle"
    BY <2>1 DEF OwnerInv, TypeOK
  <2>4. \A i \in Items : apc[i] # "dispatch"
    BY <2>1 DEF OwnerInv
  <2>5. w'[k] = [pc |-> "dequeue", on |-> e, item |-> NoItem, i |-> 0,
                 queueSize |-> scheduled, pendingCount |-> 0]
    BY DEF TypeOK
  <2> QED BY <2>1, <2>2, <2>3, <2>4, <2>5
<1>7. dchecks' = TRUE
  BY <1>0
<1>1. TypeOK'
  <2>1. w'[k] \in WorkerState
    BY <1>0, MaxBatchAssumption DEF WorkerState
  <2>2. w' \in [Workers -> WorkerState]
    BY <1>0, <2>1 DEF TypeOK
  <2>3. tasks' \in [Executors -> Nat]
    BY <1>0 DEF TypeOK
  <2> QED BY <1>7, <2>2, <2>3 DEF TypeOK
<1>2. OwnerInv'
  BY <1>0 DEF OwnerInv, TypeOK
<1>3. SizeInv'
  <2>1. Uncounted' = Uncounted
    BY DEF Uncounted
  <2>2. Inflight(k)' = 0
    BY <1>0 DEF Inflight
  <2>3. Len(queue) = Cardinality(Uncounted) + scheduled
    BY <1>0 DEF SizeInv
  <2> QED BY <1>0, <2>1, <2>2, <2>3, UncountedFinite DEF SizeInv, TypeOK
<1>4. WorkInv'
  BY <1>0, MaxBatchAssumption DEF WorkInv, WorkAt
<1>5. FrontInv'
  BY <1>0 DEF FrontInv
<1>6. OrderInv'
  BY <1>0 DEF OrderInv
<1> QED BY <1>1, <1>2, <1>3, <1>4, <1>5, <1>6, <1>7

(* A worker takes the first item. *)
LEMMA StepDequeue == ASSUME IInv, NEW k \in Workers, Dequeue(k) PROVE IInv'
<1>i. TypeOK /\ OwnerInv /\ SizeInv /\ WorkInv /\ FrontInv /\ OrderInv /\ dchecks = TRUE
  BY DEF IInv
<1>c. /\ w[k].pc = "dequeue" /\ w[k] \in WorkerState
      /\ w[k].pendingCount < w[k].queueSize /\ w[k].queueSize <= scheduled
      /\ w[k].on = executor[queue[1]] /\ w[k].i < MaxBatch
  BY <1>i DEF Dequeue, TypeOK, WorkInv, WorkAt, FrontInv
<1>a. /\ \A l \in Workers \ {k} : w[l].pc = "idle"
      /\ \A i \in Items : apc[i] # "dispatch"
      /\ \A e \in Executors : tasks[e] = 0
      /\ scheduled > 0
      /\ Len(queue) = Cardinality(Uncounted) + scheduled - w[k].pendingCount
  BY <1>c, Alone DEF Inflight
<1>b. /\ w[k].i \in 0 .. MaxBatch /\ w[k].queueSize \in Nat /\ w[k].pendingCount \in Nat
      /\ scheduled \in Nat /\ Len(queue) \in Nat /\ Cardinality(Uncounted) \in Nat
  BY Locals, UncountedFinite
<1>u. /\ UNCHANGED <<executor, scheduled, apc, tasks, arrived, finished, dchecks>>
      /\ Uncounted' = Uncounted
  BY DEF Dequeue, Uncounted
<1>f. /\ Head(queue) = queue[1] /\ queue[1] \in Items
      /\ Len(queue') = Len(queue) - 1 /\ queue' \in Seq(Items)
      /\ \A n \in 1 .. Len(queue') : queue'[n] = queue[n + 1]
  BY <1>i DEF Dequeue, TypeOK
<1> DEFINE r == [w[k] EXCEPT !.pc = "run", !.item = queue[1]]
<1>d. /\ r \in WorkerState
      /\ r.pc = "run" /\ r.item = queue[1] /\ r.on = w[k].on /\ r.i = w[k].i
      /\ r.queueSize = w[k].queueSize /\ r.pendingCount = w[k].pendingCount
  <2>1. /\ r.pc = "run" /\ r.item = queue[1] /\ r.on = w[k].on /\ r.i = w[k].i
      /\ r.queueSize = w[k].queueSize /\ r.pendingCount = w[k].pendingCount
    BY <1>b, <1>c, <1>f DEF WorkerState, Resting
  <2>2. r \in WorkerState
    BY <1>b, <1>c, <1>f, MaxBatchAssumption DEF WorkerState, Resting
  <2> QED BY <2>1, <2>2
<1>e. /\ w'[k] = r /\ \A l \in Workers \ {k} : w'[l] = w[l]
      /\ w' \in [Workers -> WorkerState]
  <2>1. w' = [w EXCEPT ![k] = r]
    BY <1>i, <1>c, <1>f DEF Dequeue, TypeOK, WorkerState
  <2> HIDE DEF r
  <2> QED BY <2>1, <1>d, <1>i DEF TypeOK
<1> HIDE DEF r
<1>1. TypeOK'
  BY <1>i, <1>u, <1>e, <1>f DEF TypeOK
<1>2. OwnerInv'
  <2>1. \A l \in Workers \ {k} : w'[l].pc = "idle"
    BY <1>a, <1>e
  <2>2. (\A i \in Items : apc'[i] # "dispatch") /\ \A e \in Executors : tasks'[e] = 0
    BY <1>a, <1>u
  <2>3. w'[k].pc = "idle" <=> scheduled' = 0
    BY <1>u, <1>a, <1>b, <1>d, <1>e, <1>f
  <2> QED BY <2>1, <2>2, <2>3, SoleWorker
<1>3. SizeInv'
  <2>1. Inflight(k)' = w[k].pendingCount + 1
    BY <1>c, <1>d, <1>e DEF Inflight
  <2>2. Len(queue') = Cardinality(Uncounted') + scheduled' - Inflight(k)'
    BY <1>a, <1>b, <1>u, <2>1, <1>f
  <2> QED BY <1>a, <1>d, <1>e, <2>2 DEF SizeInv
<1>4. WorkInv'
  <2>1. WorkAt(k)'
    BY <1>u, <1>a, <1>b, <1>c, <1>d, <1>e, <1>f DEF WorkAt
  <2>2. ASSUME NEW l \in Workers \ {k} PROVE WorkAt(l)'
    BY <1>a, <1>e DEF WorkAt
  <2> QED BY <2>1, <2>2 DEF WorkInv
<1>5. FrontInv'
  <2>1. ASSUME NEW l \in Workers, w'[l].pc = "dequeue" PROVE executor'[queue'[1]] = w'[l].on
    BY <2>1, <1>u, <1>a, <1>d, <1>e
  <2>2. \A e \in Executors : tasks'[e] = 0
    BY <1>u, <1>a
  <2> QED BY <2>1, <2>2 DEF FrontInv
<1>6. OrderInv'
  <2>1. \A l \in Workers : w[l].pc # "run"
    BY <1>a, <1>c
  <2>2. \A l \in Workers \ {k} : w'[l].pc # "run"
    BY <1>a, <1>e
  <2>3. /\ Len(arrived) = Len(finished) + Len(queue)
        /\ \A n \in 1 .. Len(queue) : arrived[Len(finished) + n] = queue[n]
        /\ \A n \in 1 .. Len(finished) : arrived[n] = finished[n]
        /\ Len(finished) \in Nat
    BY <1>i, <2>1 DEF OrderInv, TypeOK
  <2>4. Len(arrived') = Len(finished') + 1 + Len(queue')
    BY <1>b, <1>f, <1>u, <2>3
  <2>5. arrived'[Len(finished') + 1] = w'[k].item
    <3>1. 1 \in 1 .. Len(queue)
      BY <1>a, <1>b, <1>c
    <3> QED BY <1>d, <1>e, <1>u, <2>3, <3>1
  <2>6. ASSUME NEW n \in 1 .. Len(queue') PROVE arrived'[Len(finished') + 1 + n] = queue'[n]
    <3>1. n + 1 \in 1 .. Len(queue) /\ Len(finished) + 1 + n = Len(finished) + (n + 1)
      BY <1>b, <1>f, <2>3
    <3> QED BY <1>f, <1>u, <2>3, <3>1
  <2> QED BY <1>d, <1>e, <1>u, <2>2, <2>3, <2>4, <2>5, <2>6 DEF OrderInv
<1> QED BY <1>i, <1>u, <1>1, <1>2, <1>3, <1>4, <1>5, <1>6 DEF IInv

(* The function has been called. *)
LEMMA StepRan == ASSUME IInv, NEW k \in Workers, Ran(k) PROVE IInv'
<1>i. TypeOK /\ OwnerInv /\ SizeInv /\ WorkInv /\ FrontInv /\ OrderInv /\ dchecks = TRUE
  BY DEF IInv
<1>c. /\ w[k].pc = "run" /\ w[k] \in WorkerState
      /\ w[k].pendingCount < w[k].queueSize /\ w[k].queueSize <= scheduled
      /\ w[k].item \in Items /\ w[k].on = executor[w[k].item] /\ w[k].i < MaxBatch
  BY <1>i DEF Ran, TypeOK, WorkInv, WorkAt, FrontInv
<1>a. /\ \A l \in Workers \ {k} : w[l].pc = "idle"
      /\ \A i \in Items : apc[i] # "dispatch"
      /\ \A e \in Executors : tasks[e] = 0
      /\ scheduled > 0
      /\ Len(queue) = Cardinality(Uncounted) + scheduled - (w[k].pendingCount + 1)
  BY <1>c, Alone DEF Inflight
<1>b. /\ w[k].i \in 0 .. MaxBatch /\ w[k].queueSize \in Nat /\ w[k].pendingCount \in Nat
      /\ scheduled \in Nat /\ Len(queue) \in Nat /\ Cardinality(Uncounted) \in Nat
  BY Locals, UncountedFinite
<1>u. /\ UNCHANGED <<executor, queue, scheduled, apc, tasks, arrived, dchecks>>
      /\ Uncounted' = Uncounted
  BY DEF Ran, Uncounted
<1>f. finished' \in Seq(Items) /\ finished' = Append(finished, w[k].item)
  BY <1>i, <1>c DEF Ran, TypeOK
<1> DEFINE p == IF w[k].pendingCount + 1 = w[k].queueSize THEN "settle" ELSE "peek"
<1> DEFINE r == [w[k] EXCEPT !.pendingCount = w[k].pendingCount + 1,
                         !.pc = p]
<1>d. /\ r \in WorkerState
      /\ r.pc = (IF w[k].pendingCount + 1 = w[k].queueSize THEN "settle" ELSE "peek")
      /\ r.item = w[k].item /\ r.on = w[k].on /\ r.i = w[k].i
      /\ r.queueSize = w[k].queueSize /\ r.pendingCount = w[k].pendingCount + 1
  <2>1. /\ r.pc = (IF w[k].pendingCount + 1 = w[k].queueSize THEN "settle" ELSE "peek")
      /\ r.item = w[k].item /\ r.on = w[k].on /\ r.i = w[k].i
      /\ r.queueSize = w[k].queueSize /\ r.pendingCount = w[k].pendingCount + 1
    BY <1>b, <1>c DEF WorkerState, Resting
  <2>2. r \in WorkerState
    <3> DEFINE q == [w[k] EXCEPT !.pendingCount = w[k].pendingCount + 1]
    <3>1. p \in {"settle", "peek"}
      OBVIOUS
    <3>2. q \in WorkerState
      BY <1>b, <1>c, MaxBatchAssumption DEF WorkerState
    <3> HIDE DEF p, q
    <3>3. [q EXCEPT !.pc = p] \in WorkerState
      BY <3>1, <3>2 DEF WorkerState
    <3> QED BY <3>3 DEF q
  <2> QED BY <2>1, <2>2
<1>e. /\ w'[k] = r /\ \A l \in Workers \ {k} : w'[l] = w[l]
      /\ w' \in [Workers -> WorkerState]
  <2>1. w' = [w EXCEPT ![k] = r]
    BY <1>i, <1>c, <1>f DEF Ran, TypeOK, WorkerState
  <2> HIDE DEF r
  <2> QED BY <2>1, <1>d, <1>i DEF TypeOK
<1> HIDE DEF r
<1>1. TypeOK'
  BY <1>i, <1>u, <1>e, <1>f DEF TypeOK
<1>2. OwnerInv'
  <2>1. \A l \in Workers \ {k} : w'[l].pc = "idle"
    BY <1>a, <1>e
  <2>2. (\A i \in Items : apc'[i] # "dispatch") /\ \A e \in Executors : tasks'[e] = 0
    BY <1>a, <1>u
  <2>3. w'[k].pc = "idle" <=> scheduled' = 0
    BY <1>u, <1>a, <1>b, <1>d, <1>e, <1>f
  <2> QED BY <2>1, <2>2, <2>3, SoleWorker
<1>3. SizeInv'
  <2>1. Inflight(k)' = w[k].pendingCount + 1
    BY <1>c, <1>d, <1>e DEF Inflight
  <2>2. Len(queue') = Cardinality(Uncounted') + scheduled' - Inflight(k)'
    BY <1>a, <1>b, <1>u, <2>1, <1>f
  <2> QED BY <1>a, <1>d, <1>e, <2>2 DEF SizeInv
<1>4. WorkInv'
  <2>1. WorkAt(k)'
    <3>1. /\ w'[k].pc = (IF w[k].pendingCount + 1 = w[k].queueSize THEN "settle" ELSE "peek")
          /\ w'[k].item = w[k].item /\ w'[k].on = w[k].on /\ w'[k].i = w[k].i
          /\ w'[k].queueSize = w[k].queueSize /\ w'[k].pendingCount = w[k].pendingCount + 1
          /\ scheduled' = scheduled /\ executor' = executor
      BY <1>d, <1>e, <1>u
    <3>2. CASE w[k].pendingCount + 1 = w[k].queueSize
      BY <3>1, <3>2, <1>c DEF WorkAt
    <3>3. CASE w[k].pendingCount + 1 # w[k].queueSize
      BY <3>1, <3>3, <1>b, <1>c DEF WorkAt
    <3> QED BY <3>2, <3>3
  <2>2. ASSUME NEW l \in Workers \ {k} PROVE WorkAt(l)'
    BY <1>a, <1>e DEF WorkAt
  <2> QED BY <2>1, <2>2 DEF WorkInv
<1>5. FrontInv'
  <2>1. ASSUME NEW l \in Workers, w'[l].pc = "dequeue" PROVE executor'[queue'[1]] = w'[l].on
    BY <2>1, <1>u, <1>a, <1>d, <1>e
  <2>2. \A e \in Executors : tasks'[e] = 0
    BY <1>u, <1>a
  <2> QED BY <2>1, <2>2 DEF FrontInv
<1>6. OrderInv'
  <2>1. \A l \in Workers : w'[l].pc # "run"
    BY <1>a, <1>d, <1>e
  <2>2. /\ Len(arrived) = Len(finished) + 1 + Len(queue)
        /\ arrived[Len(finished) + 1] = w[k].item
        /\ \A n \in 1 .. Len(queue) : arrived[Len(finished) + 1 + n] = queue[n]
        /\ \A n \in 1 .. Len(finished) : arrived[n] = finished[n]
    BY <1>i, <1>c DEF OrderInv
  <2>3. /\ Len(finished') = Len(finished) + 1 /\ finished'[Len(finished) + 1] = w[k].item
        /\ \A n \in 1 .. Len(finished) : finished'[n] = finished[n]
        /\ Len(finished) \in Nat
    BY <1>i, <1>c, <1>f DEF TypeOK
  <2>4. /\ \A n \in 1 .. Len(finished') : arrived'[n] = finished'[n]
        /\ Len(arrived') = Len(finished') + Len(queue')
    BY <1>b, <1>u, <2>2, <2>3
  <2>5. \A n \in 1 .. Len(queue') : arrived'[Len(finished') + n] = queue'[n]
    BY <1>b, <1>u, <2>2, <2>3
  <2> QED BY <2>1, <2>4, <2>5 DEF OrderInv
<1> QED BY <1>i, <1>u, <1>1, <1>2, <1>3, <1>4, <1>5, <1>6 DEF IInv

(* The worker subtracts all the items it knew of, and gives the strand up   *)
(* if the count is zero then.                                               *)
LEMMA StepSettle == ASSUME IInv, NEW k \in Workers, Settle(k) PROVE IInv'
<1>i. TypeOK /\ OwnerInv /\ SizeInv /\ WorkInv /\ FrontInv /\ OrderInv /\ dchecks = TRUE
  BY DEF IInv
<1>c. /\ w[k].pc = "settle" /\ w[k] \in WorkerState
      /\ w[k].pendingCount <= scheduled
      /\ w[k].item \in Items /\ w[k].on = executor[w[k].item] /\ w[k].i < MaxBatch
  BY <1>i DEF Settle, TypeOK, WorkInv, WorkAt, FrontInv
<1>a. /\ \A l \in Workers \ {k} : w[l].pc = "idle"
      /\ \A i \in Items : apc[i] # "dispatch"
      /\ \A e \in Executors : tasks[e] = 0
      /\ scheduled > 0
      /\ Len(queue) = Cardinality(Uncounted) + scheduled - w[k].pendingCount
  BY <1>c, Alone DEF Inflight
<1>b. /\ w[k].i \in 0 .. MaxBatch /\ w[k].queueSize \in Nat /\ w[k].pendingCount \in Nat
      /\ scheduled \in Nat /\ Len(queue) \in Nat /\ Cardinality(Uncounted) \in Nat
  BY Locals, UncountedFinite
<1>u. /\ UNCHANGED <<executor, queue, apc, tasks, arrived, finished, dchecks>>
      /\ Uncounted' = Uncounted
  BY DEF Settle, Uncounted
<1>f. scheduled' = scheduled - w[k].pendingCount /\ scheduled' \in Nat
  BY <1>b, <1>c DEF Settle
<1> DEFINE r == IF scheduled - w[k].pendingCount = 0 THEN Resting
                ELSE [w[k] EXCEPT !.queueSize = scheduled - w[k].pendingCount, !.pendingCount = 0, !.pc = "peek"]
<1>d. /\ r \in WorkerState
      /\ r.pendingCount = 0 /\ r.pc = (IF scheduled' = 0 THEN "idle" ELSE "peek")
      /\ scheduled' # 0 =>
           /\ r.item = w[k].item /\ r.on = w[k].on
           /\ r.i = w[k].i /\ r.queueSize = scheduled'
  <2>1. /\ r.pendingCount = 0 /\ r.pc = (IF scheduled' = 0 THEN "idle" ELSE "peek")
        /\ scheduled' # 0 =>
             /\ r.item = w[k].item /\ r.on = w[k].on
             /\ r.i = w[k].i /\ r.queueSize = scheduled'
    BY <1>b, <1>c, <1>f DEF WorkerState, Resting
  <2>2. r \in WorkerState
    <3>1. CASE scheduled - w[k].pendingCount = 0
      BY <3>1, MaxBatchAssumption DEF WorkerState, Resting
    <3>2. CASE scheduled - w[k].pendingCount # 0
      BY <1>b, <1>c, <1>f, <3>2 DEF WorkerState
    <3> QED BY <3>1, <3>2
  <2> HIDE DEF r
  <2> QED BY <2>1, <2>2
<1>e. /\ w'[k] = r /\ \A l \in Workers \ {k} : w'[l] = w[l]
      /\ w' \in [Workers -> WorkerState]
  <2>1. w' = [w EXCEPT ![k] = r]
    BY <1>i, <1>c, <1>f DEF Settle, TypeOK, WorkerState
  <2> HIDE DEF r
  <2> QED BY <2>1, <1>d, <1>i DEF TypeOK
<1> HIDE DEF r
<1>1. TypeOK'
  BY <1>i, <1>u, <1>e, <1>f DEF TypeOK
<1>2. OwnerInv'
  <2>1. \A l \in Workers \ {k} : w'[l].pc = "idle"
    BY <1>a, <1>e
  <2>2. (\A i \in Items : apc'[i] # "dispatch") /\ \A e \in Executors : tasks'[e] = 0
    BY <1>a, <1>u
  <2>3. w'[k].pc = "idle" <=> scheduled' = 0
    BY <1>u, <1>a, <1>b, <1>d, <1>e, <1>f
  <2> QED BY <2>1, <2>2, <2>3, SoleWorker
<1>3. SizeInv'
  <2>1. Inflight(k)' = 0
    BY <1>c, <1>d, <1>e DEF Inflight
  <2>2. Len(queue') = Cardinality(Uncounted') + scheduled' - Inflight(k)'
    BY <1>a, <1>b, <1>u, <2>1, <1>f
  <2>3. Len(queue') = Cardinality(Uncounted') + scheduled'
    BY <1>b, <1>f, <1>u, <2>1, <2>2
  <2> QED BY <1>a, <1>e, <2>2, <2>3 DEF SizeInv
<1>4. WorkInv'
  <2>1. WorkAt(k)'
    <3>1. /\ w'[k].pendingCount = 0 /\ w'[k].pc = (IF scheduled' = 0 THEN "idle" ELSE "peek")
          /\ scheduled' # 0 =>
               /\ w'[k].item = w[k].item /\ w'[k].on = w[k].on
               /\ w'[k].i = w[k].i /\ w'[k].queueSize = scheduled'
          /\ executor' = executor /\ scheduled' \in Nat
      BY <1>d, <1>e, <1>f, <1>u
    <3>2. CASE scheduled' = 0
      BY <3>1, <3>2 DEF WorkAt
    <3>3. CASE scheduled' # 0
      BY <3>1, <3>3, <1>c DEF WorkAt
    <3> QED BY <3>2, <3>3
  <2>2. ASSUME NEW l \in Workers \ {k} PROVE WorkAt(l)'
    BY <1>a, <1>e DEF WorkAt
  <2> QED BY <2>1, <2>2 DEF WorkInv
<1>5. FrontInv'
  <2>1. ASSUME NEW l \in Workers, w'[l].pc = "dequeue" PROVE executor'[queue'[1]] = w'[l].on
    BY <2>1, <1>u, <1>a, <1>d, <1>e
  <2>2. \A e \in Executors : tasks'[e] = 0
    BY <1>u, <1>a
  <2> QED BY <2>1, <2>2 DEF FrontInv
<1>6. OrderInv'
  <2>1. \A l \in Workers : w[l].pc # "run" /\ w'[l].pc # "run"
    BY <1>a, <1>c, <1>d, <1>e
  <2> QED BY <2>1, <1>i, <1>u DEF OrderInv
<1> QED BY <1>i, <1>u, <1>1, <1>2, <1>3, <1>4, <1>5, <1>6 DEF IInv

(* There is a next item, and the worker goes on with it or not.             *)
LEMMA StepPeek == ASSUME IInv, NEW k \in Workers, Peek(k) PROVE IInv'
<1>i. TypeOK /\ OwnerInv /\ SizeInv /\ WorkInv /\ FrontInv /\ OrderInv /\ dchecks = TRUE
  BY DEF IInv
<1>c. /\ w[k].pc = "peek" /\ w[k] \in WorkerState
      /\ w[k].pendingCount < w[k].queueSize /\ w[k].queueSize <= scheduled
      /\ w[k].item \in Items /\ w[k].on = executor[w[k].item] /\ w[k].i < MaxBatch
  BY <1>i DEF Peek, TypeOK, WorkInv, WorkAt, FrontInv
<1>a. /\ \A l \in Workers \ {k} : w[l].pc = "idle"
      /\ \A i \in Items : apc[i] # "dispatch"
      /\ \A e \in Executors : tasks[e] = 0
      /\ scheduled > 0
      /\ Len(queue) = Cardinality(Uncounted) + scheduled - w[k].pendingCount
  BY <1>c, Alone DEF Inflight
<1>b. /\ w[k].i \in 0 .. MaxBatch /\ w[k].queueSize \in Nat /\ w[k].pendingCount \in Nat
      /\ scheduled \in Nat /\ Len(queue) \in Nat /\ Cardinality(Uncounted) \in Nat
  BY Locals, UncountedFinite
<1>u. /\ UNCHANGED <<executor, queue, scheduled, apc, tasks, arrived, finished>>
      /\ Uncounted' = Uncounted
  BY DEF Peek, Uncounted
<1>f. queue # << >> /\ Head(queue) = queue[1]
  BY <1>i, <1>a, <1>b, <1>c DEF TypeOK
<1>7. dchecks' = TRUE
  BY <1>i, <1>f DEF Peek, Expect
<1> DEFINE p == IF executor[queue[1]] = w[k].on /\ w[k].i + 1 < MaxBatch THEN "dequeue" ELSE "leave"
<1> DEFINE r == [w[k] EXCEPT !.i = w[k].i + 1,
                         !.pc = p]
<1>d. /\ r \in WorkerState
      /\ r.item = w[k].item /\ r.on = w[k].on /\ r.i = w[k].i + 1
      /\ r.queueSize = w[k].queueSize /\ r.pendingCount = w[k].pendingCount
      /\ \/ r.pc = "dequeue" /\ executor[queue[1]] = w[k].on /\ w[k].i + 1 < MaxBatch
         \/ r.pc = "leave"
  <2>1. /\ r.item = w[k].item /\ r.on = w[k].on /\ r.i = w[k].i + 1
      /\ r.queueSize = w[k].queueSize /\ r.pendingCount = w[k].pendingCount
      /\ \/ r.pc = "dequeue" /\ executor[queue[1]] = w[k].on /\ w[k].i + 1 < MaxBatch
         \/ r.pc = "leave"
    BY <1>b, <1>c DEF WorkerState, Resting
  <2>2. r \in WorkerState
    <3> DEFINE q == [w[k] EXCEPT !.i = w[k].i + 1]
    <3>1. p \in {"dequeue", "leave"}
      OBVIOUS
    <3>2. q \in WorkerState
      BY <1>b, <1>c, MaxBatchAssumption DEF WorkerState
    <3> HIDE DEF p, q
    <3>3. [q EXCEPT !.pc = p] \in WorkerState
      BY <3>1, <3>2 DEF WorkerState
    <3> QED BY <3>3 DEF q
  <2> QED BY <2>1, <2>2
<1>e. /\ w'[k] = r /\ \A l \in Workers \ {k} : w'[l] = w[l]
      /\ w' \in [Workers -> WorkerState]
  <2>1. w' = [w EXCEPT ![k] = r]
    BY <1>i, <1>c, <1>f DEF Peek, TypeOK, WorkerState
  <2> HIDE DEF r
  <2> QED BY <2>1, <1>d, <1>i DEF TypeOK
<1> HIDE DEF r
<1>1. TypeOK'
  BY <1>i, <1>u, <1>e, <1>7 DEF TypeOK
<1>2. OwnerInv'
  <2>1. \A l \in Workers \ {k} : w'[l].pc = "idle"
    BY <1>a, <1>e
  <2>2. (\A i \in Items : apc'[i] # "dispatch") /\ \A e \in Executors : tasks'[e] = 0
    BY <1>a, <1>u
  <2>3. w'[k].pc = "idle" <=> scheduled' = 0
    BY <1>u, <1>a, <1>b, <1>d, <1>e
  <2> QED BY <2>1, <2>2, <2>3, SoleWorker
<1>3. SizeInv'
  <2>1. Inflight(k)' = w[k].pendingCount
    BY <1>c, <1>d, <1>e DEF Inflight
  <2>2. Len(queue') = Cardinality(Uncounted') + scheduled' - Inflight(k)'
    BY <1>a, <1>b, <1>u, <2>1, <1>7
  <2> QED BY <1>a, <1>d, <1>e, <2>2 DEF SizeInv
<1>4. WorkInv'
  <2>1. WorkAt(k)'
    BY <1>u, <1>a, <1>b, <1>c, <1>d, <1>e, <1>7 DEF WorkAt
  <2>2. ASSUME NEW l \in Workers \ {k} PROVE WorkAt(l)'
    BY <1>a, <1>e DEF WorkAt
  <2> QED BY <2>1, <2>2 DEF WorkInv
<1>5. FrontInv'
  <2>1. ASSUME NEW l \in Workers, w'[l].pc = "dequeue" PROVE executor'[queue'[1]] = w'[l].on
    BY <2>1, <1>u, <1>a, <1>d, <1>e
  <2>2. \A e \in Executors : tasks'[e] = 0
    BY <1>u, <1>a
  <2> QED BY <2>1, <2>2 DEF FrontInv
<1>6. OrderInv'
  <2>1. \A l \in Workers : w[l].pc # "run" /\ w'[l].pc # "run"
    BY <1>a, <1>c, <1>d, <1>e
  <2> QED BY <2>1, <1>i, <1>u DEF OrderInv
<1> QED BY <1>1, <1>2, <1>3, <1>4, <1>5, <1>6, <1>7 DEF IInv

(* The worker subtracts what it has run, which leaves something on the      *)
(* count.                                                                   *)
LEMMA StepLeave == ASSUME IInv, NEW k \in Workers, Leave(k) PROVE IInv'
<1>i. TypeOK /\ OwnerInv /\ SizeInv /\ WorkInv /\ FrontInv /\ OrderInv /\ dchecks = TRUE
  BY DEF IInv
<1>c. /\ w[k].pc = "leave" /\ w[k] \in WorkerState
      /\ w[k].pendingCount < w[k].queueSize /\ w[k].queueSize <= scheduled
  BY <1>i DEF Leave, TypeOK, WorkInv, WorkAt, FrontInv
<1>a. /\ \A l \in Workers \ {k} : w[l].pc = "idle"
      /\ \A i \in Items : apc[i] # "dispatch"
      /\ \A e \in Executors : tasks[e] = 0
      /\ scheduled > 0
      /\ Len(queue) = Cardinality(Uncounted) + scheduled - w[k].pendingCount
  BY <1>c, Alone DEF Inflight
<1>b. /\ w[k].i \in 0 .. MaxBatch /\ w[k].queueSize \in Nat /\ w[k].pendingCount \in Nat
      /\ scheduled \in Nat /\ Len(queue) \in Nat /\ Cardinality(Uncounted) \in Nat
  BY Locals, UncountedFinite
<1>u. /\ UNCHANGED <<executor, queue, apc, tasks, arrived, finished>>
      /\ Uncounted' = Uncounted
  BY DEF Leave, Uncounted
<1>f. scheduled' = scheduled - w[k].pendingCount /\ scheduled' \in Nat \ {0}
  BY <1>b, <1>c DEF Leave
<1>g. w[k].pendingCount < w[k].queueSize /\ w[k].pendingCount < scheduled
  BY <1>b, <1>c
<1>7. dchecks' = TRUE
  BY <1>i, <1>g DEF Leave, Expect
<1> DEFINE r == [w[k] EXCEPT !.pc = "dispatch"]
<1>d. /\ r \in WorkerState
      /\ r.pc = "dispatch"
  <2>1. /\ r.pc = "dispatch"
    BY <1>b, <1>c DEF WorkerState, Resting
  <2>2. r \in WorkerState
    BY <1>b, <1>c, MaxBatchAssumption DEF WorkerState, Resting
  <2> QED BY <2>1, <2>2
<1>e. /\ w'[k] = r /\ \A l \in Workers \ {k} : w'[l] = w[l]
      /\ w' \in [Workers -> WorkerState]
  <2>1. w' = [w EXCEPT ![k] = r]
    BY <1>i, <1>c, <1>f DEF Leave, TypeOK, WorkerState
  <2> HIDE DEF r
  <2> QED BY <2>1, <1>d, <1>i DEF TypeOK
<1> HIDE DEF r
<1>1. TypeOK'
  BY <1>i, <1>u, <1>e, <1>f, <1>7 DEF TypeOK
<1>2. OwnerInv'
  <2>1. \A l \in Workers \ {k} : w'[l].pc = "idle"
    BY <1>a, <1>e
  <2>2. (\A i \in Items : apc'[i] # "dispatch") /\ \A e \in Executors : tasks'[e] = 0
    BY <1>a, <1>u
  <2>3. w'[k].pc = "idle" <=> scheduled' = 0
    BY <1>u, <1>a, <1>b, <1>d, <1>e, <1>f
  <2> QED BY <2>1, <2>2, <2>3, SoleWorker
<1>3. SizeInv'
  <2>1. Inflight(k)' = 0
    BY <1>c, <1>d, <1>e DEF Inflight
  <2>2. Len(queue') = Cardinality(Uncounted') + scheduled' - Inflight(k)'
    BY <1>a, <1>b, <1>u, <2>1, <1>f, <1>7
  <2> QED BY <1>a, <1>d, <1>e, <2>2 DEF SizeInv
<1>4. WorkInv'
  <2>1. WorkAt(k)'
    BY <1>u, <1>a, <1>b, <1>c, <1>d, <1>e, <1>f, <1>7 DEF WorkAt
  <2>2. ASSUME NEW l \in Workers \ {k} PROVE WorkAt(l)'
    BY <1>a, <1>e DEF WorkAt
  <2> QED BY <2>1, <2>2 DEF WorkInv
<1>5. FrontInv'
  <2>1. ASSUME NEW l \in Workers, w'[l].pc = "dequeue" PROVE executor'[queue'[1]] = w'[l].on
    BY <2>1, <1>u, <1>a, <1>d, <1>e
  <2>2. \A e \in Executors : tasks'[e] = 0
    BY <1>u, <1>a
  <2> QED BY <2>1, <2>2 DEF FrontInv
<1>6. OrderInv'
  <2>1. \A l \in Workers : w[l].pc # "run" /\ w'[l].pc # "run"
    BY <1>a, <1>c, <1>d, <1>e
  <2> QED BY <2>1, <1>i, <1>u DEF OrderInv
<1> QED BY <1>1, <1>2, <1>3, <1>4, <1>5, <1>6, <1>7 DEF IInv

(* The worker hands the strand to the executor of the first item.           *)
LEMMA StepRedispatch == ASSUME IInv, NEW k \in Workers, Redispatch(k) PROVE IInv'
<1>i. TypeOK /\ OwnerInv /\ SizeInv /\ WorkInv /\ FrontInv /\ OrderInv /\ dchecks = TRUE
  BY DEF IInv
<1>c. /\ w[k].pc = "dispatch" /\ w[k] \in WorkerState
  BY <1>i DEF Redispatch, TypeOK, WorkInv, WorkAt, FrontInv
<1>a. /\ \A l \in Workers \ {k} : w[l].pc = "idle"
      /\ \A i \in Items : apc[i] # "dispatch"
      /\ \A e \in Executors : tasks[e] = 0
      /\ scheduled > 0
      /\ Len(queue) = Cardinality(Uncounted) + scheduled - 0
  BY <1>c, Alone DEF Inflight
<1>b. /\ w[k].i \in 0 .. MaxBatch /\ w[k].queueSize \in Nat /\ w[k].pendingCount \in Nat
      /\ scheduled \in Nat /\ Len(queue) \in Nat /\ Cardinality(Uncounted) \in Nat
  BY Locals, UncountedFinite
<1>u. /\ UNCHANGED <<executor, queue, scheduled, apc, arrived, finished>>
      /\ Uncounted' = Uncounted
  BY DEF Redispatch, Uncounted
<1> DEFINE e == executor[queue[1]]
<1>f. /\ queue # << >> /\ Head(queue) = queue[1] /\ e \in Executors
      /\ tasks' = [tasks EXCEPT ![e] = @ + 1]
  BY <1>i DEF Redispatch, DispatchFront, TypeOK
<1>g. /\ tasks'[e] = 1 /\ tasks' \in [Executors -> Nat]
      /\ \A f \in Executors \ {e} : tasks'[f] = 0
  BY <1>i, <1>a, <1>f DEF TypeOK
<1>7. dchecks' = TRUE
  BY <1>i, <1>f DEF Redispatch, Expect
<1> DEFINE r == Resting
<1>d. /\ r \in WorkerState
      /\ r.pc = "idle"
  <2>1. /\ r.pc = "idle"
    BY <1>b, <1>c DEF WorkerState, Resting
  <2>2. r \in WorkerState
    BY <1>b, <1>c, MaxBatchAssumption DEF WorkerState, Resting
  <2> QED BY <2>1, <2>2
<1>e. /\ w'[k] = r /\ \A l \in Workers \ {k} : w'[l] = w[l]
      /\ w' \in [Workers -> WorkerState]
  <2>1. w' = [w EXCEPT ![k] = r]
    BY <1>i, <1>c, <1>f DEF Redispatch, TypeOK, WorkerState
  <2> HIDE DEF r
  <2> QED BY <2>1, <1>d, <1>i DEF TypeOK
<1> HIDE DEF r
<1>1. TypeOK'
  BY <1>i, <1>u, <1>e, <1>g, <1>7 DEF TypeOK
<1>2. OwnerInv'
  <2>1. \A l \in Workers : w'[l].pc = "idle"
    BY <1>a, <1>d, <1>e
  <2>2. \A i \in Items : apc'[i] # "dispatch"
    BY <1>a, <1>u
  <2>3. scheduled' # 0 /\ e \in Executors
    BY <1>a, <1>b, <1>u, <1>f
  <2> HIDE DEF e
  <2>4. \A f \in Executors : tasks'[f] = IF f = e THEN 1 ELSE 0
    BY <1>g
  <2> QED BY <2>1, <2>2, <2>3, <2>4 DEF OwnerInv
<1>3. SizeInv'
  BY <1>u, <1>a, <1>b, <1>d, <1>e DEF SizeInv
<1>4. WorkInv'
  BY <1>a, <1>d, <1>e DEF WorkInv, WorkAt
<1>5. FrontInv'
  <2>1. \A l \in Workers : w'[l].pc = "idle"
    BY <1>a, <1>d, <1>e
  <2>2. executor'[queue'[1]] = e
    BY <1>u
  <2> HIDE DEF e
  <2>3. \A f \in Executors : tasks'[f] > 0 => f = e
    BY <1>g
  <2> QED BY <2>1, <2>2, <2>3 DEF FrontInv
<1>6. OrderInv'
  <2>1. \A l \in Workers : w[l].pc # "run" /\ w'[l].pc # "run"
    BY <1>a, <1>c, <1>d, <1>e
  <2> QED BY <2>1, <1>i, <1>u DEF OrderInv
<1> QED BY <1>1, <1>2, <1>3, <1>4, <1>5, <1>6, <1>7 DEF IInv

(* The invariant is inductive. *)
LEMMA Invariance == Spec => []IInv
<1>1. IInv /\ [Next]_vars => IInv'
  <2> SUFFICES ASSUME IInv, [Next]_vars PROVE IInv'
    OBVIOUS
  <2>1. CASE UNCHANGED vars
    <3>1. TypeOK' /\ OwnerInv' /\ dchecks' = TRUE
      BY <2>1 DEF vars, IInv, TypeOK, OwnerInv
    <3>2. SizeInv'
      <4>1. /\ queue' = queue /\ scheduled' = scheduled /\ w' = w /\ Uncounted' = Uncounted
            /\ \A k \in Workers : Inflight(k)' = Inflight(k)
        BY <2>1 DEF vars, Uncounted, Inflight
      <4>2. SizeInv
        BY DEF IInv
      <4> QED BY <4>1, <4>2 DEF SizeInv
    <3>3. WorkInv' /\ FrontInv'
      BY <2>1 DEF vars, IInv, WorkInv, WorkAt, FrontInv
    <3>4. OrderInv'
      BY <2>1 DEF vars, IInv, OrderInv
    <3> QED BY <3>1, <3>2, <3>3, <3>4 DEF IInv
  <2>2. CASE Next
    BY <2>2, StepEnqueue, StepSchedule, StepAddDispatch, StepStart, StepDequeue, StepRan,
       StepSettle, StepPeek, StepLeave, StepRedispatch DEF Next, Add, ExecuteNext
  <2> QED BY <2>1, <2>2
<1> QED BY InitIInv, <1>1, PTL DEF Spec

(* The variables keep their types. *)
THEOREM TypeCorrect == Spec => []TypeOK
<1>1. IInv => TypeOK
  BY DEF IInv
<1> QED BY Invariance, <1>1, PTL

(* Exactly one thread or Task is responsible for a strand with a count, and *)
(* none for one without: functions are never run at the same time.          *)
THEOREM Ownership == Spec => []OneOwner
<1>1. IInv => OneOwner
  <2> SUFFICES ASSUME IInv PROVE OneOwner
    OBVIOUS
  <2> USE DEF IInv, OwnerInv, TypeOK
  <2>1. Dispatching = {} \/ \E i \in Items : Dispatching = {i} /\ Tasked = {} /\ Active = {}
    BY DEF Dispatching, Tasked, Active
  <2>2. Tasked = {} \/ \E e \in Executors : Tasked = {e} /\ Dispatching = {} /\ Active = {}
    <3>1. ASSUME NEW e \in Executors, tasks[e] > 0
          PROVE  Tasked = {e} /\ Dispatching = {} /\ Active = {}
      BY <3>1 DEF Dispatching, Tasked, Active
    <3> QED BY <3>1 DEF Tasked
  <2>3. Active = {} \/ \E k \in Workers : Active = {k} /\ Tasked = {} /\ Dispatching = {}
    <3>1. ASSUME NEW k \in Workers, w[k].pc # "idle"
          PROVE  Active = {k} /\ Tasked = {} /\ Dispatching = {}
      BY <3>1 DEF Dispatching, Tasked, Active
    <3> QED BY <3>1 DEF Active
  <2>4. scheduled = 0 <=> Dispatching = {} /\ Tasked = {} /\ Active = {}
    BY DEF Dispatching, Tasked, Active
  <2>5. Cardinality({}) = 0 /\ \A x : Cardinality({x}) = 1
    BY FS_EmptySet, FS_Singleton
  <2> HIDE DEF IInv, OwnerInv, TypeOK
  <2>6. Cardinality(Dispatching) + Cardinality(Tasked) + Cardinality(Active)
          = IF scheduled = 0 THEN 0 ELSE 1
    <3>1. CASE scheduled = 0
      BY <3>1, <2>4, <2>5
    <3>2. CASE scheduled # 0 /\ Dispatching # {}
      <4>1. Cardinality(Dispatching) = 1 /\ Tasked = {} /\ Active = {}
        BY <3>2, <2>1, <2>5
      <4> QED BY <3>2, <4>1, <2>5
    <3>3. CASE scheduled # 0 /\ Tasked # {}
      <4>1. Cardinality(Tasked) = 1 /\ Dispatching = {} /\ Active = {}
        BY <3>3, <2>2, <2>5
      <4> QED BY <3>3, <4>1, <2>5
    <3>4. CASE scheduled # 0 /\ Active # {}
      <4>1. Cardinality(Active) = 1 /\ Tasked = {} /\ Dispatching = {}
        BY <3>4, <2>3, <2>5
      <4> QED BY <3>4, <4>1, <2>5
    <3> QED BY <2>4, <3>1, <3>2, <3>3, <3>4
  <2> QED BY <2>6 DEF OneOwner, IInv, OwnerInv
<1> QED BY Invariance, <1>1, PTL

(* Functions end in the order in which they were queued, each on the        *)
(* executor it was added with.                                              *)
THEOREM Order == Spec => []RunAsAdded
<1>1. IInv => RunAsAdded
  <2> SUFFICES ASSUME IInv PROVE RunAsAdded
    OBVIOUS
  <2>1. Len(finished) \in Nat /\ Len(arrived) \in Nat /\ Len(queue) \in Nat
    BY DEF IInv, TypeOK
  <2>2. Len(finished) <= Len(arrived) /\ \A n \in 1 .. Len(finished) : arrived[n] = finished[n]
    BY <2>1 DEF IInv, OrderInv
  <2>3. SubSeq(finished, 1, Len(finished)) = SubSeq(arrived, 1, Len(finished))
    BY <2>1, <2>2 DEF IInv, TypeOK
  <2> QED BY <2>2, <2>3 DEF RunAsAdded, IsPrefix, IInv, WorkInv, WorkAt
<1> QED BY Invariance, <1>1, PTL

(* The DCHECKs of executeNext and dispatchFrontQueueItem hold: the item the *)
(* count promises is in the queue, and the count stays above what has run.  *)
THEOREM ChecksHold == Spec => []DChecksHold
<1>1. IInv => DChecksHold
  BY DEF IInv, DChecksHold
<1> QED BY Invariance, <1>1, PTL
=============================================================================
