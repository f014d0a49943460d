-------------------------- MODULE DeferredExecutor --------------------------
(***************************************************************************)
(* folly::futures::detail::DeferredExecutor (futures/detail/Core.h and     *)
(* Core.cpp): the executor of a SemiFuture, which keeps a function until   *)
(* the consumer names the executor to run it on, or lets go of it.         *)
(*                                                                         *)
(* The consumer thread owns the executor Root and calls setExecutor() or   *)
(* detach() on it once; the call visits the nested executors first.  Each  *)
(* deferred executor has a producer thread that calls addFrom(), the next  *)
(* call only when the previous function is gone, because it is the         *)
(* continuation of that function (SemiFuture::defer in Future-inl.h).      *)
(***************************************************************************)
EXTENDS Integers

CONSTANTS
  Execs,     \* the deferred executors of one tree
  Root,      \* the one the consumer holds
  Nested,    \* Nested[e]: the executors in nestedExecutors_ of e
  MaxAdds    \* a bound on the calls of addFrom() of each producer

ASSUME TreeAssumption == Root \in Execs /\ Nested \in [Execs -> SUBSET Execs]
ASSUME MaxAddsAssumption == MaxAdds \in Nat

VARIABLES
  state,      \* state[e]: state_
  func,       \* func[e]: the function in func_, by number, 0 when null
  executor,   \* the deferred executors whose executor_ is set
  mode,       \* what the consumer does: "own", "set", "setInline", "detach"
  cpc, cur,   \* where the consumer is in the call, and on which executor
  visited,    \* the executors the consumer has finished with
  ppc,        \* ppc[e]: where the producer of e is in addFrom()
  arg,        \* arg[e]: the function the producer holds, 0 for none
  added,      \* added[e]: how many functions were given to addFrom()
  queue,      \* the functions <<e, k>> in the queue of the real executor
  ran,        \* ran[e]: the functions that were run, by number
  dropped,    \* dropped[e]: the functions that were destroyed without running
  reran,      \* a function was run, or run and destroyed, twice
  terminated  \* terminate_unexpected_state was reached

vars == <<state, func, executor, mode, cpc, cur, visited, ppc, arg, added, queue,
          ran, dropped, reran, terminated>>
consumer == <<mode, cpc, cur, visited>>
producer == <<ppc, arg, added>>
fates    == <<ran, dropped, reran>>

State == {"EMPTY", "HAS_FUNCTION", "HAS_EXECUTOR", "DETACHED"}
Numbers == 1..MaxAdds

Init ==
  /\ state = [e \in Execs |-> "EMPTY"]
  /\ func = [e \in Execs |-> 0]
  /\ executor = {}
  /\ mode = "own" /\ cpc = "idle" /\ cur = Root /\ visited = {}
  /\ ppc = [e \in Execs |-> "idle"]
  /\ arg = [e \in Execs |-> 0]
  /\ added = [e \in Execs |-> 0]
  /\ queue = {}
  /\ ran = [e \in Execs |-> {}]
  /\ dropped = [e \in Execs |-> {}]
  /\ reran = FALSE /\ terminated = FALSE

(* The function k of executor e reaches its end: it runs, or is destroyed. *)
Finish(e, k, how) ==
  /\ reran' = (reran \/ k \in ran[e] \union dropped[e])
  /\ ran' = IF how = "run" THEN [ran EXCEPT ![e] = @ \union {k}] ELSE ran
  /\ dropped' = IF how = "drop" THEN [dropped EXCEPT ![e] = @ \union {k}] ELSE dropped

(* executor_.copy().add(f), where add() may throw and destroy f. *)
Enqueue(e, k) ==
  \/ queue' = queue \union {<<e, k>>} /\ UNCHANGED fates
  \/ Finish(e, k, "drop") /\ UNCHANGED queue

(* Fault: after running the function inline, it is added as well. *)
AddWithInlineBoth(e, k) ==
  \/ Finish(e, k, "run") /\ queue' = queue \union {<<e, k>>}
  \/ Enqueue(e, k)

(* addWithInline: run here if completingKA is the stored executor. *)
AddWithInline(e, k) ==
  \/ Finish(e, k, "run") /\ UNCHANGED queue
  \/ Enqueue(e, k)

-----------------------------------------------------------------------------
(* addFrom(), by the producer of e *)

Settled(e, k) == k \in ran[e] \union dropped[e]

AddFrom(e) ==
  /\ ppc[e] = "idle" /\ added[e] < MaxAdds
  /\ \A k \in 1..added[e] : Settled(e, k)
  /\ added' = [added EXCEPT ![e] = @ + 1]
  /\ arg' = [arg EXCEPT ![e] = added[e] + 1]
  /\ ppc' = [ppc EXCEPT ![e] = "load"]
  /\ UNCHANGED <<state, func, executor, consumer, queue, fates, terminated>>

AddLoad(e) ==
  LET k == arg[e] IN
  /\ ppc[e] = "load"
  /\ \/ /\ state[e] = "DETACHED"
        /\ Finish(e, k, "drop")
        /\ arg' = [arg EXCEPT ![e] = 0]
        /\ ppc' = [ppc EXCEPT ![e] = "idle"]
        /\ UNCHANGED <<queue, terminated>>
     \/ /\ state[e] = "HAS_EXECUTOR"
        /\ AddWithInline(e, k)
        /\ arg' = [arg EXCEPT ![e] = 0]
        /\ ppc' = [ppc EXCEPT ![e] = "idle"]
        /\ UNCHANGED terminated
     \/ /\ state[e] = "EMPTY"
        /\ ppc' = [ppc EXCEPT ![e] = "store"]
        /\ UNCHANGED <<arg, queue, fates, terminated>>
     \/ /\ state[e] = "HAS_FUNCTION"
        /\ terminated' = TRUE
        /\ ppc' = [ppc EXCEPT ![e] = "dead"]
        /\ UNCHANGED <<arg, queue, fates>>
  /\ UNCHANGED <<state, func, executor, consumer, added>>

(* func_ = std::move(func) *)
AddStore(e) ==
  /\ ppc[e] = "store"
  /\ func' = [func EXCEPT ![e] = arg[e]]
  /\ arg' = [arg EXCEPT ![e] = 0]
  /\ ppc' = [ppc EXCEPT ![e] = "cas"]
  /\ UNCHANGED <<state, executor, consumer, added, queue, fates, terminated>>

(* Fault: a failed exchange is taken to mean that the consumer detached. *)
AddCASNoRetry(e) ==
  LET k == func[e] IN
  /\ ppc[e] = "cas"
  /\ \/ /\ state[e] = "EMPTY"
        /\ state' = [state EXCEPT ![e] = "HAS_FUNCTION"]
        /\ UNCHANGED <<func, fates>>
     \/ /\ state[e] = "DETACHED"
        /\ func' = [func EXCEPT ![e] = 0]
        /\ Finish(e, k, "drop")
        /\ UNCHANGED state
     \/ /\ state[e] = "HAS_EXECUTOR"
        /\ UNCHANGED <<state, func, fates>>
  /\ ppc' = [ppc EXCEPT ![e] = "idle"]
  /\ UNCHANGED <<executor, consumer, arg, added, queue, terminated>>

(* The exchange EMPTY -> HAS_FUNCTION, and what to do when it fails. *)
AddCAS(e) ==
  LET k == func[e] IN
  /\ ppc[e] = "cas"
  /\ \/ /\ state[e] = "EMPTY"
        /\ state' = [state EXCEPT ![e] = "HAS_FUNCTION"]
        /\ ppc' = [ppc EXCEPT ![e] = "idle"]
        /\ UNCHANGED <<func, queue, fates, terminated>>
     \/ /\ state[e] = "DETACHED"
        /\ func' = [func EXCEPT ![e] = 0]
        /\ Finish(e, k, "drop")
        /\ ppc' = [ppc EXCEPT ![e] = "idle"]
        /\ UNCHANGED <<state, queue, terminated>>
     \/ /\ state[e] = "HAS_EXECUTOR"
        /\ func' = [func EXCEPT ![e] = 0]
        /\ AddWithInline(e, k)
        /\ ppc' = [ppc EXCEPT ![e] = "idle"]
        /\ UNCHANGED <<state, terminated>>
     \/ /\ state[e] = "HAS_FUNCTION"
        /\ terminated' = TRUE
        /\ ppc' = [ppc EXCEPT ![e] = "dead"]
        /\ UNCHANGED <<state, func, queue, fates>>
  /\ UNCHANGED <<executor, consumer, arg, added>>

-----------------------------------------------------------------------------
(* setExecutor() and detach(), by the consumer *)

Begin(m) ==
  /\ mode = "own"
  /\ mode' = m
  /\ UNCHANGED <<state, func, executor, cpc, cur, visited, producer, queue, fates,
                 terminated>>

(* The consumer turns to e, once it is done with the executors nested in e; *)
(* setExecutor() stores executor_ before it looks at the state.             *)
Visit(e) ==
  /\ mode # "own" /\ cpc = "idle"
  /\ e \notin visited /\ Nested[e] \subseteq visited
  /\ cur' = e /\ cpc' = "load"
  /\ executor' = IF mode = "detach" THEN executor ELSE executor \union {e}
  /\ UNCHANGED <<state, func, mode, visited, producer, queue, fates, terminated>>

Target == IF mode = "detach" THEN "DETACHED" ELSE "HAS_EXECUTOR"

(* How the consumer goes on from a state it read or failed to exchange. *)
AfterRead(s) ==
  /\ cpc' = CASE s = "EMPTY" -> "casEmpty" [] s = "HAS_FUNCTION" -> "casFunc"
              [] OTHER -> "dead"
  /\ terminated' = (terminated \/ s \notin {"EMPTY", "HAS_FUNCTION"})

ConsLoad ==
  /\ cpc = "load"
  /\ AfterRead(state[cur])
  /\ UNCHANGED <<state, func, executor, mode, cur, visited, producer, queue, fates>>

(* Fault: the consumer looks for a function in func_, not in the state. *)
ConsCASEmptyPeeks ==
  /\ cpc = "casEmpty"
  /\ \/ /\ state[cur] = "EMPTY"
        /\ state' = [state EXCEPT ![cur] = Target]
        /\ IF func[cur] # 0 THEN cpc' = "take" /\ UNCHANGED visited
                            ELSE cpc' = "idle" /\ visited' = visited \union {cur}
        /\ UNCHANGED terminated
     \/ /\ state[cur] # "EMPTY"
        /\ AfterRead(state[cur])
        /\ UNCHANGED <<state, visited>>
  /\ UNCHANGED <<func, executor, mode, cur, producer, queue, fates>>

(* The exchange EMPTY -> HAS_EXECUTOR or DETACHED. *)
ConsCASEmpty ==
  /\ cpc = "casEmpty"
  /\ \/ /\ state[cur] = "EMPTY"
        /\ state' = [state EXCEPT ![cur] = Target]
        /\ cpc' = "idle" /\ visited' = visited \union {cur}
        /\ UNCHANGED terminated
     \/ /\ state[cur] # "EMPTY"
        /\ AfterRead(state[cur])
        /\ UNCHANGED <<state, visited>>
  /\ UNCHANGED <<func, executor, mode, cur, producer, queue, fates>>

(* The exchange HAS_FUNCTION -> HAS_EXECUTOR or DETACHED. *)
ConsCASFunc ==
  /\ cpc = "casFunc"
  /\ \/ /\ state[cur] = "HAS_FUNCTION"
        /\ state' = [state EXCEPT ![cur] = Target]
        /\ cpc' = "take"
        /\ UNCHANGED terminated
     \/ /\ state[cur] # "HAS_FUNCTION"
        /\ cpc' = "dead" /\ terminated' = TRUE
        /\ UNCHANGED state
  /\ UNCHANGED <<func, executor, mode, cur, visited, producer, queue, fates>>

(* The function is taken out of func_ and run, added or destroyed; only the *)
(* outermost call of setExecutor() can be inlineUnsafe.  Here add() does    *)
(* not throw (DeferredThrow.tla is about what happens if it does).          *)
ConsTake ==
  /\ cpc = "take"
  /\ \/ /\ mode = "detach"
        /\ Finish(cur, func[cur], "drop") /\ UNCHANGED queue
     \/ /\ mode = "setInline" /\ cur = Root
        /\ Finish(cur, func[cur], "run") /\ UNCHANGED queue
     \/ /\ mode = "set" \/ (mode = "setInline" /\ cur # Root)
        /\ queue' = queue \union {<<cur, func[cur]>>} /\ UNCHANGED fates
  /\ func' = [func EXCEPT ![cur] = 0]
  /\ cpc' = "idle" /\ visited' = visited \union {cur}
  /\ UNCHANGED <<state, executor, mode, cur, producer, terminated>>

-----------------------------------------------------------------------------
(* The real executor runs what is in its queue, or discards it. *)
Execute(e, k) ==
  /\ <<e, k>> \in queue
  /\ queue' = queue \ {<<e, k>>}
  /\ Finish(e, k, "run") \/ Finish(e, k, "drop")
  /\ UNCHANGED <<state, func, executor, consumer, producer, terminated>>

ProducerStep(e) == AddLoad(e) \/ AddStore(e) \/ AddCAS(e)
ConsumerStep ==
  (\E e \in Execs : Visit(e)) \/ ConsLoad \/ ConsCASEmpty \/ ConsCASFunc \/ ConsTake

Next ==
  \/ \E e \in Execs : AddFrom(e) \/ ProducerStep(e)
  \/ \E m \in {"set", "setInline", "detach"} : Begin(m)
  \/ ConsumerStep
  \/ \E e \in Execs, k \in Numbers : Execute(e, k)

Spec == Init /\ [][Next]_vars

(* A call of addFrom(), setExecutor() or detach() does not block, and the   *)
(* real executor gets to every function in its queue.                       *)
Fairness ==
  /\ WF_vars(ConsumerStep)
  /\ \A e \in Execs : WF_vars(ProducerStep(e))
  /\ \A e \in Execs, k \in Numbers : WF_vars(Execute(e, k))

FairSpec == Spec /\ Fairness

-----------------------------------------------------------------------------
TypeOK ==
  /\ state \in [Execs -> State]
  /\ func \in [Execs -> Numbers \union {0}]
  /\ executor \subseteq Execs
  /\ mode \in {"own", "set", "setInline", "detach"}
  /\ cpc \in {"idle", "load", "casEmpty", "casFunc", "take", "dead"}
  /\ cur \in Execs
  /\ visited \subseteq Execs
  /\ ppc \in [Execs -> {"idle", "load", "store", "cas", "dead"}]
  /\ arg \in [Execs -> Numbers \union {0}]
  /\ added \in [Execs -> Numbers \union {0}]
  /\ queue \subseteq Execs \X Numbers
  /\ ran \in [Execs -> SUBSET Numbers]
  /\ dropped \in [Execs -> SUBSET Numbers]
  /\ reran \in BOOLEAN
  /\ terminated \in BOOLEAN

(* Whatever exchange loses its race, neither addFrom() nor setExecutor()    *)
(* nor detach() meets a state it calls unexpected.                          *)
NoTerminate == ~terminated

(* A function that was run or destroyed is never run or destroyed again:    *)
(* only one of producer, consumer and real executor ever gets hold of it.   *)
RunAtMostOnce == ~reran

(* func_ is a plain member: the producer touches it from the store until    *)
(* its exchange is settled, the consumer once it has exchanged away         *)
(* HAS_FUNCTION; the two never overlap, and what the consumer takes is a    *)
(* function.                                                                *)
FuncExclusive ==
  cpc = "take" => ppc[cur] \notin {"store", "cas"} /\ func[cur] # 0

(* executor_ is a plain member too: a producer reads it only in state       *)
(* HAS_EXECUTOR, when it has been written, and the consumer, which writes   *)
(* it before it leaves EMPTY or HAS_FUNCTION, no longer writes it.          *)
ExecutorPublished ==
  \A e \in Execs :
    state[e] = "HAS_EXECUTOR" => e \in executor /\ ~(cpc = "load" /\ cur = e)

(* Both plain members are used by one thread at a time, and only when set.  *)
MembersExclusive == FuncExclusive /\ ExecutorPublished

(* A detached executor never runs a function. *)
DetachedNeverRuns == mode = "detach" => queue = {} /\ \A e \in Execs : ran[e] = {}

(* Once the consumer has named an executor or detached, every function ever *)
(* added, before, during or after that call, is run or destroyed.           *)
EveryFunctionSettles ==
  \A e \in Execs, k \in Numbers :
    (mode # "own" /\ k <= added[e]) ~> Settled(e, k)
=============================================================================
