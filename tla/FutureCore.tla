----------------------------- MODULE FutureCore -----------------------------
(***************************************************************************)
(* The shared state of a Future and a Promise (folly/futures/detail/       *)
(* Core.{h,cpp}): the state word, the two reference counts, the callback,  *)
(* the result, and chains of cores built by setProxy.                      *)
(*                                                                         *)
(* Core c is completed by producer thread c, which either stores a result  *)
(* (a value, or BrokenPromise from the destructor of the Promise) or, when *)
(* c < NCores, proxies c to core c + 1, whose future it owns.  Thread 0 is *)
(* the consumer of core 1: it attaches one continuation, or polls and      *)
(* takes the result, or drops the future.  Thread NCores + 1 is a worker   *)
(* of the executor.  Every thread has an agenda: the atomic operations it  *)
(* still has to perform, each on one core.  The state word, attached_ and  *)
(* callbackReferences_ are read and written one atomic operation at a time.*)
(***************************************************************************)
EXTENDS Integers, Sequences, FiniteSets

CONSTANT NCores    \* length of the longest proxy chain

ASSUME NCoresAssumption == NCores \in Nat \ {0}

VARIABLES
  state,       \* state_ of every core
  attached,    \* attached_
  cbRefs,      \* callbackReferences_
  callback,    \* callback_: "none", "set", or "gone" (moved from or reset)
  executor,    \* executor_: "none", "inline" (add runs its argument) or "pool"
  result,      \* result_: "none", "set", "moved" or "destroyed"
  alive,       \* the cores that have not been deleted
  agenda,      \* per thread, the operations it still has to perform
  idle,        \* the threads that have not yet begun
  queue,       \* functions the pool holds: the core, and the thread that added it
  kind,        \* the executor the consumer chose
  permit,      \* whether the consumer allowed the continuation to run inline
  completing,  \* per core, the executor setResult was told it completes on
  runs,        \* how often the continuation was invoked
  discarded,   \* whether the pool destroyed the continuation without running it
  terminated   \* terminate_unexpected_state was reached

vars == <<state, attached, cbRefs, callback, executor, result, alive, agenda, idle,
          queue, kind, permit, completing, runs, discarded, terminated>>

Cores == 1 .. NCores
Consumer == 0
Worker == NCores + 1
Threads == 0 .. (NCores + 1)

OnlyCallbacks == {"OnlyCallback", "OnlyCallbackAllowInline"}
States == {"Start", "OnlyResult", "Proxy", "Done", "Empty"} \cup OnlyCallbacks
Executors == {"none", "inline", "pool"}
OpNames == {"setCallback", "callbackCAS", "callbackDone", "callbackEmpty",
            "setResult", "resultCAS", "resultDone",
            "setProxy", "proxyCAS", "proxyEmpty",
            "doCallback", "run", "runException", "clear", "deref", "detach",
            "proxyCallback", "take"}
Ops == [op : OpNames, c : Cores, inl : BOOLEAN]

Op(name, c) == [op |-> name, c |-> c, inl |-> FALSE]
OpInl(name, c, inl) == [op |-> name, c |-> c, inl |-> inl]

\* Thread t is about to perform operation name, on core At(t).
Doing(t, name) == ~terminated /\ agenda[t] # << >> /\ Head(agenda[t]).op = name
At(t) == Head(agenda[t]).c
Inl(t) == Head(agenda[t]).inl

\* Thread t has performed its first operation and goes on with ops.
Then(t, ops) == agenda' = [agenda EXCEPT ![t] = ops \o Tail(@)]

\* The core that walkProxyChain reaches from c, and what hasResult says of it.
WalkProxyChain(c) ==
  CHOOSE d \in c .. NCores : state[d] # "Proxy" /\ \A e \in c .. (d - 1) : state[e] = "Proxy"
HasResult(c) == state[WalkProxyChain(c)] \in {"OnlyResult", "Done"}

\* The code calls terminate_unexpected_state (or terminate_with) unless ok.
Expect(ok) == terminated' = ~ok
-----------------------------------------------------------------------------
(***************************************************************************)
(* The last core is either made with a Promise or by makeFuture, with its  *)
(* result in it and no producer.                                           *)
(***************************************************************************)
Init ==
  \E ready \in SUBSET {NCores} :
    /\ state = [c \in Cores |-> IF c \in ready THEN "OnlyResult" ELSE "Start"]
    /\ attached = [c \in Cores |-> IF c \in ready THEN 1 ELSE 2]
    /\ cbRefs = [c \in Cores |-> 0]
    /\ callback = [c \in Cores |-> "none"]
    /\ executor = [c \in Cores |-> "none"]
    /\ result = [c \in Cores |-> IF c \in ready THEN "set" ELSE "none"]
    /\ alive = Cores
    /\ agenda = [t \in Threads |-> << >>]
    /\ idle = (0 .. NCores) \ ready
    /\ queue = {}
    /\ kind = "none"
    /\ permit = FALSE
    /\ completing = [c \in Cores |-> "none"]
    /\ runs = 0
    /\ discarded = FALSE
    /\ terminated = FALSE

Begin(t, ops) ==
  /\ t \in idle
  /\ idle' = idle \ {t}
  /\ agenda' = [agenda EXCEPT ![t] = ops]

(***************************************************************************)
(* Future::then*: setExecutor (done by via), setCallback, and the          *)
(* destructor of the future.                                               *)
(***************************************************************************)
Attach ==
  \E k \in Executors, p \in BOOLEAN :
    /\ Begin(Consumer, <<OpInl("setCallback", 1, p), Op("detach", 1)>>)
    /\ executor' = [executor EXCEPT ![1] = k]
    /\ kind' = k
    /\ permit' = p
    /\ UNCHANGED <<state, attached, cbRefs, callback, result, alive, queue, completing,
                   runs, discarded, terminated>>

\* The consumer polls isReady and then takes the value, or just drops the future.
Poll ==
  /\ \/ Begin(Consumer, <<Op("take", 1), Op("detach", 1)>>)
     \/ Begin(Consumer, <<Op("detach", 1)>>)
  /\ UNCHANGED <<state, attached, cbRefs, callback, executor, result, alive, queue, kind,
                 permit, completing, runs, discarded, terminated>>

(***************************************************************************)
(* Promise::setTry, or the BrokenPromise of coreDetachPromiseMaybeWith-    *)
(* Result, then detachPromise.  The future of core c + 1, which the        *)
(* producer then has no use for, is dropped.                               *)
(***************************************************************************)
Fulfil(c) ==
  \E k \in {"none", "pool"} :
    /\ Begin(c, <<Op("setResult", c), Op("detach", c)>> \o
                  IF c < NCores THEN <<Op("detach", c + 1)>> ELSE << >>)
    /\ completing' = [completing EXCEPT ![c] = k]
    /\ UNCHANGED <<state, attached, cbRefs, callback, executor, result, alive, queue, kind,
                   permit, runs, discarded, terminated>>

\* thenImplementation, when the continuation returned a future: setProxy, which ends
\* with the detachOne of the producer.
Forward(c) ==
  /\ c < NCores
  /\ Begin(c, <<Op("setProxy", c), Op("detach", c)>>)
  /\ UNCHANGED <<state, attached, cbRefs, callback, executor, result, alive, queue, kind,
                 permit, completing, runs, discarded, terminated>>
-----------------------------------------------------------------------------
(***************************************************************************)
(* setCallback_: callback_ is stored and the state word loaded; what it    *)
(* held selects the compare-and-swap that follows.                         *)
(***************************************************************************)
AfterCallbackRead(t, c, seen) ==
  /\ Expect(seen \in {"Start", "OnlyResult", "Proxy"})
  /\ Then(t, <<CASE seen = "Start" -> OpInl("callbackCAS", c, Inl(t))
               [] seen = "Proxy" -> Op("callbackEmpty", c)
               [] OTHER -> Op("callbackDone", c)>>)

SetCallback(t) ==
  LET c == At(t) IN
  /\ Doing(t, "setCallback")
  /\ callback' = [callback EXCEPT ![c] = "set"]
  /\ AfterCallbackRead(t, c, state[c])
  /\ UNCHANGED <<state, attached, cbRefs, executor, result, alive, idle, queue, kind, permit,
                 completing, runs, discarded>>

CallbackCAS(t) ==
  LET c == At(t) IN
  /\ Doing(t, "callbackCAS")
  /\ \/ /\ state[c] = "Start"
        /\ state' = [state EXCEPT ![c] =
                       IF Inl(t) THEN "OnlyCallbackAllowInline" ELSE "OnlyCallback"]
        /\ Then(t, << >>)
        /\ UNCHANGED terminated
     \/ /\ state[c] # "Start"
        /\ AfterCallbackRead(t, c, state[c])
        /\ UNCHANGED state
  /\ UNCHANGED <<attached, cbRefs, callback, executor, result, alive, idle, queue, kind, permit,
                 completing, runs, discarded>>

CallbackDone(t) ==
  LET c == At(t) IN
  /\ Doing(t, "callbackDone")
  /\ Expect(state[c] = "OnlyResult")
  /\ state' = [state EXCEPT ![c] = "Done"]
  /\ Then(t, <<Op("doCallback", c)>>)
  /\ UNCHANGED <<attached, cbRefs, callback, executor, result, alive, idle, queue, kind, permit,
                 completing, runs, discarded>>

\* The prior state is Proxy: proxyCallback is told that inline execution is forbidden.
CallbackEmpty(t) ==
  LET c == At(t) IN
  /\ Doing(t, "callbackEmpty")
  /\ Expect(state[c] = "Proxy")
  /\ state' = [state EXCEPT ![c] = "Empty"]
  /\ Then(t, <<Op("proxyCallback", c)>>)
  /\ UNCHANGED <<attached, cbRefs, callback, executor, result, alive, idle, queue, kind, permit,
                 completing, runs, discarded>>
-----------------------------------------------------------------------------
(***************************************************************************)
(* setResult_: the result has been constructed; the state word decides     *)
(* whether the producer has to start the callback.                         *)
(***************************************************************************)
AfterResultRead(t, c, seen) ==
  /\ Expect(seen \in {"Start"} \cup OnlyCallbacks)
  /\ Then(t, <<Op(IF seen = "Start" THEN "resultCAS" ELSE "resultDone", c)>>)

SetResult(t) ==
  LET c == At(t) IN
  /\ Doing(t, "setResult")
  /\ result' = [result EXCEPT ![c] = "set"]
  /\ AfterResultRead(t, c, state[c])
  /\ UNCHANGED <<state, attached, cbRefs, callback, executor, alive, idle, queue, kind, permit,
                 completing, runs, discarded>>

\* Fault: a failed compare-and-swap is taken for a success.
ResultCASNoRetry(t) ==
  LET c == At(t) IN
  /\ Doing(t, "resultCAS")
  /\ state' = [state EXCEPT ![c] = IF @ = "Start" THEN "OnlyResult" ELSE @]
  /\ Then(t, << >>)
  /\ UNCHANGED <<attached, cbRefs, callback, executor, result, alive, idle, queue, kind, permit,
                 completing, runs, discarded, terminated>>

ResultCAS(t) ==
  LET c == At(t) IN
  /\ Doing(t, "resultCAS")
  /\ \/ /\ state[c] = "Start"
        /\ state' = [state EXCEPT ![c] = "OnlyResult"]
        /\ Then(t, << >>)
        /\ UNCHANGED terminated
     \/ state[c] # "Start" /\ AfterResultRead(t, c, state[c]) /\ UNCHANGED state
  /\ UNCHANGED <<attached, cbRefs, callback, executor, result, alive, idle, queue, kind, permit,
                 completing, runs, discarded>>

ResultDone(t) ==
  LET c == At(t) IN
  /\ Doing(t, "resultDone")
  /\ Expect(state[c] \in OnlyCallbacks)
  /\ state' = [state EXCEPT ![c] = "Done"]
  /\ Then(t, <<OpInl("doCallback", c, state[c] = "OnlyCallbackAllowInline")>>)
  /\ UNCHANGED <<attached, cbRefs, callback, executor, result, alive, idle, queue, kind, permit,
                 completing, runs, discarded>>

(***************************************************************************)
(* setProxy_: proxy_ is set to core c + 1.                                 *)
(***************************************************************************)
AfterProxyRead(t, c, seen) ==
  /\ Expect(seen \in {"Start"} \cup OnlyCallbacks)
  /\ Then(t, <<Op(IF seen = "Start" THEN "proxyCAS" ELSE "proxyEmpty", c)>>)

SetProxy(t) ==
  LET c == At(t) IN
  /\ Doing(t, "setProxy")
  /\ AfterProxyRead(t, c, state[c])
  /\ UNCHANGED <<state, attached, cbRefs, callback, executor, result, alive, idle, queue, kind,
                 permit, completing, runs, discarded>>

ProxyCAS(t) ==
  LET c == At(t) IN
  /\ Doing(t, "proxyCAS")
  /\ \/ /\ state[c] = "Start"
        /\ state' = [state EXCEPT ![c] = "Proxy"]
        /\ Then(t, << >>)
        /\ UNCHANGED terminated
     \/ state[c] # "Start" /\ AfterProxyRead(t, c, state[c]) /\ UNCHANGED state
  /\ UNCHANGED <<attached, cbRefs, callback, executor, result, alive, idle, queue, kind, permit,
                 completing, runs, discarded>>

ProxyEmpty(t) ==
  LET c == At(t) IN
  /\ Doing(t, "proxyEmpty")
  /\ Expect(state[c] \in OnlyCallbacks)
  /\ state' = [state EXCEPT ![c] = "Empty"]
  /\ Then(t, <<OpInl("proxyCallback", c, state[c] = "OnlyCallbackAllowInline")>>)
  /\ UNCHANGED <<attached, cbRefs, callback, executor, result, alive, idle, queue, kind, permit,
                 completing, runs, discarded>>

(***************************************************************************)
(* proxyCallback: executor and callback move to core c + 1, whose future   *)
(* reference is then given up; afterwards core c is touched once more.     *)
(***************************************************************************)
\* Fault: the future of the proxy is given up before the callback has moved there.
ProxyCallbackDetachFirst(t) ==
  LET c == At(t) IN
  /\ Doing(t, "proxyCallback")
  /\ executor' = [executor EXCEPT ![c + 1] = executor[c], ![c] = "none"]
  /\ callback' = [callback EXCEPT ![c] = "gone"]
  /\ Then(t, <<Op("detach", c + 1), OpInl("setCallback", c + 1, Inl(t)), Op("clear", c)>>)
  /\ UNCHANGED <<state, attached, cbRefs, result, alive, idle, queue, kind, permit, completing,
                 runs, discarded, terminated>>

\* Fault: the proxy is always told that inline execution is permitted.
ProxyCallbackPermits(t) ==
  LET c == At(t) IN
  /\ Doing(t, "proxyCallback")
  /\ executor' = [executor EXCEPT ![c + 1] = executor[c], ![c] = "none"]
  /\ callback' = [callback EXCEPT ![c] = "gone"]
  /\ Then(t, <<OpInl("setCallback", c + 1, TRUE), Op("detach", c + 1), Op("clear", c)>>)
  /\ UNCHANGED <<state, attached, cbRefs, result, alive, idle, queue, kind, permit, completing,
                 runs, discarded, terminated>>

ProxyCallback(t) ==
  LET c == At(t) IN
  /\ Doing(t, "proxyCallback")
  /\ executor' = [executor EXCEPT ![c + 1] = executor[c], ![c] = "none"]
  /\ callback' = [callback EXCEPT ![c] = "gone"]
  /\ Then(t, <<OpInl("setCallback", c + 1, Inl(t)), Op("detach", c + 1), Op("clear", c)>>)
  /\ UNCHANGED <<state, attached, cbRefs, result, alive, idle, queue, kind, permit, completing,
                 runs, discarded, terminated>>
-----------------------------------------------------------------------------
\* The destructor of a CoreAndCallbackReference.
Release(c) == <<Op("deref", c), Op("detach", c)>>

(***************************************************************************)
(* doCallback.  With an executor two CoreAndCallbackReferences are made,   *)
(* one for this scope and one for the function given to the executor.  The *)
(* function runs at once (the executor is the completing one, and inline   *)
(* execution is permitted; or add itself runs it), or is queued, or add    *)
(* throws: it is destroyed and the callback is called with the exception.  *)
(***************************************************************************)
AddInline(t, c) ==
  /\ executor[c] = "inline" \/ (Inl(t) /\ executor[c] = completing[c])
  /\ Then(t, <<Op("run", c)>> \o Release(c) \o Release(c))
  /\ UNCHANGED queue

AddQueued(t, c) ==
  /\ executor[c] = "pool" /\ ~(Inl(t) /\ executor[c] = completing[c])
  /\ queue' = queue \cup {[c |-> c, by |-> t]}
  /\ Then(t, Release(c))

AddThrows(t, c) ==
  /\ executor[c] = "pool" /\ ~(Inl(t) /\ executor[c] = completing[c])
  /\ Then(t, Release(c) \o <<Op("runException", c)>> \o Release(c))
  /\ UNCHANGED queue

DoCallback(t) ==
  LET c == At(t) IN
  /\ Doing(t, "doCallback")
  /\ \/ /\ executor[c] # "none"
        /\ attached' = [attached EXCEPT ![c] = @ + 2]
        /\ cbRefs' = [cbRefs EXCEPT ![c] = @ + 2]
        /\ AddInline(t, c) \/ AddQueued(t, c) \/ AddThrows(t, c)
     \/ /\ executor[c] = "none"
        /\ attached' = [attached EXCEPT ![c] = @ + 1]
        /\ Then(t, <<Op("run", c), Op("clear", c), Op("detach", c)>>)
        /\ UNCHANGED <<cbRefs, queue>>
  /\ executor' = [executor EXCEPT ![c] = "none"]
  /\ UNCHANGED <<state, callback, result, alive, idle, kind, permit, completing, runs,
                 discarded, terminated>>

\* callback_ is invoked and moves the result out; with an exception in its place if add threw.
Run(t) ==
  /\ Doing(t, "run") \/ Doing(t, "runException")
  /\ runs' = runs + 1
  /\ result' = [result EXCEPT ![At(t)] = "moved"]
  /\ Then(t, << >>)
  /\ UNCHANGED <<state, attached, cbRefs, callback, executor, alive, idle, queue, kind, permit,
                 completing, discarded, terminated>>

\* callback_ = {}, after the callback without an executor and at the end of proxyCallback.
Clear(t) ==
  /\ Doing(t, "clear")
  /\ callback' = [callback EXCEPT ![At(t)] = "gone"]
  /\ Then(t, << >>)
  /\ UNCHANGED <<state, attached, cbRefs, executor, result, alive, idle, queue, kind, permit,
                 completing, runs, discarded, terminated>>

\* Fault: the first reference given up resets the callback.
DerefEager(t) ==
  LET c == At(t) IN
  /\ Doing(t, "deref")
  /\ cbRefs' = [cbRefs EXCEPT ![c] = @ - 1]
  /\ callback' = [callback EXCEPT ![c] = "gone"]
  /\ Then(t, << >>)
  /\ UNCHANGED <<state, attached, executor, result, alive, idle, queue, kind, permit,
                 completing, runs, discarded, terminated>>

\* derefCallback: the last reference resets the callback.
Deref(t) ==
  LET c == At(t) IN
  /\ Doing(t, "deref")
  /\ cbRefs' = [cbRefs EXCEPT ![c] = @ - 1]
  /\ callback' = [callback EXCEPT ![c] = IF cbRefs[c] = 1 THEN "gone" ELSE @]
  /\ Then(t, << >>)
  /\ UNCHANGED <<state, attached, executor, result, alive, idle, queue, kind, permit,
                 completing, runs, discarded, terminated>>

(***************************************************************************)
(* detachOne, and what the last one does: ~Core and destroyDerived.  A     *)
(* core that still is a proxy gives up the future of the next core.        *)
(***************************************************************************)
Delete(t, c) ==
  /\ alive' = alive \ {c}
  /\ Expect(state[c] \in {"OnlyResult", "Done", "Proxy", "Empty"})
  /\ result' = [result EXCEPT ![c] = IF state[c] \in {"OnlyResult", "Done"}
                                     THEN "destroyed" ELSE @]
  /\ Then(t, IF state[c] = "Proxy" THEN <<Op("detach", c + 1)>> ELSE << >>)

Detach(t) ==
  LET c == At(t) IN
  /\ Doing(t, "detach")
  /\ attached' = [attached EXCEPT ![c] = @ - 1]
  /\ \/ attached[c] = 1 /\ Delete(t, c)
     \/ attached[c] # 1 /\ Then(t, << >>) /\ UNCHANGED <<alive, result, terminated>>
  /\ UNCHANGED <<state, cbRefs, callback, executor, idle, queue, kind, permit, completing, runs,
                 discarded>>

\* isReady has returned true; the value is moved out of the core the proxy chain ends in.
Take(t) ==
  LET c == At(t) IN
  /\ Doing(t, "take")
  /\ HasResult(c)
  /\ result' = [result EXCEPT ![WalkProxyChain(c)] = "moved"]
  /\ Then(t, << >>)
  /\ UNCHANGED <<state, attached, cbRefs, callback, executor, alive, idle, queue, kind, permit,
                 completing, runs, discarded, terminated>>

(***************************************************************************)
(* The executor runs a function it was given, or destroys it without       *)
(* running it.                                                             *)
(***************************************************************************)
Execute(q) ==
  /\ agenda[Worker] = << >>
  /\ q \in queue
  /\ queue' = queue \ {q}
  /\ \/ agenda' = [agenda EXCEPT ![Worker] = <<Op("run", q.c)>> \o Release(q.c)]
        /\ UNCHANGED discarded
     \/ agenda' = [agenda EXCEPT ![Worker] = Release(q.c)] /\ discarded' = TRUE
  /\ UNCHANGED <<state, attached, cbRefs, callback, executor, result, alive, idle, kind, permit,
                 completing, runs, terminated>>

Step(t) ==
  \/ SetCallback(t)
  \/ CallbackCAS(t)
  \/ CallbackDone(t)
  \/ CallbackEmpty(t)
  \/ SetResult(t)
  \/ ResultCAS(t)
  \/ ResultDone(t)
  \/ SetProxy(t)
  \/ ProxyCAS(t)
  \/ ProxyEmpty(t)
  \/ ProxyCallback(t)
  \/ DoCallback(t)
  \/ Run(t)
  \/ Clear(t)
  \/ Deref(t)
  \/ Detach(t)
  \/ Take(t)

Next ==
  \/ Attach
  \/ Poll
  \/ \E c \in Cores : Fulfil(c) \/ Forward(c)
  \/ \E t \in Threads : Step(t)
  \/ \E q \in queue : Execute(q)

Spec == Init /\ [][Next]_vars

(***************************************************************************)
(* Threads are scheduled, every Promise and Future is eventually fulfilled *)
(* or destroyed, and the executor eventually disposes of its functions.    *)
(***************************************************************************)
FairSpec ==
  /\ Spec
  /\ WF_vars(Attach \/ Poll)
  /\ \A c \in Cores : WF_vars(Fulfil(c) \/ Forward(c))
  /\ \A t \in Threads : WF_vars(Step(t))
  /\ WF_vars(\E q \in queue : Execute(q))
-----------------------------------------------------------------------------
(***************************************************************************)
(* attached_ and callbackReferences_ are unsigned chars and never exceed   *)
(* the two initial references plus those of one doCallback.                *)
(***************************************************************************)
TypeOK ==
  /\ state \in [Cores -> States]
  /\ attached \in [Cores -> 0 .. 4]
  /\ cbRefs \in [Cores -> 0 .. 2]
  /\ callback \in [Cores -> {"none", "set", "gone"}]
  /\ executor \in [Cores -> Executors]
  /\ result \in [Cores -> {"none", "set", "moved", "destroyed"}]
  /\ alive \subseteq Cores
  /\ agenda \in [Threads -> Seq(Ops)]
  /\ idle \subseteq Threads
  /\ queue \subseteq [c : Cores, by : Threads]
  /\ kind \in Executors
  /\ permit \in BOOLEAN
  /\ completing \in [Cores -> Executors]
  /\ runs \in Nat
  /\ discarded \in BOOLEAN
  /\ terminated \in BOOLEAN

\* No thread operates on a deleted core: whatever the order in which the future, the
\* promise, the executor's function, the scope of doCallback and a proxy let go of a core,
\* attached_ keeps it alive until the last of them is done.
NoUseAfterFree ==
  /\ \A t \in Threads : agenda[t] # << >> => At(t) \in alive
  /\ \A q \in queue : q.c \in alive

\* The continuation is invoked at most once, and when it is about to be, callback_ of the
\* core it is read from still holds it and result_ holds a value nobody has moved out.  Nor is
\* terminate_unexpected_state reached ("setCallback", "setResult", "~Core unexpected state").
InvokedOnceWithResult ==
  /\ ~terminated
  /\ runs <= 1
  /\ \A t \in Threads : (Doing(t, "run") \/ Doing(t, "runException")) =>
       /\ runs = 0
       /\ callback[At(t)] = "set"
       /\ result[At(t)] = "set"

\* A continuation meant for a pool runs outside the pool's worker only if the consumer
\* permitted it and the producer completed the future on that very pool; a proxy never
\* turns a forbidden inline execution into a permitted one.
InlineOnlyIfPermitted ==
  \A t \in Threads \ {Worker} : Doing(t, "run") /\ kind = "pool" =>
    permit /\ completing[At(t)] = "pool"

\* When no thread has anything left to do, every core has been deleted, and the
\* continuation, run or not, was destroyed with all references to it.
NothingLeaks ==
  idle = {} /\ queue = {} /\ (\A t \in Threads : agenda[t] = << >>) =>
    /\ alive = {}
    /\ \A c \in Cores : cbRefs[c] = 0 /\ callback[c] # "set"

\* Cores live exactly as long as somebody may use them.
FreedOnTime == NoUseAfterFree /\ NothingLeaks

\* An attached continuation is eventually invoked, unless the executor it was given to
\* discards it: no interleaving of setCallback, setResult and setProxy loses it.
ContinuationSettles ==
  (callback[1] = "set") ~> (runs = 1 \/ discarded)

\* The documented promise of thenInline (Future.h: "will run the continuation inline if the
\* executor the previous task completes on matches the executor the next is to be enqueued
\* on to"): a producer completing on the consumer's pool never queues an inline continuation.
InlineHonoured ==
  ~ \E q \in queue : permit /\ kind = "pool" /\ q.by = q.c /\ completing[q.c] = "pool"
=============================================================================
