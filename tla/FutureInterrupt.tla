-------------------------- MODULE FutureInterrupt --------------------------
(***************************************************************************)
(* The consumer-to-producer interrupt channel of folly futures: the        *)
(* interrupt_ word of CoreBase (futures/detail/Core.h and Core.cpp).       *)
(*                                                                         *)
(* Core 1 belongs to the user's Promise; core c + 1 is made by a           *)
(* continuation on core c, which copies the interrupt handler (the         *)
(* then...() functions of Future-inl.h).  The promise holder calls         *)
(* setInterruptHandler() at most once, any number of threads that hold a   *)
(* future call raise(), and a core is destroyed when nobody refers to it.  *)
(* Each atomic access to interrupt_ is a step of its own.                  *)
(***************************************************************************)
EXTENDS Integers, FiniteSets

CONSTANTS
  NCores,   \* how many cores the chain of continuations makes, one after the other
  Raisers   \* the threads that raise interrupts on them

ASSUME NCoresAssumption == NCores \in Nat \ {0}
ASSUME RaisersFinite == IsFiniteSet(Raisers)

VARIABLES
  made,        \* how many cores of the chain exist or existed
  alive,       \* the cores constructed and not destroyed
  fulfilled,   \* the cores with hasResult()
  interrupt,   \* interrupt[c]: the word, "TerminalHandler" is pointer | Terminal
  handler,     \* the InterruptHandler object: "none", "live", "deleted"
  refCount,    \* its refCount_
  objects,     \* how many heap-allocated exception_wrappers exist
  prod,        \* where the promise holder is in setInterruptHandler()
  copying,     \* what initCopyInterruptHandlerFrom() loaded, "no" outside it
  rpc,         \* rpc[r]: where raiser r is in raise()
  rcore,       \* rcore[r]: the core it is raising on
  handled,     \* handled[c]: invocations of the handler on behalf of core c
  offered,     \* the cores that were given the handler before a result
  raised,      \* the cores on which a raise() found no result
  logicError   \* a terminate_with<logic_error> was reached

coreVars == <<made, alive, fulfilled>>
wordVars == <<interrupt, handler, refCount, objects>>
ghosts   == <<handled, offered, raised, logicError>>
interruptVars == <<made, alive, fulfilled, interrupt, handler, refCount, objects, prod,
                   copying, rpc, rcore, handled, offered, raised, logicError>>

Cores == 1..NCores
InterruptState ==
  {"Initial", "HasHandler", "HasObject", "TerminalHandler", "Terminal"}

(* The core refers to the handler object. *)
HoldsHandler(c) == interrupt[c] \in {"HasHandler", "TerminalHandler"}

InterruptInit ==
  /\ made = 1
  /\ alive = {1}
  /\ fulfilled = {}
  /\ interrupt = [c \in Cores |-> "Initial"]
  /\ handler = "none" /\ refCount = 0 /\ objects = 0
  /\ prod = "start" /\ copying = "no"
  /\ rpc = [r \in Raisers |-> "idle"]
  /\ rcore = [r \in Raisers |-> 1]
  /\ handled = [c \in Cores |-> 0]
  /\ offered = {}
  /\ raised = {}
  /\ logicError = FALSE

-----------------------------------------------------------------------------
(* setInterruptHandler(), on core 1 *)

(* if (hasResult()) return *)
SetCheck ==
  /\ prod = "start"
  /\ prod' = IF 1 \in fulfilled THEN "done" ELSE "load"
  /\ UNCHANGED <<coreVars, wordVars, copying, rpc, rcore, ghosts>>

SetLoad ==
  /\ prod = "load"
  /\ \/ /\ interrupt[1] = "Initial"            \* new handler_type
        /\ prod' = "store"
        /\ handler' = "live" /\ refCount' = 1
        /\ UNCHANGED logicError
     \/ /\ interrupt[1] = "HasObject"
        /\ prod' = "take"
        /\ UNCHANGED <<handler, refCount, logicError>>
     \/ /\ interrupt[1] \notin {"Initial", "HasObject"}
        /\ prod' = "done" /\ logicError' = TRUE
        /\ UNCHANGED <<handler, refCount>>
  /\ UNCHANGED <<coreVars, interrupt, objects, copying, rpc, rcore,
                 handled, offered, raised>>

(* The first exchange: Initial -> handler | HasHandler. *)
SetStore ==
  /\ prod = "store"
  /\ \/ /\ interrupt[1] = "Initial"
        /\ prod' = "done"
        /\ interrupt' = [interrupt EXCEPT ![1] = "HasHandler"]
        /\ offered' = offered \union {1}
        /\ UNCHANGED logicError
     \/ /\ interrupt[1] = "HasObject"          \* lost the race
        /\ prod' = "take"
        /\ UNCHANGED <<interrupt, offered, logicError>>
     \/ /\ interrupt[1] \notin {"Initial", "HasObject"}
        /\ prod' = "done" /\ logicError' = TRUE
        /\ UNCHANGED <<interrupt, offered>>
  /\ UNCHANGED <<coreVars, handler, refCount, objects, copying, rpc, rcore,
                 handled, raised>>

(* The second exchange: object | HasObject -> Terminal. *)
SetTake ==
  /\ prod = "take"
  /\ \/ /\ interrupt[1] = "HasObject"
        /\ interrupt' = [interrupt EXCEPT ![1] = "Terminal"]
        /\ offered' = offered \union {1}
        /\ prod' = "invoke"
        /\ UNCHANGED logicError
     \/ /\ interrupt[1] # "HasObject"
        /\ prod' = "done" /\ logicError' = TRUE
        /\ UNCHANGED <<interrupt, offered>>
  /\ UNCHANGED <<coreVars, handler, refCount, objects, copying, rpc, rcore,
                 handled, raised>>

(* Run the handler, which may fulfil the promise, over the stored object;   *)
(* delete the handler, if one was allocated, and the object.                *)
SetInvoke ==
  /\ prod = "invoke"
  /\ prod' = "done"
  /\ handled' = [handled EXCEPT ![1] = @ + 1]
  /\ fulfilled' \in {fulfilled, fulfilled \union {1}}
  /\ objects' = objects - 1
  /\ IF handler = "live" THEN handler' = "deleted" /\ refCount' = 0
                         ELSE UNCHANGED <<handler, refCount>>
  /\ UNCHANGED <<made, alive, interrupt, copying, rpc, rcore, offered, raised,
                 logicError>>

-----------------------------------------------------------------------------
(* raise() *)

(* if (hasResult()) return *)
Raise(r, c) ==
  /\ rpc[r] = "idle" /\ c \in alive \ fulfilled
  /\ rpc' = [rpc EXCEPT ![r] = "load"]
  /\ rcore' = [rcore EXCEPT ![r] = c]
  /\ raised' = raised \union {c}
  /\ UNCHANGED <<coreVars, wordVars, prod, copying, handled, offered, logicError>>

RaiseLoad(r) ==
  LET i == interrupt[rcore[r]] IN
  /\ rpc[r] = "load"
  /\ rpc' = [rpc EXCEPT ![r] = CASE i = "Initial" -> "store"
                                 [] i = "HasHandler" -> "take"
                                 [] OTHER -> "idle"]
  /\ objects' = IF i = "Initial" THEN objects + 1 ELSE objects
  /\ UNCHANGED <<coreVars, interrupt, handler, refCount, prod, copying, rcore,
                 ghosts>>

(* Fault: a raise that loses the race returns as if it were the second.     *)
RaiseStoreGivesUp(r) ==
  LET c == rcore[r] IN
  /\ rpc[r] = "store"
  /\ rpc' = [rpc EXCEPT ![r] = "idle"]
  /\ \/ /\ interrupt[c] = "Initial"
        /\ interrupt' = [interrupt EXCEPT ![c] = "HasObject"]
        /\ UNCHANGED objects
     \/ /\ interrupt[c] # "Initial"
        /\ objects' = objects - 1
        /\ UNCHANGED interrupt
  /\ UNCHANGED <<coreVars, handler, refCount, prod, copying, rcore, ghosts>>

(* The first exchange: Initial -> object | HasObject.                       *)
RaiseStore(r) ==
  LET c == rcore[r] IN
  /\ rpc[r] = "store"
  /\ \/ /\ interrupt[c] = "Initial"
        /\ interrupt' = [interrupt EXCEPT ![c] = "HasObject"]
        /\ rpc' = [rpc EXCEPT ![r] = "idle"]
        /\ UNCHANGED objects
     \/ /\ interrupt[c] # "Initial"            \* lost the race: delete object
        /\ objects' = objects - 1
        /\ rpc' = [rpc EXCEPT ![r] =
                     IF interrupt[c] = "HasHandler" THEN "take" ELSE "idle"]
        /\ UNCHANGED interrupt
  /\ UNCHANGED <<coreVars, handler, refCount, prod, copying, rcore, ghosts>>

(* The second exchange: handler | HasHandler -> handler | Terminal.         *)
RaiseTake(r) ==
  LET c == rcore[r] IN
  /\ rpc[r] = "take"
  /\ \/ /\ interrupt[c] = "HasHandler"
        /\ interrupt' = [interrupt EXCEPT ![c] = "TerminalHandler"]
        /\ rpc' = [rpc EXCEPT ![r] = "invoke"]
     \/ /\ interrupt[c] # "HasHandler"
        /\ rpc' = [rpc EXCEPT ![r] = "idle"]
        /\ UNCHANGED interrupt
  /\ UNCHANGED <<coreVars, handler, refCount, objects, prod, copying, rcore,
                 ghosts>>

(* handler->handle(e); the handler may fulfil the promise of core 1.        *)
RaiseInvoke(r) ==
  /\ rpc[r] = "invoke"
  /\ rpc' = [rpc EXCEPT ![r] = "idle"]
  /\ handled' = [handled EXCEPT ![rcore[r]] = @ + 1]
  /\ fulfilled' \in {fulfilled, fulfilled \union {1}}
  /\ UNCHANGED <<made, alive, wordVars, prod, copying, rcore, offered, raised,
                 logicError>>

-----------------------------------------------------------------------------
(* A continuation on core made: a new core copies the handler.             *)

CopyLoad ==
  /\ copying = "no" /\ made < NCores /\ made \in alive
  /\ copying' = interrupt[made]
  /\ UNCHANGED <<coreVars, wordVars, prod, rpc, rcore, ghosts>>

(* Fault: the copied handler is not acquired.                               *)
CopyStoreNoAcquire ==
  LET new == made + 1
      has == copying \in {"HasHandler", "TerminalHandler"} IN
  /\ copying # "no"
  /\ copying' = "no"
  /\ made' = new
  /\ alive' = alive \union {new}
  /\ interrupt' = [interrupt EXCEPT ![new] = IF has THEN "HasHandler" ELSE "Initial"]
  /\ offered' = IF has THEN offered \union {new} ELSE offered
  /\ UNCHANGED <<refCount, fulfilled, handler, objects, prod, rpc, rcore, handled,
                 raised, logicError>>

(* handler->acquire() and the store into the new core.                      *)
CopyStore ==
  LET new == made + 1
      has == copying \in {"HasHandler", "TerminalHandler"} IN
  /\ copying # "no"
  /\ copying' = "no"
  /\ made' = new
  /\ alive' = alive \union {new}
  /\ refCount' = IF has THEN refCount + 1 ELSE refCount
  /\ interrupt' = [interrupt EXCEPT ![new] = IF has THEN "HasHandler" ELSE "Initial"]
  /\ offered' = IF has THEN offered \union {new} ELSE offered
  /\ UNCHANGED <<fulfilled, handler, objects, prod, rpc, rcore, handled, raised,
                 logicError>>

-----------------------------------------------------------------------------
(* The promise holder fulfils core 1 outside setInterruptHandler(); a       *)
(* fulfilled core fulfils the next one through its continuation.            *)
Fulfil(c) ==
  /\ c \in alive \ fulfilled
  /\ IF c = 1 THEN prod \in {"start", "done"} ELSE c - 1 \in fulfilled
  /\ fulfilled' = fulfilled \union {c}
  /\ UNCHANGED <<made, alive, wordVars, prod, copying, rpc, rcore, ghosts>>

(* ~CoreBase(), once promise, future and callback have let go of the core.  *)
Destroy(c) ==
  /\ c \in alive \intersect fulfilled
  /\ c = 1 => prod = "done"
  /\ c = made => copying = "no"
  /\ \A r \in Raisers : rpc[r] = "idle" \/ rcore[r] # c
  /\ alive' = alive \ {c}
  /\ refCount' = IF HoldsHandler(c) THEN refCount - 1 ELSE refCount
  /\ handler' = IF HoldsHandler(c) /\ refCount = 1 THEN "deleted" ELSE handler
  /\ objects' = IF interrupt[c] = "HasObject" THEN objects - 1 ELSE objects
  /\ UNCHANGED <<made, fulfilled, interrupt, prod, copying, rpc, rcore, ghosts>>

RaiseStep(r) ==
  RaiseLoad(r) \/ RaiseStore(r) \/ RaiseTake(r) \/ RaiseInvoke(r)

InterruptNext ==
  \/ SetCheck \/ SetLoad \/ SetStore \/ SetTake \/ SetInvoke
  \/ \E r \in Raisers : RaiseStep(r) \/ \E c \in Cores : Raise(r, c)
  \/ CopyLoad \/ CopyStore
  \/ \E c \in Cores : Fulfil(c) \/ Destroy(c)

InterruptSpec == InterruptInit /\ [][InterruptNext]_interruptVars

-----------------------------------------------------------------------------
InterruptTypeOK ==
  /\ made \in Cores
  /\ alive \subseteq Cores
  /\ fulfilled \subseteq Cores
  /\ interrupt \in [Cores -> InterruptState]
  /\ handler \in {"none", "live", "deleted"}
  /\ refCount \in Nat
  /\ objects \in Nat
  /\ prod \in {"start", "load", "store", "take", "invoke", "done"}
  /\ copying \in InterruptState \union {"no"}
  /\ rpc \in [Raisers -> {"idle", "load", "store", "take", "invoke"}]
  /\ rcore \in [Raisers -> Cores]
  /\ handled \in [Cores -> Nat]
  /\ offered \subseteq Cores
  /\ raised \subseteq Cores
  /\ logicError \in BOOLEAN

(* A promise holder that calls setInterruptHandler() once never reaches one *)
(* of its terminate_with<logic_error> calls, whatever raises race with it.  *)
NoLogicError == ~logicError

(* "Has no effect if it was called previously": however many raises race on *)
(* a core, and whichever side wins the exchange, the handler runs for that  *)
(* core at most once.                                                       *)
HandledAtMostOnce == \A c \in Cores : handled[c] <= 1

(* No interrupt is lost: once a core was given the handler and a raise on   *)
(* it found no result, the handler has run for it as soon as no call of     *)
(* either kind is under way on that core.                                   *)
InterruptDelivered ==
  \A c \in Cores :
    /\ c \in offered \intersect raised
    /\ c = 1 => prod = "done"
    /\ \A r \in Raisers : rpc[r] = "idle" \/ rcore[r] # c
    => handled[c] = 1

(* The two together: each interrupt is handled exactly once.                *)
HandledExactlyOnce == HandledAtMostOnce /\ InterruptDelivered

(* The handler object is not invoked, acquired or released once deleted:    *)
(* raise(), the copy of a continuation and ~CoreBase() find it live.        *)
HandlerNotFreed ==
  /\ \A c \in alive : HoldsHandler(c) => handler = "live"
  /\ copying \in {"HasHandler", "TerminalHandler"} => handler = "live"
  /\ \A r \in Raisers : rpc[r] = "invoke" => handler = "live"

(* The exception objects on the heap are the ones the live cores hold and   *)
(* the ones calls in progress will store or delete: none leaks.             *)
NoObjectLeaks ==
  objects = Cardinality({c \in alive : interrupt[c] = "HasObject"})
          + Cardinality({r \in Raisers : rpc[r] = "store"})
          + (IF prod = "invoke" THEN 1 ELSE 0)

(* When the last core of the chain is gone, so is the handler.              *)
NoHandlerLeak ==
  alive = {} /\ copying = "no" => handler # "live"

(* Nothing the interrupt protocol allocates outlives its users: neither an  *)
(* exception object nor the shared handler.                                 *)
NoLeak == NoObjectLeaks /\ NoHandlerLeak

(* What the interrupt protocol allocates lives exactly as long as it is     *)
(* needed: the handler is never used once deleted, nor does it leak.        *)
LivesAsNeeded == HandlerNotFreed /\ NoLeak
=============================================================================
