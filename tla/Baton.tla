-------------------------------- MODULE Baton --------------------------------
(***************************************************************************)
(* folly::Baton (folly/synchronization/Baton.h): one word state_ shared by *)
(* one waiting thread and, in each lifetime, one posting thread.  A        *)
(* lifetime runs from construction or reset() to the next reset().         *)
(*                                                                         *)
(* One action is one atomic access of state_ or one futex call.  A poster  *)
(* that has stored LATE_DELIVERY still has its futexWake to make; by then  *)
(* the waiter may have returned and reset the Baton, so the wake can reach *)
(* a later lifetime.  That is why there are several posters.               *)
(***************************************************************************)
EXTENDS Naturals

CONSTANT Posters   \* threads that may call post()

VARIABLES
  MayBlock,   \* the template parameter, fixed at the start: FALSE is spin-only
  state,      \* state_
  waiter,     \* where the waiting thread is in wait()
  timed,      \* the wait has a deadline (try_wait_for, try_wait_until)
  ret,        \* what the finished wait returned
  poster,     \* where each posting thread is in post()
  called,     \* post() has been called in this lifetime
  delivered   \* history: a post of this lifetime has stored EARLY_ or LATE_DELIVERY

batonVars == <<MayBlock, state, waiter, timed, ret, poster, called, delivered>>

States == {"INIT", "EARLY_DELIVERY", "WAITING", "LATE_DELIVERY", "TIMED_OUT"}

WaiterPC == {"idle", "spin", "cas", "futex", "asleep", "woken", "timeout", "done"}

PosterPC == {"idle", "load", "cas", "store", "wake"}

\* p may still read or write state_.
InPost(p) == poster[p] \in {"load", "cas", "store"}

ready == state \in {"EARLY_DELIVERY", "LATE_DELIVERY"}

BatonInit ==
  /\ MayBlock \in BOOLEAN
  /\ state = "INIT"
  /\ waiter = "idle"
  /\ timed = FALSE
  /\ ret = FALSE
  /\ poster = [p \in Posters |-> "idle"]
  /\ called = FALSE
  /\ delivered = FALSE

-----------------------------------------------------------------------------
(* post() *)

\* The caller's contract: at most one post() in a lifetime.
Post(p) ==
  /\ ~called
  /\ poster[p] = "idle"
  /\ called' = TRUE
  /\ poster' = [poster EXCEPT ![p] = IF MayBlock THEN "load" ELSE "store"]
  /\ UNCHANGED <<MayBlock, state, waiter, timed, ret, delivered>>

\* What the value of state_ that post() has just read makes it do next.
AfterRead(s) ==
  CASE s = "INIT"      -> "cas"
    [] s = "TIMED_OUT" -> "idle"
    [] OTHER           -> "store"

PostLoad(p) ==
  /\ poster[p] = "load"
  /\ poster' = [poster EXCEPT ![p] = AfterRead(state)]
  /\ UNCHANGED <<MayBlock, state, waiter, timed, ret, called, delivered>>

\* Fault: after delivering, post() looks at state_ once more.
PostCASRechecks(p) ==
  /\ poster[p] = "cas"
  /\ \/ /\ state = "INIT"
        /\ state' = "EARLY_DELIVERY"
        /\ delivered' = TRUE
        /\ poster' = [poster EXCEPT ![p] = "load"]
     \/ /\ state # "INIT"
        /\ poster' = [poster EXCEPT ![p] = AfterRead(state)]
        /\ UNCHANGED <<state, delivered>>
  /\ UNCHANGED <<MayBlock, waiter, timed, ret, called>>


PostCAS(p) ==
  /\ poster[p] = "cas"
  /\ \/ /\ state = "INIT"
        /\ state' = "EARLY_DELIVERY"
        /\ delivered' = TRUE
        /\ poster' = [poster EXCEPT ![p] = "idle"]
     \/ /\ state # "INIT"
        /\ poster' = [poster EXCEPT ![p] = AfterRead(state)]
        /\ UNCHANGED <<state, delivered>>
  /\ UNCHANGED <<MayBlock, waiter, timed, ret, called>>

\* The spin-only Baton stores EARLY_DELIVERY and has no sleeper to wake.
PostStore(p) ==
  /\ poster[p] = "store"
  /\ state' = IF MayBlock THEN "LATE_DELIVERY" ELSE "EARLY_DELIVERY"
  /\ poster' = [poster EXCEPT ![p] = IF MayBlock THEN "wake" ELSE "idle"]
  /\ delivered' = TRUE
  /\ UNCHANGED <<MayBlock, waiter, timed, ret, called>>

\* Fault: the wake is dropped.
PostNoWake(p) ==
  /\ poster[p] = "wake"
  /\ poster' = [poster EXCEPT ![p] = "idle"]
  /\ UNCHANGED <<MayBlock, state, waiter, timed, ret, called, delivered>>

\* futexWake(&state_, 1) uses only the address.
PostWake(p) ==
  /\ poster[p] = "wake"
  /\ poster' = [poster EXCEPT ![p] = "idle"]
  /\ waiter' = IF waiter = "asleep" THEN "woken" ELSE waiter
  /\ UNCHANGED <<MayBlock, state, timed, ret, called, delivered>>

-----------------------------------------------------------------------------
(* wait(), try_wait(), try_wait_for(), try_wait_until() *)

Return(r) == waiter' = "done" /\ ret' = r

\* try_wait() on its own: the thread may call again after a failure.
BatonTryWait ==
  /\ waiter = "idle"
  /\ state = "EARLY_DELIVERY"
  /\ Return(TRUE)
  /\ UNCHANGED <<MayBlock, state, timed, poster, called, delivered>>

\* The waits that may block, once their try_wait() has failed.
WaitSlow(hasDeadline) ==
  /\ waiter = "idle"
  /\ state # "EARLY_DELIVERY"
  /\ waiter' = "spin"
  /\ timed' = hasDeadline
  /\ UNCHANGED <<MayBlock, state, ret, poster, called, delivered>>

SpinSuccess ==
  /\ waiter = "spin"
  /\ ready
  /\ Return(TRUE)
  /\ UNCHANGED <<MayBlock, state, timed, poster, called, delivered>>

\* The clock is read after ready() failed: a post may have come in between.
SpinTimeout ==
  /\ waiter = "spin"
  /\ timed
  /\ Return(FALSE)
  /\ UNCHANGED <<MayBlock, state, timed, poster, called, delivered>>

\* A spin-only Baton goes on spinning, with yields, until success or timeout.
SpinAdvance ==
  /\ waiter = "spin"
  /\ MayBlock
  /\ waiter' = "cas"
  /\ UNCHANGED <<MayBlock, state, timed, ret, poster, called, delivered>>

WaitCAS ==
  /\ waiter = "cas"
  /\ \/ /\ state = "INIT"
        /\ state' = "WAITING"
        /\ waiter' = "futex"
        /\ UNCHANGED ret
     \/ /\ state # "INIT"
        /\ Return(TRUE)
        /\ UNCHANGED state
  /\ UNCHANGED <<MayBlock, timed, poster, called, delivered>>

\* futexWaitUntil(state_, WAITING, deadline): compare and sleep are one step.
BatonFutexWait ==
  /\ waiter = "futex"
  /\ waiter' = IF state = "WAITING" THEN "asleep" ELSE "woken"
  /\ UNCHANGED <<MayBlock, state, timed, ret, poster, called, delivered>>

\* MemoryIdler: after the idle timeout, flush caches and wait again.
IdleFlush ==
  /\ waiter = "asleep"
  /\ waiter' = "futex"
  /\ UNCHANGED <<MayBlock, state, timed, ret, poster, called, delivered>>

BatonSpuriousWake ==
  /\ waiter = "asleep"
  /\ waiter' = "woken"
  /\ UNCHANGED <<MayBlock, state, timed, ret, poster, called, delivered>>

FutexTimeout ==
  /\ waiter = "asleep"
  /\ timed
  /\ waiter' = "timeout"
  /\ UNCHANGED <<MayBlock, state, timed, ret, poster, called, delivered>>


StoreTimedOut ==
  /\ waiter = "timeout"
  /\ state' = "TIMED_OUT"
  /\ Return(FALSE)
  /\ UNCHANGED <<MayBlock, timed, poster, called, delivered>>

\* Fault: the wake-up is trusted and state_ is not read again.
TrustWake ==
  /\ waiter = "woken"
  /\ Return(TRUE)
  /\ UNCHANGED <<MayBlock, state, timed, poster, called, delivered>>


WakeLoad ==
  /\ waiter = "woken"
  /\ \/ state = "LATE_DELIVERY" /\ Return(TRUE)
     \/ state # "LATE_DELIVERY" /\ waiter' = "futex" /\ UNCHANGED ret
  /\ UNCHANGED <<MayBlock, state, timed, poster, called, delivered>>

\* reset(), or destruction and reuse of the memory.  The waiter owns the Baton
\* once its wait succeeded, whatever the poster is still doing; after a wait
\* that timed out it must know that no post() is under way.
Reset ==
  /\ \/ waiter = "done" /\ ret
     \/ waiter \in {"idle", "done"} /\ \A p \in Posters : ~InPost(p)
  /\ state' = "INIT"
  /\ waiter' = "idle"
  /\ timed' = FALSE
  /\ ret' = FALSE
  /\ called' = FALSE
  /\ delivered' = FALSE
  /\ UNCHANGED <<MayBlock, poster>>

-----------------------------------------------------------------------------
PostStep(p) == PostLoad(p) \/ PostCAS(p) \/ PostStore(p) \/ PostWake(p)

WaitStep == SpinSuccess \/ SpinAdvance \/ WaitCAS \/ BatonFutexWait \/ StoreTimedOut \/ WakeLoad

BatonNext ==
  \/ \E p \in Posters : Post(p) \/ PostStep(p)
  \/ WaitStep
  \/ \E d \in BOOLEAN : WaitSlow(d)
  \/ BatonTryWait \/ SpinTimeout \/ IdleFlush \/ BatonSpuriousWake \/ FutexTimeout
  \/ Reset

BatonSpec == BatonInit /\ [][BatonNext]_batonVars

\* Threads inside post() and inside wait() are scheduled.  Nothing makes a
\* deadline pass, a spurious wake-up happen or a caller call.
BatonFairness == WF_batonVars(WaitStep) /\ \A p \in Posters : WF_batonVars(PostStep(p))

BatonFairSpec == BatonSpec /\ BatonFairness

-----------------------------------------------------------------------------
(* Properties *)

\* Every variable is in its range; the spin-only Baton never uses the states
\* of the blocking protocol.
BatonTypeOK ==
  /\ MayBlock \in BOOLEAN
  /\ state \in IF MayBlock THEN States ELSE {"INIT", "EARLY_DELIVERY"}
  /\ waiter \in WaiterPC
  /\ timed \in BOOLEAN
  /\ ret \in BOOLEAN
  /\ poster \in [Posters -> PosterPC]
  /\ called \in BOOLEAN
  /\ delivered \in BOOLEAN

\* The assertions in Baton.h hold whenever control reaches them: in post() before
\* and after its CAS, in try_wait(), after the waiter's CAS, after a futex
\* return, on a futex timeout, and in reset() and ~Baton().
AssertsHold ==
  /\ \A p \in Posters :
       poster[p] \in {"load", "cas"} => state \in {"INIT", "WAITING", "TIMED_OUT"}
  /\ \A p \in Posters :
       ~MayBlock /\ poster[p] = "store" => state \in {"INIT", "EARLY_DELIVERY"}
  /\ waiter \in {"idle", "cas"} => state \in {"INIT", "EARLY_DELIVERY"}
  /\ waiter = "woken" => state \in {"WAITING", "LATE_DELIVERY"}
  /\ waiter = "timeout" => timed
  /\ waiter = "done" => state # "WAITING"

\* "the waiter usually takes responsibility for destroying the Baton": once a
\* wait has returned true, no thread inside post() accesses state_ again, so
\* the waiter may reset or free the Baton without further synchronization.
DestroySafe ==
  waiter = "done" /\ ret => \A p \in Posters : ~InPost(p)

\* A wait returns true only after a post of the same lifetime, even when a wake
\* meant for an earlier lifetime arrives: Baton implements Handoff.
H == INSTANCE Handoff WITH
       posted <- delivered,
       wait <- CASE waiter = "idle" -> "idle"
                 [] waiter = "done" -> IF ret THEN "got" ELSE "missed"
                 [] OTHER           -> "waiting"

HandoffRefined == H!HandoffSpec

\* No lost wake-up: a wait that overlaps or follows the post() of its lifetime
\* returns, with no help from a deadline, a spurious wake-up or an idle flush.
PostEndsWait ==
  (called /\ waiter \notin {"idle", "done"}) ~> (waiter = "done")

=============================================================================
