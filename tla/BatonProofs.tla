----------------------------- MODULE BatonProofs -----------------------------
(***************************************************************************)
(* Baton is correct for every set of posting threads: the assertions of    *)
(* Baton.h hold, a waiter whose wait succeeded owns the Baton, and Baton   *)
(* implements Handoff.                                                     *)
(***************************************************************************)
EXTENDS Baton, TLAPS

Blocked == {"futex", "asleep", "woken", "timeout"}

\* Only the poster of the current lifetime is inside post(), and it has not
\* delivered yet; every other poster is idle or about to make a late wake.
OnePoster ==
  /\ \A p \in Posters : InPost(p) => called /\ ~delivered
  /\ \A p, q \in Posters : InPost(p) /\ InPost(q) => p = q
  /\ delivered => called

\* What state_ says about the waiter, and what it says about the post.
StateMeaning ==
  /\ waiter \in {"idle", "spin", "cas"} => state \in {"INIT", "EARLY_DELIVERY"}
  /\ waiter \in Blocked => state \in {"WAITING", "LATE_DELIVERY"}
  /\ state = "WAITING" => waiter \in Blocked
  /\ state \in {"EARLY_DELIVERY", "LATE_DELIVERY"} => delivered
  /\ state \in {"INIT", "WAITING"} => ~delivered
  /\ MayBlock => \A p \in Posters : poster[p] = "store" => state \in {"WAITING", "TIMED_OUT"}
  /\ waiter = "done" /\ ret => delivered
  /\ waiter = "timeout" => timed
  /\ ~MayBlock => waiter \in {"idle", "spin", "done"}

\* The inductive invariant.
IInv == BatonTypeOK /\ OnePoster /\ StateMeaning

USE DEF States, WaiterPC, PosterPC, Blocked, InPost, ready

LEMMA InitIInv == BatonInit => IInv
BY DEF BatonInit, IInv, BatonTypeOK, OnePoster, StateMeaning

LEMMA StepIInv == IInv /\ [BatonNext]_batonVars => IInv'
<1> SUFFICES ASSUME IInv, [BatonNext]_batonVars PROVE IInv'
  OBVIOUS
<1> USE DEF IInv, BatonTypeOK, OnePoster, StateMeaning
<1>1. ASSUME NEW p \in Posters, Post(p) PROVE IInv'
  BY <1>1 DEF Post
<1>2. ASSUME NEW p \in Posters, PostLoad(p) PROVE IInv'
  BY <1>2 DEF PostLoad, AfterRead
<1>3. ASSUME NEW p \in Posters, PostCAS(p) PROVE IInv'
  <2>1. CASE state = "INIT"
    BY <1>3, <2>1 DEF PostCAS
  <2>2. CASE state # "INIT"
    BY <1>3, <2>2 DEF PostCAS, AfterRead
  <2>3. QED
    BY <2>1, <2>2
<1>4. ASSUME NEW p \in Posters, PostStore(p) PROVE IInv'
  BY <1>4 DEF PostStore
<1>5. ASSUME NEW p \in Posters, PostWake(p) PROVE IInv'
  BY <1>5 DEF PostWake
<1>6. ASSUME WaitStep PROVE IInv'
  <2> USE <1>6 DEF Return
  <2>1. CASE SpinSuccess
    BY <2>1 DEF SpinSuccess
  <2>2. CASE SpinAdvance
    BY <2>2 DEF SpinAdvance
  <2>3. CASE WaitCAS
    BY <2>3 DEF WaitCAS
  <2>4. CASE BatonFutexWait
    BY <2>4 DEF BatonFutexWait
  <2>5. CASE StoreTimedOut
    BY <2>5 DEF StoreTimedOut
  <2>6. CASE WakeLoad
    BY <2>6 DEF WakeLoad
  <2>7. QED
    BY <2>1, <2>2, <2>3, <2>4, <2>5, <2>6 DEF WaitStep
<1>7. ASSUME NEW d \in BOOLEAN, WaitSlow(d) PROVE IInv'
  BY <1>7 DEF WaitSlow
<1>8. ASSUME BatonTryWait \/ SpinTimeout \/ IdleFlush \/ BatonSpuriousWake \/ FutexTimeout
      PROVE IInv'
  <2> USE <1>8 DEF Return
  <2>1. CASE BatonTryWait
    BY <2>1 DEF BatonTryWait
  <2>2. CASE SpinTimeout
    BY <2>2 DEF SpinTimeout
  <2>3. CASE IdleFlush
    BY <2>3 DEF IdleFlush
  <2>4. CASE BatonSpuriousWake
    BY <2>4 DEF BatonSpuriousWake
  <2>5. CASE FutexTimeout
    BY <2>5 DEF FutexTimeout
  <2>6. QED
    BY <2>1, <2>2, <2>3, <2>4, <2>5
<1>9. ASSUME Reset PROVE IInv'
  BY <1>9 DEF Reset
<1>10. ASSUME UNCHANGED batonVars PROVE IInv'
  BY <1>10 DEF batonVars
<1>11. QED
  BY <1>1, <1>2, <1>3, <1>4, <1>5, <1>6, <1>7, <1>8, <1>9, <1>10 DEF BatonNext, PostStep

LEMMA Invariance == BatonSpec => []IInv
BY InitIInv, StepIInv, PTL DEF BatonSpec

\* Every reachable state is well typed, for every set of posters.
THEOREM TypeCorrect == BatonSpec => []BatonTypeOK
<1>1. IInv => BatonTypeOK
  BY DEF IInv
<1>2. QED
  BY <1>1, Invariance, PTL

\* No assertion of Baton.h can fail in a program that respects the lifecycle.
THEOREM AssertionsHold == BatonSpec => []AssertsHold
<1>1. IInv => AssertsHold
  BY DEF IInv, BatonTypeOK, OnePoster, StateMeaning, AssertsHold
<1>2. QED
  BY <1>1, Invariance, PTL

\* A successful waiter may free the Baton at once: no post() touches it again.
THEOREM SafeToDestroy == BatonSpec => []DestroySafe
<1>1. IInv => DestroySafe
  BY DEF IInv, BatonTypeOK, OnePoster, StateMeaning, DestroySafe
<1>2. QED
  BY <1>1, Invariance, PTL

\* Baton implements the one-shot handoff.
THEOREM ImplementsHandoff == BatonSpec => HandoffRefined
<1> USE DEF H!hvars, H!HNext, H!Deliver, H!BeginWait, H!Receive, H!GiveUp, H!Renew
<1>1. BatonInit => H!HInit
  BY DEF BatonInit, H!HInit
<1>2. IInv /\ [BatonNext]_batonVars => [H!HNext]_(H!hvars)
  <2> SUFFICES ASSUME IInv, [BatonNext]_batonVars PROVE [H!HNext]_(H!hvars)
    OBVIOUS
  <2> USE DEF IInv, BatonTypeOK, OnePoster, StateMeaning
  <2>1. ASSUME NEW p \in Posters, Post(p) PROVE [H!HNext]_(H!hvars)
    BY <2>1 DEF Post
  <2>2. ASSUME NEW p \in Posters, PostStep(p) PROVE [H!HNext]_(H!hvars)
    BY <2>2 DEF PostStep, PostLoad, PostCAS, PostStore, PostWake
  <2>3. ASSUME WaitStep PROVE [H!HNext]_(H!hvars)
    BY <2>3 DEF WaitStep, SpinSuccess, SpinAdvance, WaitCAS, BatonFutexWait, StoreTimedOut,
                WakeLoad, Return
  <2>4. ASSUME NEW d \in BOOLEAN, WaitSlow(d) PROVE [H!HNext]_(H!hvars)
    BY <2>4 DEF WaitSlow
  <2>5. ASSUME BatonTryWait \/ SpinTimeout \/ IdleFlush \/ BatonSpuriousWake \/ FutexTimeout
        PROVE [H!HNext]_(H!hvars)
    BY <2>5 DEF BatonTryWait, SpinTimeout, IdleFlush, BatonSpuriousWake, FutexTimeout, Return
  <2>6. ASSUME Reset PROVE [H!HNext]_(H!hvars)
    BY <2>6 DEF Reset
  <2>7. ASSUME UNCHANGED batonVars PROVE [H!HNext]_(H!hvars)
    BY <2>7 DEF batonVars
  <2>8. QED
    BY <2>1, <2>2, <2>3, <2>4, <2>5, <2>6, <2>7 DEF BatonNext
<1>3. QED
  BY <1>1, <1>2, Invariance, PTL DEF BatonSpec, HandoffRefined, H!HandoffSpec

=============================================================================
