----------------------------- MODULE MPMCStride -----------------------------
(***************************************************************************)
(* What MPMCQueueBase::computeStride (folly/MPMCQueue.h) promises: the     *)
(* first of the primes that keep consecutive tickets furthest apart, among *)
(* those that neither divide nor are divided by the capacity.              *)
(***************************************************************************)
EXTENDS Integers, Sequences

SmallPrimes == <<2, 3, 5, 7, 11, 13, 17, 19, 23>>

Separation(stride, cap) ==
  LET sep == stride % cap IN IF sep < cap - sep THEN sep ELSE cap - sep

Divides(stride, cap) == stride % cap = 0 \/ cap % stride = 0

Usable(cap) ==
  {SmallPrimes[k] : k \in {k \in DOMAIN SmallPrimes :
     ~Divides(SmallPrimes[k], cap) /\ Separation(SmallPrimes[k], cap) > 1}}

ComputeStride(cap) ==
  IF Usable(cap) = {} THEN 1
  ELSE CHOOSE s \in Usable(cap) : \A r \in Usable(cap) :
         \/ Separation(r, cap) < Separation(s, cap)
         \/ Separation(r, cap) = Separation(s, cap) /\ s <= r
=============================================================================
