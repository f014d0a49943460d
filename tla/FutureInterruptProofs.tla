----------------------- MODULE FutureInterruptProofs -----------------------
(***************************************************************************)
(* Proofs, for every number of cores and every finite set of raisers, of   *)
(* the safety properties of FutureInterrupt.                               *)
(***************************************************************************)
EXTENDS FutureInterrupt, FiniteSetTheorems, TLAPS

(* Raiser r is inside a raise() on core c, at one of the places P. *)
At(r, c, P) == rcore[r] = c /\ rpc[r] \in P

(* Cores not made yet are untouched. *)
FreshInv ==
  \A c \in Cores : c > made =>
    /\ c \notin alive /\ interrupt[c] = "Initial"
    /\ c \notin offered /\ c \notin raised /\ handled[c] = 0

(* What the place of the promise holder says of the first word, and why    *)
(* none of its terminate_with calls is reached.                            *)
ProdInv ==
  /\ prod \in {"start", "load", "store"} => interrupt[1] \in {"Initial", "HasObject"}
  /\ prod = "take" => interrupt[1] = "HasObject"
  /\ prod = "invoke" => interrupt[1] = "Terminal"
  /\ prod # "done" => 1 \in alive
  /\ logicError = FALSE

(* No core holds the handler before setInterruptHandler() has returned. *)
UnsharedInv == prod # "done" => \A c \in Cores : ~HoldsHandler(c)

(* What the place of a raiser, or of a copy, says of the word it read. *)
CallInv ==
  /\ \A r \in Raisers : rpc[r] # "idle" => rcore[r] \in alive
  /\ \A r \in Raisers : rpc[r] = "take" => HoldsHandler(rcore[r])
  /\ \A r \in Raisers : rpc[r] = "invoke" => interrupt[rcore[r]] = "TerminalHandler"
  /\ copying # "no" => made < NCores /\ made \in alive
  /\ copying \in {"HasHandler", "TerminalHandler"} => HoldsHandler(made)

(* A word that is not terminal was not handled; a terminal one was handled *)
(* once, or its one handler call is under way.                             *)
OnceInv ==
  \A c \in Cores :
    /\ handled[c] <= 1
    /\ interrupt[c] \notin {"Terminal", "TerminalHandler"} => handled[c] = 0
    /\ \A r \in Raisers : At(r, c, {"invoke"}) => handled[c] = 0
    /\ \A r, s \in Raisers : At(r, c, {"invoke"}) /\ At(s, c, {"invoke"}) => r = s
    /\ interrupt[c] = "TerminalHandler" =>
         handled[c] = 1 \/ \E r \in Raisers : At(r, c, {"invoke"})
    /\ interrupt[c] = "Terminal" =>
         c = 1 /\ (IF prod = "invoke" THEN handled[c] = 0 ELSE handled[c] = 1)

(* A raise that has not yet reached its core's word is still under way. *)
PendingAt(c) ==
  /\ c \in offered => interrupt[c] \in {"HasHandler", "TerminalHandler", "Terminal"}
  /\ c \in raised /\ interrupt[c] \in {"Initial", "HasHandler"} =>
       \E r \in Raisers : At(r, c, {"load", "store", "take"})
PendingInv == \A c \in Cores : PendingAt(c)

(* The reference count counts the live cores that hold the handler, and    *)
(* the promise holder while it has not stored it.                          *)
Holders == {c \in alive : HoldsHandler(c)}
Local == IF handler = "live" /\ prod \in {"store", "take", "invoke"} THEN 1 ELSE 0
RefInv ==
  /\ prod \in {"start", "load"} => handler = "none"
  /\ prod = "store" => handler = "live"
  /\ refCount = Cardinality(Holders) + Local
  /\ handler = "live" <=> refCount > 0

(* The count of exception objects. *)
InWords == {c \in alive : interrupt[c] = "HasObject"}
InCalls == {r \in Raisers : rpc[r] = "store"}

IInv ==
  /\ InterruptTypeOK /\ FreshInv /\ ProdInv /\ UnsharedInv /\ CallInv /\ OnceInv
  /\ PendingInv /\ RefInv /\ NoObjectLeaks
-----------------------------------------------------------------------------
(* The three sets that are counted are finite, so their cardinalities are   *)
(* natural numbers, positive when the set has a member.                     *)
LEMMA Counts ==
  ASSUME InterruptTypeOK
  PROVE  /\ IsFiniteSet(Holders) /\ IsFiniteSet(InWords) /\ IsFiniteSet(InCalls)
         /\ Cardinality(Holders) \in Nat
         /\ Cardinality(InWords) \in Nat
         /\ Cardinality(InCalls) \in Nat
         /\ Holders # {} => Cardinality(Holders) > 0
         /\ InWords # {} => Cardinality(InWords) > 0
         /\ InCalls # {} => Cardinality(InCalls) > 0
<1>1. IsFiniteSet(Cores)
  BY NCoresAssumption, FS_Interval DEF Cores
<1>2. IsFiniteSet(Holders) /\ IsFiniteSet(InWords) /\ IsFiniteSet(InCalls)
  <2>1. Holders \subseteq Cores /\ InWords \subseteq Cores /\ InCalls \subseteq Raisers
    BY DEF InterruptTypeOK, Holders, InWords, InCalls
  <2> QED BY <2>1, <1>1, RaisersFinite, FS_Subset
<1> QED BY <1>2, FS_CardinalityType, FS_EmptySet

(* The initial state satisfies the inductive invariant. *)
LEMMA InitIInv == InterruptInit => IInv
<1> SUFFICES ASSUME InterruptInit PROVE IInv
  OBVIOUS
<1>1. InterruptTypeOK
  <2>1. 1 \in Cores
    BY NCoresAssumption DEF Cores
  <2> QED BY <2>1 DEF InterruptInit, InterruptTypeOK, InterruptState
<1>2. Holders = {} /\ InWords = {} /\ InCalls = {}
  BY NCoresAssumption DEF InterruptInit, Holders, InWords, InCalls, HoldsHandler, Cores
<1>3. RefInv /\ NoObjectLeaks
  BY <1>2, FS_EmptySet DEF InterruptInit, RefInv, Local, NoObjectLeaks, InWords, InCalls
<1>4. ProdInv /\ UnsharedInv /\ CallInv /\ OnceInv /\ PendingInv
  BY NCoresAssumption DEF InterruptInit, ProdInv, UnsharedInv, CallInv, OnceInv, PendingInv, PendingAt, At, Cores,
     HoldsHandler
<1>5. FreshInv
  BY NCoresAssumption DEF InterruptInit, FreshInv, Cores
<1> QED BY <1>1, <1>3, <1>4, <1>5 DEF IInv

(* Every step leaves the cores not made yet untouched. *)
LEMMA StepFresh == IInv /\ [InterruptNext]_interruptVars => FreshInv'
<1> SUFFICES ASSUME IInv, [InterruptNext]_interruptVars PROVE FreshInv'
  OBVIOUS
<1> USE NCoresAssumption DEF IInv, InterruptTypeOK, FreshInv, CallInv, Cores
<1>1. ASSUME SetCheck PROVE FreshInv'
  BY <1>1 DEF SetCheck, coreVars, wordVars, ghosts
<1>2. ASSUME SetLoad PROVE FreshInv'
  BY <1>2 DEF SetLoad, coreVars, wordVars, ghosts
<1>3. ASSUME SetStore PROVE FreshInv'
  BY <1>3 DEF SetStore, coreVars, wordVars, ghosts
<1>4. ASSUME SetTake PROVE FreshInv'
  BY <1>4 DEF SetTake, coreVars, wordVars, ghosts
<1>5. ASSUME SetInvoke PROVE FreshInv'
  BY <1>5 DEF SetInvoke, coreVars, wordVars, ghosts
<1>6. ASSUME NEW r \in Raisers, NEW c \in Cores, Raise(r, c) PROVE FreshInv'
  BY <1>6 DEF Raise, coreVars, wordVars, ghosts
<1>7. ASSUME NEW r \in Raisers, RaiseLoad(r) PROVE FreshInv'
  BY <1>7 DEF RaiseLoad, coreVars, wordVars, ghosts
<1>8. ASSUME NEW r \in Raisers, RaiseStore(r) PROVE FreshInv'
  BY <1>8 DEF RaiseStore, coreVars, wordVars, ghosts
<1>9. ASSUME NEW r \in Raisers, RaiseTake(r) PROVE FreshInv'
  BY <1>9 DEF RaiseTake, coreVars, wordVars, ghosts
<1>10. ASSUME NEW r \in Raisers, RaiseInvoke(r) PROVE FreshInv'
  BY <1>10 DEF RaiseInvoke, coreVars, wordVars, ghosts
<1>11. ASSUME CopyLoad PROVE FreshInv'
  BY <1>11 DEF CopyLoad, coreVars, wordVars, ghosts
<1>12. ASSUME CopyStore PROVE FreshInv'
  BY <1>12 DEF CopyStore, coreVars, wordVars, ghosts
<1>13. ASSUME NEW c \in Cores, Fulfil(c) PROVE FreshInv'
  BY <1>13 DEF Fulfil, coreVars, wordVars, ghosts
<1>14. ASSUME NEW c \in Cores, Destroy(c) PROVE FreshInv'
  BY <1>14 DEF Destroy, coreVars, wordVars, ghosts
<1>15. ASSUME UNCHANGED interruptVars PROVE FreshInv'
  BY <1>15 DEF interruptVars, coreVars, wordVars, ghosts
<1> QED BY <1>1, <1>2, <1>3, <1>4, <1>5, <1>6, <1>7, <1>8, <1>9, <1>10, <1>11, <1>12, <1>13, <1>14, <1>15 DEF InterruptNext, RaiseStep

(* Every step preserves what the promise holder knows of the first word. *)
LEMMA StepProd == IInv /\ [InterruptNext]_interruptVars => ProdInv'
<1> SUFFICES ASSUME IInv, [InterruptNext]_interruptVars PROVE ProdInv'
  OBVIOUS
<1> USE NCoresAssumption DEF IInv, InterruptTypeOK, ProdInv, CallInv, HoldsHandler, Cores
<1>1. ASSUME SetCheck PROVE ProdInv'
  BY <1>1 DEF SetCheck, coreVars, wordVars, ghosts
<1>2. ASSUME SetLoad PROVE ProdInv'
  BY <1>2 DEF SetLoad, coreVars, wordVars, ghosts
<1>3. ASSUME SetStore PROVE ProdInv'
  BY <1>3 DEF SetStore, coreVars, wordVars, ghosts
<1>4. ASSUME SetTake PROVE ProdInv'
  BY <1>4 DEF SetTake, coreVars, wordVars, ghosts
<1>5. ASSUME SetInvoke PROVE ProdInv'
  BY <1>5 DEF SetInvoke, coreVars, wordVars, ghosts
<1>6. ASSUME NEW r \in Raisers, NEW c \in Cores, Raise(r, c) PROVE ProdInv'
  BY <1>6 DEF Raise, coreVars, wordVars, ghosts
<1>7. ASSUME NEW r \in Raisers, RaiseLoad(r) PROVE ProdInv'
  BY <1>7 DEF RaiseLoad, coreVars, wordVars, ghosts
<1>8. ASSUME NEW r \in Raisers, RaiseStore(r) PROVE ProdInv'
  BY <1>8 DEF RaiseStore, coreVars, wordVars, ghosts
<1>9. ASSUME NEW r \in Raisers, RaiseTake(r) PROVE ProdInv'
  BY <1>9 DEF RaiseTake, coreVars, wordVars, ghosts
<1>10. ASSUME NEW r \in Raisers, RaiseInvoke(r) PROVE ProdInv'
  BY <1>10 DEF RaiseInvoke, coreVars, wordVars, ghosts
<1>11. ASSUME CopyLoad PROVE ProdInv'
  BY <1>11 DEF CopyLoad, coreVars, wordVars, ghosts
<1>12. ASSUME CopyStore PROVE ProdInv'
  BY <1>12 DEF CopyStore, coreVars, wordVars, ghosts
<1>13. ASSUME NEW c \in Cores, Fulfil(c) PROVE ProdInv'
  BY <1>13 DEF Fulfil, coreVars, wordVars, ghosts
<1>14. ASSUME NEW c \in Cores, Destroy(c) PROVE ProdInv'
  BY <1>14 DEF Destroy, coreVars, wordVars, ghosts
<1>15. ASSUME UNCHANGED interruptVars PROVE ProdInv'
  BY <1>15 DEF interruptVars, coreVars, wordVars, ghosts
<1> QED BY <1>1, <1>2, <1>3, <1>4, <1>5, <1>6, <1>7, <1>8, <1>9, <1>10, <1>11, <1>12, <1>13, <1>14, <1>15 DEF InterruptNext, RaiseStep

(* Every step preserves that no core holds an unstored handler. *)
LEMMA StepUnshared == IInv /\ [InterruptNext]_interruptVars => UnsharedInv'
<1> SUFFICES ASSUME IInv, [InterruptNext]_interruptVars PROVE UnsharedInv'
  OBVIOUS
<1> USE NCoresAssumption DEF IInv, InterruptTypeOK, UnsharedInv, CallInv, HoldsHandler, Cores
<1>1. ASSUME SetCheck PROVE UnsharedInv'
  BY <1>1 DEF SetCheck, coreVars, wordVars, ghosts
<1>2. ASSUME SetLoad PROVE UnsharedInv'
  BY <1>2 DEF SetLoad, coreVars, wordVars, ghosts
<1>3. ASSUME SetStore PROVE UnsharedInv'
  BY <1>3 DEF SetStore, coreVars, wordVars, ghosts
<1>4. ASSUME SetTake PROVE UnsharedInv'
  BY <1>4 DEF SetTake, coreVars, wordVars, ghosts
<1>5. ASSUME SetInvoke PROVE UnsharedInv'
  BY <1>5 DEF SetInvoke, coreVars, wordVars, ghosts
<1>6. ASSUME NEW r \in Raisers, NEW c \in Cores, Raise(r, c) PROVE UnsharedInv'
  BY <1>6 DEF Raise, coreVars, wordVars, ghosts
<1>7. ASSUME NEW r \in Raisers, RaiseLoad(r) PROVE UnsharedInv'
  BY <1>7 DEF RaiseLoad, coreVars, wordVars, ghosts
<1>8. ASSUME NEW r \in Raisers, RaiseStore(r) PROVE UnsharedInv'
  BY <1>8 DEF RaiseStore, coreVars, wordVars, ghosts
<1>9. ASSUME NEW r \in Raisers, RaiseTake(r) PROVE UnsharedInv'
  BY <1>9 DEF RaiseTake, coreVars, wordVars, ghosts
<1>10. ASSUME NEW r \in Raisers, RaiseInvoke(r) PROVE UnsharedInv'
  BY <1>10 DEF RaiseInvoke, coreVars, wordVars, ghosts
<1>11. ASSUME CopyLoad PROVE UnsharedInv'
  BY <1>11 DEF CopyLoad, coreVars, wordVars, ghosts
<1>12. ASSUME CopyStore PROVE UnsharedInv'
  BY <1>12 DEF CopyStore, coreVars, wordVars, ghosts
<1>13. ASSUME NEW c \in Cores, Fulfil(c) PROVE UnsharedInv'
  BY <1>13 DEF Fulfil, coreVars, wordVars, ghosts
<1>14. ASSUME NEW c \in Cores, Destroy(c) PROVE UnsharedInv'
  BY <1>14 DEF Destroy, coreVars, wordVars, ghosts
<1>15. ASSUME UNCHANGED interruptVars PROVE UnsharedInv'
  BY <1>15 DEF interruptVars, coreVars, wordVars, ghosts
<1> QED BY <1>1, <1>2, <1>3, <1>4, <1>5, <1>6, <1>7, <1>8, <1>9, <1>10, <1>11, <1>12, <1>13, <1>14, <1>15 DEF InterruptNext, RaiseStep

(* Every step preserves what raisers and copies know of their words. *)
LEMMA StepCall == IInv /\ [InterruptNext]_interruptVars => CallInv'
<1> SUFFICES ASSUME IInv, [InterruptNext]_interruptVars PROVE CallInv'
  OBVIOUS
<1> USE NCoresAssumption DEF IInv, InterruptTypeOK, FreshInv, ProdInv, CallInv, HoldsHandler, Cores
<1>1. ASSUME SetCheck PROVE CallInv'
  BY <1>1 DEF SetCheck, coreVars, wordVars, ghosts
<1>2. ASSUME SetLoad PROVE CallInv'
  BY <1>2 DEF SetLoad, coreVars, wordVars, ghosts
<1>3. ASSUME SetStore PROVE CallInv'
  BY <1>3 DEF SetStore, coreVars, wordVars, ghosts
<1>4. ASSUME SetTake PROVE CallInv'
  <2>1. CASE interrupt[1] = "HasObject"
    BY <1>4, <2>1 DEF SetTake, coreVars, wordVars, ghosts
  <2>2. CASE interrupt[1] # "HasObject"
    BY <1>4, <2>2 DEF SetTake, coreVars, wordVars, ghosts
  <2> QED BY <2>1, <2>2
<1>5. ASSUME SetInvoke PROVE CallInv'
  BY <1>5 DEF SetInvoke, coreVars, wordVars, ghosts
<1>6. ASSUME NEW r \in Raisers, NEW c \in Cores, Raise(r, c) PROVE CallInv'
  BY <1>6 DEF Raise, coreVars, wordVars, ghosts
<1>7. ASSUME NEW r \in Raisers, RaiseLoad(r) PROVE CallInv'
  BY <1>7 DEF RaiseLoad, coreVars, wordVars, ghosts
<1>8. ASSUME NEW r \in Raisers, RaiseStore(r) PROVE CallInv'
  <2>1. CASE interrupt[rcore[r]] = "Initial"
    <3>1. /\ interrupt' = [interrupt EXCEPT ![rcore[r]] = "HasObject"]
          /\ rpc' = [rpc EXCEPT ![r] = "idle"]
          /\ UNCHANGED <<coreVars, copying, rcore>>
      BY <1>8, <2>1 DEF RaiseStore
    <3>2. \A q \in Raisers :
            rpc'[q] \in {"take", "invoke"} => rcore[q] # rcore[r] /\ rpc'[q] = rpc[q]
      BY <3>1, <2>1
    <3>3. copying \in {"HasHandler", "TerminalHandler"} => made # rcore[r]
      BY <2>1
    <3> QED BY <3>1, <3>2, <3>3 DEF coreVars
  <2>2. CASE interrupt[rcore[r]] # "Initial"
    BY <1>8, <2>2 DEF RaiseStore, coreVars, wordVars, ghosts
  <2> QED BY <2>1, <2>2
<1>9. ASSUME NEW r \in Raisers, RaiseTake(r) PROVE CallInv'
  <2>1. CASE interrupt[rcore[r]] = "HasHandler"
    <3>1. /\ interrupt' = [interrupt EXCEPT ![rcore[r]] = "TerminalHandler"]
          /\ rpc' = [rpc EXCEPT ![r] = "invoke"]
          /\ UNCHANGED <<coreVars, copying, rcore>>
      BY <1>9, <2>1 DEF RaiseTake
    <3> QED BY <1>9, <3>1 DEF RaiseTake, coreVars
  <2>2. CASE interrupt[rcore[r]] # "HasHandler"
    BY <1>9, <2>2 DEF RaiseTake, coreVars, wordVars, ghosts
  <2> QED BY <2>1, <2>2
<1>10. ASSUME NEW r \in Raisers, RaiseInvoke(r) PROVE CallInv'
  BY <1>10 DEF RaiseInvoke, coreVars, wordVars, ghosts
<1>11. ASSUME CopyLoad PROVE CallInv'
  BY <1>11 DEF CopyLoad, coreVars, wordVars, ghosts
<1>12. ASSUME CopyStore PROVE CallInv'
  BY <1>12 DEF CopyStore, coreVars, wordVars, ghosts
<1>13. ASSUME NEW c \in Cores, Fulfil(c) PROVE CallInv'
  BY <1>13 DEF Fulfil, coreVars, wordVars, ghosts
<1>14. ASSUME NEW c \in Cores, Destroy(c) PROVE CallInv'
  BY <1>14 DEF Destroy, coreVars, wordVars, ghosts
<1>15. ASSUME UNCHANGED interruptVars PROVE CallInv'
  BY <1>15 DEF interruptVars, coreVars, wordVars, ghosts
<1> QED BY <1>1, <1>2, <1>3, <1>4, <1>5, <1>6, <1>7, <1>8, <1>9, <1>10, <1>11, <1>12, <1>13, <1>14, <1>15 DEF InterruptNext, RaiseStep

(* Every step preserves the account of handler calls. *)
LEMMA StepOnce == IInv /\ [InterruptNext]_interruptVars => OnceInv'
<1> SUFFICES ASSUME IInv, [InterruptNext]_interruptVars PROVE OnceInv'
  OBVIOUS
<1> USE NCoresAssumption DEF IInv, InterruptTypeOK, FreshInv, ProdInv, CallInv, OnceInv, At, HoldsHandler, Cores
<1>1. ASSUME SetCheck PROVE OnceInv'
  BY <1>1 DEF SetCheck, coreVars, wordVars, ghosts
<1>2. ASSUME SetLoad PROVE OnceInv'
  BY <1>2 DEF SetLoad, coreVars, wordVars, ghosts
<1>3. ASSUME SetStore PROVE OnceInv'
  BY <1>3 DEF SetStore, coreVars, wordVars, ghosts
<1>4. ASSUME SetTake PROVE OnceInv'
  BY <1>4 DEF SetTake, coreVars, wordVars, ghosts
<1>5. ASSUME SetInvoke PROVE OnceInv'
  BY <1>5 DEF SetInvoke, coreVars, wordVars, ghosts
<1>6. ASSUME NEW r \in Raisers, NEW c \in Cores, Raise(r, c) PROVE OnceInv'
  BY <1>6 DEF Raise, coreVars, wordVars, ghosts
<1>7. ASSUME NEW r \in Raisers, RaiseLoad(r) PROVE OnceInv'
  BY <1>7 DEF RaiseLoad, coreVars, wordVars, ghosts
<1>8. ASSUME NEW r \in Raisers, RaiseStore(r) PROVE OnceInv'
  <2>1. CASE interrupt[rcore[r]] = "Initial"
    BY <1>8, <2>1 DEF RaiseStore, coreVars, wordVars, ghosts
  <2>2. CASE interrupt[rcore[r]] # "Initial"
    BY <1>8, <2>2 DEF RaiseStore, coreVars, wordVars, ghosts
  <2> QED BY <2>1, <2>2
<1>9. ASSUME NEW r \in Raisers, RaiseTake(r) PROVE OnceInv'
  BY <1>9 DEF RaiseTake, coreVars, wordVars, ghosts
<1>10. ASSUME NEW r \in Raisers, RaiseInvoke(r) PROVE OnceInv'
  BY <1>10 DEF RaiseInvoke, coreVars, wordVars, ghosts
<1>11. ASSUME CopyLoad PROVE OnceInv'
  BY <1>11 DEF CopyLoad, coreVars, wordVars, ghosts
<1>12. ASSUME CopyStore PROVE OnceInv'
  BY <1>12 DEF CopyStore, coreVars, wordVars, ghosts
<1>13. ASSUME NEW c \in Cores, Fulfil(c) PROVE OnceInv'
  BY <1>13 DEF Fulfil, coreVars, wordVars, ghosts
<1>14. ASSUME NEW c \in Cores, Destroy(c) PROVE OnceInv'
  BY <1>14 DEF Destroy, coreVars, wordVars, ghosts
<1>15. ASSUME UNCHANGED interruptVars PROVE OnceInv'
  BY <1>15 DEF interruptVars, coreVars, wordVars, ghosts
<1> QED BY <1>1, <1>2, <1>3, <1>4, <1>5, <1>6, <1>7, <1>8, <1>9, <1>10, <1>11, <1>12, <1>13, <1>14, <1>15 DEF InterruptNext, RaiseStep

(* Every step preserves the account of raises under way. *)
LEMMA StepPending == IInv /\ [InterruptNext]_interruptVars => PendingInv'
<1> SUFFICES ASSUME IInv, [InterruptNext]_interruptVars PROVE PendingInv'
  OBVIOUS
<1> USE NCoresAssumption DEF IInv, InterruptTypeOK, FreshInv, ProdInv, CallInv, PendingInv, PendingAt, At, HoldsHandler, Cores
<1>1. ASSUME SetCheck PROVE PendingInv'
  BY <1>1 DEF SetCheck, coreVars, wordVars, ghosts
<1>2. ASSUME SetLoad PROVE PendingInv'
  BY <1>2 DEF SetLoad, coreVars, wordVars, ghosts
<1>3. ASSUME SetStore PROVE PendingInv'
  BY <1>3 DEF SetStore, coreVars, wordVars, ghosts
<1>4. ASSUME SetTake PROVE PendingInv'
  <2>1. CASE interrupt[1] = "HasObject"
    BY <1>4, <2>1 DEF SetTake, coreVars, wordVars, ghosts
  <2>2. CASE interrupt[1] # "HasObject"
    BY <1>4, <2>2 DEF SetTake
  <2> QED BY <2>1, <2>2
<1>5. ASSUME SetInvoke PROVE PendingInv'
  BY <1>5 DEF SetInvoke, coreVars, wordVars, ghosts
<1>6. ASSUME NEW r \in Raisers, NEW c \in Cores, Raise(r, c) PROVE PendingInv'
  <2> SUFFICES ASSUME NEW d \in Cores, d \in raised',
                      interrupt'[d] \in {"Initial", "HasHandler"}
               PROVE  \E q \in Raisers : At(q, d, {"load", "store", "take"})'
    BY <1>6 DEF Raise, wordVars
  <2>1. CASE d = c
    BY <1>6, <2>1 DEF Raise
  <2>2. CASE d # c
    BY <1>6, <2>2 DEF Raise, wordVars
  <2> QED BY <2>1, <2>2
<1>7. ASSUME NEW r \in Raisers, RaiseLoad(r) PROVE PendingInv'
  BY <1>7 DEF RaiseLoad, coreVars, wordVars, ghosts
<1>8. ASSUME NEW r \in Raisers, RaiseStore(r) PROVE PendingInv'
  <2> SUFFICES ASSUME NEW d \in Cores
               PROVE  PendingAt(d)'
    BY DEF PendingInv
  <2>1. CASE d = rcore[r]
    BY <1>8, <2>1 DEF RaiseStore, ghosts
  <2>2. CASE d # rcore[r]
    <3>1. /\ interrupt'[d] = interrupt[d] /\ UNCHANGED <<offered, raised, rcore>>
          /\ \A q \in Raisers : rcore[q] = d => rpc'[q] = rpc[q]
      BY <1>8, <2>2 DEF RaiseStore, ghosts
    <3>2. PendingAt(d)
      OBVIOUS
    <3> QED BY <3>1, <3>2
  <2> QED BY <2>1, <2>2
<1>9. ASSUME NEW r \in Raisers, RaiseTake(r) PROVE PendingInv'
  <2> SUFFICES ASSUME NEW d \in Cores
               PROVE  PendingAt(d)'
    BY DEF PendingInv
  <2>1. CASE d = rcore[r]
    BY <1>9, <2>1 DEF RaiseTake, ghosts
  <2>2. CASE d # rcore[r]
    <3>1. interrupt'[d] = interrupt[d] /\ \A q \in Raisers \ {r} : rpc'[q] = rpc[q]
      BY <1>9, <2>2 DEF RaiseTake
    <3>2. UNCHANGED <<offered, raised, rcore>>
      BY <1>9 DEF RaiseTake, ghosts
    <3> QED BY <2>2, <3>1, <3>2
  <2> QED BY <2>1, <2>2
<1>10. ASSUME NEW r \in Raisers, RaiseInvoke(r) PROVE PendingInv'
  BY <1>10 DEF RaiseInvoke, coreVars, wordVars, ghosts
<1>11. ASSUME CopyLoad PROVE PendingInv'
  BY <1>11 DEF CopyLoad, coreVars, wordVars, ghosts
<1>12. ASSUME CopyStore PROVE PendingInv'
  BY <1>12 DEF CopyStore, coreVars, wordVars, ghosts
<1>13. ASSUME NEW c \in Cores, Fulfil(c) PROVE PendingInv'
  BY <1>13 DEF Fulfil, coreVars, wordVars, ghosts
<1>14. ASSUME NEW c \in Cores, Destroy(c) PROVE PendingInv'
  BY <1>14 DEF Destroy, coreVars, wordVars, ghosts
<1>15. ASSUME UNCHANGED interruptVars PROVE PendingInv'
  BY <1>15 DEF interruptVars, coreVars, wordVars, ghosts
<1> QED BY <1>1, <1>2, <1>3, <1>4, <1>5, <1>6, <1>7, <1>8, <1>9, <1>10, <1>11, <1>12, <1>13, <1>14, <1>15 DEF InterruptNext, RaiseStep

(* Every step preserves the count of references to the handler. *)
LEMMA StepRef == IInv /\ [InterruptNext]_interruptVars => RefInv'
<1> SUFFICES ASSUME IInv, [InterruptNext]_interruptVars PROVE RefInv'
  OBVIOUS
<1>0. /\ IsFiniteSet(Holders) /\ Cardinality(Holders) \in Nat
      /\ Holders # {} => Cardinality(Holders) > 0
      /\ RefInv
  BY Counts DEF IInv
<1>1. ASSUME SetCheck PROVE RefInv'
  <2>1. Holders' = Holders
    BY <1>1 DEF SetCheck, Holders, HoldsHandler, coreVars, wordVars
  <2> QED BY <1>0, <1>1, <2>1 DEF RefInv, Local, SetCheck, wordVars
<1>2. ASSUME SetLoad PROVE RefInv'
  <2>1. Holders' = Holders
    BY <1>2 DEF SetLoad, Holders, HoldsHandler, coreVars
  <2>2. interrupt[1] \in {"Initial", "HasObject"}
    BY <1>2 DEF SetLoad, IInv, ProdInv
  <2> QED BY <1>0, <1>2, <2>1, <2>2 DEF RefInv, Local, SetLoad
<1>3. ASSUME SetStore PROVE RefInv'
  <2>1. CASE interrupt[1] = "Initial"
    <3>1. /\ interrupt' = [interrupt EXCEPT ![1] = "HasHandler"]
          /\ prod = "store" /\ prod' = "done"
          /\ UNCHANGED <<alive, handler, refCount>>
      BY <1>3, <2>1 DEF SetStore, coreVars
    <3>2. Holders' = Holders \union {1} /\ 1 \notin Holders
      BY <2>1, <3>1 DEF IInv, InterruptTypeOK, ProdInv, Cores, Holders, HoldsHandler
    <3>3. Cardinality(Holders') = Cardinality(Holders) + 1
      BY <1>0, <3>2, FS_AddElement
    <3> QED BY <1>0, <3>1, <3>3 DEF RefInv, Local
  <2>2. CASE interrupt[1] # "Initial"
    <3>1. Holders' = Holders
      BY <1>3, <2>2 DEF SetStore, Holders, HoldsHandler, coreVars
    <3>2. prod = "store" /\ prod' = "take" /\ UNCHANGED <<handler, refCount>>
      BY <1>3, <2>2 DEF IInv, ProdInv, SetStore
    <3> QED BY <1>0, <3>1, <3>2 DEF RefInv, Local
  <2> QED BY <2>1, <2>2
<1>4. ASSUME SetTake PROVE RefInv'
  <2>1. /\ interrupt[1] = "HasObject"
        /\ interrupt' = [interrupt EXCEPT ![1] = "Terminal"]
        /\ prod = "take" /\ prod' = "invoke"
        /\ UNCHANGED <<alive, handler, refCount>>
    BY <1>4 DEF IInv, ProdInv, SetTake, coreVars
  <2>2. Holders' = Holders
    BY <2>1 DEF IInv, InterruptTypeOK, Holders, HoldsHandler
  <2> QED BY <1>0, <2>1, <2>2 DEF RefInv, Local
<1>5. ASSUME SetInvoke PROVE RefInv'
  <2>1. Holders' = Holders
    BY <1>5 DEF SetInvoke, Holders, HoldsHandler
  <2>2. Holders = {}
    BY <1>5 DEF SetInvoke, IInv, InterruptTypeOK, UnsharedInv, Holders
  <2>3. Cardinality(Holders) = 0
    BY <2>2, FS_EmptySet
  <2> QED BY <1>0, <1>5, <2>1, <2>3 DEF RefInv, Local, SetInvoke
<1>6. ASSUME NEW r \in Raisers, NEW c \in Cores, Raise(r, c) PROVE RefInv'
  <2>1. Holders' = Holders
    BY <1>6 DEF Raise, Holders, HoldsHandler, coreVars, wordVars
  <2>2. UNCHANGED <<handler, refCount>> /\ prod' = prod
    BY <1>6 DEF Raise, wordVars
  <2> QED BY <1>0, <2>1, <2>2 DEF RefInv, Local
<1>7. ASSUME NEW r \in Raisers, RaiseLoad(r) PROVE RefInv'
  <2>1. Holders' = Holders
    BY <1>7 DEF RaiseLoad, Holders, HoldsHandler, coreVars, wordVars
  <2>2. UNCHANGED <<handler, refCount>> /\ prod' = prod
    BY <1>7 DEF RaiseLoad, wordVars
  <2> QED BY <1>0, <2>1, <2>2 DEF RefInv, Local
<1>8. ASSUME NEW r \in Raisers, RaiseStore(r) PROVE RefInv'
  <2>1. interrupt[rcore[r]] = "Initial" \/ interrupt' = interrupt
    BY <1>8 DEF RaiseStore
  <2>2. Holders' = Holders
    BY <1>8, <2>1 DEF IInv, InterruptTypeOK, RaiseStore, Holders, HoldsHandler, coreVars
  <2>3. UNCHANGED <<handler, refCount, prod>>
    BY <1>8 DEF RaiseStore
  <2> QED BY <1>0, <2>2, <2>3 DEF RefInv, Local
<1>9. ASSUME NEW r \in Raisers, RaiseTake(r) PROVE RefInv'
  <2>1. interrupt[rcore[r]] = "HasHandler" \/ interrupt' = interrupt
    BY <1>9 DEF RaiseTake
  <2>2. Holders' = Holders
    BY <1>9, <2>1 DEF IInv, InterruptTypeOK, RaiseTake, Holders, HoldsHandler, coreVars
  <2>3. UNCHANGED <<handler, refCount, prod>>
    BY <1>9 DEF RaiseTake
  <2> QED BY <1>0, <2>2, <2>3 DEF RefInv, Local
<1>10. ASSUME NEW r \in Raisers, RaiseInvoke(r) PROVE RefInv'
  <2>1. Holders' = Holders
    BY <1>10 DEF RaiseInvoke, Holders, HoldsHandler, coreVars, wordVars
  <2>2. UNCHANGED <<handler, refCount>> /\ prod' = prod
    BY <1>10 DEF RaiseInvoke, wordVars
  <2> QED BY <1>0, <2>1, <2>2 DEF RefInv, Local
<1>11. ASSUME CopyLoad PROVE RefInv'
  <2>1. Holders' = Holders
    BY <1>11 DEF CopyLoad, Holders, HoldsHandler, coreVars, wordVars
  <2>2. UNCHANGED <<handler, refCount>> /\ prod' = prod
    BY <1>11 DEF CopyLoad, wordVars
  <2> QED BY <1>0, <2>1, <2>2 DEF RefInv, Local
<1>12. ASSUME CopyStore PROVE RefInv'
  <2>0. /\ made \in alive /\ made + 1 \in Cores \ alive
        /\ alive' = alive \union {made + 1} /\ UNCHANGED <<handler, prod>>
    BY <1>12, NCoresAssumption DEF IInv, InterruptTypeOK, FreshInv, CallInv, Cores, CopyStore
  <2>1. CASE copying \in {"HasHandler", "TerminalHandler"}
    <3>1. /\ interrupt' = [interrupt EXCEPT ![made + 1] = "HasHandler"]
          /\ refCount' = refCount + 1
      BY <1>12, <2>1 DEF CopyStore
    <3>2. Holders' = Holders \union {made + 1} /\ made + 1 \notin Holders
      BY <2>0, <3>1 DEF IInv, InterruptTypeOK, Holders, HoldsHandler
    <3>3. Cardinality(Holders') = Cardinality(Holders) + 1
      BY <1>0, <3>2, FS_AddElement
    <3>4. made \in Holders
      BY <2>0, <2>1 DEF IInv, CallInv, Holders
    <3>5. prod = "done" /\ Cardinality(Holders) > 0
      BY <1>0, <3>4 DEF IInv, InterruptTypeOK, UnsharedInv, Holders
    <3> QED BY <1>0, <2>0, <3>1, <3>3, <3>5 DEF RefInv, Local
  <2>2. CASE copying \notin {"HasHandler", "TerminalHandler"}
    <3>1. /\ interrupt' = [interrupt EXCEPT ![made + 1] = "Initial"]
          /\ refCount' = refCount
      BY <1>12, <2>2 DEF CopyStore
    <3>2. Holders' = Holders
      BY <2>0, <3>1 DEF IInv, InterruptTypeOK, Holders, HoldsHandler
    <3> QED BY <1>0, <2>0, <3>1, <3>2 DEF RefInv, Local
  <2> QED BY <2>1, <2>2
<1>13. ASSUME NEW c \in Cores, Fulfil(c) PROVE RefInv'
  <2>1. Holders' = Holders
    BY <1>13 DEF Fulfil, Holders, HoldsHandler, coreVars, wordVars
  <2>2. UNCHANGED <<handler, refCount>> /\ prod' = prod
    BY <1>13 DEF Fulfil, wordVars
  <2> QED BY <1>0, <2>1, <2>2 DEF RefInv, Local
<1>14. ASSUME NEW c \in Cores, Destroy(c) PROVE RefInv'
  <2>1. Holders' = Holders \ {c} /\ (HoldsHandler(c) <=> c \in Holders)
    BY <1>14 DEF Destroy, Holders, HoldsHandler
  <2>2. c \in Holders => prod = "done" /\ Cardinality(Holders) > 0
    BY <1>0 DEF IInv, InterruptTypeOK, UnsharedInv, Holders
  <2>3. Cardinality(Holders') =
          IF c \in Holders THEN Cardinality(Holders) - 1 ELSE Cardinality(Holders)
    BY <1>0, <2>1, FS_RemoveElement
  <2>4. /\ UNCHANGED prod
        /\ refCount' = IF c \in Holders THEN refCount - 1 ELSE refCount
        /\ handler' = IF c \in Holders /\ refCount = 1 THEN "deleted" ELSE handler
    BY <1>14, <2>1 DEF Destroy
  <2>5. CASE c \in Holders
    BY <1>0, <2>2, <2>3, <2>4, <2>5 DEF RefInv, Local
  <2>6. CASE c \notin Holders
    BY <1>0, <2>3, <2>4, <2>6 DEF RefInv, Local
  <2> QED BY <2>5, <2>6
<1>15. ASSUME UNCHANGED interruptVars PROVE RefInv'
  <2>1. Holders' = Holders
    BY <1>15 DEF interruptVars, Holders, HoldsHandler, coreVars, wordVars
  <2>2. UNCHANGED <<handler, refCount>> /\ prod' = prod
    BY <1>15 DEF interruptVars, wordVars
  <2> QED BY <1>0, <2>1, <2>2 DEF RefInv, Local
<1> QED
  BY <1>1, <1>2, <1>3, <1>4, <1>5, <1>6, <1>7, <1>8,
     <1>9, <1>10, <1>11, <1>12, <1>13, <1>14, <1>15 DEF InterruptNext, RaiseStep

(* Every step preserves the count of exception objects. *)
LEMMA StepObjects == IInv /\ [InterruptNext]_interruptVars => NoObjectLeaks' /\ objects' \in Nat
<1> DEFINE words == Cardinality(InWords)
           calls == Cardinality(InCalls)
           held  == IF prod = "invoke" THEN 1 ELSE 0
           Goal  == objects' = words' + calls' + held' /\ objects' \in Nat
<1> SUFFICES ASSUME IInv, [InterruptNext]_interruptVars PROVE Goal
  BY DEF NoObjectLeaks, InWords, InCalls
<1>0. /\ IsFiniteSet(InWords) /\ words \in Nat
      /\ IsFiniteSet(InCalls) /\ calls \in Nat
      /\ InWords # {} => words > 0
      /\ InCalls # {} => calls > 0
      /\ objects = words + calls + held
  BY Counts DEF IInv, NoObjectLeaks, InWords, InCalls
<1>1. ASSUME SetCheck PROVE Goal
  <2>1. InWords' = InWords
    BY <1>1 DEF SetCheck, InWords, coreVars, wordVars
  <2>2. InCalls' = InCalls
    BY <1>1 DEF SetCheck, InCalls
  <2>3. held' = held /\ UNCHANGED objects
    BY <1>1 DEF SetCheck, wordVars
  <2> QED BY <1>0, <2>1, <2>2, <2>3
<1>2. ASSUME SetLoad PROVE Goal
  <2>1. InWords' = InWords
    BY <1>2 DEF SetLoad, InWords, coreVars, wordVars
  <2>2. InCalls' = InCalls
    BY <1>2 DEF SetLoad, InCalls
  <2>3. held' = held /\ UNCHANGED objects
    BY <1>2 DEF SetLoad, wordVars
  <2> QED BY <1>0, <2>1, <2>2, <2>3
<1>3. ASSUME SetStore PROVE Goal
  <2>1. InWords' = InWords
    BY <1>3 DEF IInv, InterruptTypeOK, SetStore, InWords, coreVars
  <2>2. InCalls' = InCalls
    BY <1>3 DEF SetStore, InCalls
  <2>3. held' = held /\ UNCHANGED objects
    BY <1>3 DEF SetStore
  <2> QED BY <1>0, <2>1, <2>2, <2>3
<1>4. ASSUME SetTake PROVE Goal
  <2>1. /\ interrupt[1] = "HasObject" /\ 1 \in alive
        /\ interrupt' = [interrupt EXCEPT ![1] = "Terminal"]
        /\ prod = "take" /\ prod' = "invoke"
        /\ UNCHANGED <<alive, rpc, objects>>
    BY <1>4 DEF IInv, ProdInv, SetTake, coreVars
  <2>2. InWords' = InWords \ {1} /\ 1 \in InWords /\ InCalls' = InCalls
    BY <2>1 DEF IInv, InterruptTypeOK, InWords, InCalls
  <2>3. words' = words - 1
    BY <1>0, <2>2, FS_RemoveElement
  <2> QED BY <1>0, <2>1, <2>2, <2>3
<1>5. ASSUME SetInvoke PROVE Goal
  <2>1. InWords' = InWords /\ InCalls' = InCalls
    BY <1>5 DEF SetInvoke, InWords, InCalls
  <2>2. held = 1 /\ held' = 0 /\ objects' = objects - 1
    BY <1>5 DEF SetInvoke
  <2> QED BY <1>0, <2>1, <2>2
<1>6. ASSUME NEW r \in Raisers, NEW c \in Cores, Raise(r, c) PROVE Goal
  <2>1. InWords' = InWords
    BY <1>6 DEF Raise, InWords, coreVars, wordVars
  <2>2. InCalls' = InCalls
    BY <1>6 DEF IInv, InterruptTypeOK, Raise, InCalls
  <2>3. held' = held /\ UNCHANGED objects
    BY <1>6 DEF Raise, wordVars
  <2> QED BY <1>0, <2>1, <2>2, <2>3
<1>7. ASSUME NEW r \in Raisers, RaiseLoad(r) PROVE Goal
  <2>1. InWords' = InWords /\ held' = held
    BY <1>7 DEF RaiseLoad, InWords, coreVars
  <2>2. CASE interrupt[rcore[r]] = "Initial"
    <3>1. InCalls' = InCalls \union {r} /\ r \notin InCalls
      BY <1>7, <2>2 DEF IInv, InterruptTypeOK, RaiseLoad, InCalls
    <3>2. calls' = calls + 1
      BY <1>0, <3>1, FS_AddElement
    <3>3. objects' = objects + 1
      BY <1>7, <2>2 DEF RaiseLoad
    <3> QED BY <1>0, <2>1, <3>2, <3>3
  <2>3. CASE interrupt[rcore[r]] # "Initial"
    <3>1. InCalls' = InCalls
      BY <1>7, <2>3 DEF IInv, InterruptTypeOK, RaiseLoad, InCalls
    <3>2. UNCHANGED objects
      BY <1>7, <2>3 DEF RaiseLoad
    <3> QED BY <1>0, <2>1, <3>1, <3>2
  <2> QED BY <2>2, <2>3
<1>8. ASSUME NEW r \in Raisers, RaiseStore(r) PROVE Goal
  <2>1. InCalls' = InCalls \ {r} /\ r \in InCalls /\ held' = held
    BY <1>8 DEF IInv, InterruptTypeOK, RaiseStore, InCalls
  <2>2. calls' = calls - 1 /\ calls > 0
    BY <1>0, <2>1, FS_RemoveElement
  <2>3. CASE interrupt[rcore[r]] = "Initial"
    <3>1. /\ interrupt' = [interrupt EXCEPT ![rcore[r]] = "HasObject"]
          /\ UNCHANGED <<alive, objects>> /\ rcore[r] \in alive
      BY <1>8, <2>3 DEF IInv, CallInv, RaiseStore, coreVars
    <3>2. InWords' = InWords \union {rcore[r]} /\ rcore[r] \notin InWords
      BY <2>3, <3>1 DEF IInv, InterruptTypeOK, InWords
    <3>3. words' = words + 1
      BY <1>0, <3>2, FS_AddElement
    <3> QED BY <1>0, <2>1, <2>2, <3>1, <3>3
  <2>4. CASE interrupt[rcore[r]] # "Initial"
    <3>1. InWords' = InWords /\ objects' = objects - 1
      BY <1>8, <2>4 DEF RaiseStore, InWords, coreVars
    <3> QED BY <1>0, <2>1, <2>2, <3>1
  <2> QED BY <2>3, <2>4
<1>9. ASSUME NEW r \in Raisers, RaiseTake(r) PROVE Goal
  <2>1. interrupt[rcore[r]] = "HasHandler" \/ interrupt' = interrupt
    BY <1>9 DEF RaiseTake
  <2>2. InWords' = InWords
    BY <1>9, <2>1 DEF IInv, InterruptTypeOK, RaiseTake, InWords, coreVars
  <2>3. InCalls' = InCalls
    BY <1>9 DEF IInv, InterruptTypeOK, RaiseTake, InCalls
  <2>4. held' = held /\ UNCHANGED objects
    BY <1>9 DEF RaiseTake
  <2> QED BY <1>0, <2>2, <2>3, <2>4
<1>10. ASSUME NEW r \in Raisers, RaiseInvoke(r) PROVE Goal
  <2>1. InWords' = InWords
    BY <1>10 DEF RaiseInvoke, InWords, wordVars
  <2>2. InCalls' = InCalls
    BY <1>10 DEF IInv, InterruptTypeOK, RaiseInvoke, InCalls
  <2>3. held' = held /\ UNCHANGED objects
    BY <1>10 DEF RaiseInvoke, wordVars
  <2> QED BY <1>0, <2>1, <2>2, <2>3
<1>11. ASSUME CopyLoad PROVE Goal
  <2>1. InWords' = InWords
    BY <1>11 DEF CopyLoad, InWords, coreVars, wordVars
  <2>2. InCalls' = InCalls
    BY <1>11 DEF CopyLoad, InCalls
  <2>3. held' = held /\ UNCHANGED objects
    BY <1>11 DEF CopyLoad, wordVars
  <2> QED BY <1>0, <2>1, <2>2, <2>3
<1>12. ASSUME CopyStore PROVE Goal
  <2>1. InWords' = InWords
    BY <1>12, NCoresAssumption
    DEF IInv, InterruptTypeOK, FreshInv, CallInv, Cores, CopyStore, InWords
  <2>2. InCalls' = InCalls /\ held' = held /\ UNCHANGED objects
    BY <1>12 DEF CopyStore, InCalls
  <2> QED BY <1>0, <2>1, <2>2
<1>13. ASSUME NEW c \in Cores, Fulfil(c) PROVE Goal
  <2>1. InWords' = InWords
    BY <1>13 DEF Fulfil, InWords, coreVars, wordVars
  <2>2. InCalls' = InCalls
    BY <1>13 DEF Fulfil, InCalls
  <2>3. held' = held /\ UNCHANGED objects
    BY <1>13 DEF Fulfil, wordVars
  <2> QED BY <1>0, <2>1, <2>2, <2>3
<1>14. ASSUME NEW c \in Cores, Destroy(c) PROVE Goal
  <2>1. InWords' = InWords \ {c} /\ (interrupt[c] = "HasObject" <=> c \in InWords)
    BY <1>14 DEF Destroy, InWords
  <2>2. InCalls' = InCalls /\ held' = held
    BY <1>14 DEF Destroy, InCalls
  <2>3. words' = IF c \in InWords THEN words - 1 ELSE words
    BY <1>0, <2>1, FS_RemoveElement
  <2>4. objects' = IF c \in InWords THEN objects - 1 ELSE objects
    BY <1>14, <2>1 DEF Destroy
  <2>5. CASE c \in InWords
    <3>1. words > 0
      BY <1>0, <2>5
    <3> QED BY <1>0, <2>2, <2>3, <2>4, <2>5, <3>1
  <2>6. CASE c \notin InWords
    BY <1>0, <2>2, <2>3, <2>4, <2>6
  <2> QED BY <2>5, <2>6
<1>15. ASSUME UNCHANGED interruptVars PROVE Goal
  <2>1. InWords' = InWords
    BY <1>15 DEF interruptVars, InWords, coreVars, wordVars
  <2>2. InCalls' = InCalls
    BY <1>15 DEF interruptVars, InCalls
  <2>3. held' = held /\ UNCHANGED objects
    BY <1>15 DEF interruptVars, wordVars
  <2> QED BY <1>0, <2>1, <2>2, <2>3
<1> QED
  BY <1>1, <1>2, <1>3, <1>4, <1>5, <1>6, <1>7, <1>8,
     <1>9, <1>10, <1>11, <1>12, <1>13, <1>14, <1>15 DEF InterruptNext, RaiseStep

(* Every step preserves the types. *)
LEMMA StepType == IInv /\ [InterruptNext]_interruptVars => InterruptTypeOK'
<1> SUFFICES ASSUME IInv, [InterruptNext]_interruptVars PROVE InterruptTypeOK'
  OBVIOUS
<1>0. /\ InterruptTypeOK /\ objects' \in Nat /\ logicError' = FALSE
      /\ \A c \in alive : HoldsHandler(c) => refCount > 0
  <2>1. \A c \in alive : HoldsHandler(c) => Holders # {}
    BY DEF Holders
  <2> QED BY <2>1, StepObjects, StepProd, Counts DEF IInv, ProdInv, RefInv, Local
<1>01. 1 \in Cores
  BY NCoresAssumption DEF Cores
<1>1. ASSUME SetCheck PROVE InterruptTypeOK'
  BY <1>0, <1>01, <1>1 DEF InterruptTypeOK, InterruptState, SetCheck, coreVars, wordVars, ghosts
<1>2. ASSUME SetLoad PROVE InterruptTypeOK'
  <2>1. interrupt[1] \in {"Initial", "HasObject"}
    BY <1>2 DEF IInv, ProdInv, SetLoad
  <2> QED BY <1>0, <1>2, <2>1 DEF InterruptTypeOK, SetLoad, coreVars
<1>3. ASSUME SetStore PROVE InterruptTypeOK'
  <2>1. interrupt' \in [Cores -> InterruptState] /\ offered' \subseteq Cores
    BY <1>0, <1>01, <1>3 DEF InterruptTypeOK, InterruptState, SetStore
  <2>2. prod' \in {"take", "done"}
    BY <1>3 DEF SetStore
  <2> QED BY <1>0, <1>3, <2>1, <2>2 DEF InterruptTypeOK, SetStore, coreVars
<1>4. ASSUME SetTake PROVE InterruptTypeOK'
  <2>1. interrupt' \in [Cores -> InterruptState] /\ offered' \subseteq Cores
    BY <1>0, <1>01, <1>4 DEF InterruptTypeOK, InterruptState, SetTake
  <2>2. prod' \in {"invoke", "done"}
    BY <1>4 DEF SetTake
  <2> QED BY <1>0, <1>4, <2>1, <2>2 DEF InterruptTypeOK, SetTake, coreVars
<1>5. ASSUME SetInvoke PROVE InterruptTypeOK'
  BY <1>0, <1>01, <1>5 DEF InterruptTypeOK, InterruptState, SetInvoke, coreVars, wordVars, ghosts
<1>6. ASSUME NEW r \in Raisers, NEW c \in Cores, Raise(r, c) PROVE InterruptTypeOK'
  BY <1>0, <1>01, <1>6 DEF InterruptTypeOK, InterruptState, Raise, coreVars, wordVars, ghosts
<1>7. ASSUME NEW r \in Raisers, RaiseLoad(r) PROVE InterruptTypeOK'
  BY <1>0, <1>01, <1>7 DEF InterruptTypeOK, InterruptState, RaiseLoad, coreVars, wordVars, ghosts
<1>8. ASSUME NEW r \in Raisers, RaiseStore(r) PROVE InterruptTypeOK'
  BY <1>0, <1>01, <1>8 DEF InterruptTypeOK, InterruptState, RaiseStore, coreVars, wordVars, ghosts
<1>9. ASSUME NEW r \in Raisers, RaiseTake(r) PROVE InterruptTypeOK'
  BY <1>0, <1>01, <1>9 DEF InterruptTypeOK, InterruptState, RaiseTake, coreVars, wordVars, ghosts
<1>10. ASSUME NEW r \in Raisers, RaiseInvoke(r) PROVE InterruptTypeOK'
  BY <1>0, <1>01, <1>10 DEF InterruptTypeOK, InterruptState, RaiseInvoke, coreVars, wordVars, ghosts
<1>11. ASSUME CopyLoad PROVE InterruptTypeOK'
  BY <1>0, <1>01, <1>11 DEF InterruptTypeOK, InterruptState, CopyLoad, coreVars, wordVars, ghosts
<1>12. ASSUME CopyStore PROVE InterruptTypeOK'
  <2>1. made + 1 \in Cores
    BY <1>12, NCoresAssumption DEF IInv, InterruptTypeOK, CallInv, Cores, CopyStore
  <2> QED BY <1>0, <1>12, <2>1 DEF InterruptTypeOK, InterruptState, CopyStore
<1>13. ASSUME NEW c \in Cores, Fulfil(c) PROVE InterruptTypeOK'
  BY <1>0, <1>01, <1>13 DEF InterruptTypeOK, InterruptState, Fulfil, coreVars, wordVars, ghosts
<1>14. ASSUME NEW c \in Cores, Destroy(c) PROVE InterruptTypeOK'
  BY <1>0, <1>01, <1>14 DEF InterruptTypeOK, InterruptState, Destroy, coreVars, wordVars, ghosts
<1>15. ASSUME UNCHANGED interruptVars PROVE InterruptTypeOK'
  BY <1>0, <1>01, <1>15 DEF InterruptTypeOK, InterruptState, interruptVars, coreVars, wordVars, ghosts
<1> QED
  BY <1>1, <1>2, <1>3, <1>4, <1>5, <1>6, <1>7, <1>8,
     <1>9, <1>10, <1>11, <1>12, <1>13, <1>14, <1>15 DEF InterruptNext, RaiseStep

(* The invariant is inductive. *)
LEMMA Invariance == InterruptSpec => []IInv
<1>1. IInv /\ [InterruptNext]_interruptVars => IInv'
  BY StepFresh, StepProd, StepUnshared, StepCall, StepOnce, StepPending, StepRef,
     StepObjects, StepType DEF IInv
<1> QED BY InitIInv, <1>1, PTL DEF InterruptSpec

(* The variables keep their types. *)
THEOREM TypeCorrect == InterruptSpec => []InterruptTypeOK
<1>1. IInv => InterruptTypeOK
  BY DEF IInv
<1> QED BY Invariance, <1>1, PTL

(* A promise holder that calls setInterruptHandler() once never reaches one *)
(* of its terminate_with calls, whatever raises race with it.               *)
THEOREM NeverTerminates == InterruptSpec => []NoLogicError
<1>1. IInv => NoLogicError
  BY DEF IInv, ProdInv, NoLogicError
<1> QED BY Invariance, <1>1, PTL

(* The handler runs at most once on behalf of a core, however many threads  *)
(* call raise() on it, and no interrupt is lost between a raise() and a     *)
(* setInterruptHandler(), or a copied handler, on the same core.            *)
THEOREM ExactlyOnce == InterruptSpec => []HandledExactlyOnce
<1>1. IInv => HandledAtMostOnce
  BY DEF IInv, OnceInv, HandledAtMostOnce
<1>2. IInv => InterruptDelivered
  <2> SUFFICES ASSUME IInv, NEW c \in Cores, c \in offered \intersect raised,
                      c = 1 => prod = "done",
                      \A r \in Raisers : rpc[r] = "idle" \/ rcore[r] # c
               PROVE  handled[c] = 1
    BY DEF InterruptDelivered
  <2>1. interrupt[c] \in {"TerminalHandler", "Terminal"}
    BY DEF IInv, PendingInv, PendingAt, At
  <2> QED BY <2>1 DEF IInv, OnceInv, At
<1> QED BY Invariance, <1>1, <1>2, PTL DEF HandledExactlyOnce

(* The shared handler is not used after the last reference to it is gone.   *)
THEOREM HandlerSafe == InterruptSpec => []HandlerNotFreed
<1>1. IInv => HandlerNotFreed
  <2> SUFFICES ASSUME IInv PROVE HandlerNotFreed
    OBVIOUS
  <2>1. \A c \in alive : HoldsHandler(c) => handler = "live"
    <3>1. \A c \in alive : HoldsHandler(c) => Holders # {}
      BY DEF Holders
    <3> QED BY <3>1, Counts DEF IInv, RefInv, Local
  <2> QED BY <2>1 DEF IInv, CallInv, HoldsHandler, HandlerNotFreed
<1> QED BY Invariance, <1>1, PTL

(* Neither an exception object nor the handler outlives the chain.          *)
THEOREM NothingLeaks == InterruptSpec => []NoLeak
<1>1. IInv => NoLeak
  <2> SUFFICES ASSUME IInv, alive = {} PROVE handler # "live"
    BY DEF IInv, NoLeak, NoHandlerLeak
  <2>1. Holders = {} /\ prod = "done"
    BY DEF IInv, ProdInv, Holders
  <2> QED BY <2>1, FS_EmptySet DEF IInv, RefInv, Local
<1> QED BY Invariance, <1>1, PTL

(* Between the two, the handler and the exceptions that raise() stored live *)
(* exactly as long as a core of the chain may still use them.               *)
THEOREM Lifetimes == InterruptSpec => []LivesAsNeeded
BY HandlerSafe, NothingLeaks, PTL DEF LivesAsNeeded
=============================================================================
