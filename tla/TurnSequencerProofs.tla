------------------------- MODULE TurnSequencerProofs -------------------------
(***************************************************************************)
(* Safety of TurnSequencer for any number of owners and timed threads and  *)
(* any widths with DeltaMax >= Channels.  The inductive invariant says     *)
(* that the turns that were handed out and not completed are distinct and  *)
(* are the ones from the word's turn up to next (OwnerInv), that a thread  *)
(* past waitForTurn has the word's turn (HoldInv), and what a thread that  *)
(* is about to record itself or to block has seen (SeenInv).               *)
(***************************************************************************)
EXTENDS TurnSequencer, FiniteSetTheorems, TLAPS

Waiting == {t \in Owners : pc[t] \notin {"idle", "wake"}}

OwnerInv ==
  /\ Cardinality(Waiting) = Dist(word.turn, next)
  /\ \A t \in Waiting : Dist(word.turn, turn[t]) < Dist(word.turn, next)
  /\ \A t, u \in Waiting : t # u => turn[t] # turn[u]

HoldInv ==
  \A t \in Threads : 
    /\ pc[t] \in {"turn", "complete"} => t \in Owners /\ turn[t] = word.turn
    /\ pc[t] = "wake" => t \in Owners

Recorded(t) == Encode(seen[t].turn, Dist(seen[t].turn, turn[t])).delta

SeenInv ==
  \A t \in Threads :
    /\ pc[t] \in {"record", "wait"} => seen[t].turn # turn[t]
    /\ pc[t] = "record" => seen[t].delta < Recorded(t)
    /\ pc[t] = "wait" => seen[t].delta >= Recorded(t)

IInv == TypeOK /\ OwnerInv /\ HoldInv /\ NeverPast /\ SeenInv /\ NoLostWakeup
-----------------------------------------------------------------------------
\* Division with remainder: every integer has a quotient and a remainder by a positive number.
LEMMA ModDef ==
  ASSUME NEW C \in Nat \ {0}, NEW x \in Int
  PROVE  x = C * (x \div C) + (x % C) /\ x % C \in 0 .. (C - 1) /\ x \div C \in Int
  BY Z3T(30)

\* The remainder of C * q + r is r.
LEMMA ModUnique ==
  ASSUME NEW C \in Nat \ {0}, NEW q \in Int, NEW r \in 0 .. (C - 1)
  PROVE  (C * q + r) % C = r
  BY Z3T(30)

\* futexChannel: among any Channels consecutive turns, wrapping around, there is one on the
\* channel of any given turn, because Channels divides Modulus.
LEMMA Cover ==
  ASSUME NEW a \in Turns, NEW b \in Turns
  PROVE  \E j \in 1 .. Channels :
           FutexChannel(IF a + j >= Modulus THEN a + j - Modulus ELSE a + j) = FutexChannel(b)
<1> DEFINE C == Channels
           qa == a \div C
           ra == a % C
           rb == b % C
           qm == Modulus \div C
           j == IF rb > ra THEN rb - ra ELSE rb - ra + C
           q == IF rb > ra THEN qa ELSE qa + 1
<1>0. C \in Nat \ {0} /\ Modulus \in Nat \ {0} /\ Modulus % C = 0 /\ a \in Int /\ b \in Int
  BY WidthAssumption DEF Turns
<1>1. a = C * qa + ra /\ ra \in 0 .. (C - 1) /\ qa \in Int
  BY <1>0, ModDef
<1>2. rb \in 0 .. (C - 1)
  BY <1>0, ModDef
<1>3. Modulus = C * qm /\ qm \in Int
  BY <1>0, ModDef
<1>4. j \in 1 .. C /\ q \in Int
  BY <1>0, <1>1, <1>2
<1>5. a + j = C * q + rb
  <2> HIDE DEF qa, ra, rb, C
  <2>1. CASE rb > ra
    BY <2>1, <1>0, <1>1, <1>2
  <2>2. CASE ~(rb > ra)
    <3>1. C * (qa + 1) = C * qa + C
      BY <1>0, <1>1
    <3> QED BY <3>1, <2>2, <1>0, <1>1, <1>2
  <2> QED BY <2>1, <2>2
<1>6. a + j - Modulus = C * (q - qm) + rb /\ q - qm \in Int
  <2> HIDE DEF q, qm, rb, j, C
  <2>1. C * (q - qm) = C * q - C * qm
    BY <1>0, <1>3, <1>4
  <2> QED BY <2>1, <1>0, <1>3, <1>4, <1>5, <1>2
<1>7. (C * q + rb) % C = rb
  <2> HIDE DEF q, rb, C
  <2> QED BY <1>0, <1>2, <1>4, ModUnique
<1>8. (C * (q - qm) + rb) % C = rb
  <2> HIDE DEF q, qm, rb, C
  <2> QED BY <1>0, <1>2, <1>6, ModUnique
<1>9. (a + j) % C = rb /\ (a + j - Modulus) % C = rb
  <2> HIDE DEF q, qm, rb, j, C
  <2> QED BY <1>5, <1>6, <1>7, <1>8
<1> HIDE DEF j
<1>10. FutexChannel(IF a + j >= Modulus THEN a + j - Modulus ELSE a + j) = FutexChannel(b)
  BY <1>9 DEF FutexChannel
<1> QED BY <1>4, <1>10

\* Distances between turns.
LEMMA DistFacts ==
  ASSUME NEW a \in Turns, NEW b \in Turns
  PROVE  /\ Dist(a, b) \in Nat /\ Dist(a, b) < Modulus
         /\ Dist(a, b) = 0 <=> a = b
         /\ Inc(a) \in Turns
         /\ a # b => Dist(Inc(a), b) = Dist(a, b) - 1
         /\ Dist(a, b) < Modulus - 1 => Dist(a, Inc(b)) = Dist(a, b) + 1
  BY WidthAssumption DEF Turns, Dist, Inc

\* There are fewer owners than half the turns, so OwnerInv bounds every distance to next.
LEMMA Bounded ==
  ASSUME TypeOK, OwnerInv
  PROVE  /\ 2 * Dist(word.turn, next) < Modulus
         /\ \A t \in Owners : t \notin Waiting => 2 * (Dist(word.turn, next) + 1) < Modulus
<1>1. IsFiniteSet(Owners) /\ Cardinality(Owners) \in Nat /\ 2 * Cardinality(Owners) < Modulus
      /\ Modulus \in Nat
  BY ThreadsAssumption, WidthAssumption, FS_CardinalityType
<1>2. Waiting \subseteq Owners
  BY DEF Waiting
<1>3. Cardinality(Waiting) <= Cardinality(Owners) /\ IsFiniteSet(Waiting) 
      /\ Cardinality(Waiting) \in Nat
  BY <1>1, <1>2, FS_Subset, FS_CardinalityType
<1>4. ASSUME NEW t \in Owners, t \notin Waiting
      PROVE  Cardinality(Waiting) + 1 <= Cardinality(Owners)
  <2>1. Waiting \cup {t} \subseteq Owners
    BY <1>2, <1>4
  <2>2. Cardinality(Waiting \cup {t}) = Cardinality(Waiting) + 1
    BY <1>3, <1>4, FS_AddElement
  <2> QED BY <2>1, <2>2, <1>1, FS_Subset
<1> QED BY <1>1, <1>3, <1>4 DEF OwnerInv
-----------------------------------------------------------------------------
\* Every step keeps the types.
LEMMA StepType == TypeOK /\ [Next]_vars => TypeOK'
<1> SUFFICES ASSUME TypeOK, [Next]_vars PROVE TypeOK'
  OBVIOUS
<1> USE DEF TypeOK, PCs
<1>w. \A a \in Turns, b \in Turns, d \in Nat :
        /\ Inc(a) \in Turns /\ Dist(a, b) \in Nat
        /\ Encode(a, d) \in Words /\ NoWord \in Words
  BY WidthAssumption DEF Turns, Inc, Dist, Encode, Words, NoWord
<1>ww. word.turn \in Turns /\ word.delta \in 0 .. DeltaMax
  BY DEF Words
<1>s. \A t \in Threads : seen[t] \in Words /\ seen[t].turn \in Turns /\ seen[t].delta \in 0 .. DeltaMax
  BY DEF Words
<1>1. CASE UNCHANGED vars
  BY <1>1 DEF vars
<1>2. ASSUME NEW t \in Threads, TakeTurn(t) PROVE TypeOK'
  BY <1>2, <1>w DEF TakeTurn
<1>3. ASSUME NEW t \in Threads, TryWait(t) PROVE TypeOK'
  BY <1>3 DEF TryWait
<1>4. ASSUME NEW t \in Threads, Arrived(t) PROVE TypeOK'
  BY <1>4 DEF Arrived
<1>5. ASSUME NEW t \in Threads, Past(t) PROVE TypeOK'
  BY <1>5 DEF Past
<1>6. ASSUME NEW t \in Threads, Block(t) PROVE TypeOK'
  BY <1>6 DEF Block
<1>7. ASSUME NEW t \in Threads, Record(t) PROVE TypeOK'
  <2> DEFINE want == Encode(seen[t].turn, Dist(seen[t].turn, turn[t]))
  <2>1. want \in Words
    BY <1>w, <1>s
  <2> HIDE DEF want
  <2>2. CASE word = seen[t] /\ word' = want /\ seen' = [seen EXCEPT ![t] = want]
             /\ pc' = [pc EXCEPT ![t] = "wait"]
    BY <2>1, <2>2, <1>7 DEF Record
  <2>3. CASE word # seen[t] /\ pc' = [pc EXCEPT ![t] = "load"]
             /\ seen' = [seen EXCEPT ![t] = NoWord] /\ UNCHANGED word
    BY <2>3, <1>7, <1>w, <1>ww DEF Record
  <2> QED BY <2>2, <2>3, <1>7 DEF Record, want
<1>8. ASSUME NEW t \in Threads, FutexWait(t) PROVE TypeOK'
  BY <1>8, <1>w, <1>ww DEF FutexWait
<1>9. ASSUME NEW t \in Threads, SpuriousWake(t) \/ TimeOut(t) PROVE TypeOK'
  BY <1>9 DEF SpuriousWake, TimeOut
<1>10. ASSUME NEW t \in Threads, CompleteLoad(t) PROVE TypeOK'
  BY <1>10 DEF CompleteLoad
<1>11. ASSUME NEW t \in Threads, CompleteCAS(t) PROVE TypeOK'
  <2> DEFINE d == IF word.delta = 0 THEN 0 ELSE word.delta - 1
  <2>1. d \in Nat
    BY <1>ww, WidthAssumption
  <2>2. Encode(Inc(turn[t]), d) \in Words /\ NoWord \in Words
    BY <2>1, <1>w, <1>ww
  <2>3. CASE word = seen[t]
    BY <2>2, <2>3, <1>11 DEF CompleteCAS
  <2>4. CASE word # seen[t]
    BY <2>4, <1>11 DEF CompleteCAS
  <2> QED BY <2>3, <2>4
<1>12. ASSUME NEW t \in Threads, FutexWake(t) PROVE TypeOK'
  BY <1>12 DEF FutexWake
<1> QED
  BY <1>1, <1>2, <1>3, <1>4, <1>5, <1>6, <1>7, <1>8, <1>9, <1>10, <1>11, <1>12 DEF Next, Step

\* A step that neither hands out nor completes a turn keeps OwnerInv.
LEMMA SameOwners ==
  ASSUME OwnerInv, Waiting' = Waiting, word'.turn = word.turn, next' = next,
         \A t \in Waiting : turn'[t] = turn[t]
  PROVE  OwnerInv'
  BY DEF OwnerInv, Dist

\* The turns handed out stay distinct and stay between the current turn and next.
LEMMA StepOwner == TypeOK /\ OwnerInv /\ HoldInv /\ [Next]_vars => OwnerInv'
<1> SUFFICES ASSUME TypeOK, OwnerInv, HoldInv, [Next]_vars PROVE OwnerInv'
  OBVIOUS
<1>t. /\ word.turn \in Turns /\ next \in Turns
      /\ \A u \in Threads : turn[u] \in Turns
      /\ IsFiniteSet(Waiting)
  <2>1. Waiting \subseteq Owners
    BY DEF Waiting
  <2> QED BY <2>1, ThreadsAssumption, FS_Subset DEF TypeOK, Words
<1>o. Waiting \subseteq Owners /\ Owners \subseteq Threads /\ Owners \cap Timed = {}
  BY ThreadsAssumption DEF Waiting, Threads
<1>d. Dist(word.turn, next) \in Int /\ \A u \in Threads : Dist(word.turn, turn[u]) \in Int
  BY <1>t, WidthAssumption DEF Dist, Turns
<1>1. CASE UNCHANGED vars
  BY <1>1, SameOwners DEF vars, Waiting
<1>2. ASSUME NEW t \in Threads, TakeTurn(t) PROVE OwnerInv'
  <2>1. /\ t \in Owners /\ t \notin Waiting
        /\ turn' = [turn EXCEPT ![t] = next]
        /\ next' = Inc(next) /\ word' = word
        /\ pc' = [pc EXCEPT ![t] = "load"]
    BY <1>2 DEF TakeTurn, Waiting
  <2>2. Waiting' = Waiting \cup {t}
    BY <2>1, <1>o DEF Waiting, TypeOK
  <2>3. Cardinality(Waiting') = Cardinality(Waiting) + 1
    BY <2>1, <2>2, <1>t, FS_AddElement
  <2>4. Dist(word.turn, Inc(next)) = Dist(word.turn, next) + 1
    <3>1. 2 * (Dist(word.turn, next) + 1) < Modulus
      BY <2>1, Bounded
    <3>2. Dist(word.turn, next) \in Nat /\ Modulus \in Nat
      BY <1>t, DistFacts, WidthAssumption
    <3>3. Dist(word.turn, next) < Modulus - 1
      BY <3>1, <3>2
    <3> QED BY <3>3, <1>t, DistFacts
  <2>5. /\ turn'[t] = next
        /\ \A u \in Waiting : turn'[u] = turn[u]
    BY <2>1, <1>o DEF TypeOK
  <2>6. \A u \in Waiting : turn[u] # next
    BY <1>d DEF OwnerInv
  <2>7. Dist(word.turn, next) \in Int /\ \A u \in Waiting : Dist(word.turn, turn[u]) \in Int
    BY <1>d, <1>o
  <2>8. \A u \in Waiting' : Dist(word'.turn, turn'[u]) < Dist(word'.turn, next')
    BY <2>1, <2>2, <2>4, <2>5, <2>7 DEF OwnerInv
  <2>9. \A u, v \in Waiting' : u # v => turn'[u] # turn'[v]
    BY <2>2, <2>5, <2>6 DEF OwnerInv
  <2>10. Cardinality(Waiting') = Dist(word'.turn, next')
    BY <2>1, <2>3, <2>4 DEF OwnerInv
  <2> QED BY <2>8, <2>9, <2>10 DEF OwnerInv
<1>3. ASSUME NEW t \in Threads, TryWait(t) PROVE OwnerInv'
  <2>1. Waiting' = Waiting
    BY <1>3, <1>o DEF TryWait, Waiting, TypeOK
  <2>2. \A u \in Waiting : turn'[u] = turn[u]
    BY <1>3, <1>o DEF TryWait, TypeOK
  <2> QED BY <1>3, <2>1, <2>2, SameOwners DEF TryWait
<1>4. ASSUME NEW t \in Threads, Arrived(t) \/ Past(t) \/ TimeOut(t) PROVE OwnerInv'
  <2>1. Waiting' = Waiting
    BY <1>4, <1>o DEF Arrived, Past, TimeOut, Waiting, TypeOK
  <2> QED BY <1>4, <2>1, SameOwners DEF Arrived, Past, TimeOut
<1>5. ASSUME NEW t \in Threads, Block(t) \/ FutexWait(t) \/ SpuriousWake(t) \/ CompleteLoad(t)
      PROVE  OwnerInv'
  <2>0. /\ pc[t] \notin {"idle", "wake"} /\ pc'[t] \notin {"idle", "wake"}
        /\ \A u \in Threads \ {t} : pc'[u] = pc[u]
    BY <1>5 DEF Block, FutexWait, SpuriousWake, CompleteLoad, TypeOK
  <2>1. Waiting' = Waiting
    BY <2>0, <1>o DEF Waiting
  <2> QED BY <1>5, <2>1, SameOwners DEF Block, FutexWait, SpuriousWake, CompleteLoad
<1>6. ASSUME NEW t \in Threads, Record(t) PROVE OwnerInv'
  <2>0. /\ pc[t] \notin {"idle", "wake"} /\ pc'[t] \notin {"idle", "wake"}
        /\ \A u \in Threads \ {t} : pc'[u] = pc[u]
    BY <1>6 DEF Record, TypeOK
  <2>1. Waiting' = Waiting
    BY <2>0, <1>o DEF Waiting
  <2>2. word'.turn = word.turn
    BY <1>6 DEF Record, Encode
  <2> QED BY <1>6, <2>1, <2>2, SameOwners DEF Record
<1>7. ASSUME NEW t \in Threads, CompleteCAS(t) PROVE OwnerInv'
  <2>1. CASE word # seen[t]
    <3>1. Waiting' = Waiting
      BY <1>7, <2>1 DEF CompleteCAS, Waiting
    <3> QED BY <1>7, <2>1, <3>1, SameOwners DEF CompleteCAS
  <2>2. CASE word = seen[t]
    <3>1. /\ word'.turn = Inc(word.turn) /\ next' = next /\ turn' = turn
          /\ t \in Waiting /\ turn[t] = word.turn
      BY <1>7, <2>2 DEF CompleteCAS, Encode, HoldInv, Waiting
    <3>a. pc'[t] \in {"idle", "wake"} /\ \A u \in Threads \ {t} : pc'[u] = pc[u]
      BY <1>7, <2>2 DEF CompleteCAS, TypeOK
    <3>2. Waiting' = Waiting \ {t}
      BY <3>a, <1>o DEF Waiting
    <3>3. Cardinality(Waiting') = Cardinality(Waiting) - 1
      BY <3>1, <3>2, <1>t, FS_RemoveElement
    <3>4. word.turn # next
      <4>1. Dist(word.turn, turn[t]) < Dist(word.turn, next)
        BY <3>1 DEF OwnerInv
      <4> QED BY <4>1, <3>1, <1>t, DistFacts
    <3>5. Dist(Inc(word.turn), next) = Dist(word.turn, next) - 1
      BY <3>4, <1>t, DistFacts
    <3>6. \A u \in Waiting' : Dist(Inc(word.turn), turn[u]) = Dist(word.turn, turn[u]) - 1
      <4> SUFFICES ASSUME NEW u \in Waiting' 
                   PROVE Dist(Inc(word.turn), turn[u]) = Dist(word.turn, turn[u]) - 1
        OBVIOUS
      <4>1. turn[u] # word.turn /\ u \in Threads
        BY <3>1, <3>2, <1>o DEF OwnerInv
      <4> QED BY <4>1, <1>t, DistFacts
    <3>7. Dist(word.turn, next) \in Int /\ \A u \in Waiting : Dist(word.turn, turn[u]) \in Int
      BY <1>d, <1>o
    <3>8. \A u \in Waiting' : Dist(word'.turn, turn'[u]) < Dist(word'.turn, next')
      BY <3>1, <3>2, <3>5, <3>6, <3>7 DEF OwnerInv
    <3>9. \A u, v \in Waiting' : u # v => turn'[u] # turn'[v]
      BY <3>1, <3>2 DEF OwnerInv
    <3>10. Cardinality(Waiting') = Dist(word'.turn, next')
      BY <3>1, <3>3, <3>5 DEF OwnerInv
    <3> QED BY <3>8, <3>9, <3>10 DEF OwnerInv
  <2> QED BY <2>1, <2>2
<1>8. ASSUME NEW t \in Threads, FutexWake(t) PROVE OwnerInv'
  <2>1. Waiting' = Waiting
    BY <1>8, <1>o DEF FutexWake, Waiting, TypeOK
  <2> QED BY <1>8, <2>1, SameOwners DEF FutexWake
<1> QED
  BY <1>1, <1>2, <1>3, <1>4, <1>5, <1>6, <1>7, <1>8 DEF Next, Step

\* A thread that has passed waitForTurn keeps the word's turn until it completes it.
LEMMA StepHold == TypeOK /\ OwnerInv /\ HoldInv /\ [Next]_vars => HoldInv'
<1> SUFFICES ASSUME TypeOK, OwnerInv, HoldInv, [Next]_vars PROVE HoldInv'
  OBVIOUS
<1> USE DEF HoldInv
<1>1. CASE UNCHANGED vars
  BY <1>1 DEF vars
<1>2. ASSUME NEW t \in Threads, TakeTurn(t) \/ TryWait(t) PROVE HoldInv'
  BY <1>2 DEF TakeTurn, TryWait, TypeOK
<1>3. ASSUME NEW t \in Threads, Arrived(t) PROVE HoldInv'
  BY <1>3 DEF Arrived, TypeOK, Threads
<1>4. ASSUME NEW t \in Threads, Past(t) \/ TimeOut(t) \/ Block(t) PROVE HoldInv'
  BY <1>4 DEF Past, TimeOut, Block, TypeOK
<1>5. ASSUME NEW t \in Threads, FutexWait(t) \/ SpuriousWake(t) \/ CompleteLoad(t) PROVE HoldInv'
  BY <1>5 DEF FutexWait, SpuriousWake, CompleteLoad, TypeOK
<1>6. ASSUME NEW t \in Threads, Record(t) PROVE HoldInv'
  <2>1. word'.turn = word.turn /\ turn' = turn
    BY <1>6 DEF Record, Encode
  <2> QED BY <2>1, <1>6 DEF Record, TypeOK
<1>7. ASSUME NEW t \in Threads, CompleteCAS(t) PROVE HoldInv'
  <2>1. CASE word # seen[t]
    BY <1>7, <2>1 DEF CompleteCAS
  <2>2. CASE word = seen[t]
    <3>1. t \in Owners /\ turn[t] = word.turn /\ pc[t] = "complete" /\ turn' = turn
      BY <1>7 DEF CompleteCAS
    <3>2. \A u \in Threads \ {t} : pc[u] \notin {"turn", "complete"}
      BY <3>1 DEF OwnerInv, Waiting
    <3>3. pc'[t] \in {"idle", "wake"} /\ \A u \in Threads \ {t} : pc'[u] = pc[u]
      BY <1>7, <2>2 DEF CompleteCAS, TypeOK
    <3> QED BY <3>1, <3>2, <3>3
  <2> QED BY <2>1, <2>2
<1>8. ASSUME NEW t \in Threads, FutexWake(t) PROVE HoldInv'
  BY <1>8 DEF FutexWake
<1> QED
  BY <1>1, <1>2, <1>3, <1>4, <1>5, <1>6, <1>7, <1>8 DEF Next, Step

\* waitForTurn of an owner does not find its turn in the past.
LEMMA StepPast == TypeOK /\ OwnerInv /\ NeverPast /\ [Next]_vars => NeverPast'
<1> SUFFICES ASSUME TypeOK, OwnerInv, NeverPast, [Next]_vars PROVE NeverPast'
  OBVIOUS
<1> USE DEF NeverPast
<1>1. CASE UNCHANGED vars
  BY <1>1 DEF vars
<1>2. ASSUME NEW t \in Threads, TakeTurn(t) \/ TryWait(t) \/ Arrived(t) \/ TimeOut(t) \/ Block(t)
      PROVE NeverPast'
  BY <1>2 DEF TakeTurn, TryWait, Arrived, TimeOut, Block, TypeOK
<1>3. ASSUME NEW t \in Threads,
             FutexWait(t) \/ SpuriousWake(t) \/ CompleteLoad(t) \/ Record(t) \/ CompleteCAS(t)
      PROVE NeverPast'
  BY <1>3 DEF FutexWait, SpuriousWake, CompleteLoad, Record, CompleteCAS, TypeOK
<1>4. ASSUME NEW t \in Threads, FutexWake(t) PROVE NeverPast'
  BY <1>4 DEF FutexWake
<1>5. ASSUME NEW t \in Threads, Past(t) PROVE NeverPast'
  <2>1. CASE t \in Timed
    BY <1>5, <2>1 DEF Past, TypeOK
  <2>2. CASE t \notin Timed
    <3>1. t \in Waiting
      BY <1>5, <2>2 DEF Past, Waiting, Threads
    <3>2. /\ Dist(word.turn, turn[t]) < Dist(word.turn, next)
          /\ 2 * Dist(word.turn, next) < Modulus
          /\ 2 * Dist(word.turn, turn[t]) >= Modulus
      BY <3>1, <1>5, Bounded DEF OwnerInv, Past, InPast
    <3>3. Dist(word.turn, turn[t]) \in Int /\ Dist(word.turn, next) \in Int /\ Modulus \in Int
      BY WidthAssumption DEF TypeOK, Words, Turns, Dist
    <3> QED BY <3>2, <3>3
  <2> QED BY <2>1, <2>2
<1> QED
  BY <1>1, <1>2, <1>3, <1>4, <1>5 DEF Next, Step

\* What a thread about to record itself or to block has seen concerns a turn still to come.
LEMMA StepSeen == TypeOK /\ SeenInv /\ [Next]_vars => SeenInv'
<1> SUFFICES ASSUME TypeOK, SeenInv, [Next]_vars PROVE SeenInv'
  OBVIOUS
<1> USE DEF SeenInv, Recorded
<1>1. CASE UNCHANGED vars
  BY <1>1 DEF vars
<1>2. ASSUME NEW t \in Threads, TakeTurn(t) \/ TryWait(t) PROVE SeenInv'
  BY <1>2 DEF TakeTurn, TryWait, TypeOK
<1>3. ASSUME NEW t \in Threads, Arrived(t) \/ Past(t) \/ TimeOut(t) \/ SpuriousWake(t) PROVE SeenInv'
  BY <1>3 DEF Arrived, Past, TimeOut, SpuriousWake, TypeOK
<1>4. ASSUME NEW t \in Threads, Block(t) PROVE SeenInv'
  <2>1. /\ seen' = [seen EXCEPT ![t] = word] /\ turn' = turn /\ word.turn # turn[t]
        /\ pc' = [pc EXCEPT ![t] = IF Encode(word.turn, Dist(word.turn, turn[t])).delta <= word.delta
                                  THEN "wait" ELSE "record"]
    BY <1>4 DEF Block
  <2>2. word.delta \in Int /\ DeltaMax \in Int /\ Dist(word.turn, turn[t]) \in Int
    <3> HIDE DEF SeenInv, Recorded
    <3>1. word.turn \in Turns /\ turn[t] \in Turns /\ word.delta \in 0 .. DeltaMax
      BY DEF TypeOK, Words
    <3>2. Dist(word.turn, turn[t]) \in Int
      BY <3>1, WidthAssumption DEF Turns, Dist
    <3> QED BY <3>1, <3>2, WidthAssumption
  <2>3. Encode(word.turn, Dist(word.turn, turn[t])).delta \in Int
    BY <2>2 DEF Encode
  <2> QED BY <2>1, <2>2, <2>3 DEF TypeOK
<1>5. ASSUME NEW t \in Threads, Record(t) PROVE SeenInv'
  <2> DEFINE want == Encode(seen[t].turn, Dist(seen[t].turn, turn[t]))
  <2>1. CASE word # seen[t]
    BY <1>5, <2>1 DEF Record, TypeOK
  <2>2. CASE word = seen[t]
    <3>1. /\ seen' = [seen EXCEPT ![t] = want] /\ turn' = turn
          /\ pc' = [pc EXCEPT ![t] = "wait"] /\ pc[t] = "record"
      BY <1>5, <2>2 DEF Record
    <3>2. want.turn = seen[t].turn /\ want.delta \in Int
      BY WidthAssumption DEF TypeOK, Words, Turns, Encode, Dist
    <3>3. Encode(want.turn, Dist(want.turn, turn[t])).delta = want.delta
      BY <3>2
    <3> HIDE DEF want
    <3> QED BY <3>1, <3>2, <3>3 DEF TypeOK
  <2> QED BY <2>1, <2>2
<1>6. ASSUME NEW t \in Threads, FutexWait(t) \/ CompleteLoad(t) \/ CompleteCAS(t) PROVE SeenInv'
  <2>1. /\ pc'[t] \notin {"record", "wait"}
        /\ turn' = turn
        /\ \A u \in Threads \ {t} : pc'[u] = pc[u] /\ seen'[u] = seen[u]
    <3>1. CASE FutexWait(t)
      BY <3>1 DEF FutexWait, TypeOK
    <3>2. CASE CompleteLoad(t)
      BY <3>2 DEF CompleteLoad, TypeOK
    <3>3. CASE CompleteCAS(t) /\ word = seen[t]
      BY <3>3 DEF CompleteCAS, TypeOK
    <3>4. CASE CompleteCAS(t) /\ word # seen[t]
      BY <3>4 DEF CompleteCAS, TypeOK
    <3> QED BY <1>6, <3>1, <3>2, <3>3, <3>4
  <2> QED BY <2>1
<1>7. ASSUME NEW t \in Threads, FutexWake(t) PROVE SeenInv'
  BY <1>7 DEF FutexWake
<1> QED
  BY <1>1, <1>2, <1>3, <1>4, <1>5, <1>6, <1>7 DEF Next, Step

\* A sleeper keeps its wakeup if nobody falls asleep, the word's turn stays and its delta does
\* not shrink, and the wakes under way stay.
LEMMA SameWake ==
  ASSUME TypeOK, TypeOK', NoLostWakeup,
         \A t \in Threads : pc'[t] = "asleep" => pc[t] = "asleep" /\ turn'[t] = turn[t],
         \A t \in Threads : pc[t] = "wake" => pc'[t] = "wake" /\ turn'[t] = turn[t],
         word'.turn = word.turn, word'.delta >= word.delta
  PROVE  NoLostWakeup'
<1> SUFFICES ASSUME NEW t \in Threads, pc'[t] = "asleep"
             PROVE  \/ \E j \in 1 .. Channels :
                           j <= word'.delta /\ FutexChannel(Ahead(j)') = FutexChannel(turn'[t])
                    \/ WakeUnderWay(t)'
  BY DEF NoLostWakeup, FutexChannel
<1>1. pc[t] = "asleep" /\ turn'[t] = turn[t]
  OBVIOUS
<1>2. word.delta \in Int /\ word'.delta \in Int /\ Channels \in Nat
  BY WidthAssumption DEF TypeOK, Words
<1>3. CASE \E j \in 1 .. Channels : j <= word.delta /\ FutexChannel(Ahead(j)) = FutexChannel(turn[t])
  <2>1. PICK j \in 1 .. Channels : j <= word.delta /\ FutexChannel(Ahead(j)) = FutexChannel(turn[t])
    BY <1>3
  <2>2. Ahead(j)' = Ahead(j)
    BY DEF Ahead
  <2>3. j <= word'.delta
    BY <2>1, <1>2
  <2> QED BY <1>1, <2>1, <2>2, <2>3
<1>4. CASE WakeUnderWay(t)
  BY <1>1, <1>4 DEF WakeUnderWay, FutexChannel
<1> QED BY <1>1, <1>3, <1>4 DEF NoLostWakeup

\* A thread that falls asleep has recorded itself far enough ahead to be woken.
LEMMA SleepRecorded ==
  ASSUME TypeOK, NEW t \in Threads, word.turn # turn[t],
         word.delta >= Encode(word.turn, Dist(word.turn, turn[t])).delta
  PROVE  \E j \in 1 .. Channels :
           j <= word.delta /\ FutexChannel(Ahead(j)) = FutexChannel(turn[t])
<1> DEFINE d == Dist(word.turn, turn[t])
<1>1. /\ word.turn \in Turns /\ turn[t] \in Turns
      /\ word.delta \in Nat /\ Channels \in Nat \ {0} /\ DeltaMax \in Nat /\ DeltaMax >= Channels
  BY WidthAssumption DEF TypeOK, Words
<1>2. d \in Nat /\ d # 0 /\ Ahead(d) = turn[t]
  BY <1>1, WidthAssumption DEF Turns, Dist, Ahead
<1>3. word.delta >= d \/ word.delta >= DeltaMax
  BY <1>1, <1>2 DEF Encode
<1> HIDE DEF d
<1>4. CASE d <= Channels
  <2>1. d \in 1 .. Channels /\ d <= word.delta
    BY <1>1, <1>2, <1>3, <1>4
  <2> QED BY <2>1, <1>2
<1>5. CASE d > Channels
  <2>1. word.delta >= Channels
    BY <1>1, <1>2, <1>3, <1>5
  <2>2. PICK j \in 1 .. Channels : FutexChannel(Ahead(j)) = FutexChannel(turn[t])
    BY <1>1, Cover DEF Ahead
  <2>3. j <= word.delta
    BY <1>1, <2>1
  <2> QED BY <2>2, <2>3
<1> QED BY <1>1, <1>2, <1>4, <1>5

\* No step leaves a sleeping thread without a coming wakeup.
LEMMA StepWake ==
  TypeOK /\ TypeOK' /\ HoldInv /\ SeenInv /\ NoLostWakeup /\ [Next]_vars => NoLostWakeup'
<1> SUFFICES ASSUME TypeOK, TypeOK', HoldInv, SeenInv, NoLostWakeup, [Next]_vars
             PROVE  NoLostWakeup'
  OBVIOUS
<1>t. /\ word.turn \in Turns /\ word.delta \in Nat /\ word.delta <= DeltaMax
      /\ Channels \in Nat \ {0} /\ Modulus \in Nat \ {0} /\ DeltaMax \in Nat
  BY WidthAssumption DEF TypeOK, Words
<1>1. CASE UNCHANGED vars
  BY <1>1, <1>t, SameWake DEF vars
<1>2. ASSUME NEW t \in Threads, TakeTurn(t) \/ TryWait(t) PROVE NoLostWakeup'
  <2>1. /\ word' = word
        /\ \A u \in Threads : pc'[u] = "asleep" => pc[u] = "asleep" /\ turn'[u] = turn[u]
        /\ \A u \in Threads : pc[u] = "wake" => pc'[u] = "wake" /\ turn'[u] = turn[u]
    BY <1>2 DEF TakeTurn, TryWait, TypeOK
  <2> QED BY <2>1, <1>t, SameWake
<1>3. ASSUME NEW t \in Threads, Arrived(t) \/ Past(t) \/ TimeOut(t) \/ SpuriousWake(t)
      PROVE  NoLostWakeup'
  <2>1. /\ word' = word /\ turn' = turn
        /\ \A u \in Threads : pc'[u] = "asleep" => pc[u] = "asleep"
        /\ \A u \in Threads : pc[u] = "wake" => pc'[u] = "wake"
    BY <1>3 DEF Arrived, Past, TimeOut, SpuriousWake, TypeOK
  <2> QED BY <2>1, <1>t, SameWake
<1>4. ASSUME NEW t \in Threads, Block(t) \/ CompleteLoad(t) PROVE NoLostWakeup'
  <2>1. /\ word' = word /\ turn' = turn
        /\ \A u \in Threads : pc'[u] = "asleep" => pc[u] = "asleep"
        /\ \A u \in Threads : pc[u] = "wake" => pc'[u] = "wake"
    BY <1>4 DEF Block, CompleteLoad, TypeOK
  <2> QED BY <2>1, <1>t, SameWake
<1>5. ASSUME NEW t \in Threads, Record(t) PROVE NoLostWakeup'
  <2>1. /\ turn' = turn
        /\ \A u \in Threads : pc'[u] = "asleep" => pc[u] = "asleep"
        /\ \A u \in Threads : pc[u] = "wake" => pc'[u] = "wake"
    BY <1>5 DEF Record, TypeOK
  <2>2. CASE word # seen[t]
    BY <1>5, <1>t, <2>1, <2>2, SameWake DEF Record
  <2>3. CASE word = seen[t]
    <3>1. word' = Encode(word.turn, Dist(word.turn, turn[t])) /\ pc[t] = "record"
      BY <1>5, <2>3 DEF Record
    <3>2. word'.turn = word.turn /\ word.delta < word'.delta
      BY <3>1, <2>3 DEF SeenInv, Recorded, Encode
    <3>3. word'.delta \in Nat
      BY WidthAssumption DEF TypeOK, Words
    <3>4. word'.delta >= word.delta
      BY <3>2, <3>3, <1>t
    <3> QED BY <2>1, <3>2, <3>4, SameWake
  <2> QED BY <2>2, <2>3
<1>6. ASSUME NEW t \in Threads, FutexWait(t) PROVE NoLostWakeup'
  <2>1. CASE word # seen[t]
    BY <1>6, <1>t, <2>1, SameWake DEF FutexWait, TypeOK
  <2>2. CASE word = seen[t]
    <3>1. word' = word /\ turn' = turn /\ pc' = [pc EXCEPT ![t] = "asleep"] /\ pc[t] = "wait"
      BY <1>6, <2>2 DEF FutexWait
    <3>2. \E j \in 1 .. Channels : j <= word.delta /\ FutexChannel(Ahead(j)) = FutexChannel(turn[t])
      BY <3>1, <2>2, SleepRecorded DEF SeenInv, Recorded
    <3>3. \A u \in Threads : u # t => WakeUnderWay(u)' = WakeUnderWay(u)
      BY <3>1 DEF WakeUnderWay, TypeOK
    <3>4. \A j \in 1 .. Channels : Ahead(j)' = Ahead(j)
      BY <3>1 DEF Ahead
    <3>5. ASSUME NEW u \in Threads, pc'[u] = "asleep", u # t
          PROVE  \/ \E j \in 1 .. Channels :
                        j <= word.delta /\ FutexChannel(Ahead(j)) = FutexChannel(turn[u])
                 \/ WakeUnderWay(u)
      BY <3>1, <3>5 DEF NoLostWakeup, TypeOK
    <3> QED BY <3>1, <3>2, <3>3, <3>4, <3>5 DEF NoLostWakeup
  <2> QED BY <2>1, <2>2
<1>7. ASSUME NEW t \in Threads, CompleteCAS(t) PROVE NoLostWakeup'
  <2>1. CASE word # seen[t]
    BY <1>7, <1>t, <2>1, SameWake DEF CompleteCAS
  <2>2. CASE word = seen[t]
    <3>1. /\ word'.turn = Inc(word.turn)
          /\ word'.delta = IF word.delta = 0 THEN 0 ELSE word.delta - 1
          /\ pc' = [pc EXCEPT ![t] = IF word.delta # 0 THEN "wake" ELSE "idle"]
          /\ turn' = turn /\ turn[t] = word.turn /\ pc[t] = "complete"
      BY <1>7, <1>t, <2>2 DEF CompleteCAS, Encode, HoldInv
    <3> SUFFICES ASSUME NEW u \in Threads, pc'[u] = "asleep"
                 PROVE  \/ \E j \in 1 .. Channels :
                              j <= word'.delta /\ FutexChannel(Ahead(j)') = FutexChannel(turn[u])
                        \/ WakeUnderWay(u)'
      BY <3>1 DEF NoLostWakeup, FutexChannel
    <3>2. u # t /\ pc[u] = "asleep"
      BY <3>1 DEF TypeOK
    <3>3. CASE WakeUnderWay(u)
      BY <3>1, <3>3 DEF WakeUnderWay, FutexChannel, TypeOK
    <3>4. ASSUME NEW j \in 1 .. Channels, j <= word.delta,
                 FutexChannel(Ahead(j)) = FutexChannel(turn[u])
          PROVE  \/ \E k \in 1 .. Channels :
                       k <= word'.delta /\ FutexChannel(Ahead(k)') = FutexChannel(turn[u])
                 \/ WakeUnderWay(u)'
      <4>1. CASE j = 1
        <5>1. Ahead(1) = Inc(turn[t])
          BY <3>1, <1>t DEF Ahead, Inc, Turns
        <5>2. pc'[t] = "wake" /\ turn'[t] = turn[t] /\ turn'[u] = turn[u]
          BY <3>1, <3>4, <4>1, <1>t DEF TypeOK
        <5> QED BY <5>1, <5>2, <3>4, <4>1 DEF WakeUnderWay, FutexChannel, Inc
      <4>2. CASE j # 1
        <5>1. j - 1 \in 1 .. Channels /\ j - 1 <= word'.delta
          BY <3>1, <3>4, <4>2, <1>t
        <5>2. Ahead(j - 1)' = Ahead(j)
          <6>1. DeltaMax \in Nat /\ word'.turn = Inc(word.turn) /\ j \in Nat /\ j <= Channels
                /\ Channels <= Modulus
            <7>1. Modulus % Channels = 0
              BY WidthAssumption
            <7>2. Modulus = Channels * (Modulus \div Channels) /\ Modulus \div Channels \in Int
              BY <7>1, <1>t, ModDef
            <7>3. Channels <= Modulus
              <8>1. CASE Modulus \div Channels <= 0
                <9>1. Channels * (Modulus \div Channels) <= 0
                  BY <8>1, <7>2, <1>t
                <9> QED BY <9>1, <7>2, <1>t
              <8>2. CASE Modulus \div Channels >= 1
                <9>1. Channels * (Modulus \div Channels) >= Channels
                  BY <8>2, <7>2, <1>t
                <9> QED BY <9>1, <7>2, <1>t
              <8> QED BY <8>1, <8>2, <7>2
            <7> QED BY <3>1, <1>t, <7>3
          <6> QED BY <6>1, <1>t, <4>2 DEF Ahead, Inc, Turns
        <5> QED BY <5>1, <5>2, <3>4
      <4> QED BY <4>1, <4>2
    <3> QED BY <3>2, <3>3, <3>4 DEF NoLostWakeup
  <2> QED BY <2>1, <2>2
<1>8. ASSUME NEW t \in Threads, FutexWake(t) PROVE NoLostWakeup'
  <2>1. word' = word /\ turn' = turn
    BY <1>8 DEF FutexWake
  <2>2. \A j \in 1 .. Channels : Ahead(j)' = Ahead(j)
    BY <2>1 DEF Ahead
  <2> SUFFICES ASSUME NEW u \in Threads, pc'[u] = "asleep"
               PROVE  \/ \E j \in 1 .. Channels :
                            j <= word.delta /\ FutexChannel(Ahead(j)) = FutexChannel(turn[u])
                      \/ WakeUnderWay(u)'
    BY <2>1, <2>2 DEF NoLostWakeup, FutexChannel
  <2>3. /\ pc[u] = "asleep" /\ FutexChannel(turn[u]) # FutexChannel(Inc(turn[t]))
        /\ \A v \in Threads \ {t} : pc[v] = "wake" => pc'[v] = "wake"
    BY <1>8 DEF FutexWake
  <2>4. CASE WakeUnderWay(u)
    <3>1. PICK v \in Threads : pc[v] = "wake" /\ FutexChannel(Inc(turn[v])) = FutexChannel(turn[u])
      BY <2>4 DEF WakeUnderWay
    <3>2. v # t
      BY <3>1, <2>3
    <3> QED BY <2>1, <2>3, <3>1, <3>2 DEF WakeUnderWay, FutexChannel, Inc
  <2> QED BY <2>3, <2>4 DEF NoLostWakeup
<1> QED
  BY <1>1, <1>2, <1>3, <1>4, <1>5, <1>6, <1>7, <1>8 DEF Next, Step

\* The inductive invariant holds initially and is kept by every step.
THEOREM Inductive == Spec => []IInv
<1>1. Init => IInv
  <2> SUFFICES ASSUME Init PROVE IInv
    OBVIOUS
  <2>1. PICK a \in Turns : word = Encode(a, 0) /\ next = a
    BY DEF Init
  <2>2. word = NoWord \/ word \in Words
    BY <2>1, WidthAssumption DEF Words, Encode
  <2>3. /\ word \in Words /\ NoWord \in Words /\ word.turn = next /\ next \in Turns /\ 0 \in Turns
    BY <2>1, WidthAssumption DEF Words, Encode, NoWord, Turns
  <2>4. TypeOK
    BY <2>3 DEF TypeOK, Init, PCs
  <2>5. Waiting = {}
    BY DEF Waiting, Init, Threads
  <2>6. OwnerInv
    BY <2>3, <2>5, FS_EmptySet, DistFacts DEF OwnerInv
  <2>7. HoldInv /\ NeverPast /\ SeenInv /\ NoLostWakeup
    BY DEF Init, HoldInv, NeverPast, SeenInv, NoLostWakeup
  <2> QED BY <2>4, <2>6, <2>7 DEF IInv
<1>2. IInv /\ [Next]_vars => IInv'
  BY StepType, StepOwner, StepHold, StepPast, StepSeen, StepWake DEF IInv
<1> QED BY <1>1, <1>2, PTL DEF Spec

\* The variables always have their types; in particular the recorded delta fits its bits.
THEOREM TypeCorrect == Spec => []TypeOK
  BY Inductive, PTL DEF IInv

\* At most one thread has left waitForTurn and not completed its turn, and the word holds that
\* turn, however often the turn space has wrapped around.
THEOREM Exclusion == Spec => []TurnExclusive
<1>1. IInv => TurnExclusive
  BY DEF IInv, OwnerInv, HoldInv, TurnExclusive, Waiting
<1> QED BY <1>1, Inductive, PTL

\* An owner never finds its turn in the past: the DCHECK of waitForTurn cannot fail.
THEOREM Future == Spec => []NeverPast
  BY Inductive, PTL DEF IInv

\* A thread asleep on the futex always has a wakeup coming, for any number of waiters.
THEOREM NoneLost == Spec => []NoLostWakeup
  BY Inductive, PTL DEF IInv
=============================================================================
