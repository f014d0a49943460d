---------------------------- MODULE TurnSequencer ----------------------------
(***************************************************************************)
(* folly/detail/TurnSequencer.h: threads wait for turn T on a futex whose  *)
(* word packs the current turn, truncated, with a saturating bound on how  *)
(* far ahead the furthest waiter is.  Wakeups go to one of 32 channels of  *)
(* the futex, selected by the turn.                                        *)
(*                                                                         *)
(* Turns are the integers modulo Modulus (2^26 in the code), the recorded  *)
(* delta saturates at DeltaMax (63), the futex has Channels (32) channels. *)
(* As in MPMCQueue, a turn is handed out to one owner, which waits for it  *)
(* and completes it; timed threads wait, with a deadline, for a turn that  *)
(* is not theirs (the Until operations of MPMCQueue).                      *)
(***************************************************************************)
EXTENDS Integers, FiniteSets

CONSTANTS Owners, Timed, Modulus, Channels, DeltaMax

ASSUME WidthAssumption ==
  /\ Channels \in Nat \ {0}
  /\ DeltaMax \in Nat /\ DeltaMax >= Channels
  /\ Modulus \in Nat \ {0} /\ Modulus % Channels = 0

\* There are fewer owners than turns in the half of the turn space that is the future.
ASSUME ThreadsAssumption ==
  /\ IsFiniteSet(Owners) /\ 2 * Cardinality(Owners) < Modulus
  /\ Owners \cap Timed = {}

VARIABLES
  word,    \* state_: the current turn and the recorded waiter delta
  next,    \* the next turn to be handed out
  pc,      \* where each thread is in tryWaitForTurn or completeTurn
  turn,    \* the turn each thread waits for or completes
  seen     \* the value of state_ each thread compares with

vars == <<word, next, pc, turn, seen>>

Threads == Owners \cup Timed

Turns == 0 .. (Modulus - 1)
Words == [turn : Turns, delta : 0 .. DeltaMax]

\* The value of seen when a thread holds none.
NoWord == [turn |-> 0, delta |-> 0]

\* Turn arithmetic wraps around.
Inc(a) == IF a = Modulus - 1 THEN 0 ELSE a + 1
Dist(a, b) == IF b >= a THEN b - a ELSE b - a + Modulus

\* sturn - current_sturn >= max() / 2, in turns.
InPast(a, current) == 2 * Dist(current, a) >= Modulus

\* encode saturates the delta; futexChannel selects the channel of a turn.
Encode(t, d) == [turn |-> t, delta |-> IF d > DeltaMax THEN DeltaMax ELSE d]
FutexChannel(a) == a % Channels

Init ==
  /\ \E t \in Turns : word = Encode(t, 0) /\ next = t
  /\ pc = [t \in Threads |-> "idle"]
  /\ turn = [t \in Threads |-> 0]
  /\ seen = [t \in Threads |-> NoWord]

\* An owner is handed the next turn, and calls waitForTurn.
TakeTurn(t) ==
  /\ t \in Owners
  /\ pc[t] = "idle"
  /\ turn' = [turn EXCEPT ![t] = next]
  /\ next' = Inc(next)
  /\ pc' = [pc EXCEPT ![t] = "load"]
  /\ UNCHANGED <<word, seen>>

\* A thread waits with a deadline for the turn that is to be handed out next.
TryWait(t) ==
  /\ t \in Timed
  /\ pc[t] = "idle"
  /\ turn' = [turn EXCEPT ![t] = next]
  /\ pc' = [pc EXCEPT ![t] = "load"]
  /\ UNCHANGED <<word, next, seen>>

\* Fault: a turn has come as soon as the word's turn is not smaller.
ArrivedNotWrapSafe(t) ==
  /\ pc[t] = "load"
  /\ word.turn >= turn[t]
  /\ pc' = [pc EXCEPT ![t] = IF t \in Timed THEN "idle" ELSE "turn"]
  /\ UNCHANGED <<word, next, turn, seen>>

(***************************************************************************)
(* One round of the loop of tryWaitForTurn: the turn has come, or is past  *)
(* (PAST), or the thread spins (another round), or it goes to block, when  *)
(* the word already records a waiter as far ahead as this one, or else     *)
(* after recording itself.                                                 *)
(***************************************************************************)
Arrived(t) ==
  /\ pc[t] = "load"
  /\ word.turn = turn[t]
  /\ pc' = [pc EXCEPT ![t] = IF t \in Timed THEN "idle" ELSE "turn"]
  /\ UNCHANGED <<word, next, turn, seen>>

Past(t) ==
  /\ pc[t] = "load"
  /\ InPast(turn[t], word.turn)
  /\ pc' = [pc EXCEPT ![t] = IF t \in Timed THEN "idle" ELSE "past"]
  /\ UNCHANGED <<word, next, turn, seen>>

Block(t) ==
  LET want == Encode(word.turn, Dist(word.turn, turn[t])) IN
  /\ pc[t] = "load"
  /\ word.turn # turn[t]
  /\ ~InPast(turn[t], word.turn)
  /\ seen' = [seen EXCEPT ![t] = word]
  /\ pc' = [pc EXCEPT ![t] = IF want.delta <= word.delta THEN "wait" ELSE "record"]
  /\ UNCHANGED <<word, next, turn>>

\* The compare-and-swap that records this waiter; if it fails the loop goes round again.
Record(t) ==
  LET want == Encode(seen[t].turn, Dist(seen[t].turn, turn[t])) IN
  /\ pc[t] = "record"
  /\ \/ /\ word = seen[t]
        /\ word' = want
        /\ seen' = [seen EXCEPT ![t] = want]
        /\ pc' = [pc EXCEPT ![t] = "wait"]
     \/ /\ word # seen[t]
        /\ pc' = [pc EXCEPT ![t] = "load"]
        /\ seen' = [seen EXCEPT ![t] = NoWord]
        /\ UNCHANGED word
  /\ UNCHANGED <<next, turn>>

\* futexWait blocks only if the word still is the one that was seen.
FutexWait(t) ==
  /\ pc[t] = "wait"
  /\ pc' = [pc EXCEPT ![t] = IF word = seen[t] THEN "asleep" ELSE "load"]
  /\ seen' = [seen EXCEPT ![t] = NoWord]
  /\ UNCHANGED <<word, next, turn>>

SpuriousWake(t) ==
  /\ pc[t] = "asleep"
  /\ pc' = [pc EXCEPT ![t] = "load"]
  /\ UNCHANGED <<word, next, turn, seen>>

\* TIMEDOUT
TimeOut(t) ==
  /\ pc[t] = "asleep"
  /\ t \in Timed
  /\ pc' = [pc EXCEPT ![t] = "idle"]
  /\ UNCHANGED <<word, next, turn, seen>>

(***************************************************************************)
(* completeTurn: a load, then compare-and-swaps until one succeeds, then a *)
(* wake on the channel of the next turn if any waiter is recorded.         *)
(***************************************************************************)
CompleteLoad(t) ==
  /\ pc[t] = "turn"
  /\ seen' = [seen EXCEPT ![t] = word]
  /\ pc' = [pc EXCEPT ![t] = "complete"]
  /\ UNCHANGED <<word, next, turn>>

\* Fault: the waiters recorded beyond the next turn are forgotten.
CompleteCASForgets(t) ==
  /\ pc[t] = "complete"
  /\ word = seen[t]
  /\ word' = Encode(Inc(turn[t]), 0)
  /\ pc' = [pc EXCEPT ![t] = IF word.delta # 0 THEN "wake" ELSE "idle"]
  /\ seen' = [seen EXCEPT ![t] = NoWord]
  /\ UNCHANGED <<next, turn>>

CompleteCAS(t) ==
  /\ pc[t] = "complete"
  /\ \/ /\ word = seen[t]
        /\ word' = Encode(Inc(turn[t]), IF word.delta = 0 THEN 0 ELSE word.delta - 1)
        /\ pc' = [pc EXCEPT ![t] = IF word.delta # 0 THEN "wake" ELSE "idle"]
        /\ seen' = [seen EXCEPT ![t] = NoWord]
     \/ /\ word # seen[t]
        /\ seen' = [seen EXCEPT ![t] = word]
        /\ UNCHANGED <<word, pc>>
  /\ UNCHANGED <<next, turn>>

\* Fault: only one of the sleepers on the channel is woken.
FutexWakeOne(t) ==
  LET woken == {u \in Threads : pc[u] = "asleep" /\
                                FutexChannel(turn[u]) = FutexChannel(Inc(turn[t]))} IN
  /\ pc[t] = "wake"
  /\ \/ woken = {} /\ pc' = [pc EXCEPT ![t] = "idle"]
     \/ \E u \in woken : pc' = [pc EXCEPT ![t] = "idle", ![u] = "load"]
  /\ UNCHANGED <<word, next, turn, seen>>

FutexWake(t) ==
  /\ pc[t] = "wake"
  /\ pc' = [u \in Threads |->
              IF u = t THEN "idle"
              ELSE IF pc[u] = "asleep" /\ FutexChannel(turn[u]) = FutexChannel(Inc(turn[t]))
                   THEN "load" ELSE pc[u]]
  /\ UNCHANGED <<word, next, turn, seen>>

Step(t) ==
  \/ Arrived(t)
  \/ Past(t)
  \/ Block(t)
  \/ Record(t)
  \/ FutexWait(t)
  \/ CompleteLoad(t)
  \/ CompleteCAS(t)
  \/ FutexWake(t)

Next ==
  \E t \in Threads : TakeTurn(t) \/ TryWait(t) \/ Step(t) \/ SpuriousWake(t) \/ TimeOut(t)

Spec == Init /\ [][Next]_vars

\* Threads are scheduled, and a thread whose turn has come completes it.
Fairness == \A t \in Threads : WF_vars(Step(t))

FairSpec == Spec /\ Fairness
-----------------------------------------------------------------------------
PCs == {"idle", "load", "record", "wait", "asleep", "turn", "complete", "wake", "past"}

TypeOK ==
  /\ word \in Words
  /\ next \in Turns
  /\ pc \in [Threads -> PCs]
  /\ turn \in [Threads -> Turns]
  /\ seen \in [Threads -> Words]

\* A thread that leaves waitForTurn or is in completeTurn is the only one, and the word
\* holds its turn (the DCHECK of completeTurn), although the word holds turns truncated.
TurnExclusive ==
  \A t \in Threads : pc[t] \in {"turn", "complete"} =>
    /\ word.turn = turn[t]
    /\ \A u \in Threads \ {t} : pc[u] \notin {"turn", "complete"}

\* A turn that was handed out is never found in the past (the DCHECK of waitForTurn):
\* wraparound of the turn space does not confuse future and past.
NeverPast == \A t \in Threads : pc[t] # "past"

\* While a thread sleeps on the futex, a coming completeTurn is bound to wake it: within the
\* recorded delta there is a turn on its channel, or the wake of that channel is under way.
\* The saturated delta and the early wakeups of waiters that share a channel lose nobody.
Ahead(j) == IF word.turn + j >= Modulus THEN word.turn + j - Modulus ELSE word.turn + j
WakeUnderWay(t) ==
  \E u \in Threads : pc[u] = "wake" /\ FutexChannel(Inc(turn[u])) = FutexChannel(turn[t])
NoLostWakeup ==
  \A t \in Threads : pc[t] = "asleep" =>
    \/ \E j \in 1 .. Channels : j <= word.delta /\ FutexChannel(Ahead(j)) = FutexChannel(turn[t])
    \/ WakeUnderWay(t)

\* Every turn that was handed out is eventually taken by its thread.
TurnComes == \A t \in Owners : (pc[t] = "load") ~> (pc[t] = "turn")
=============================================================================
