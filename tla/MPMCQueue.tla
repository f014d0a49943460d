------------------------------ MODULE MPMCQueue ------------------------------
(***************************************************************************)
(* folly/MPMCQueue.h, the bounded queue with a fixed capacity: tickets,    *)
(* the ring of single-element queues they select, and the operations of    *)
(* MPMCQueueBase (MPMCDynamic.tla is about the queue that grows).  The     *)
(* TurnSequencer of a slot is represented by the turn it is at             *)
(* (TurnSequencer.tla is about how threads wait for it).                   *)
(*                                                                         *)
(* Both sides run the same protocol: a writer takes push tickets and uses  *)
(* the even turns of a slot, a reader takes pop tickets and uses the odd   *)
(* ones.  Each operation comes in a blocking form, a form that succeeds    *)
(* only if it need not block ("ready": write, read), one that succeeds     *)
(* unless the queue is full or empty ("promised": writeIfNotFull,          *)
(* readIfNotEmpty), and a promised form with a deadline (tryWriteUntil,    *)
(* tryReadUntil).  A further thread calls size().                          *)
(***************************************************************************)
EXTENDS MPMCStride, FiniteSets

CONSTANTS
  Writers, Readers,
  Capacity,
  MaxTickets   \* bound: tickets handed out on either side

ASSUME CapacityAssumption == Capacity \in Nat \ {0}

VARIABLES
  pushTicket, popTicket,   \* pushTicket_ and popTicket_
  slots,                   \* per slot <<array, index>>: the turn of its sequencer, and its contents
  view,                    \* per thread: slots, cap and stride, and the first ticket of that array
  pc, ticket,              \* per thread: where it is, and the ticket it has read or owns
  elem,                    \* per thread: the element it writes, or has read
  pushed,                  \* ghost: the element of every push ticket that was handed out
  holds,                   \* ghost, per thread: whether it owns its ticket
  full,                    \* ghost, per thread: whether it found the queue full or empty
  sizer,                   \* the thread in size(): its pc and what it has read
  sizes                    \* ghost: the sizes the queue has had since size() was called

vars == <<pushTicket, popTicket, slots, view, pc, ticket, elem, pushed, holds, full, sizer, sizes>>

Threads == Writers \cup Readers
None == << >>
-----------------------------------------------------------------------------
\* Tickets, counted from the first of an array, select a slot of it and a turn of the slot.
Idx(i, cap, stride) == (i * stride) % cap
Turn(i, cap) == i \div cap

Array(a, cap, stride, offset) == [array |-> a, cap |-> cap, stride |-> stride, offset |-> offset]
Slot(v, i) == <<v.array, Idx(i - v.offset, v.cap, v.stride)>>
NewSlots(a, cap) == [p \in {a} \X (0 .. (cap - 1)) |-> [turn |-> 0, contents |-> None]]
-----------------------------------------------------------------------------
InitWith(cap) ==
  /\ pushTicket = 0
  /\ popTicket = 0
  /\ slots = NewSlots(0, cap)
  /\ view = [t \in Threads |-> Array(0, cap, ComputeStride(cap), 0)]
  /\ pc = [t \in Threads |-> "idle"]
  /\ ticket = [t \in Threads |-> 0]
  /\ elem = [t \in Threads |-> None]
  /\ pushed = << >>
  /\ holds = [t \in Threads |-> FALSE]
  /\ full = [t \in Threads |-> FALSE]
  /\ sizer = [pc |-> "idle", pushes |-> 0, pops |-> 0, result |-> 0]
  /\ sizes = {}

Init == InitWith(Capacity)

\* The ticket dispenser of t's side, and the turn that ticket i is to use in its slot.
Dispenser(t) == IF t \in Writers THEN pushTicket ELSE popTicket

SlotTurn(t, v, i) == 2 * Turn(i - v.offset, v.cap) + (IF t \in Writers THEN 0 ELSE 1)

\* mayEnqueue and mayDequeue
MayProceed(t, i) == slots[Slot(view[t], i)].turn = SlotTurn(t, view[t], i)

\* A promised ticket can be had: the queue is not full, or not empty, given t's ticket i.
Promised(t, i) == IF t \in Writers THEN i - popTicket < Capacity ELSE i < pushTicket

\* t takes the next ticket, which gives a writer's element its place in the queue.  The element
\* is known by its writer and that place; a reader has none yet.
TakeTicket(t) ==
  /\ Dispenser(t) < MaxTickets
  /\ IF t \in Writers
     THEN /\ pushTicket' = pushTicket + 1
          /\ elem' = [elem EXCEPT ![t] = <<t, pushTicket>>]
          /\ pushed' = [i \in DOMAIN pushed \cup {pushTicket} |->
                          IF i = pushTicket THEN <<t, pushTicket>> ELSE pushed[i]]
          /\ UNCHANGED popTicket
     ELSE popTicket' = popTicket + 1 /\ UNCHANGED <<pushTicket, pushed, elem>>
  /\ holds' = [holds EXCEPT ![t] = TRUE]
  /\ full' = [full EXCEPT ![t] = FALSE]
  /\ sizes' = IF sizer.pc = "idle" THEN {} ELSE sizes \cup {pushTicket' - popTicket'}

\* blockingWrite, blockingRead
Blocking(t) ==
  /\ pc[t] = "idle"
  /\ TakeTicket(t)
  /\ ticket' = [ticket EXCEPT ![t] = Dispenser(t)]
  /\ pc' = [pc EXCEPT ![t] = "wait"]
  /\ UNCHANGED <<slots, sizer>>

\* The first load of tryObtainReady*Ticket and tryObtainPromised*Ticket.
Begin(t) ==
  /\ pc[t] = "idle"
  /\ ticket' = [ticket EXCEPT ![t] = Dispenser(t)]
  /\ \E op \in {"readyCheck", "promisedCheck", "untilCheck"} : pc' = [pc EXCEPT ![t] = op]
  /\ full' = [full EXCEPT ![t] = FALSE]
  /\ UNCHANGED <<pushTicket, popTicket, slots, elem, pushed, holds, sizer, sizes>>

(***************************************************************************)
(* tryObtainReadyPushTicket and tryObtainReadyPopTicket.                   *)
(***************************************************************************)
ReadyCheck(t) ==
  /\ pc[t] = "readyCheck"
  /\ pc' = [pc EXCEPT ![t] = IF MayProceed(t, ticket[t]) THEN "readyCAS" ELSE "readyReload"]
  /\ full' = [full EXCEPT ![t] = ~MayProceed(t, Dispenser(t))]
  /\ UNCHANGED <<pushTicket, popTicket, slots, ticket, elem, pushed, holds, sizer, sizes>>

\* Fault: the dispenser is not read again before the operation fails.
ReadyReloadGivesUp(t) ==
  /\ pc[t] = "readyReload"
  /\ pc' = [pc EXCEPT ![t] = "failed"]
  /\ UNCHANGED <<pushTicket, popTicket, slots, ticket, elem, pushed, holds, full, sizer, sizes>>

ReadyReload(t) ==
  /\ pc[t] = "readyReload"
  /\ ticket' = [ticket EXCEPT ![t] = Dispenser(t)]
  /\ pc' = [pc EXCEPT ![t] = IF ticket[t] = Dispenser(t) THEN "failed" ELSE "readyCheck"]
  /\ UNCHANGED <<pushTicket, popTicket, slots, elem, pushed, holds, full, sizer, sizes>>

\* Fault: the dispenser is incremented, but the ticket read earlier is used.
ReadyCASStale(t) ==
  /\ pc[t] = "readyCAS"
  /\ TakeTicket(t)
  /\ pc' = [pc EXCEPT ![t] = "readyWait"]
  /\ UNCHANGED <<slots, ticket, sizer>>

ReadyCAS(t) ==
  /\ pc[t] = "readyCAS"
  /\ \/ /\ ticket[t] = Dispenser(t)
        /\ TakeTicket(t)
        /\ pc' = [pc EXCEPT ![t] = "readyWait"]
        /\ UNCHANGED ticket
     \/ /\ ticket[t] # Dispenser(t)
        /\ ticket' = [ticket EXCEPT ![t] = Dispenser(t)]
        /\ pc' = [pc EXCEPT ![t] = "readyCheck"]
        /\ full' = [full EXCEPT ![t] = FALSE]
        /\ UNCHANGED <<pushTicket, popTicket, elem, pushed, holds, sizes>>
  /\ UNCHANGED <<slots, sizer>>

(***************************************************************************)
(* tryObtainPromisedPushTicket and tryObtainPromisedPopTicket, and their   *)
(* Until forms, which on failure wait with a deadline for the turn of the  *)
(* ticket they could not have, and try again.                              *)
(***************************************************************************)
PromisedCheck(t) ==
  /\ pc[t] \in {"promisedCheck", "untilCheck"}
  /\ pc' = [pc EXCEPT ![t] =
               CASE Promised(t, ticket[t]) ->
                      IF pc[t] = "untilCheck" THEN "untilCAS" ELSE "promisedCAS"
                 [] OTHER -> IF pc[t] = "untilCheck" THEN "untilWait" ELSE "failed"]
  /\ full' = [full EXCEPT ![t] = ~Promised(t, Dispenser(t))]
  /\ UNCHANGED <<pushTicket, popTicket, slots, ticket, elem, pushed, holds, sizer, sizes>>

PromisedCAS(t) ==
  /\ pc[t] \in {"promisedCAS", "untilCAS"}
  /\ \/ /\ ticket[t] = Dispenser(t)
        /\ TakeTicket(t)
        /\ pc' = [pc EXCEPT ![t] = "promisedWait"]
        /\ UNCHANGED ticket
     \/ /\ ticket[t] # Dispenser(t)
        /\ ticket' = [ticket EXCEPT ![t] = Dispenser(t)]
        /\ pc' = [pc EXCEPT ![t] = IF pc[t] = "untilCAS" THEN "untilCheck" ELSE "promisedCheck"]
        /\ full' = [full EXCEPT ![t] = FALSE]
        /\ UNCHANGED <<pushTicket, popTicket, elem, pushed, holds, sizes>>
  /\ UNCHANGED <<slots, sizer>>

\* tryWaitForTurn returns because the turn has come or is past: try again.
TurnCame(t) == slots[Slot(view[t], ticket[t])].turn >= SlotTurn(t, view[t], ticket[t])

UntilWait(t) ==
  /\ pc[t] = "untilWait"
  /\ TurnCame(t)
  /\ ticket' = [ticket EXCEPT ![t] = Dispenser(t)]
  /\ pc' = [pc EXCEPT ![t] = "untilCheck"]
  /\ UNCHANGED <<pushTicket, popTicket, slots, elem, pushed, holds, full, sizer, sizes>>

UntilTimeOut(t) ==
  /\ pc[t] = "untilWait"
  /\ pc' = [pc EXCEPT ![t] = "failed"]
  /\ UNCHANGED <<pushTicket, popTicket, slots, ticket, elem, pushed, holds, full, sizer, sizes>>

\* The operation is over, and its local variables with it.
Return(t) ==
  /\ pc' = [pc EXCEPT ![t] = "idle"]
  /\ ticket' = [ticket EXCEPT ![t] = 0]
  /\ elem' = [elem EXCEPT ![t] = None]
  /\ holds' = [holds EXCEPT ![t] = FALSE]
  /\ full' = [full EXCEPT ![t] = FALSE]

\* The operation returns false.
Fail(t) ==
  /\ pc[t] = "failed"
  /\ Return(t)
  /\ UNCHANGED <<pushTicket, popTicket, slots, pushed, sizer, sizes>>

(***************************************************************************)
(* SingleElementQueue::enqueue and dequeue: wait for the turn, construct   *)
(* or move out the element, complete the turn.                             *)
(***************************************************************************)
Transfer(t) ==
  LET i == Slot(view[t], ticket[t]) IN
  /\ pc[t] \in {"wait", "readyWait", "promisedWait"}
  /\ MayProceed(t, ticket[t])
  /\ IF t \in Writers
     THEN slots' = [slots EXCEPT ![i].contents = elem[t]] /\ UNCHANGED elem
     ELSE /\ elem' = [elem EXCEPT ![t] = slots[i].contents]
          /\ slots' = [slots EXCEPT ![i].contents = None]
  /\ pc' = [pc EXCEPT ![t] = "complete"]
  /\ UNCHANGED <<pushTicket, popTicket, ticket, pushed, holds, full, sizer, sizes>>

CompleteTurn(t) ==
  /\ pc[t] = "complete"
  /\ slots' = [slots EXCEPT ![Slot(view[t], ticket[t])].turn = SlotTurn(t, view[t], ticket[t]) + 1]
  /\ Return(t)
  /\ UNCHANGED <<pushTicket, popTicket, pushed, sizer, sizes>>

(***************************************************************************)
(* size(): loads A and B, then C and D alternately until two loads of the  *)
(* same ticket agree.                                                      *)
(***************************************************************************)
SizeA ==
  /\ sizer.pc = "idle"
  /\ sizer' = [pc |-> "B", pushes |-> pushTicket, pops |-> 0, result |-> 0]
  /\ sizes' = {pushTicket - popTicket}
  /\ UNCHANGED <<pushTicket, popTicket, slots, pc, ticket, elem, pushed, holds, full>>

SizeB ==
  /\ sizer.pc = "B"
  /\ sizer' = [sizer EXCEPT !.pc = "C", !.pops = popTicket]
  /\ UNCHANGED <<pushTicket, popTicket, slots, pc, ticket, elem, pushed, holds, full, sizes>>

\* Fault: the pushes are not read again.
SizeCOnce ==
  /\ sizer.pc = "C"
  /\ sizer' = [sizer EXCEPT !.pc = "done", !.result = sizer.pushes - sizer.pops]
  /\ UNCHANGED <<pushTicket, popTicket, slots, pc, ticket, elem, pushed, holds, full, sizes>>

SizeC ==
  /\ sizer.pc = "C"
  /\ sizer' = IF sizer.pushes = pushTicket
              THEN [sizer EXCEPT !.pc = "done", !.result = sizer.pushes - sizer.pops]
              ELSE [sizer EXCEPT !.pc = "D", !.pushes = pushTicket]
  /\ UNCHANGED <<pushTicket, popTicket, slots, pc, ticket, elem, pushed, holds, full, sizes>>

SizeD ==
  /\ sizer.pc = "D"
  /\ sizer' = IF sizer.pops = popTicket
              THEN [sizer EXCEPT !.pc = "done", !.result = sizer.pushes - sizer.pops]
              ELSE [sizer EXCEPT !.pc = "C", !.pops = popTicket]
  /\ UNCHANGED <<pushTicket, popTicket, slots, pc, ticket, elem, pushed, holds, full, sizes>>

SizeReturn ==
  /\ sizer.pc = "done"
  /\ sizer' = [pc |-> "idle", pushes |-> 0, pops |-> 0, result |-> 0]
  /\ sizes' = {}
  /\ UNCHANGED <<pushTicket, popTicket, slots, pc, ticket, elem, pushed, holds, full>>

Step(t) ==
  \/ ReadyCheck(t)
  \/ ReadyReload(t)
  \/ ReadyCAS(t)
  \/ PromisedCheck(t)
  \/ PromisedCAS(t)
  \/ UntilWait(t)
  \/ Fail(t)
  \/ Transfer(t)
  \/ CompleteTurn(t)

Next ==
  /\ \/ \E t \in Threads : Blocking(t) \/ Begin(t) \/ Step(t) \/ UntilTimeOut(t)
     \/ SizeA \/ SizeB \/ SizeC \/ SizeD \/ SizeReturn
  /\ UNCHANGED view

Spec == Init /\ [][Next]_vars
-----------------------------------------------------------------------------
PCs == {"idle", "readyCheck", "readyReload", "readyCAS", "readyWait", "promisedCheck",
        "promisedCAS", "promisedWait", "untilCheck", "untilCAS", "untilWait", "wait",
        "failed", "complete"}
Waiting == {"wait", "readyWait", "promisedWait"}
Elements == (Writers \X (0 .. MaxTickets)) \cup {None}

TypeOK ==
  /\ pushTicket \in 0 .. MaxTickets /\ popTicket \in 0 .. MaxTickets
  /\ slots \in [{0} \X (0 .. (Capacity - 1)) -> [turn : Nat, contents : Elements]]
  /\ view = [t \in Threads |-> Array(0, Capacity, ComputeStride(Capacity), 0)]
  /\ pc \in [Threads -> PCs]
  /\ ticket \in [Threads -> 0 .. MaxTickets]
  /\ elem \in [Threads -> Elements]
  /\ holds \in [Threads -> BOOLEAN] /\ full \in [Threads -> BOOLEAN]
  /\ sizer.pc \in {"idle", "B", "C", "D", "done"}
  /\ sizes \subseteq (-MaxTickets) .. MaxTickets

\* FIFO: a reader that has moved its element out has the element of the push ticket with the
\* number of its own pop ticket, whichever forms of read and write raced for the tickets, and
\* in whichever array of a growing queue the two found their slot.
TicketsMatch ==
  \A t \in Readers : pc[t] = "complete" => elem[t] # None /\ elem[t] = pushed[ticket[t]]

\* An element is constructed only in an empty slot and moved out only of a full one: two
\* tickets in flight never use the same slot at the same time.
SlotExclusive ==
  \A t \in Threads :
    pc[t] \in Waiting /\ MayProceed(t, ticket[t]) =>
      /\ (slots[Slot(view[t], ticket[t])].contents = None) = (t \in Writers)
      /\ \A u \in Threads \ {t} :
           pc[u] = "complete" => Slot(view[u], ticket[u]) # Slot(view[t], ticket[t])

\* An operation that returns false was right at some moment of the call: the next ticket could
\* not have been used at once (write, read), or the queue was full or empty (promised forms).
\* In a queue that grows, a write may also fail on a ticket of an array that was closed
\* meanwhile, or for lack of memory.
FailureLinearizes == \A t \in Threads : pc[t] = "failed" => full[t]

\* size() returns a number of writes minus reads that the queue had at a moment of the call.
SizeLinearizes == sizer.pc = "done" => sizer.result \in sizes

\* A ticket obtained because the queue was not full or not empty will be usable: where a promised
\* form has to wait, the operation whose turn it is in that slot has begun and need not wait,
\* be it that it still has to find its array.
PromiseKept ==
  \A t \in Threads : pc[t] = "promisedWait" /\ ~MayProceed(t, ticket[t]) =>
    LET slot == Slot(view[t], ticket[t]) IN
    \E u \in Threads \ {t} :
      /\ holds[u] /\ ticket[u] >= view[t].offset
      /\ pc[u] \in Waiting \cup {"complete"} => view[u] = view[t]
      /\ Slot(view[t], ticket[u]) = slot
      /\ slots[slot].turn = SlotTurn(u, view[t], ticket[u])
=============================================================================
