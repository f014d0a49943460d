---------------------------- MODULE MPMCDynamic ----------------------------
(***************************************************************************)
(* MPMCQueue<T, Atom, true> (folly/MPMCQueue.h): the queue that starts     *)
(* with a small array of slots and replaces it by a larger one when a      *)
(* writer would block.  A seqlock protects the address and the capacity of *)
(* the current array.  Tickets below its offset belong to closed arrays.   *)
(*                                                                         *)
(* The operations are those of MPMCQueue.tla, from which the transfer      *)
(* through a slot is taken; what differs is how a thread gets its ticket   *)
(* and finds the array for it.  Every load and store that others may       *)
(* interleave with is a step; pc names the next one.                       *)
(***************************************************************************)
EXTENDS MPMCQueue, TLC

CONSTANTS
  MinCapacity, MaxCapacity,   \* minCapacity and queueCapacity, which is capacity_
  Multiplier,                 \* dmult_
  Unforeseen                  \* the cases the code gets wrong that this instance includes

ASSUME GrowthAssumption ==
  /\ MaxCapacity \in Nat /\ MinCapacity \in 1 .. MaxCapacity
  /\ Multiplier \in Nat \ {0, 1}

VARIABLES
  dstate,      \* dstate_: whether the seqlock is taken, the offset, the number of closed arrays
  dslots,      \* dslots_: the current array
  dcapacity,   \* dcapacity_
  dstride,     \* dstride_
  closed,      \* closed_
  loc          \* per thread: the form of its operation, the state it read, a ticket it read

seqlock == <<dstate, dslots, dcapacity, dstride, closed>>
dynamicVars == <<vars, seqlock, loc>>

Forms == {"blocking", "ready", "promised", "until"}
Unlocked(offset, n) == [locked |-> FALSE, offset |-> offset, closed |-> n]
FirstArray == Array(0, MinCapacity, ComputeStride(MinCapacity), 0)
NoLocals == [form |-> "none", state |-> Unlocked(0, 0), seen |-> 0]
Larger(m, n) == IF m < n THEN n ELSE m
Smaller(m, n) == IF m < n THEN m ELSE n

\* A case the code gets wrong is left out, unless it is what the instance is about.
Provided(case, condition) == condition \/ case \in Unforeseen

DynamicInit ==
  /\ InitWith(MinCapacity)
  /\ dstate = Unlocked(0, 0)
  /\ dslots = 0
  /\ dcapacity = MinCapacity
  /\ dstride = ComputeStride(MinCapacity)
  /\ closed = << >>
  /\ loc = [t \in Threads |-> NoLocals]
-----------------------------------------------------------------------------
Form(t) == loc[t].form
Closed(t) == view[t].offset # loc[t].state.offset

Local == <<pushTicket, popTicket, slots, elem, pushed, holds, sizer, sizes>>

\* What comes after the load of the ticket.
AfterTicket(form) == IF form \in {"promised", "until"} THEN "other" ELSE "state"

\* The ticket cannot be had, or not without waiting.
Refused(t) ==
  CASE Form(t) = "blocking" -> "wait" [] Form(t) = "until" -> "untilWait" [] OTHER -> "failed"

\* t goes on at label; state and the tickets read are of use inside the loop only.
Goto(t, label) ==
  /\ pc' = [pc EXCEPT ![t] = label]
  /\ loc' = IF label \in {"cas", "wait", "untilWait", "failed"}
            THEN [loc EXCEPT ![t] = [NoLocals EXCEPT !.form = Form(t)]] ELSE loc

\* `continue`: what was read is read again, the ticket too unless the operation owns it.
Continue(t) ==
  /\ pc' = [pc EXCEPT ![t] = IF Form(t) = "blocking" THEN "state" ELSE "start"]
  /\ loc' = [loc EXCEPT ![t] = [NoLocals EXCEPT !.form = Form(t)]]
  /\ view' = [view EXCEPT ![t] = FirstArray]
  /\ ticket' = [ticket EXCEPT ![t] = IF Form(t) = "blocking" THEN @ ELSE 0]
  /\ full' = [full EXCEPT ![t] = FALSE]

(***************************************************************************)
(* The ticket; for promised forms the ticket of the other side as well.    *)
(***************************************************************************)
BeginDynamic(t, form) ==
  /\ pc[t] = "idle"
  /\ IF form = "blocking"
     THEN TakeTicket(t)
     ELSE UNCHANGED <<pushTicket, popTicket, pushed, holds, sizes, elem, full>>
  /\ ticket' = [ticket EXCEPT ![t] = Dispenser(t)]
  /\ loc' = [loc EXCEPT ![t].form = form]
  /\ pc' = [pc EXCEPT ![t] = AfterTicket(form)]
  /\ UNCHANGED <<slots, view, sizer, seqlock>>

LoadTicket(t) ==
  /\ pc[t] = "start"
  /\ ticket' = [ticket EXCEPT ![t] = Dispenser(t)]
  /\ Goto(t, AfterTicket(Form(t)))
  /\ UNCHANGED <<Local, view, full, seqlock>>

LoadOther(t) ==
  /\ pc[t] = "other"
  /\ loc' = [loc EXCEPT ![t].seen = IF t \in Writers THEN popTicket ELSE pushTicket]
  /\ full' = [full EXCEPT ![t] = IF t \in Writers THEN pushTicket - popTicket >= MaxCapacity
                                 ELSE popTicket >= pushTicket]
  /\ pc' = [pc EXCEPT ![t] = "state"]
  /\ UNCHANGED <<Local, ticket, view, seqlock>>

(***************************************************************************)
(* trySeqlockReadSection, and maybeUpdateFromClosed at its end.            *)
(***************************************************************************)
LoadState(t) ==
  /\ pc[t] = "state"
  /\ \/ dstate.locked /\ Continue(t)
     \/ /\ ~dstate.locked
        /\ loc' = [loc EXCEPT ![t].state = dstate]
        /\ pc' = [pc EXCEPT ![t] = "slots"]
        /\ UNCHANGED <<ticket, view, full>>
  /\ UNCHANGED <<Local, seqlock>>

\* The loads of the address, the capacity and the stride, which an expansion stores one by one.
\* They are one step: whatever mixture of old and new they give, dstate has changed by then.
LoadSlots(t) ==
  /\ pc[t] = "slots"
  /\ view' = [view EXCEPT ![t].array = dslots, ![t].cap = dcapacity, ![t].stride = dstride]
  /\ Goto(t, "validate")
  /\ UNCHANGED <<Local, ticket, full, seqlock>>

\* The array for ticket i, given what the read section of t has read.
maybeUpdateFromClosed(t, i) ==
  LET state == loc[t].state
      earlier == {k \in 1 .. state.closed : closed[k].offset <= i}
  IN IF i >= state.offset THEN [view[t] EXCEPT !.offset = state.offset]
     ELSE closed[CHOOSE k \in earlier : \A j \in earlier : j <= k]

\* How the operation goes on with array v: promised forms compare what they have read.
WithArray(t, v) ==
  LET current == v.offset = loc[t].state.offset
      enough == IF t \in Writers THEN ticket[t] - loc[t].seen < v.cap ELSE ticket[t] < loc[t].seen
  IN CASE Form(t) = "blocking" -> IF t \in Writers /\ current THEN "check" ELSE "wait"
       [] Form(t) = "ready" -> "check"
       [] OTHER -> IF enough THEN "cas"
                   ELSE IF t \in Writers /\ v.cap = view[t].cap /\ v.cap # MaxCapacity
                        THEN "expand" ELSE Refused(t)

UseArray(t, v) ==
  LET label == WithArray(t, v) IN
  /\ view' = [view EXCEPT ![t] = v]
  /\ full' = [full EXCEPT ![t] = label # "cas" /\ (@ \/ (t \in Writers /\ v.offset # loc[t].state.offset))]
  /\ Goto(t, label)
  /\ UNCHANGED ticket

\* Fault: the seqlock is not validated.
ValidateNot(t) ==
  /\ pc[t] = "validate"
  /\ UseArray(t, maybeUpdateFromClosed(t, ticket[t]))
  /\ UNCHANGED <<Local, seqlock>>

Validate(t) ==
  /\ pc[t] = "validate"
  /\ \/ dstate # loc[t].state /\ Continue(t)
     \/ dstate = loc[t].state /\ UseArray(t, maybeUpdateFromClosed(t, ticket[t]))
  /\ UNCHANGED <<Local, seqlock>>
-----------------------------------------------------------------------------
(***************************************************************************)
(* mayEnqueue and mayDequeue, and what follows if the slot is not ready.   *)
(***************************************************************************)
Check(t) ==
  LET ready == MayProceed(t, ticket[t]) IN
  /\ pc[t] = "check"
  /\ Goto(t, CASE ready -> IF Form(t) = "blocking" THEN "wait" ELSE "cas"
               [] ~ready /\ t \in Readers -> "failed"
               [] ~ready /\ t \in Writers -> IF Form(t) = "blocking" THEN "pops" ELSE "recheck")
  /\ Provided("read with a stale ticket", t \in Readers /\ ~ready => ticket[t] = popTicket)
  /\ full' = [full EXCEPT ![t] = ~ready /\ ticket[t] = Dispenser(t)]
  /\ UNCHANGED <<Local, ticket, view, seqlock>>

\* tryObtainReadyPushTicket: the ticket is read again, then it expands or gives up.
Recheck(t) ==
  /\ pc[t] = "recheck"
  /\ \/ ticket[t] # pushTicket /\ Continue(t)
     \/ /\ ticket[t] = pushTicket
        /\ Goto(t, IF ~Closed(t) /\ view[t].cap # MaxCapacity THEN "expand" ELSE "failed")
        /\ full' = [full EXCEPT ![t] = @ \/ Closed(t)]
        /\ UNCHANGED <<ticket, view>>
  /\ UNCHANGED <<Local, seqlock>>

\* blockingWrite: if a pop is in progress the slot will be free.
LoadPops(t) ==
  /\ pc[t] = "pops"
  /\ \/ popTicket + view[t].cap > ticket[t] /\ Continue(t)
     \/ /\ popTicket + view[t].cap <= ticket[t]
        /\ Goto(t, IF view[t].cap # MaxCapacity THEN "expand" ELSE "wait")
        /\ UNCHANGED <<ticket, view, full>>
  /\ UNCHANGED <<Local, seqlock>>

CompareExchange(t) ==
  /\ pc[t] = "cas"
  /\ \/ /\ ticket[t] = Dispenser(t)
        /\ TakeTicket(t)
        /\ pc' = [pc EXCEPT ![t] = IF Form(t) = "ready" THEN "readyWait" ELSE "promisedWait"]
        /\ loc' = [loc EXCEPT ![t] = NoLocals]
        /\ UNCHANGED <<ticket, view>>
     \/ /\ ticket[t] # Dispenser(t)
        /\ Continue(t)
        /\ UNCHANGED <<pushTicket, popTicket, pushed, holds, elem, sizes>>
  /\ UNCHANGED <<slots, sizer, seqlock>>

(***************************************************************************)
(* tryExpand                                                               *)
(***************************************************************************)
Lock(t) ==
  /\ pc[t] = "expand"
  /\ \/ /\ dstate = loc[t].state
        /\ dstate' = [dstate EXCEPT !.locked = TRUE]
        /\ Goto(t, "tickets")
        /\ UNCHANGED <<ticket, view, full>>
     \/ dstate # loc[t].state /\ Continue(t) /\ UNCHANGED dstate
  /\ UNCHANGED <<Local, dslots, dcapacity, dstride, closed>>

\* The arguments of std::max are evaluated in either order.
LoadFirstTicket(t) ==
  /\ pc[t] = "tickets"
  /\ \/ loc' = [loc EXCEPT ![t].seen = pushTicket] /\ pc' = [pc EXCEPT ![t] = "popTicket"]
     \/ loc' = [loc EXCEPT ![t].seen = popTicket] /\ pc' = [pc EXCEPT ![t] = "pushTicket"]
  /\ UNCHANGED <<Local, ticket, view, full, seqlock>>

LoadSecondTicket(t) ==
  /\ \/ pc[t] = "pushTicket" /\ loc' = [loc EXCEPT ![t].seen = Larger(@, pushTicket)]
     \/ pc[t] = "popTicket" /\ loc' = [loc EXCEPT ![t].seen = Larger(@, popTicket)]
  /\ pc' = [pc EXCEPT ![t] = "allocate"]
  /\ UNCHANGED <<Local, ticket, view, full, seqlock>>

\* There may be no memory for the new array; then the seqlock is restored.
AllocationFails(t) ==
  /\ pc[t] = "allocate"
  /\ dstate' = loc[t].state
  /\ Goto(t, Refused(t))
  /\ full' = [full EXCEPT ![t] = TRUE]
  /\ UNCHANGED <<Local, ticket, view, dslots, dcapacity, dstride, closed>>

NewCapacity(t) == Smaller(Multiplier * view[t].cap, MaxCapacity)

\* The current array becomes a closed one.
StoreSlots(t) ==
  LET new == dstate.closed + 1 IN
  /\ pc[t] = "allocate"
  /\ slots' = slots @@ NewSlots(new, NewCapacity(t))
  /\ closed' = Append(closed, Array(dslots, view[t].cap, dstride, loc[t].state.offset))
  /\ dslots' = new
  /\ Goto(t, "store")
  /\ UNCHANGED <<pushTicket, popTicket, elem, pushed, holds, sizer, sizes,
                 ticket, view, full, dstate, dcapacity, dstride>>

StoreCapacity(t) ==
  /\ pc[t] = "store"
  /\ dcapacity' = NewCapacity(t)
  /\ dstride' = ComputeStride(NewCapacity(t))
  /\ Goto(t, "release")
  /\ UNCHANGED <<Local, ticket, view, full, dstate, dslots, closed>>

\* Fault: a ticket that was read but not yet taken may be the first of the new array.
ReleaseEarlier(t) ==
  /\ pc[t] = "release"
  /\ dstate' = Unlocked(loc[t].seen, dstate.closed + 1)
  /\ Continue(t)
  /\ UNCHANGED <<Local, dslots, dcapacity, dstride, closed>>

Release(t) ==
  /\ pc[t] = "release"
  /\ dstate' = Unlocked(1 + loc[t].seen, dstate.closed + 1)
  /\ Continue(t)
  /\ UNCHANGED <<Local, dslots, dcapacity, dstride, closed>>
-----------------------------------------------------------------------------
\* Try again after a wait with a deadline.
UntilRetry(t) ==
  /\ pc[t] = "untilWait"
  /\ TurnCame(t)
  /\ Continue(t)
  /\ UNCHANGED <<Local, seqlock>>

\* The parts of MPMCQueueBase that are the same for both queues.
InBase(t) ==
  \/ Transfer(t) /\ UNCHANGED <<view, loc, seqlock>>
  \/ UntilTimeOut(t) /\ UNCHANGED <<view, loc, seqlock>>
  \/ /\ CompleteTurn(t) \/ Fail(t)
     /\ view' = [view EXCEPT ![t] = FirstArray]
     /\ loc' = [loc EXCEPT ![t] = NoLocals]
     /\ UNCHANGED seqlock

DynamicStep(t) ==
  \/ \E form \in Forms : BeginDynamic(t, form)
  \/ LoadTicket(t) \/ LoadOther(t)
  \/ LoadState(t) \/ LoadSlots(t) \/ Validate(t)
  \/ Check(t) \/ Recheck(t) \/ LoadPops(t) \/ CompareExchange(t)
  \/ Lock(t) \/ LoadFirstTicket(t) \/ LoadSecondTicket(t) \/ AllocationFails(t)
  \/ StoreSlots(t) \/ StoreCapacity(t) \/ Release(t)
  \/ UntilRetry(t) \/ InBase(t)

DynamicNext == \E t \in Threads : DynamicStep(t)

DynamicSpec == DynamicInit /\ [][DynamicNext]_dynamicVars
=============================================================================
