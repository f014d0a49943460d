----------------------------- MODULE MCMPMCQueue -----------------------------
(***************************************************************************)
(* Instances of MPMCQueue and MPMCDynamic for TLC: writers, and readers,   *)
(* are interchangeable.  The subject is                                    *)
(*   "fixed"   writers and readers that race in a queue of fixed capacity; *)
(*   "sized"   size() called while at most one of the writers is inside an *)
(*             operation at a time, with SizedTickets for the bound;       *)
(*   "dynamic" writers and readers that race in a queue that grows, with   *)
(*             DynamicTickets for the bound; a thread begins an operation  *)
(*             when fewer than two others are inside one and not waiting.  *)
(***************************************************************************)
EXTENDS MPMCDynamic
CONSTANTS SizedTickets, DynamicTickets
VARIABLE subject

ThreadSymmetry == Permutations(Writers) \cup Permutations(Readers)

AtRest ==
  /\ dstate = Unlocked(0, 0) /\ dslots = 0 /\ closed = << >>
  /\ dcapacity = MinCapacity /\ dstride = 1
  /\ loc = [t \in Threads |-> NoLocals]

MCInit ==
  \/ subject \in {"fixed", "sized"} /\ Init /\ AtRest
  \/ subject = "dynamic" /\ DynamicInit

\* Threads inside an operation that are not waiting for a turn.
Running == {t \in Threads : ~(pc[t] = "idle" \/ (pc[t] \in Waiting /\ ~MayProceed(t, ticket[t])))}

Bound(tickets) == pushTicket' <= tickets /\ popTicket' <= tickets

MCNext ==
  /\ UNCHANGED subject
  /\ \/ /\ subject # "dynamic"
        /\ Next
        /\ UNCHANGED <<loc, seqlock>>
        /\ subject = "fixed" => UNCHANGED sizer
        /\ subject = "sized" => Bound(SizedTickets)
                                /\ Cardinality({t \in Writers : pc'[t] # "idle"}) <= 1
     \/ /\ subject = "dynamic"
        /\ \E t \in Threads : (pc[t] = "idle" => Cardinality(Running) < 2) /\ DynamicStep(t)
        /\ Bound(DynamicTickets)

MCSpec == MCInit /\ [][MCNext]_<<dynamicVars, subject>>
=============================================================================
