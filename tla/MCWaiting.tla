----------------------------- MODULE MCWaiting -----------------------------
(***************************************************************************)
(* The two primitives on which a thread of folly sleeps until another lets *)
(* it go on: TurnSequencer and Baton.  They share nothing, so a behaviour  *)
(* is one of either and leaves the other, in which nobody has called       *)
(* anything, as it is.                                                     *)
(*                                                                         *)
(* The sequencer has two owners of turns, and a thread that waits for      *)
(* turns of theirs with a deadline and may be further ahead than any       *)
(* channel or recorded delta.                                              *)
(***************************************************************************)
EXTENDS TurnSequencer, Baton
CONSTANTS t1, t2, u
MCOwners == {t1, t2}
MCTimed == {u}

VARIABLE subject

MCInit ==
  /\ subject \in {"TurnSequencer", "Baton"}
  /\ Init /\ BatonInit
  /\ subject = "TurnSequencer" => MayBlock
  /\ subject = "Baton" => next = 0

MCNext ==
  \/ subject = "TurnSequencer" /\ Next /\ UNCHANGED <<batonVars, subject>>
  \/ subject = "Baton" /\ BatonNext /\ UNCHANGED <<vars, subject>>

MCSpec == MCInit /\ [][MCNext]_<<vars, batonVars, subject>> /\ Fairness /\ BatonFairness
=============================================================================
