------------------------------- MODULE Handoff -------------------------------
(***************************************************************************)
(* What a one-shot handoff promises: in one lifetime at most one post is   *)
(* delivered, and a wait that reports success follows a delivered post of  *)
(* the same lifetime.  A timed wait may give up at any moment.             *)
(* folly::Baton (module Baton) implements it.                              *)
(***************************************************************************)

VARIABLES posted,   \* a post of this lifetime has been delivered
          wait      \* "idle", "waiting", "got" or "missed"

hvars == <<posted, wait>>

HInit == posted = FALSE /\ wait = "idle"

Deliver == ~posted /\ posted' = TRUE /\ UNCHANGED wait

BeginWait == wait = "idle" /\ wait' = "waiting" /\ UNCHANGED posted

Receive == wait \in {"idle", "waiting"} /\ posted /\ wait' = "got" /\ UNCHANGED posted

GiveUp == wait = "waiting" /\ wait' = "missed" /\ UNCHANGED posted

\* A new lifetime; nobody may be waiting.
Renew == wait # "waiting" /\ posted' = FALSE /\ wait' = "idle"

HNext == Deliver \/ BeginWait \/ Receive \/ GiveUp \/ Renew

HandoffSpec == HInit /\ [][HNext]_hvars

=============================================================================
