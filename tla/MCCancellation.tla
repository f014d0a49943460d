--------------------------- MODULE MCCancellation ---------------------------
(***************************************************************************)
(* Three instances of Cancellation.  In the first, three threads share one *)
(* source and no tokens are merged.  In the second, two threads merge a    *)
(* token of one source and register two callbacks with the merged token;   *)
(* in the third, tokens of two sources, each with its own thread, and one  *)
(* callback.  The callbacks are alike, and so are the threads before they  *)
(* own anything: who owns the sources at the start, and that c1 is the     *)
(* first to be constructed, leaves nothing out.                            *)
(***************************************************************************)
EXTENDS Cancellation
CONSTANTS t1, t2, t3, c1, c2, s1, s2, m1
MCThreads == {t1, t2, t3}
MCCallbacks == {c1, c2}
MCSources == {s1, s2}
MCMerged == {m1}

VARIABLE subject

MCInit ==
  /\ subject \in {"shared", "merged", "merged twice"}
  /\ Init
  /\ hasSource[s1] = {t1} /\ hasSource[s2] = {t2}

\* In this step s2 stays unused.
OneSource == hasToken'[s2] = {} /\ hasSource'[s2] = {t2} /\ ~cancelled'[s2]

\* In this step the first two threads do not copy sources; tokens of sources are given only to
\* the one that merges, before it does.
TwoThreads ==
  /\ act'[t3] = Idle
  /\ \A s \in States : t3 \notin hasToken'[s]
  /\ \A s \in Sources : /\ hasSource'[s] \subseteq hasSource[s]
                        /\ hasToken'[s] \subseteq IF life[m1] = "unborn" THEN {t1} ELSE hasToken[s]

\* In this step no callback is made out of turn, or with anything but a token of s.
InTurn(s) ==
  /\ \A c \in Callbacks : home'[c] \in {s, Nothing}
  /\ home[c1] = Nothing => home'[c2] = Nothing

MCNext ==
  /\ Next
  /\ subject = "shared" => OneSource /\ InTurn(s1) /\ life'[m1] = "unborn" /\ t3 \notin hasSource'[s1]
  /\ subject = "merged" => OneSource /\ InTurn(m1) /\ TwoThreads
  /\ subject = "merged twice" =>
       /\ InTurn(m1) /\ TwoThreads
       /\ home'[c2] = Nothing
       /\ life[m1] = "unborn" => \A s \in Sources : cb'[<<m1, s>>] # "gone"
  /\ UNCHANGED subject

MCSpec == MCInit /\ [][MCNext]_<<vars, subject>> /\ Fairness
=============================================================================
