---------------------------- MODULE Cancellation ----------------------------
(***************************************************************************)
(* The states shared by CancellationSource, CancellationToken and          *)
(* CancellationCallback objects (folly/CancellationToken.{h,cpp} and       *)
(* CancellationToken-inl.h): one word with the cancelled flag, the lock    *)
(* flag and the two reference counts, and a list of callbacks guarded by   *)
(* the lock flag.  The state of a merged token has no sources: its members *)
(* are callbacks, its links, on the states of the tokens it was made from, *)
(* each of which requests cancellation of the merged state.  A token that  *)
(* is itself a merged one is not merged again here.                        *)
(*                                                                         *)
(* The loops of lock(), tryLock() and tryLockAndCancelUnlessCancelled()    *)
(* end with the one access of the word that decides, which is the step     *)
(* here.  A thread constructs and destroys callbacks, copies and drops     *)
(* tokens and sources, and merges tokens; the first thread to request      *)
(* cancellation invokes the callbacks, and while it is in the body of one  *)
(* it may do all this.                                                     *)
(***************************************************************************)
EXTENDS Integers, Sequences, SequencesExt, FiniteSets

CONSTANTS
  Threads, Callbacks,
  Sources,      \* the states made with a CancellationSource
  Merged,       \* the states of merged tokens
  Unforeseen    \* the cases that the code does not provide for and that may happen all the same

States == Sources \cup Merged
Links == Merged \X Sources
Registrable == Callbacks \cup Links

VARIABLES
  cancelled, locked,       \* per state: kCancellationRequestedFlag and kLockedFlag of state_
  tokenRefs, sourceRefs,   \* per state: the reference counts in state_
  list,                    \* per state: the callbacks linked from head_
  signallingThread,        \* per state: signallingThreadId_
  life,                    \* per state: "unborn", "alive", "deleted"
  hasToken, hasSource,     \* per state: the threads that own a token, a source
  home,                    \* per callback: the state it was constructed with
  cb,                      \* per callback: "new", "making", "registered", "inert", "dying", "gone"
  runs,                    \* per callback: how often it was invoked
  inside,                  \* the callbacks with destructorHasRunInsideCallback_ set
  completed,               \* the callbacks with callbackCompleted_
  act,                     \* per thread: the constructor or destructor it is in, and of what
  calls,                   \* per thread: the states on which it is in requestCancellation, innermost first
  req                      \* per state: where requestCancellation is, and on which callback

vars == <<cancelled, locked, tokenRefs, sourceRefs, list, signallingThread, life, hasToken,
          hasSource, home, cb, runs, inside, completed, act, calls, req>>
word == <<cancelled, locked, tokenRefs, sourceRefs>>
refs == <<hasToken, hasSource>>
cbs == <<home, cb, runs, inside, completed>>
request == <<calls, req>>

NoThread == "no thread"
Nothing == << >>
Idle == [pc |-> "idle", of |-> Nothing]
NoRequest == [pc |-> "idle", c |-> Nothing, more |-> FALSE, gone |-> FALSE]

Provided(case, condition) == case \notin Unforeseen => condition

\* t is free to begin an operation: it is in none, or in the body of a callback.
Free(t) ==
  /\ act[t].pc = "idle"
  /\ calls[t] # << >> => LET r == req[Head(calls[t])] IN r.pc = "body" /\ r.c \in Callbacks

Init ==
  /\ cancelled = [s \in States |-> FALSE] /\ locked = [s \in States |-> FALSE]
  /\ tokenRefs = [s \in States |-> 0]
  /\ sourceRefs = [s \in States |-> IF s \in Sources THEN 1 ELSE 0]
  /\ list = [s \in States |-> << >>]
  /\ signallingThread = [s \in States |-> NoThread]
  /\ life = [s \in States |-> IF s \in Sources THEN "alive" ELSE "unborn"]
  /\ hasToken = [s \in States |-> {}]
  /\ \E owner \in [Sources -> Threads] :
       hasSource = [s \in States |-> IF s \in Sources THEN {owner[s]} ELSE {}]
  /\ home = [c \in Registrable |-> IF c \in Links THEN c[2] ELSE Nothing]
  /\ cb = [c \in Registrable |-> "new"]
  /\ runs = [c \in Registrable |-> 0]
  /\ inside = {} /\ completed = {}
  /\ act = [t \in Threads |-> Idle]
  /\ calls = [t \in Threads |-> << >>]
  /\ req = [s \in States |-> NoRequest]
-----------------------------------------------------------------------------
(***************************************************************************)
(* References: getToken and the copies of tokens and sources, and their    *)
(* destructors.  Who drops the last reference of either kind deletes.      *)
(***************************************************************************)
AddTokenReference(t, u, s) ==
  /\ Free(t) /\ t \in hasToken[s] \cup hasSource[s]
  /\ u \notin hasToken[s]
  /\ hasToken' = [hasToken EXCEPT ![s] = @ \cup {u}]
  /\ tokenRefs' = [tokenRefs EXCEPT ![s] = @ + 1]
  /\ UNCHANGED <<cancelled, locked, sourceRefs, list, signallingThread, life, hasSource,
                 cbs, act, request>>

AddSourceReference(t, u, s) ==
  /\ Free(t) /\ t \in hasSource[s]
  /\ u \notin hasSource[s]
  /\ hasSource' = [hasSource EXCEPT ![s] = @ \cup {u}]
  /\ sourceRefs' = [sourceRefs EXCEPT ![s] = @ + 1]
  /\ UNCHANGED <<cancelled, locked, tokenRefs, list, signallingThread, life, hasToken,
                 cbs, act, request>>

\* t drops a token reference to s and, unless that leaves it with a merged state to delete, goes
\* on with next.  A state with sources is deleted at once.
DropTokenReference(t, s, next) ==
  LET last == tokenRefs[s] = 1 /\ sourceRefs[s] = 0 IN
  /\ tokenRefs' = [tokenRefs EXCEPT ![s] = @ - 1]
  /\ life' = [life EXCEPT ![s] = IF last /\ s \in Sources THEN "deleted" ELSE @]
  /\ act' = [act EXCEPT ![t] = IF last /\ s \in Merged THEN [pc |-> "delete", of |-> s] ELSE next]

\* Inside a callback of a merged token that is not the last one, t keeps a token of its own.
RemoveTokenReference(t, s) ==
  /\ Free(t) /\ t \in hasToken[s]
  /\ Provided("merged token dropped inside", s \in Merged /\ s \in ToSet(calls[t]) => ~req[s].more)
  /\ hasToken' = [hasToken EXCEPT ![s] = @ \ {t}]
  /\ DropTokenReference(t, s, Idle)
  /\ UNCHANGED <<cancelled, locked, sourceRefs, list, signallingThread, hasSource, cbs, request>>

\* A source is not destroyed inside its own requestCancellation.
RemoveSourceReference(t, s) ==
  /\ Free(t) /\ t \in hasSource[s] /\ s \notin ToSet(calls[t])
  /\ hasSource' = [hasSource EXCEPT ![s] = @ \ {t}]
  /\ sourceRefs' = [sourceRefs EXCEPT ![s] = @ - 1]
  /\ life' = [life EXCEPT ![s] = IF sourceRefs[s] = 1 /\ tokenRefs[s] = 0 THEN "deleted" ELSE @]
  /\ UNCHANGED <<cancelled, locked, tokenRefs, list, signallingThread, hasToken, cbs, act, request>>
-----------------------------------------------------------------------------
(***************************************************************************)
(* The constructor of CancellationCallback, from a token it copies or one  *)
(* it takes over: tryAddCallback.  A merged state constructs its links one *)
(* after the other.                                                        *)
(***************************************************************************)
ConstructAt(t, c, s) ==
  /\ cb[c] = "new"
  /\ home' = [home EXCEPT ![c] = s]
  /\ cb' = [cb EXCEPT ![c] = "making"]
  /\ \E pc \in {"addCopy", "addMove"} : act' = [act EXCEPT ![t] = [pc |-> pc, of |-> c]]

Construct(t, c, s) ==
  /\ Free(t) /\ t \in hasToken[s]
  /\ ConstructAt(t, c, s)
  /\ UNCHANGED <<word, list, signallingThread, life, refs, runs, inside, completed, request>>

canBeCancelled(s) == sourceRefs[s] > 0 \/ s \in Merged \/ cancelled[s]

\* merge() of tokens of some sources, which is to have no links to the others; without a token
\* that can be cancelled it makes no state.
Merge(t, m, tokens) ==
  /\ Free(t) /\ \A s \in tokens : t \in hasToken[s]
  /\ life[m] = "unborn"
  /\ \E s \in tokens : canBeCancelled(s)
  /\ life' = [life EXCEPT ![m] = "alive"]
  /\ tokenRefs' = [tokenRefs EXCEPT ![m] = 1]
  /\ cb' = [c \in Registrable |-> IF c \in {m} \X (Sources \ tokens) THEN "gone" ELSE cb[c]]
  /\ act' = [act EXCEPT ![t] = [pc |-> "merge", of |-> m]]
  /\ UNCHANGED <<cancelled, locked, sourceRefs, list, signallingThread, refs, home, runs, inside,
                 completed, request>>

MergeLink(t) ==
  /\ act[t].pc = "merge"
  /\ \E s \in Sources : ConstructAt(t, <<act[t].of, s>>, s)
  /\ UNCHANGED <<word, list, signallingThread, life, refs, runs, inside, completed, request>>

MergeReturn(t) ==
  LET m == act[t].of IN
  /\ act[t].pc = "merge"
  /\ \A s \in Sources : cb[<<m, s>>] # "new"
  /\ hasToken' = [hasToken EXCEPT ![m] = @ \cup {t}]
  /\ act' = [act EXCEPT ![t] = Idle]
  /\ UNCHANGED <<word, list, signallingThread, life, hasSource, cbs, request>>

\* What t goes on with when the constructor of c is over.
Constructed(t, c) ==
  act' = [act EXCEPT ![t] = IF c \in Links THEN [pc |-> "merge", of |-> c[1]] ELSE Idle]

\* Cancellation was requested: the callback is invoked at once and not registered.  The loop
\* looks at the flag also while the word is locked.  A link requests cancellation of the merged
\* state, on which there are no callbacks yet.
AddInvokes(t) ==
  LET c == act[t].of IN
  /\ act[t].pc \in {"addCopy", "addMove"}
  /\ cancelled[home[c]]
  /\ runs' = [runs EXCEPT ![c] = @ + 1]
  /\ cb' = [cb EXCEPT ![c] = "inert"]
  /\ Constructed(t, c)
  /\ IF c \in Links /\ ~cancelled[c[1]]
     THEN /\ cancelled' = [cancelled EXCEPT ![c[1]] = TRUE]
          /\ signallingThread' = [signallingThread EXCEPT ![c[1]] = t]
     ELSE UNCHANGED <<cancelled, signallingThread>>
  /\ UNCHANGED <<locked, tokenRefs, sourceRefs, list, life, refs, home, inside, completed, request>>

\* Cancellation can never be requested, because no source is left.
AddRefused(t) ==
  LET c == act[t].of IN
  /\ act[t].pc \in {"addCopy", "addMove"}
  /\ ~canBeCancelled(home[c])
  /\ cb' = [cb EXCEPT ![c] = "inert"]
  /\ Constructed(t, c)
  /\ UNCHANGED <<word, list, signallingThread, life, refs, home, runs, inside, completed, request>>

\* Fault: the lock is taken without looking at the cancelled flag again.
AddLockUnchecked(t) ==
  LET s == home[act[t].of] IN
  /\ act[t].pc \in {"addCopy", "addMove"}
  /\ ~locked[s]
  /\ locked' = [locked EXCEPT ![s] = TRUE]
  /\ act' = [act EXCEPT ![t].pc = IF @ = "addCopy" THEN "linkCopy" ELSE "linkMove"]
  /\ UNCHANGED <<cancelled, tokenRefs, sourceRefs, list, signallingThread, life, refs, cbs, request>>

AddLock(t) ==
  LET s == home[act[t].of] IN
  /\ act[t].pc \in {"addCopy", "addMove"}
  /\ ~cancelled[s] /\ canBeCancelled(s) /\ ~locked[s]
  /\ locked' = [locked EXCEPT ![s] = TRUE]
  /\ act' = [act EXCEPT ![t].pc = IF @ = "addCopy" THEN "linkCopy" ELSE "linkMove"]
  /\ UNCHANGED <<cancelled, tokenRefs, sourceRefs, list, signallingThread, life, refs, cbs, request>>

\* Push onto the head of the list; unlock, with a reference for a token that was copied.
AddLink(t) ==
  LET c == act[t].of
      s == home[c]
  IN
  /\ act[t].pc \in {"linkCopy", "linkMove"}
  /\ list' = [list EXCEPT ![s] = <<c>> \o @]
  /\ locked' = [locked EXCEPT ![s] = FALSE]
  /\ IF act[t].pc = "linkCopy"
     THEN tokenRefs' = [tokenRefs EXCEPT ![s] = @ + 1] /\ UNCHANGED hasToken
     ELSE hasToken' = [hasToken EXCEPT ![s] = @ \ {t}] /\ UNCHANGED tokenRefs
  /\ cb' = [cb EXCEPT ![c] = "registered"]
  /\ Constructed(t, c)
  /\ UNCHANGED <<cancelled, sourceRefs, signallingThread, life, hasSource, home, runs, inside,
                 completed, request>>
-----------------------------------------------------------------------------
(***************************************************************************)
(* The destructor of CancellationCallback: removeCallback.  The destructor *)
(* of a merged state destroys its links one after the other.               *)
(***************************************************************************)
DestroyOne(t, c) ==
  \/ cb[c] = "inert" /\ cb' = [cb EXCEPT ![c] = "gone"] /\ UNCHANGED act
  \/ /\ cb[c] = "registered"
     /\ cb' = [cb EXCEPT ![c] = "dying"]
     /\ act' = [act EXCEPT ![t] = [pc |-> "removeLock", of |-> c]]

\* A body destroys callbacks of the requests it is part of: two that destroy each other's would
\* wait for each other (CancellationToken.h:316-318).
Destroy(t, c) ==
  /\ Free(t)
  /\ calls[t] # << >> => home[c] \in ToSet(calls[t])
  /\ Provided("merged token dropped inside",
              home[c] \in Merged /\ home[c] \in ToSet(calls[t]) /\ req[home[c]].more
                => t \in hasToken[home[c]])
  /\ DestroyOne(t, c)
  /\ UNCHANGED <<word, list, signallingThread, life, refs, home, runs, inside, completed, request>>

\* The callback that t removed gives up its reference, and t goes on with the next link, if it was one.
RemoveReference(t) ==
  LET c == act[t].of IN
  /\ DropTokenReference(t, home[c], IF c \in Links THEN [pc |-> "delete", of |-> c[1]] ELSE Idle)
  /\ cb' = [cb EXCEPT ![c] = "gone"]

RemoveLock(t) ==
  LET s == home[act[t].of] IN
  /\ act[t].pc = "removeLock"
  /\ ~locked[s]
  /\ locked' = [locked EXCEPT ![s] = TRUE]
  /\ act' = [act EXCEPT ![t].pc = "remove"]
  /\ UNCHANGED <<cancelled, tokenRefs, sourceRefs, list, signallingThread, life, refs, cbs, request>>

\* Still in the list: unlink it, and unlock and drop its reference in one step.
RemoveUnlink(t) ==
  LET c == act[t].of
      s == home[c]
  IN
  /\ act[t].pc = "remove"
  /\ c \in ToSet(list[s])
  /\ list' = [list EXCEPT ![s] = SelectSeq(@, LAMBDA d : d # c)]
  /\ locked' = [locked EXCEPT ![s] = FALSE]
  /\ RemoveReference(t)
  /\ UNCHANGED <<cancelled, sourceRefs, signallingThread, refs, home, runs, inside, completed, request>>

\* Taken from the list by the signalling thread: unlock, then find out who that is.
RemoveTaken(t) ==
  LET s == home[act[t].of] IN
  /\ act[t].pc = "remove"
  /\ act[t].of \notin ToSet(list[s])
  /\ locked' = [locked EXCEPT ![s] = FALSE]
  /\ act' = [act EXCEPT ![t].pc = "whose"]
  /\ UNCHANGED <<cancelled, tokenRefs, sourceRefs, list, signallingThread, life, refs, cbs, request>>

\* Fault: the signalling thread is not told that the callback is gone.
RemoveInsideSilent(t) ==
  /\ act[t].pc = "whose"
  /\ signallingThread[home[act[t].of]] = t
  /\ act' = [act EXCEPT ![t].pc = "release"]
  /\ UNCHANGED <<word, list, signallingThread, life, refs, cbs, request>>

\* This thread is the signalling thread.  Inside the callback itself it leaves a note on the
\* stack of requestCancellation.
RemoveInside(t) ==
  LET s == home[act[t].of] IN
  /\ act[t].pc = "whose"
  /\ signallingThread[s] = t
  /\ req' = IF act[t].of \in inside THEN [req EXCEPT ![s].gone = TRUE] ELSE req
  /\ act' = [act EXCEPT ![t].pc = "release"]
  /\ UNCHANGED <<word, list, signallingThread, life, refs, cbs, calls>>

\* Fault: the destructor does not wait for a callback that another thread is running.
RemoveNoWait(t) ==
  /\ act[t].pc = "whose"
  /\ signallingThread[home[act[t].of]] # t
  /\ act' = [act EXCEPT ![t].pc = "release"]
  /\ UNCHANGED <<word, list, signallingThread, life, refs, cbs, request>>

\* Another thread runs or ran the callback: wait until it has completed.
RemoveWait(t) ==
  /\ act[t].pc = "whose"
  /\ signallingThread[home[act[t].of]] # t
  /\ act[t].of \in completed
  /\ act' = [act EXCEPT ![t].pc = "release"]
  /\ UNCHANGED <<word, list, signallingThread, life, refs, cbs, request>>

RemoveRelease(t) ==
  /\ act[t].pc = "release"
  /\ RemoveReference(t)
  /\ UNCHANGED <<cancelled, locked, sourceRefs, list, signallingThread, refs, home, runs, inside,
                 completed, request>>

DeleteLink(t) ==
  /\ act[t].pc = "delete"
  /\ \E s \in Sources : DestroyOne(t, <<act[t].of, s>>)
  /\ UNCHANGED <<word, list, signallingThread, life, refs, home, runs, inside, completed, request>>

DeleteReturn(t) ==
  LET m == act[t].of IN
  /\ act[t].pc = "delete"
  /\ \A s \in Sources : cb[<<m, s>>] = "gone"
  /\ life' = [life EXCEPT ![m] = "deleted"]
  /\ act' = [act EXCEPT ![t] = Idle]
  /\ UNCHANGED <<word, list, signallingThread, refs, cbs, request>>
-----------------------------------------------------------------------------
(***************************************************************************)
(* requestCancellation.  Only the call that sets the flag does anything.   *)
(* t is in the innermost of its calls.                                     *)
(***************************************************************************)
In(t, pc) == calls[t] # << >> /\ req[Head(calls[t])].pc = pc

tryLockAndCancelUnlessCancelled(t, s) ==
  /\ ~cancelled[s] /\ ~locked[s]
  /\ cancelled' = [cancelled EXCEPT ![s] = TRUE]
  /\ locked' = [locked EXCEPT ![s] = TRUE]
  /\ calls' = [calls EXCEPT ![t] = <<s>> \o @]

RequestCancellation(t, s) ==
  /\ Free(t) /\ t \in hasSource[s]
  /\ tryLockAndCancelUnlessCancelled(t, s)
  /\ req' = [req EXCEPT ![s] = [NoRequest EXCEPT !.pc = "sign"]]
  /\ UNCHANGED <<tokenRefs, sourceRefs, list, signallingThread, life, refs, cbs, act>>

RequestSign(t) ==
  LET s == Head(calls[t]) IN
  /\ In(t, "sign")
  /\ signallingThread' = [signallingThread EXCEPT ![s] = t]
  /\ req' = [req EXCEPT ![s].pc = "loop"]
  /\ UNCHANGED <<word, list, life, refs, cbs, act, calls>>

RequestDequeue(t) ==
  LET s == Head(calls[t]) IN
  /\ In(t, "loop")
  /\ list[s] # << >>
  /\ list' = [list EXCEPT ![s] = Tail(@)]
  /\ req' = [req EXCEPT ![s] = [pc |-> "unlock", c |-> Head(list[s]), more |-> Len(list[s]) > 1,
                                gone |-> FALSE]]
  /\ UNCHANGED <<word, signallingThread, life, refs, cbs, act, calls>>

RequestUnlock(t) ==
  LET s == Head(calls[t]) IN
  /\ In(t, "unlock")
  /\ locked' = [locked EXCEPT ![s] = FALSE]
  /\ req' = [req EXCEPT ![s].pc = "invoke"]
  /\ UNCHANGED <<cancelled, tokenRefs, sourceRefs, list, signallingThread, life, refs, cbs, act, calls>>

RequestInvoke(t) ==
  LET s == Head(calls[t])
      c == req[s].c
  IN
  /\ In(t, "invoke")
  /\ inside' = inside \cup {c}
  /\ runs' = [runs EXCEPT ![c] = @ + 1]
  /\ req' = [req EXCEPT ![s].pc = IF c \in Links THEN "link" ELSE "body"]
  /\ UNCHANGED <<word, list, signallingThread, life, refs, home, cb, completed, act, calls>>

\* The body of a link: requestCancellation on the merged state, unless another link was first.
LinkRequest(t) ==
  LET s == Head(calls[t])
      m == req[s].c[1]
  IN
  /\ In(t, "link")
  /\ \/ /\ tryLockAndCancelUnlessCancelled(t, m)
        /\ req' = [req EXCEPT ![s].pc = "body", ![m] = [NoRequest EXCEPT !.pc = "sign"]]
     \/ /\ cancelled[m]
        /\ req' = [req EXCEPT ![s].pc = "body"]
        /\ UNCHANGED <<cancelled, locked, calls>>
  /\ UNCHANGED <<tokenRefs, sourceRefs, list, signallingThread, life, refs, cbs, act>>

\* t goes on after a callback of s: with the lock if there were more, else it is done.
RequestNext(t, s) ==
  IF req[s].more
  THEN req' = [req EXCEPT ![s].pc = "lock"] /\ UNCHANGED calls
  ELSE req' = [req EXCEPT ![s] = NoRequest] /\ calls' = [calls EXCEPT ![t] = Tail(@)]

\* Fault: the callback is not marked as completed.
RequestReturnIncomplete(t) ==
  LET s == Head(calls[t]) IN
  /\ In(t, "body") /\ act[t].pc = "idle"
  /\ inside' = IF req[s].gone THEN inside ELSE inside \ {req[s].c}
  /\ RequestNext(t, s)
  /\ UNCHANGED <<word, list, signallingThread, life, refs, home, cb, runs, completed, act>>

\* The callback returned.  It is touched unless its destructor ran inside it; when it was the
\* last one in the list, requestCancellation returns without locking again.
RequestReturn(t) ==
  LET s == Head(calls[t]) IN
  /\ In(t, "body") /\ act[t].pc = "idle"
  /\ inside' = IF req[s].gone THEN inside ELSE inside \ {req[s].c}
  /\ completed' = IF req[s].gone THEN completed ELSE completed \cup {req[s].c}
  /\ RequestNext(t, s)
  /\ UNCHANGED <<word, list, signallingThread, life, refs, home, cb, runs, act>>

RequestLock(t) ==
  LET s == Head(calls[t]) IN
  /\ In(t, "lock")
  /\ ~locked[s]
  /\ locked' = [locked EXCEPT ![s] = TRUE]
  /\ req' = [req EXCEPT ![s].pc = "loop"]
  /\ UNCHANGED <<cancelled, tokenRefs, sourceRefs, list, signallingThread, life, refs, cbs, act, calls>>

RequestEnd(t) ==
  LET s == Head(calls[t]) IN
  /\ In(t, "loop")
  /\ list[s] = << >>
  /\ locked' = [locked EXCEPT ![s] = FALSE]
  /\ req' = [req EXCEPT ![s] = NoRequest]
  /\ calls' = [calls EXCEPT ![t] = Tail(@)]
  /\ UNCHANGED <<cancelled, tokenRefs, sourceRefs, list, signallingThread, life, refs, cbs, act>>
-----------------------------------------------------------------------------
AddSteps(t) == AddInvokes(t) \/ AddRefused(t) \/ AddLock(t) \/ AddLink(t)
                 \/ MergeLink(t) \/ MergeReturn(t)

RemoveSteps(t) == RemoveLock(t) \/ RemoveUnlink(t) \/ RemoveTaken(t) \/ RemoveInside(t)
                    \/ RemoveWait(t) \/ RemoveRelease(t) \/ DeleteLink(t) \/ DeleteReturn(t)

RequestSteps(t) == RequestSign(t) \/ RequestDequeue(t) \/ RequestUnlock(t) \/ RequestInvoke(t)
                     \/ LinkRequest(t) \/ RequestReturn(t) \/ RequestLock(t) \/ RequestEnd(t)

\* t goes on with the operation it is in.
Step(t) == AddSteps(t) \/ RemoveSteps(t) \/ RequestSteps(t)

Next ==
  \/ \E t, u \in Threads, s \in States : AddTokenReference(t, u, s) \/ AddSourceReference(t, u, s)
  \/ \E t \in Threads, s \in States :
       RemoveTokenReference(t, s) \/ RemoveSourceReference(t, s) \/ RequestCancellation(t, s)
  \/ \E t \in Threads, c \in Callbacks : Destroy(t, c) \/ \E s \in States : Construct(t, c, s)
  \/ \E t \in Threads, m \in Merged, tokens \in SUBSET Sources : Merge(t, m, tokens)
  \/ \E t \in Threads : Step(t)

Spec == Init /\ [][Next]_vars

\* Every thread that is inside an operation keeps running; no thread has to begin one.  The
\* body of a callback ends.
Fairness == \A t \in Threads : WF_vars(Step(t))

FairSpec == Spec /\ Fairness
-----------------------------------------------------------------------------
TypeOK ==
  /\ cancelled \in [States -> BOOLEAN] /\ locked \in [States -> BOOLEAN]
  /\ tokenRefs \in [States -> 0 .. Cardinality(Threads) + Cardinality(Registrable)]
  /\ sourceRefs \in [States -> 0 .. Cardinality(Threads)]
  /\ list \in [States -> Seq(Registrable)]
  /\ signallingThread \in [States -> Threads \cup {NoThread}]
  /\ life \in [States -> {"unborn", "alive", "deleted"}]
  /\ hasToken \in [States -> SUBSET Threads] /\ hasSource \in [States -> SUBSET Threads]
  /\ home \in [Registrable -> States \cup {Nothing}]
  /\ cb \in [Registrable -> {"new", "making", "registered", "inert", "dying", "gone"}]
  /\ runs \in [Registrable -> Nat]
  /\ inside \subseteq Registrable /\ completed \subseteq Registrable
  /\ act \in [Threads ->
               [pc : {"idle", "addCopy", "addMove", "linkCopy", "linkMove", "merge", "removeLock",
                      "remove", "whose", "release", "delete"},
                of : Registrable \cup Merged \cup {Nothing}]]
  /\ calls \in [Threads -> Seq(States)]
  /\ req \in [States -> [pc : {"idle", "sign", "loop", "unlock", "invoke", "link", "body", "lock"},
                         c : Registrable \cup {Nothing}, more : BOOLEAN, gone : BOOLEAN]]

\* Some thread is constructing the merged state m, or deleting it.
InWork(m) == \E t \in Threads :
  act[t].pc # "idle" /\ (act[t].of = m \/ (act[t].of \in Links /\ act[t].of[1] = m))

\* A state is deleted when, and only when, the last token, source and registered callback that
\* refers to it is gone, and then its links: whoever still has to touch it can, and it never
\* leaks.  Its destructor finds no callback linked, the lock free and no count left (its
\* DCHECKs), and a request that is under way on it will only return.
DeletedOnTime ==
  \A s \in States :
    /\ life[s] # "unborn" =>
         (life[s] = "deleted" <=>
            /\ hasToken[s] = {} /\ hasSource[s] = {} /\ ~InWork(s)
            /\ \A c \in Registrable : home[c] = s => cb[c] \notin {"making", "registered", "dying"})
    /\ life[s] = "deleted" =>
         /\ list[s] = << >> /\ ~locked[s] /\ tokenRefs[s] = 0 /\ sourceRefs[s] = 0
         /\ req[s].pc = "idle" \/ (s \in Merged /\ req[s].pc = "body" /\ ~req[s].more)

\* Nobody touches a callback that was destroyed: what is linked exists, and requestCancellation
\* reads and writes the callback it took only while it exists, unless it was told not to.  A
\* link that is about to call its merged state still has one.
CallbackAlive ==
  \A s \in States :
    /\ \A c \in ToSet(list[s]) : cb[c] # "gone"
    /\ req[s].pc \in {"unlock", "invoke"} => cb[req[s].c] # "gone"
    /\ (req[s].pc \in {"link", "body"} /\ ~req[s].gone) => cb[req[s].c] # "gone"
    /\ req[s].pc = "link" => life[req[s].c[1]] = "alive"

\* Neither a shared state nor a callback is touched once it is gone, and no state leaks.
AliveWhileUsed == DeletedOnTime /\ CallbackAlive

\* No callback is missed and none is called twice: either requestCancellation sees the
\* registration or the constructor sees the request (CancellationToken.h:226-231).  A merged
\* token is cancelled once one of the tokens it was made from is (CancellationToken.h:117-118).
NoneMissed ==
  /\ \A c \in Registrable : runs[c] <= 1
  /\ \A s \in States : (cancelled[s] /\ req[s].pc = "idle") =>
       /\ \A c \in Registrable : (home[c] = s /\ cb[c] = "registered") => runs[c] = 1
       /\ \A m \in Merged :
            (s \in Sources /\ cb[<<m, s>>] # "gone" /\ hasToken[m] # {}) => cancelled[m]

\* Once the destructor has returned the callback is not called (CancellationToken.h:323-326),
\* and while the destructor returns on another thread the callback is not running.
QuietOnceDestroyed ==
  [][\A c \in Registrable :
       /\ cb[c] = "gone" => runs'[c] = runs[c]
       /\ \A t \in Threads : \A s \in ToSet(calls[t]) :
            (cb[c] = "dying" /\ cb'[c] = "gone" /\ req[s].pc \in {"link", "body"} /\ req[s].c = c)
              => act[t].pc = "release"]_vars

\* A constructor, a destructor and requestCancellation each return: the destructor that waits
\* for a running callback or link, and everyone who waits for the lock, is released.
EveryCallReturns ==
  \A t \in Threads : (act[t] # Idle \/ calls[t] # << >>) ~> (act[t] = Idle /\ calls[t] = << >>)
=============================================================================
