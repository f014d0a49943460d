----------------------- MODULE DeferredExecutorProofs -----------------------
(***************************************************************************)
(* Proofs of the safety properties of DeferredExecutor, for every tree of  *)
(* executors and every number of functions added.                          *)
(***************************************************************************)
EXTENDS DeferredExecutor, TLAPS

Taking(e) == cpc = "take" /\ cur = e

(* The consumer moves each state away from EMPTY or HAS_FUNCTION once. *)
ConsInv ==
  /\ mode = "own" => cpc = "idle" /\ visited = {}
  /\ cpc # "dead" /\ terminated = FALSE
  /\ cpc # "idle" => cur \notin visited
  /\ cpc = "casFunc" => state[cur] = "HAS_FUNCTION"
  /\ \A e \in Execs :
       IF e \in visited \/ Taking(e)
         THEN state[e] = Target
         ELSE state[e] \in {"EMPTY", "HAS_FUNCTION"}

(* setExecutor() stores executor_ first. *)
PubInv ==
  mode # "detach" =>
    \A e \in Execs : e \in visited \/ (cpc # "idle" /\ cur = e) => e \in executor

(* Where the producer's last function is: with the producer, in func_, in   *)
(* the real executor's queue, or at its end.  The earlier ones are settled. *)
PlaceInv(e) ==
  /\ ppc[e] # "dead"
  /\ IF ppc[e] \in {"load", "store"} THEN arg[e] = added[e] /\ added[e] > 0
                                     ELSE arg[e] = 0
  /\ IF ppc[e] = "cas" \/ state[e] = "HAS_FUNCTION" \/ Taking(e)
       THEN func[e] = added[e] /\ added[e] > 0
       ELSE func[e] = 0
  /\ state[e] = "HAS_FUNCTION" \/ Taking(e) => ppc[e] = "idle"
  /\ \A k \in Numbers : <<e, k>> \in queue =>
       k = added[e] /\ ppc[e] = "idle" /\ func[e] = 0 /\ k \notin ran[e] \union dropped[e]
  /\ arg[e] # 0 \/ func[e] # 0 => added[e] \notin ran[e] \union dropped[e]
  /\ \A k \in ran[e] \union dropped[e] : k <= added[e]

OnceInv == reran = FALSE
QuietInv ==
  mode \in {"own", "detach"} => queue = {} /\ \A e \in Execs : ran[e] = {}

IInv ==
  /\ TypeOK /\ ConsInv /\ PubInv /\ OnceInv /\ QuietInv
  /\ \A e \in Execs : PlaceInv(e)

-----------------------------------------------------------------------------
(* What running, destroying or queueing the unsettled function k of e does  *)
(* to the queue and to the record of settled functions.                     *)
Disposed(e, k) ==
  /\ OnceInv'
  /\ ran' \in [Execs -> SUBSET Numbers]
  /\ dropped' \in [Execs -> SUBSET Numbers]
  /\ queue' \subseteq Execs \X Numbers
  /\ \A f \in Execs \ {e} : ran'[f] = ran[f] /\ dropped'[f] = dropped[f]
  /\ \A f \in Execs, j \in Numbers :
       <<f, j>> # <<e, k>> => (<<f, j>> \in queue' <=> <<f, j>> \in queue)
  /\ \/ <<e, k>> \in queue' /\ UNCHANGED <<ran, dropped>>
     \/ /\ queue' = queue
        /\ ran'[e] \union dropped'[e] = ran[e] \union dropped[e] \union {k}

(* Finish() settles a function. *)
LEMMA FinishDisposes ==
  ASSUME TypeOK, OnceInv, NEW e \in Execs, NEW k \in Numbers,
         k \notin ran[e] \union dropped[e], NEW how \in {"run", "drop"},
         Finish(e, k, how), UNCHANGED queue
  PROVE  Disposed(e, k)
<1>1. reran' = FALSE
  BY DEF Finish, OnceInv
<1>2. CASE how = "run"
  BY <1>1, <1>2 DEF TypeOK, Finish, Disposed, OnceInv
<1>3. CASE how = "drop"
  BY <1>1, <1>3 DEF TypeOK, Finish, Disposed, OnceInv
<1> QED BY <1>2, <1>3

(* So do add() and addWithInline, or they put it into the queue. *)
LEMMA AddDisposes ==
  ASSUME TypeOK, OnceInv, NEW e \in Execs, NEW k \in Numbers,
         k \notin ran[e] \union dropped[e],
         Enqueue(e, k) \/ AddWithInline(e, k)
  PROVE  Disposed(e, k)
<1>1. CASE Finish(e, k, "run") /\ UNCHANGED queue
  BY <1>1, FinishDisposes
<1>2. CASE Finish(e, k, "drop") /\ UNCHANGED queue
  BY <1>2, FinishDisposes
<1>3. CASE queue' = queue \union {<<e, k>>} /\ UNCHANGED fates
  BY <1>3 DEF TypeOK, Disposed, OnceInv, fates
<1> QED BY <1>1, <1>2, <1>3 DEF Enqueue, AddWithInline

(* The initial state satisfies the inductive invariant. *)
LEMMA InitIInv == Init => IInv
<1> SUFFICES ASSUME Init PROVE IInv
  OBVIOUS
<1> USE TreeAssumption, MaxAddsAssumption
<1>1. TypeOK
  BY DEF Init, TypeOK, State, Numbers
<1>2. ConsInv /\ PubInv /\ OnceInv /\ QuietInv
  BY DEF Init, ConsInv, PubInv, OnceInv, QuietInv, Taking
<1>3. ASSUME NEW e \in Execs PROVE PlaceInv(e)
  BY DEF Init, PlaceInv, Taking
<1> QED BY <1>1, <1>2, <1>3 DEF IInv

-----------------------------------------------------------------------------
(* A new call of addFrom() starts with every earlier function settled. *)
LEMMA StepAddFrom ==
  ASSUME IInv, NEW e \in Execs, AddFrom(e) PROVE IInv'
<1> USE MaxAddsAssumption
<1>1. TypeOK'
  BY DEF IInv, TypeOK, AddFrom, Numbers, consumer, fates
<1>2. (ConsInv /\ PubInv /\ OnceInv /\ QuietInv)'
  BY DEF IInv, ConsInv, PubInv, OnceInv, QuietInv, Taking, Target, AddFrom, consumer, fates
<1>3. ASSUME NEW f \in Execs PROVE PlaceInv(f)'
  <2>1. CASE f = e
    <3>1. state[e] # "HAS_FUNCTION" /\ ~Taking(e) /\ func[e] = 0
      BY DEF IInv, PlaceInv, TypeOK, Numbers, AddFrom, Settled
    <3>2. \A k \in Numbers : <<e, k>> \notin queue
      BY DEF IInv, PlaceInv, TypeOK, Numbers, AddFrom, Settled
    <3> QED BY <2>1, <3>1, <3>2
        DEF IInv, PlaceInv, TypeOK, Taking, Numbers, AddFrom, Settled, consumer, fates
  <2>2. CASE f # e
    BY <2>2 DEF IInv, PlaceInv, TypeOK, Taking, AddFrom, consumer, fates
  <2> QED BY <2>1, <2>2
<1> QED BY <1>1, <1>2, <1>3 DEF IInv

(* addFrom() reads the state: it keeps the function or disposes of it. *)
LEMMA StepAddLoad ==
  ASSUME IInv, NEW e \in Execs, AddLoad(e) PROVE IInv'
<1>0. /\ arg[e] \in Numbers /\ arg[e] = added[e] /\ arg[e] \notin ran[e] \union dropped[e]
      /\ func[e] = 0 /\ state[e] # "HAS_FUNCTION" /\ ~Taking(e)
  BY MaxAddsAssumption DEF IInv, PlaceInv, TypeOK, Numbers, AddLoad
<1>1. CASE state[e] = "EMPTY"
  <2>1. /\ ppc' = [ppc EXCEPT ![e] = "store"]
        /\ UNCHANGED <<state, func, executor, mode, cpc, cur, visited, arg, added,
                       queue, ran, dropped, reran, terminated>>
    BY <1>1 DEF AddLoad, consumer, fates
  <2>2. TypeOK' /\ (ConsInv /\ PubInv /\ OnceInv /\ QuietInv)'
    BY <2>1 DEF IInv, TypeOK, ConsInv, PubInv, OnceInv, QuietInv, Taking, Target
  <2>3. ASSUME NEW f \in Execs PROVE PlaceInv(f)'
    BY <1>0, <1>1, <2>1 DEF IInv, TypeOK, PlaceInv, Taking, AddLoad
  <2> QED BY <2>2, <2>3 DEF IInv
<1>2. CASE state[e] \in {"DETACHED", "HAS_EXECUTOR"}
  <2>1. /\ ppc' = [ppc EXCEPT ![e] = "idle"]
        /\ arg' = [arg EXCEPT ![e] = 0]
        /\ UNCHANGED <<state, func, executor, mode, cpc, cur, visited, added, terminated>>
    BY <1>2 DEF AddLoad, consumer
  <2>2. Disposed(e, arg[e])
    BY <1>0, <1>2, FinishDisposes, AddDisposes DEF AddLoad, IInv
  <2>3. TypeOK'
    BY <2>1, <2>2 DEF IInv, TypeOK, Disposed, OnceInv
  <2>4. (ConsInv /\ PubInv /\ OnceInv)'
    BY <2>1, <2>2 DEF IInv, ConsInv, PubInv, Taking, Target, Disposed
  <2>5. QuietInv'
    <3>1. CASE state[e] = "DETACHED"
      <4>1. UNCHANGED <<ran, queue>>
        BY <3>1 DEF AddLoad, Finish
      <4> QED BY <2>1, <4>1 DEF IInv, QuietInv
    <3>2. CASE state[e] = "HAS_EXECUTOR"
      BY <2>1, <3>2 DEF IInv, ConsInv, Taking, QuietInv, Target
    <3> QED BY <1>2, <3>1, <3>2
  <2>6. ASSUME NEW f \in Execs PROVE PlaceInv(f)'
    <3>1. CASE f = e
      <4>1. \A j \in Numbers : <<e, j>> \notin queue
        BY DEF IInv, PlaceInv, AddLoad
      <4>2. /\ ppc'[e] = "idle" /\ arg'[e] = 0 /\ func'[e] = 0
            /\ added' = added /\ state' = state /\ (Taking(e)' <=> Taking(e))
        BY <1>0, <2>1 DEF IInv, TypeOK, Taking
      <4>3. \A j \in Numbers : <<e, j>> \in queue' =>
              j = arg[e] /\ j \notin ran'[e] \union dropped'[e]
        BY <1>0, <2>2, <4>1 DEF Disposed
      <4>4. \A j \in ran'[e] \union dropped'[e] : j <= added[e]
        BY <1>0, <2>2, MaxAddsAssumption DEF IInv, TypeOK, PlaceInv, Disposed, Numbers
      <4> QED BY <1>0, <3>1, <4>2, <4>3, <4>4 DEF PlaceInv
    <3>2. CASE f # e
      BY <2>1, <2>2, <3>2 DEF IInv, TypeOK, PlaceInv, Taking, Disposed
    <3> QED BY <3>1, <3>2
  <2> QED BY <2>3, <2>4, <2>5, <2>6 DEF IInv
<1> QED BY <1>0, <1>1, <1>2 DEF AddLoad

(* addFrom() moves the function into func_. *)
LEMMA StepAddStore ==
  ASSUME IInv, NEW e \in Execs, AddStore(e) PROVE IInv'
<1>1. TypeOK' /\ (ConsInv /\ PubInv /\ OnceInv /\ QuietInv)'
  BY DEF IInv, TypeOK, ConsInv, PubInv, OnceInv, QuietInv, Taking, Target, AddStore,
         consumer, fates
<1>2. ASSUME NEW f \in Execs PROVE PlaceInv(f)'
  BY DEF IInv, TypeOK, PlaceInv, Taking, AddStore, consumer, fates
<1> QED BY <1>1, <1>2 DEF IInv

(* addFrom() publishes func_, or takes it back and disposes of it. *)
LEMMA StepAddCAS ==
  ASSUME IInv, NEW e \in Execs, AddCAS(e) PROVE IInv'
<1>0. /\ func[e] \in Numbers /\ func[e] = added[e] /\ func[e] \notin ran[e] \union dropped[e]
      /\ arg[e] = 0 /\ state[e] # "HAS_FUNCTION" /\ ~Taking(e)
  BY MaxAddsAssumption DEF IInv, PlaceInv, TypeOK, Numbers, AddCAS
<1>1. CASE state[e] = "EMPTY"
  <2>1. /\ ppc' = [ppc EXCEPT ![e] = "idle"]
        /\ state' = [state EXCEPT ![e] = "HAS_FUNCTION"]
        /\ UNCHANGED <<func, executor, mode, cpc, cur, visited, arg, added,
                       queue, ran, dropped, reran, terminated>>
    BY <1>1 DEF AddCAS, consumer, fates
  <2>2. e \notin visited
    BY <1>0, <1>1 DEF IInv, ConsInv, Target
  <2>3. TypeOK' /\ (PubInv /\ OnceInv /\ QuietInv)'
    BY <2>1 DEF IInv, TypeOK, State, PubInv, OnceInv, QuietInv
  <2>4. ConsInv'
    BY <1>0, <1>1, <2>1, <2>2 DEF IInv, TypeOK, ConsInv, Taking, Target
  <2>5. ASSUME NEW f \in Execs PROVE PlaceInv(f)'
    BY <1>0, <1>1, <2>1 DEF IInv, TypeOK, PlaceInv, Taking, AddCAS
  <2> QED BY <2>3, <2>4, <2>5 DEF IInv
<1>2. CASE state[e] \in {"DETACHED", "HAS_EXECUTOR"}
  <2>1. /\ ppc' = [ppc EXCEPT ![e] = "idle"]
        /\ func' = [func EXCEPT ![e] = 0]
        /\ UNCHANGED <<state, arg, executor, mode, cpc, cur, visited, added, terminated>>
    BY <1>2 DEF AddCAS, consumer
  <2>2. Disposed(e, func[e])
    BY <1>0, <1>2, FinishDisposes, AddDisposes DEF AddCAS, IInv
  <2>3. TypeOK'
    BY <2>1, <2>2 DEF IInv, TypeOK, Disposed, OnceInv
  <2>4. (ConsInv /\ PubInv /\ OnceInv)'
    BY <2>1, <2>2 DEF IInv, ConsInv, PubInv, Taking, Target, Disposed
  <2>5. QuietInv'
    <3>1. CASE state[e] = "DETACHED"
      <4>1. UNCHANGED <<ran, queue>>
        BY <3>1 DEF AddCAS, Finish
      <4> QED BY <2>1, <4>1 DEF IInv, QuietInv
    <3>2. CASE state[e] = "HAS_EXECUTOR"
      BY <2>1, <3>2 DEF IInv, ConsInv, Taking, QuietInv, Target
    <3> QED BY <1>2, <3>1, <3>2
  <2>6. ASSUME NEW f \in Execs PROVE PlaceInv(f)'
    <3>1. CASE f = e
      <4>1. \A j \in Numbers : <<e, j>> \notin queue
        BY DEF IInv, PlaceInv, AddCAS
      <4>2. /\ ppc'[e] = "idle" /\ arg'[e] = 0 /\ func'[e] = 0
            /\ added' = added /\ state' = state /\ (Taking(e)' <=> Taking(e))
        BY <1>0, <2>1 DEF IInv, TypeOK, Taking
      <4>3. \A j \in Numbers : <<e, j>> \in queue' =>
              j = func[e] /\ j \notin ran'[e] \union dropped'[e]
        BY <1>0, <2>2, <4>1 DEF Disposed
      <4>4. \A j \in ran'[e] \union dropped'[e] : j <= added[e]
        BY <1>0, <2>2, MaxAddsAssumption DEF IInv, TypeOK, PlaceInv, Disposed, Numbers
      <4> QED BY <1>0, <3>1, <4>2, <4>3, <4>4 DEF PlaceInv
    <3>2. CASE f # e
      BY <2>1, <2>2, <3>2 DEF IInv, TypeOK, PlaceInv, Taking, Disposed
    <3> QED BY <3>1, <3>2
  <2> QED BY <2>3, <2>4, <2>5, <2>6 DEF IInv
<1> QED BY <1>0, <1>1, <1>2 DEF AddCAS, IInv, TypeOK, State

-----------------------------------------------------------------------------
(* The consumer decides what to do. *)
LEMMA StepBegin ==
  ASSUME IInv, NEW m \in {"set", "setInline", "detach"}, Begin(m) PROVE IInv'
<1>1. TypeOK' /\ (PubInv /\ OnceInv /\ QuietInv)'
  BY DEF IInv, TypeOK, ConsInv, PubInv, OnceInv, QuietInv, Begin, producer, fates
<1>2. ConsInv'
  BY DEF IInv, TypeOK, ConsInv, Taking, Target, Begin
<1>3. ASSUME NEW f \in Execs PROVE PlaceInv(f)'
  BY DEF IInv, TypeOK, PlaceInv, Taking, Begin, producer, fates
<1> QED BY <1>1, <1>2, <1>3 DEF IInv

(* The consumer turns to an executor and stores executor_ in it. *)
LEMMA StepVisit ==
  ASSUME IInv, NEW e \in Execs, Visit(e) PROVE IInv'
<1>1. TypeOK' /\ (OnceInv /\ QuietInv)'
  BY DEF IInv, TypeOK, OnceInv, QuietInv, Visit, producer, fates
<1>2. ConsInv' /\ PubInv'
  BY DEF IInv, TypeOK, ConsInv, PubInv, Taking, Target, Visit
<1>3. ASSUME NEW f \in Execs PROVE PlaceInv(f)'
  BY DEF IInv, TypeOK, PlaceInv, Taking, Visit, producer, fates
<1> QED BY <1>1, <1>2, <1>3 DEF IInv

(* The consumer reads a state it has not changed yet. *)
LEMMA StepConsLoad ==
  ASSUME IInv, ConsLoad PROVE IInv'
<1>1. state[cur] \in {"EMPTY", "HAS_FUNCTION"}
  BY DEF IInv, TypeOK, ConsInv, Taking, ConsLoad
<1>2. /\ cpc' = IF state[cur] = "EMPTY" THEN "casEmpty" ELSE "casFunc"
      /\ terminated' = FALSE
      /\ cpc = "load"
      /\ UNCHANGED <<state, func, executor, mode, cur, visited, ppc, arg, added, queue,
                     ran, dropped, reran>>
  BY <1>1 DEF IInv, ConsInv, ConsLoad, AfterRead, producer, fates
<1>3. TypeOK' /\ (PubInv /\ OnceInv /\ QuietInv)'
  BY <1>2 DEF IInv, TypeOK, ConsInv, PubInv, OnceInv, QuietInv
<1>4. ConsInv'
  BY <1>1, <1>2 DEF IInv, TypeOK, ConsInv, Taking, Target
<1>5. ASSUME NEW f \in Execs PROVE PlaceInv(f)'
  BY <1>2 DEF IInv, PlaceInv, Taking
<1> QED BY <1>3, <1>4, <1>5 DEF IInv

(* The consumer's first exchange wins, or finds a function. *)
LEMMA StepConsCASEmpty ==
  ASSUME IInv, ConsCASEmpty PROVE IInv'
<1>1. state[cur] \in {"EMPTY", "HAS_FUNCTION"} /\ cpc = "casEmpty"
  BY DEF IInv, TypeOK, ConsInv, Taking, ConsCASEmpty
<1>2. CASE state[cur] = "EMPTY"
  <2>1. /\ state' = [state EXCEPT ![cur] = Target]
        /\ cpc' = "idle" /\ visited' = visited \union {cur}
        /\ UNCHANGED <<func, executor, mode, cur, ppc, arg, added, queue, ran, dropped,
                       reran, terminated>>
    BY <1>2 DEF ConsCASEmpty, producer, fates
  <2>2. TypeOK' /\ (PubInv /\ OnceInv /\ QuietInv)'
    BY <1>1, <2>1 DEF IInv, TypeOK, State, Target, ConsInv, PubInv, OnceInv, QuietInv
  <2>3. ConsInv'
    BY <1>1, <2>1 DEF IInv, TypeOK, ConsInv, Taking, Target
  <2>4. ASSUME NEW f \in Execs PROVE PlaceInv(f)'
    BY <1>1, <1>2, <2>1 DEF IInv, TypeOK, PlaceInv, Taking, Target
  <2> QED BY <2>2, <2>3, <2>4 DEF IInv
<1>3. CASE state[cur] = "HAS_FUNCTION"
  <2>1. /\ cpc' = "casFunc" /\ terminated' = FALSE
        /\ UNCHANGED <<state, visited, func, executor, mode, cur, ppc, arg, added, queue,
                       ran, dropped, reran>>
    BY <1>3 DEF IInv, ConsInv, ConsCASEmpty, AfterRead, producer, fates
  <2>2. TypeOK' /\ (PubInv /\ OnceInv /\ QuietInv)'
    BY <1>1, <2>1 DEF IInv, TypeOK, ConsInv, PubInv, OnceInv, QuietInv
  <2>3. ConsInv'
    BY <1>1, <1>3, <2>1 DEF IInv, TypeOK, ConsInv, Taking, Target
  <2>4. ASSUME NEW f \in Execs PROVE PlaceInv(f)'
    BY <1>1, <2>1 DEF IInv, PlaceInv, Taking
  <2> QED BY <2>2, <2>3, <2>4 DEF IInv
<1> QED BY <1>1, <1>2, <1>3

(* The consumer's second exchange cannot fail. *)
LEMMA StepConsCASFunc ==
  ASSUME IInv, ConsCASFunc PROVE IInv'
<1>1. state[cur] = "HAS_FUNCTION" /\ cpc = "casFunc" /\ cur \in Execs
  BY DEF IInv, TypeOK, ConsInv, ConsCASFunc
<1>2. /\ state' = [state EXCEPT ![cur] = Target]
      /\ cpc' = "take"
      /\ UNCHANGED <<func, executor, mode, cur, visited, ppc, arg, added, queue, ran,
                     dropped, reran, terminated>>
  BY <1>1 DEF ConsCASFunc, producer, fates
<1>3. TypeOK' /\ (PubInv /\ OnceInv /\ QuietInv)'
  BY <1>1, <1>2 DEF IInv, TypeOK, State, Target, ConsInv, PubInv, OnceInv, QuietInv
<1>4. ConsInv'
  BY <1>1, <1>2 DEF IInv, TypeOK, ConsInv, Taking, Target
<1>5. ASSUME NEW f \in Execs PROVE PlaceInv(f)'
  BY <1>1, <1>2 DEF IInv, TypeOK, PlaceInv, Taking, Target
<1> QED BY <1>3, <1>4, <1>5 DEF IInv

(* The consumer disposes of the function it took out of func_. *)
LEMMA StepConsTake ==
  ASSUME IInv, ConsTake PROVE IInv'
<1>0. /\ cpc = "take" /\ cur \in Execs /\ cur \notin visited /\ Taking(cur)
      /\ func[cur] \in Numbers /\ func[cur] = added[cur]
      /\ func[cur] \notin ran[cur] \union dropped[cur]
      /\ ppc[cur] = "idle" /\ arg[cur] = 0 /\ state[cur] = Target
  BY MaxAddsAssumption DEF IInv, PlaceInv, ConsInv, TypeOK, Numbers, ConsTake, Taking
<1>1. /\ cpc' = "idle" /\ visited' = visited \union {cur}
      /\ func' = [func EXCEPT ![cur] = 0]
      /\ UNCHANGED <<state, executor, mode, cur, ppc, arg, added, terminated>>
  BY DEF ConsTake, producer
<1>2. Disposed(cur, func[cur])
  <2>1. CASE queue' = queue \union {<<cur, func[cur]>>} /\ UNCHANGED fates
    <3>1. Enqueue(cur, func[cur])
      BY <2>1 DEF Enqueue
    <3> QED BY <1>0, <3>1, AddDisposes DEF IInv
  <2> QED BY <1>0, <2>1, FinishDisposes DEF ConsTake, IInv
<1>3. TypeOK'
  BY <1>0, <1>1, <1>2 DEF IInv, TypeOK, Disposed, OnceInv
<1>4. (ConsInv /\ PubInv /\ OnceInv)'
  BY <1>0, <1>1, <1>2 DEF IInv, TypeOK, ConsInv, PubInv, Taking, Target, Disposed
<1>5. QuietInv'
  <2>1. mode # "own"
    BY <1>0 DEF IInv, ConsInv
  <2>2. CASE mode = "detach"
    <3>1. UNCHANGED <<ran, queue>>
      BY <2>2 DEF ConsTake, Finish
    <3> QED BY <1>1, <3>1 DEF IInv, QuietInv
  <2> QED BY <1>1, <2>1, <2>2 DEF QuietInv
<1>6. ASSUME NEW f \in Execs PROVE PlaceInv(f)'
  <2>1. CASE f = cur
    <3>1. \A j \in Numbers : <<cur, j>> \notin queue
      BY <1>0 DEF IInv, TypeOK, PlaceInv, Numbers
    <3>2. /\ ppc'[cur] = "idle" /\ arg'[cur] = 0 /\ func'[cur] = 0
          /\ added' = added /\ state'[cur] # "HAS_FUNCTION" /\ ~Taking(f)'
      BY <1>0, <1>1 DEF IInv, TypeOK, Taking, Target
    <3>3. \A j \in Numbers : <<cur, j>> \in queue' =>
            j = func[cur] /\ j \notin ran'[cur] \union dropped'[cur]
      BY <1>0, <1>2, <3>1 DEF Disposed
    <3>4. \A j \in ran'[cur] \union dropped'[cur] : j <= added[cur]
      BY <1>0, <1>2, MaxAddsAssumption DEF IInv, TypeOK, PlaceInv, Disposed, Numbers
    <3> QED BY <1>0, <2>1, <3>2, <3>3, <3>4 DEF PlaceInv
  <2>2. CASE f # cur
    BY <1>0, <1>1, <1>2, <2>2 DEF IInv, TypeOK, PlaceInv, Taking, Disposed
  <2> QED BY <2>1, <2>2
<1> QED BY <1>3, <1>4, <1>5, <1>6 DEF IInv

(* The real executor disposes of a function in its queue. *)
LEMMA StepExecute ==
  ASSUME IInv, NEW e \in Execs, NEW k \in Numbers, Execute(e, k) PROVE IInv'
<1>0. /\ k = added[e] /\ ppc[e] = "idle" /\ func[e] = 0 /\ arg[e] = 0
      /\ k \notin ran[e] \union dropped[e]
  BY DEF IInv, PlaceInv, Execute
<1>1. /\ queue' = queue \ {<<e, k>>}
      /\ UNCHANGED <<state, func, executor, mode, cpc, cur, visited, ppc, arg, added,
                     terminated>>
  BY DEF Execute, consumer, producer
<1>2. /\ reran' = FALSE
      /\ ran' \in [Execs -> SUBSET Numbers] /\ dropped' \in [Execs -> SUBSET Numbers]
      /\ \A f \in Execs \ {e} : ran'[f] = ran[f] /\ dropped'[f] = dropped[f]
      /\ ran'[e] \union dropped'[e] = ran[e] \union dropped[e] \union {k}
  BY <1>0 DEF IInv, OnceInv, TypeOK, Execute, Finish
<1>3. TypeOK' /\ OnceInv'
  BY <1>1, <1>2 DEF IInv, TypeOK, OnceInv
<1>4. (ConsInv /\ PubInv)'
  BY <1>1 DEF IInv, ConsInv, PubInv, Taking, Target
<1>5. QuietInv'
  BY <1>1 DEF IInv, QuietInv, Execute
<1>6. ASSUME NEW f \in Execs PROVE PlaceInv(f)'
  <2>1. CASE f = e
    <3>1. \A j \in Numbers : <<e, j>> \notin queue'
      BY <1>0, <1>1 DEF IInv, PlaceInv
    <3>2. \A j \in ran'[e] \union dropped'[e] : j <= added[e]
      BY <1>0, <1>2, MaxAddsAssumption DEF IInv, TypeOK, PlaceInv, Numbers
    <3> QED BY <1>0, <1>1, <2>1, <3>1, <3>2 DEF IInv, PlaceInv, Taking
  <2>2. CASE f # e
    BY <1>1, <1>2, <2>2 DEF IInv, TypeOK, PlaceInv, Taking
  <2> QED BY <2>1, <2>2
<1> QED BY <1>3, <1>4, <1>5, <1>6 DEF IInv

-----------------------------------------------------------------------------
(* The invariant is inductive. *)
LEMMA Invariance == Spec => []IInv
<1>1. IInv /\ [Next]_vars => IInv'
  <2> SUFFICES ASSUME IInv, [Next]_vars PROVE IInv'
    OBVIOUS
  <2>1. CASE UNCHANGED vars
    BY <2>1 DEF vars, IInv, TypeOK, ConsInv, PubInv, OnceInv, QuietInv, PlaceInv, Taking,
       Target
  <2>2. CASE Next
    BY <2>2, StepAddFrom, StepAddLoad, StepAddStore, StepAddCAS, StepBegin, StepVisit,
       StepConsLoad, StepConsCASEmpty, StepConsCASFunc, StepConsTake, StepExecute
    DEF Next, ProducerStep, ConsumerStep
  <2> QED BY <2>1, <2>2
<1> QED BY InitIInv, <1>1, PTL DEF Spec

(* The variables keep their types. *)
THEOREM TypeCorrect == Spec => []TypeOK
<1>1. IInv => TypeOK
  BY DEF IInv
<1> QED BY Invariance, <1>1, PTL

(* No exchange that loses its race meets a state the code calls unexpected. *)
THEOREM NeverTerminates == Spec => []NoTerminate
<1>1. IInv => NoTerminate
  BY DEF IInv, ConsInv, NoTerminate
<1> QED BY Invariance, <1>1, PTL

(* A function is run or destroyed once, whoever ends up with it. *)
THEOREM AtMostOnce == Spec => []RunAtMostOnce
<1>1. IInv => RunAtMostOnce
  BY DEF IInv, OnceInv, RunAtMostOnce
<1> QED BY Invariance, <1>1, PTL

(* func_ and executor_, plain members, are never accessed by two threads,   *)
(* and are set when they are used.                                          *)
THEOREM MembersProtected == Spec => []MembersExclusive
<1>1. IInv => MembersExclusive
  <2> SUFFICES ASSUME IInv PROVE MembersExclusive
    OBVIOUS
  <2>1. FuncExclusive
    BY MaxAddsAssumption DEF IInv, TypeOK, PlaceInv, Taking, FuncExclusive, Numbers
  <2>2. ExecutorPublished
    BY DEF IInv, TypeOK, ConsInv, PubInv, Taking, Target, ExecutorPublished
  <2> QED BY <2>1, <2>2 DEF MembersExclusive
<1> QED BY Invariance, <1>1, PTL

(* A detached executor runs nothing. *)
THEOREM DetachedIsQuiet == Spec => []DetachedNeverRuns
<1>1. IInv => DetachedNeverRuns
  BY DEF IInv, QuietInv, DetachedNeverRuns
<1> QED BY Invariance, <1>1, PTL
=============================================================================
