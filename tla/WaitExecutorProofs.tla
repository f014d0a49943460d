------------------------- MODULE WaitExecutorProofs -------------------------
(***************************************************************************)
(* Safety of SemiFuture::wait() for any number of nested functions.  The   *)
(* inductive invariant says that the queued functions are the elements of  *)
(* the queue and of the batch, each once (QueueInv); that the references   *)
(* are the waiting thread's, one for each deferred executor whose add has  *)
(* not returned and one for each queued function (CountInv); how the baton *)
(* follows the queue at each point of drive() (BatonInv); and that Final   *)
(* comes after all the others (FinalInv).                                  *)
(***************************************************************************)
EXTENDS WaitExecutor, FiniteSetTheorems, TLAPS

In(f, s) == \E i \in 1 .. Len(s) : s[i] = f

Injective(s) == \A i, j \in 1 .. Len(s) : s[i] = s[j] => i = j

QueueInv ==
  /\ Injective(funcs) /\ Injective(batch)
  /\ \A f \in Funcs : ~(In(f, funcs) /\ In(f, batch))
  /\ \A f \in Funcs : fate[f] = "queued" <=> (In(f, funcs) \/ In(f, batch))
  /\ \A f \in Funcs : fate[f] = "none" <=> apc[f] = "idle"
  /\ driver \notin {"run", "discard"} => batch = << >>

\* The deferred executors that hold a reference, and the functions that do.
Open == {f \in Funcs : apc[f] # "done"}
Queued == {f \in Funcs : fate[f] = "queued"}
Driving == IF driver = "done" THEN 0 ELSE 1

CountInv == keepAlive = Driving + Cardinality(Open) + Cardinality(Queued)

NoPoster == \A f \in Funcs : apc[f] # "post"

BatonInv ==
  /\ BatonContract
  /\ detached <=> driver \in {"discard", "leave", "done"}
  /\ detached => funcs = << >>
  /\ (driver \in {"check", "wait", "run", "detach"} /\ funcs = << >>) => ~posted /\ NoPoster
  /\ driver = "reset" => posted /\ funcs # << >>
  /\ driver = "take" => ~posted /\ NoPoster /\ funcs # << >>

FinalInv ==
  /\ apc[Final] # "idle" => \A f \in Funcs \ {Final} : Resolved(f)
  /\ (~timed /\ driver \in {"detach", "discard", "leave", "done"}) => Resolved(Final)
  /\ ~timed => \A f \in Funcs : fate[f] # "dropped"

IInv == WaitExecutorTypeOK /\ QueueInv /\ CountInv /\ BatonInv /\ FinalInv
-----------------------------------------------------------------------------
\* The first state: nothing queued, one reference for each deferred executor and one more.
LEMMA InitIInv == WaitExecutorInit => IInv
<1> SUFFICES ASSUME WaitExecutorInit PROVE IInv
  OBVIOUS
<1>1. Cardinality(Funcs) \in Nat
  BY FuncsAssumption, FS_CardinalityType
<1>2. WaitExecutorTypeOK
  <2>1. keepAlive \in Nat /\ funcs \in Seq(Funcs) /\ batch \in Seq(Funcs)
    BY <1>1 DEF WaitExecutorInit
  <2>2. /\ apc \in [Funcs -> {"idle", "post", "return", "done"}]
        /\ fate \in [Funcs -> {"none", "queued", "ran", "dropped"}]
    BY DEF WaitExecutorInit
  <2>3. timed \in BOOLEAN /\ detached \in BOOLEAN /\ posted \in BOOLEAN
    BY DEF WaitExecutorInit, B!HInit
  <2>4. /\ wait \in {"idle", "waiting", "got", "missed"}
        /\ driver \in {"check", "wait", "reset", "take", "run", "detach", "discard", "leave", "done"}
    BY DEF WaitExecutorInit, B!HInit
  <2> QED BY <2>1, <2>2, <2>3, <2>4 DEF WaitExecutorTypeOK
<1>3. QueueInv
  BY DEF WaitExecutorInit, QueueInv, Injective, In
<1>4. CountInv
  <2>1. Open = Funcs /\ Queued = {}
    BY DEF WaitExecutorInit, Open, Queued
  <2> QED BY <1>1, <2>1, FS_EmptySet DEF WaitExecutorInit, CountInv, Driving
<1>5. BatonInv /\ FinalInv
  BY FinalAssumption DEF WaitExecutorInit, BatonInv, FinalInv, BatonContract, NoPoster, B!HInit
<1> QED BY <1>2, <1>3, <1>4, <1>5 DEF IInv

\* The two sets that are counted are finite.
LEMMA Finite == /\ IsFiniteSet(Open) /\ Cardinality(Open) \in Nat
                /\ IsFiniteSet(Queued) /\ Cardinality(Queued) \in Nat
<1>1. Open \in SUBSET Funcs /\ Queued \in SUBSET Funcs
  BY DEF Open, Queued
<1>2. IsFiniteSet(Open) /\ IsFiniteSet(Queued)
  BY <1>1, FuncsAssumption, FS_Subset
<1> QED BY <1>2, FS_CardinalityType

\* A sequence without repetitions is as long as the set of its elements is large.
LEMMA InjectiveLen ==
  ASSUME NEW S, NEW s \in Seq(S), Injective(s)
  PROVE  Cardinality({x \in S : In(x, s)}) = Len(s)
<1> DEFINE X == {x \in S : In(x, s)}
<1>1. s \in [1 .. Len(s) -> X] /\ Len(s) \in Nat
  BY DEF In
<1>2. s \in Bijection(1 .. Len(s), X)
  BY <1>1 DEF In, Injective, Bijection, Injection, Surjection, IsInjective
<1>3. ExistsBijection(1 .. Len(s), X)
  BY <1>2 DEF ExistsBijection
<1> QED BY <1>1, <1>3, FS_CountingElements

\* Every step keeps the queued functions in one of the two sequences, once.
LEMMA QueueStep ==
  ASSUME IInv, [WaitExecutorNext]_waitVars
  PROVE  QueueInv'
<1>t. WaitExecutorTypeOK /\ QueueInv /\ BatonInv
  BY DEF IInv
<1>1. ASSUME NEW f \in Funcs, Add(f) PROVE QueueInv'
  <2>1. fate[f] = "none" /\ ~In(f, funcs) /\ ~In(f, batch)
    BY <1>1, <1>t DEF Add, QueueInv
  <2>2. CASE detached
    BY <1>1, <1>t, <2>1, <2>2 DEF Add, QueueInv, Injective, In, WaitExecutorTypeOK
  <2>3. CASE ~detached
    <3>1. /\ fate' = [fate EXCEPT ![f] = "queued"] /\ funcs' = Append(funcs, f)
          /\ apc'[f] # "idle" /\ \A g \in Funcs : g # f => apc'[g] = apc[g]
          /\ UNCHANGED <<batch, driver>>
      BY <1>1, <1>t, <2>3 DEF Add, WaitExecutorTypeOK
    <3>2. /\ Len(funcs') = Len(funcs) + 1 /\ Len(funcs) \in Nat /\ funcs'[Len(funcs) + 1] = f
          /\ \A i \in 1 .. Len(funcs) : funcs'[i] = funcs[i]
      BY <3>1, <1>t DEF WaitExecutorTypeOK
    <3>3. Injective(funcs')
      BY <3>2, <2>1, <1>t DEF QueueInv, Injective, In
    <3>4. \A g \in Funcs : In(g, funcs') <=> In(g, funcs) \/ g = f
      BY <3>2 DEF In
    <3>5. \A g \in Funcs : In(g, batch') <=> In(g, batch)
      BY <3>1 DEF In
    <3>6. /\ fate'[f] = "queued"
          /\ \A g \in Funcs : g # f => fate'[g] = fate[g]
      BY <3>1, <1>t DEF WaitExecutorTypeOK
    <3>7. Injective(batch')
      BY <3>1, <1>t DEF QueueInv
    <3>8. \A g \in Funcs : ~(In(g, funcs') /\ In(g, batch'))
      BY <3>4, <3>5, <2>1, <1>t DEF QueueInv
    <3>9. \A g \in Funcs : fate'[g] = "queued" <=> (In(g, funcs') \/ In(g, batch'))
      BY <3>4, <3>5, <3>6, <1>t DEF QueueInv
    <3>10. \A g \in Funcs : fate'[g] = "none" <=> apc'[g] = "idle"
      BY <3>1, <3>6, <1>t DEF QueueInv
    <3> QED BY <3>1, <3>3, <3>7, <3>8, <3>9, <3>10, <1>t DEF QueueInv
  <2> QED BY <2>2, <2>3
<1>2. ASSUME NEW f \in Funcs, AddInline(f) PROVE QueueInv'
  BY <1>2, <1>t DEF AddInline, QueueInv, Injective, In, WaitExecutorTypeOK, Resolved, BatonInv
<1>3. ASSUME NEW f \in Funcs, AddPost(f) PROVE QueueInv'
  BY <1>3, <1>t DEF AddPost, QueueInv, Injective, In, WaitExecutorTypeOK
<1>4. ASSUME NEW f \in Funcs, AddReturn(f) PROVE QueueInv'
  BY <1>4, <1>t DEF AddReturn, QueueInv, Injective, In, WaitExecutorTypeOK
<1>5. CASE DriveWait
  BY <1>5, <1>t DEF DriveWait, B!BeginWait, QueueInv, Injective, In, WaitExecutorTypeOK
<1>6. CASE DriveWoken
  BY <1>6, <1>t DEF DriveWoken, B!Receive, QueueInv, Injective, In, WaitExecutorTypeOK
<1>7. CASE DriveReset
  BY <1>7, <1>t DEF DriveReset, B!Renew, QueueInv, Injective, In, WaitExecutorTypeOK
<1>8. CASE DriveTake
  BY <1>8, <1>t DEF DriveTake, QueueInv, Injective, In, WaitExecutorTypeOK, Resolved, BatonInv
<1>9. CASE DriveRun
  <2> DEFINE h == Head(batch)
  <2>1. /\ h \in Funcs /\ h = batch[1] /\ Len(batch) \in Nat \ {0}
        /\ fate' = [fate EXCEPT ![h] = "ran"] /\ batch' = Tail(batch)
        /\ UNCHANGED <<funcs, apc, driver>> /\ driver = "run"
    BY <1>9, <1>t DEF DriveRun, WaitExecutorTypeOK
  <2>2. Len(batch') = Len(batch) - 1 /\ \A i \in 1 .. Len(batch') : batch'[i] = batch[i + 1]
    BY <2>1, <1>t DEF WaitExecutorTypeOK
  <2>3. /\ fate'[h] = "ran"
        /\ \A g \in Funcs : g # h => fate'[g] = fate[g]
    BY <2>1, <1>t DEF WaitExecutorTypeOK
  <2> HIDE DEF h
  <2>4. Injective(batch') /\ Injective(funcs')
    <3>1. ASSUME NEW i \in 1 .. Len(batch'), NEW j \in 1 .. Len(batch'), batch'[i] = batch'[j]
          PROVE  i = j
      <4>1. i + 1 \in 1 .. Len(batch) /\ j + 1 \in 1 .. Len(batch) /\ batch[i + 1] = batch[j + 1]
        BY <2>1, <2>2, <3>1
      <4> QED BY <4>1, <1>t DEF QueueInv, Injective
    <3>2. Injective(batch')
      BY <3>1 DEF Injective
    <3> QED BY <3>2, <2>1, <1>t DEF QueueInv
  <2>5. ASSUME NEW g \in Funcs PROVE In(g, batch') <=> In(g, batch) /\ g # h
    <3>1. ASSUME NEW i \in 1 .. Len(batch'), batch'[i] = g
          PROVE  In(g, batch) /\ g # h
      <4>1. i + 1 \in 1 .. Len(batch) /\ 1 \in 1 .. Len(batch) /\ i + 1 # 1 /\ batch[i + 1] = g
        BY <2>1, <2>2, <3>1
      <4> QED BY <4>1, <2>1, <1>t DEF QueueInv, Injective, In
    <3>2. ASSUME NEW i \in 1 .. Len(batch), batch[i] = g, g # h
          PROVE  In(g, batch')
      <4>1. i - 1 \in 1 .. Len(batch') /\ (i - 1) + 1 = i
        BY <2>1, <2>2, <3>2
      <4>2. batch'[i - 1] = g
        BY <4>1, <2>2, <3>2
      <4> QED BY <4>1, <4>2 DEF In
    <3> QED BY <3>1, <3>2 DEF In
  <2>6. In(h, batch) /\ \A g \in Funcs : In(g, funcs') <=> In(g, funcs)
    BY <2>1 DEF In
  <2>7. \A g \in Funcs : ~(In(g, funcs') /\ In(g, batch'))
    BY <2>5, <2>6, <1>t DEF QueueInv
  <2>8. \A g \in Funcs : fate'[g] = "queued" <=> (In(g, funcs') \/ In(g, batch'))
    BY <2>1, <2>3, <2>5, <2>6, <1>t DEF QueueInv
  <2>9. \A g \in Funcs : fate'[g] = "none" <=> apc'[g] = "idle"
    BY <2>1, <2>3, <2>6, <1>t DEF QueueInv
  <2> QED BY <2>1, <2>4, <2>7, <2>8, <2>9 DEF QueueInv
<1>10. CASE DriveAgain
  BY <1>10, <1>t DEF DriveAgain, QueueInv, Injective, In, WaitExecutorTypeOK
<1>11. CASE Ready
  BY <1>11, <1>t DEF Ready, QueueInv, Injective, In, WaitExecutorTypeOK
<1>12. CASE Detach
  BY <1>12, <1>t DEF Detach, QueueInv, Injective, In, WaitExecutorTypeOK, Resolved, BatonInv
<1>13. CASE Discard
  <2>1. /\ funcs' = << >> /\ funcs = << >> /\ batch' = << >> /\ UNCHANGED apc /\ driver' = "leave"
        /\ \A g \in Funcs : fate'[g] = IF g \in ToSet(batch) THEN "dropped" ELSE fate[g]
    BY <1>13, <1>t DEF Discard, BatonInv
  <2>2. \A g : ~In(g, funcs) /\ ~In(g, funcs') /\ ~In(g, batch')
    BY <2>1 DEF In
  <2>3. \A g \in Funcs : g \in ToSet(batch) <=> In(g, batch)
    BY <1>t DEF WaitExecutorTypeOK, ToSet, In
  <2>4. Injective(funcs') /\ Injective(batch')
    BY <2>1 DEF Injective
  <2>5. \A g \in Funcs : fate'[g] # "queued"
    BY <2>1, <2>2, <2>3, <1>t DEF QueueInv
  <2>6. \A g \in Funcs : fate'[g] = "none" <=> apc'[g] = "idle"
    BY <2>1, <2>2, <2>3, <1>t DEF QueueInv
  <2> QED BY <2>1, <2>2, <2>4, <2>5, <2>6 DEF QueueInv
<1>14. CASE WaitReturn
  BY <1>14, <1>t DEF WaitReturn, QueueInv, Injective, In, WaitExecutorTypeOK
<1>15. CASE DriveTimedOut
  BY <1>15, <1>t DEF DriveTimedOut, B!GiveUp, QueueInv, Injective, In, WaitExecutorTypeOK
<1>16. CASE UNCHANGED waitVars
  BY <1>16, <1>t DEF waitVars, QueueInv, Injective, In, WaitExecutorTypeOK
<1> QED
  BY <1>1, <1>2, <1>3, <1>4, <1>5, <1>6, <1>7, <1>8, <1>9, <1>10, <1>11, <1>12, <1>13, <1>14, <1>15, <1>16 DEF WaitExecutorNext, Waiting, Adding

\* Every step keeps the baton in step with the queue.
LEMMA BatonStep ==
  ASSUME IInv, [WaitExecutorNext]_waitVars
  PROVE  BatonInv'
<1>t. WaitExecutorTypeOK /\ BatonInv
  BY DEF IInv
<1>1. ASSUME NEW f \in Funcs, Add(f) PROVE BatonInv'
  BY <1>1, <1>t DEF Add, BatonInv, BatonContract, NoPoster, WaitExecutorTypeOK
<1>2. ASSUME NEW f \in Funcs, AddInline(f) PROVE BatonInv'
  BY <1>2, <1>t DEF AddInline, BatonInv, BatonContract, NoPoster, WaitExecutorTypeOK
<1>3. ASSUME NEW f \in Funcs, AddPost(f) PROVE BatonInv'
  BY <1>3, <1>t DEF AddPost, BatonInv, BatonContract, NoPoster, WaitExecutorTypeOK
<1>4. ASSUME NEW f \in Funcs, AddReturn(f) PROVE BatonInv'
  BY <1>4, <1>t DEF AddReturn, BatonInv, BatonContract, NoPoster, WaitExecutorTypeOK
<1>5. CASE DriveWait
  BY <1>5, <1>t DEF DriveWait, B!BeginWait, BatonInv, BatonContract, NoPoster, WaitExecutorTypeOK
<1>6. CASE DriveWoken
  BY <1>6, <1>t DEF DriveWoken, B!Receive, BatonInv, BatonContract, NoPoster, WaitExecutorTypeOK
<1>7. CASE DriveReset
  BY <1>7, <1>t DEF DriveReset, B!Renew, BatonInv, BatonContract, NoPoster, WaitExecutorTypeOK
<1>8. CASE DriveTake
  BY <1>8, <1>t DEF DriveTake, BatonInv, BatonContract, NoPoster, WaitExecutorTypeOK
<1>9. CASE DriveRun
  BY <1>9, <1>t DEF DriveRun, BatonInv, BatonContract, NoPoster, WaitExecutorTypeOK
<1>10. CASE DriveAgain
  BY <1>10, <1>t DEF DriveAgain, BatonInv, BatonContract, NoPoster, WaitExecutorTypeOK
<1>11. CASE Ready
  BY <1>11, <1>t DEF Ready, BatonInv, BatonContract, NoPoster, WaitExecutorTypeOK
<1>12. CASE Detach
  BY <1>12, <1>t DEF Detach, BatonInv, BatonContract, NoPoster, WaitExecutorTypeOK
<1>13. CASE Discard
  BY <1>13, <1>t DEF Discard, BatonInv, BatonContract, NoPoster, WaitExecutorTypeOK
<1>14. CASE WaitReturn
  BY <1>14, <1>t DEF WaitReturn, BatonInv, BatonContract, NoPoster, WaitExecutorTypeOK
<1>15. CASE DriveTimedOut
  BY <1>15, <1>t DEF DriveTimedOut, B!GiveUp, BatonInv, BatonContract, NoPoster, WaitExecutorTypeOK
<1>16. CASE UNCHANGED waitVars
  BY <1>16, <1>t DEF waitVars, BatonInv, BatonContract, NoPoster, WaitExecutorTypeOK
<1> QED
  BY <1>1, <1>2, <1>3, <1>4, <1>5, <1>6, <1>7, <1>8, <1>9, <1>10, <1>11, <1>12, <1>13, <1>14, <1>15, <1>16 DEF WaitExecutorNext, Waiting, Adding

\* Every step keeps Final last, and drops nothing when there is no deadline.
LEMMA FinalStep ==
  ASSUME IInv, [WaitExecutorNext]_waitVars
  PROVE  FinalInv'
<1>t. WaitExecutorTypeOK /\ QueueInv /\ BatonInv /\ FinalInv
  BY DEF IInv
<1>1. ASSUME NEW f \in Funcs, Add(f) PROVE FinalInv'
  BY <1>1, <1>t, FinalAssumption DEF Add, FinalInv, QueueInv, BatonInv, Resolved, WaitExecutorTypeOK
<1>2. ASSUME NEW f \in Funcs, AddInline(f) PROVE FinalInv'
  BY <1>2, <1>t, FinalAssumption DEF AddInline, FinalInv, QueueInv, BatonInv, Resolved, WaitExecutorTypeOK
<1>3. ASSUME NEW f \in Funcs, AddPost(f) PROVE FinalInv'
  BY <1>3, <1>t, FinalAssumption DEF AddPost, FinalInv, QueueInv, BatonInv, Resolved, WaitExecutorTypeOK
<1>4. ASSUME NEW f \in Funcs, AddReturn(f) PROVE FinalInv'
  BY <1>4, <1>t, FinalAssumption DEF AddReturn, FinalInv, QueueInv, BatonInv, Resolved, WaitExecutorTypeOK
<1>5. CASE DriveWait
  BY <1>5, <1>t, FinalAssumption DEF DriveWait, B!BeginWait, FinalInv, QueueInv, BatonInv, Resolved, WaitExecutorTypeOK
<1>6. CASE DriveWoken
  BY <1>6, <1>t, FinalAssumption DEF DriveWoken, B!Receive, FinalInv, QueueInv, BatonInv, Resolved, WaitExecutorTypeOK
<1>7. CASE DriveReset
  BY <1>7, <1>t, FinalAssumption DEF DriveReset, B!Renew, FinalInv, QueueInv, BatonInv, Resolved, WaitExecutorTypeOK
<1>8. CASE DriveTake
  BY <1>8, <1>t, FinalAssumption DEF DriveTake, FinalInv, QueueInv, BatonInv, Resolved, WaitExecutorTypeOK
<1>9. CASE DriveRun
  BY <1>9, <1>t, FinalAssumption DEF DriveRun, FinalInv, QueueInv, BatonInv, Resolved, WaitExecutorTypeOK
<1>10. CASE DriveAgain
  BY <1>10, <1>t, FinalAssumption DEF DriveAgain, FinalInv, QueueInv, BatonInv, Resolved, WaitExecutorTypeOK
<1>11. CASE Ready
  BY <1>11, <1>t, FinalAssumption DEF Ready, FinalInv, QueueInv, BatonInv, Resolved, WaitExecutorTypeOK
<1>12. CASE Detach
  BY <1>12, <1>t, FinalAssumption DEF Detach, FinalInv, QueueInv, BatonInv, Resolved, WaitExecutorTypeOK
<1>13. CASE Discard
  BY <1>13, <1>t, FinalAssumption DEF Discard, FinalInv, QueueInv, BatonInv, Resolved, WaitExecutorTypeOK, ToSet, In
<1>14. CASE WaitReturn
  BY <1>14, <1>t, FinalAssumption DEF WaitReturn, FinalInv, QueueInv, BatonInv, Resolved, WaitExecutorTypeOK
<1>15. CASE DriveTimedOut
  BY <1>15, <1>t, FinalAssumption DEF DriveTimedOut, B!GiveUp, FinalInv, QueueInv, BatonInv, Resolved, WaitExecutorTypeOK
<1>16. CASE UNCHANGED waitVars
  BY <1>16, <1>t, FinalAssumption DEF waitVars, FinalInv, QueueInv, BatonInv, Resolved, WaitExecutorTypeOK
<1> QED
  BY <1>1, <1>2, <1>3, <1>4, <1>5, <1>6, <1>7, <1>8, <1>9, <1>10, <1>11, <1>12, <1>13, <1>14, <1>15, <1>16 DEF WaitExecutorNext, Waiting, Adding

\* Every step accounts for the references it takes and gives up.
LEMMA CountStep ==
  ASSUME IInv, [WaitExecutorNext]_waitVars
  PROVE  CountInv'
<1>t. WaitExecutorTypeOK /\ QueueInv /\ BatonInv
  BY DEF IInv
<1>c. CountInv
  BY DEF IInv
<1>1. ASSUME NEW f \in Funcs, Add(f) PROVE CountInv'
  <2>1. Open' = Open
    BY <1>1, <1>t DEF Add, Open, WaitExecutorTypeOK
  <2>2. CASE detached
    <3>1. Queued' = Queued /\ keepAlive' = keepAlive /\ driver' = driver
      BY <1>1, <1>t, <2>2 DEF Add, Queued, WaitExecutorTypeOK, QueueInv
    <3> QED BY <2>1, <3>1, <1>c DEF CountInv, Driving
  <2>3. CASE ~detached
    <3>1. f \notin Queued /\ Queued' = Queued \cup {f}
      BY <1>1, <1>t, <2>3 DEF Add, Queued, WaitExecutorTypeOK, QueueInv
    <3>2. Cardinality(Queued') = Cardinality(Queued) + 1
      BY <3>1, Finite, FS_AddElement
    <3>3. keepAlive' = keepAlive + 1 /\ driver' = driver
      BY <1>1, <2>3 DEF Add
    <3> QED BY <2>1, <3>2, <3>3, <1>c, Finite DEF CountInv, Driving
  <2> QED BY <2>2, <2>3
<1>2. ASSUME NEW f \in Funcs, AddInline(f) PROVE CountInv'
  <2>1. Open' = Open /\ Queued' = Queued /\ Driving' = Driving /\ keepAlive' = keepAlive
    BY <1>2, <1>t DEF AddInline, Open, Queued, Driving, WaitExecutorTypeOK, QueueInv
  <2> QED BY <2>1, <1>c DEF CountInv
<1>3. ASSUME NEW f \in Funcs, AddPost(f) PROVE CountInv'
  <2>1. Open' = Open /\ Queued' = Queued /\ Driving' = Driving /\ keepAlive' = keepAlive
    BY <1>3, <1>t DEF AddPost, Open, Queued, Driving, WaitExecutorTypeOK
  <2> QED BY <2>1, <1>c DEF CountInv
<1>4. ASSUME NEW f \in Funcs, AddReturn(f) PROVE CountInv'
  <2>1. f \in Open /\ Open' = Open \ {f} /\ Queued' = Queued
    BY <1>4, <1>t DEF AddReturn, Open, Queued, WaitExecutorTypeOK
  <2>2. Cardinality(Open') = Cardinality(Open) - 1
    BY <2>1, Finite, FS_RemoveElement
  <2>3. keepAlive' = keepAlive - 1 /\ driver' = driver
    BY <1>4 DEF AddReturn
  <2> QED BY <2>1, <2>2, <2>3, <1>c, Finite DEF CountInv, Driving
<1>5. CASE DriveWait
  <2>1. Open' = Open /\ Queued' = Queued /\ Driving' = Driving /\ keepAlive' = keepAlive
    BY <1>5, <1>t DEF DriveWait, B!BeginWait, Open, Queued, Driving, WaitExecutorTypeOK
  <2> QED BY <2>1, <1>c DEF CountInv
<1>6. CASE DriveWoken
  <2>1. Open' = Open /\ Queued' = Queued /\ Driving' = Driving /\ keepAlive' = keepAlive
    BY <1>6, <1>t DEF DriveWoken, B!Receive, Open, Queued, Driving, WaitExecutorTypeOK
  <2> QED BY <2>1, <1>c DEF CountInv
<1>7. CASE DriveReset
  <2>1. Open' = Open /\ Queued' = Queued /\ Driving' = Driving /\ keepAlive' = keepAlive
    BY <1>7, <1>t DEF DriveReset, B!Renew, Open, Queued, Driving, WaitExecutorTypeOK
  <2> QED BY <2>1, <1>c DEF CountInv
<1>8. CASE DriveTake
  <2>1. Open' = Open /\ Queued' = Queued /\ Driving' = Driving /\ keepAlive' = keepAlive
    BY <1>8, <1>t DEF DriveTake, Open, Queued, Driving, WaitExecutorTypeOK
  <2> QED BY <2>1, <1>c DEF CountInv
<1>9. CASE DriveRun
  <2>1. Head(batch) \in Queued /\ Queued' = Queued \ {Head(batch)} /\ Open' = Open
    <3>1. Head(batch) \in Funcs /\ Head(batch) = batch[1] /\ 1 \in 1 .. Len(batch)
      BY <1>9, <1>t DEF DriveRun, WaitExecutorTypeOK
    <3>2. In(Head(batch), batch)
      BY <3>1 DEF In
    <3>3. fate[Head(batch)] = "queued"
      BY <3>1, <3>2, <1>t DEF QueueInv
    <3> QED BY <1>9, <1>t, <3>1, <3>3 DEF DriveRun, WaitExecutorTypeOK, Queued, Open
  <2>2. Cardinality(Queued') = Cardinality(Queued) - 1
    BY <2>1, Finite, FS_RemoveElement
  <2>3. keepAlive' = keepAlive - 1 /\ driver' = driver
    BY <1>9 DEF DriveRun
  <2> QED BY <2>1, <2>2, <2>3, <1>c, Finite DEF CountInv, Driving
<1>10. CASE DriveAgain
  <2>1. Open' = Open /\ Queued' = Queued /\ Driving' = Driving /\ keepAlive' = keepAlive
    BY <1>10, <1>t DEF DriveAgain, Open, Queued, Driving, WaitExecutorTypeOK
  <2> QED BY <2>1, <1>c DEF CountInv
<1>11. CASE Ready
  <2>1. Open' = Open /\ Queued' = Queued /\ Driving' = Driving /\ keepAlive' = keepAlive
    BY <1>11, <1>t DEF Ready, Open, Queued, Driving, WaitExecutorTypeOK
  <2> QED BY <2>1, <1>c DEF CountInv
<1>12. CASE Detach
  <2>1. Open' = Open /\ Queued' = Queued /\ Driving' = Driving /\ keepAlive' = keepAlive
    BY <1>12, <1>t DEF Detach, Open, Queued, Driving, WaitExecutorTypeOK
  <2> QED BY <2>1, <1>c DEF CountInv
<1>13. CASE Discard
  <2>1. Queued = {g \in Funcs : In(g, batch)}
    BY <1>13, <1>t DEF Discard, BatonInv, QueueInv, Queued, In
  <2>2. Cardinality(Queued) = Len(batch)
    BY <2>1, <1>t, InjectiveLen DEF WaitExecutorTypeOK, QueueInv
  <2>3. Queued' = {} /\ Open' = Open
    BY <1>13, <1>t, <2>1 DEF Discard, Queued, Open, ToSet, In, WaitExecutorTypeOK
  <2>4. keepAlive' = keepAlive - Len(batch) /\ Driving = 1 /\ Driving' = 1
    BY <1>13 DEF Discard, Driving
  <2> QED BY <2>2, <2>3, <2>4, <1>c, Finite, FS_EmptySet DEF CountInv
<1>14. CASE WaitReturn
  <2>1. Open' = Open /\ Queued' = Queued
    BY <1>14 DEF WaitReturn, Open, Queued
  <2>2. keepAlive' = keepAlive - 1 /\ Driving = 1 /\ Driving' = 0
    BY <1>14 DEF WaitReturn, Driving
  <2> QED BY <2>1, <2>2, <1>c, Finite DEF CountInv
<1>15. CASE DriveTimedOut
  <2>1. Open' = Open /\ Queued' = Queued /\ Driving' = Driving /\ keepAlive' = keepAlive
    BY <1>15, <1>t DEF DriveTimedOut, B!GiveUp, Open, Queued, Driving, WaitExecutorTypeOK
  <2> QED BY <2>1, <1>c DEF CountInv
<1>16. CASE UNCHANGED waitVars
  <2>1. Open' = Open /\ Queued' = Queued /\ Driving' = Driving /\ keepAlive' = keepAlive
    BY <1>16, <1>t DEF waitVars, Open, Queued, Driving, WaitExecutorTypeOK
  <2> QED BY <2>1, <1>c DEF CountInv
<1> QED
  BY <1>1, <1>2, <1>3, <1>4, <1>5, <1>6, <1>7, <1>8, <1>9, <1>10, <1>11, <1>12, <1>13, <1>14, <1>15, <1>16 DEF WaitExecutorNext, Waiting, Adding

\* Every step keeps the variables in their types; the count because it is a sum of naturals.
LEMMA TypeStep ==
  ASSUME IInv, [WaitExecutorNext]_waitVars
  PROVE  WaitExecutorTypeOK'
<1> DEFINE Places == {"idle", "post", "return", "done"}
           Fates == {"none", "queued", "ran", "dropped"}
<1>t. WaitExecutorTypeOK
  BY DEF IInv
<1>1. keepAlive' \in Nat
  <2>1. CountInv' /\ Cardinality(Open') \in Nat /\ Cardinality(Queued') \in Nat
    <3>1. Open' \in SUBSET Funcs /\ Queued' \in SUBSET Funcs
      BY DEF Open, Queued
    <3>2. IsFiniteSet(Open') /\ IsFiniteSet(Queued')
      BY <3>1, FuncsAssumption, FS_Subset
    <3> QED BY <3>2, CountStep, FS_CardinalityType
  <2> QED BY <2>1 DEF CountInv, Driving
<1>2. funcs' \in Seq(Funcs) /\ batch' \in Seq(Funcs)
  <2>1. \/ UNCHANGED funcs
        \/ \E f \in Funcs : funcs' = Append(funcs, f)
        \/ funcs' = << >>
    BY DEF WaitExecutorNext, Adding, Waiting, waitVars, Add, AddInline, AddPost, AddReturn, DriveWait,
      DriveWoken, DriveTimedOut, DriveReset, DriveTake, DriveRun, DriveAgain, Ready, Detach,
      Discard, WaitReturn
  <2>2. \/ UNCHANGED batch \/ batch' = funcs \/ batch' = << >>
        \/ batch # << >> /\ batch' = Tail(batch)
    BY DEF WaitExecutorNext, Adding, Waiting, waitVars, Add, AddInline, AddPost, AddReturn, DriveWait,
      DriveWoken, DriveTimedOut, DriveReset, DriveTake, DriveRun, DriveAgain, Ready, Detach,
      Discard, WaitReturn
  <2>3. << >> \in Seq(Funcs)
    OBVIOUS
  <2>4. funcs \in Seq(Funcs) /\ batch \in Seq(Funcs)
    BY <1>t DEF WaitExecutorTypeOK
  <2>5. \A f \in Funcs : Append(funcs, f) \in Seq(Funcs)
    BY <2>4
  <2>6. batch # << >> => Tail(batch) \in Seq(Funcs)
    BY <2>4
  <2>7. funcs' \in Seq(Funcs)
    BY <2>1, <2>3, <2>4, <2>5, Zenon
  <2>8. batch' \in Seq(Funcs)
    BY <2>2, <2>3, <2>4, <2>6, Zenon
  <2> QED BY <2>7, <2>8
<1>3. apc' \in [Funcs -> Places] /\ fate' \in [Funcs -> Fates]
  BY <1>t DEF WaitExecutorTypeOK, WaitExecutorNext, Adding, Waiting, waitVars, Add, AddInline, AddPost, AddReturn, DriveWait,
    DriveWoken, DriveTimedOut, DriveReset, DriveTake, DriveRun, DriveAgain, Ready, Detach, Discard,
    WaitReturn
<1>4. timed' \in BOOLEAN /\ detached' \in BOOLEAN /\ posted' \in BOOLEAN
  BY <1>t DEF WaitExecutorTypeOK, WaitExecutorNext, Adding, Waiting, waitVars, Add, AddInline, AddPost, AddReturn, DriveWait,
    DriveWoken, DriveTimedOut, DriveReset, DriveTake, DriveRun, DriveAgain, Ready, Detach, Discard,
    WaitReturn, B!BeginWait, B!Receive, B!GiveUp, B!Renew
<1>5. /\ wait' \in {"idle", "waiting", "got", "missed"}
      /\ driver' \in {"check", "wait", "reset", "take", "run", "detach", "discard", "leave", "done"}
  BY <1>t DEF WaitExecutorTypeOK, WaitExecutorNext, Adding, Waiting, waitVars, Add, AddInline, AddPost, AddReturn, DriveWait,
    DriveWoken, DriveTimedOut, DriveReset, DriveTake, DriveRun, DriveAgain, Ready, Detach, Discard,
    WaitReturn, B!BeginWait, B!Receive, B!GiveUp, B!Renew
<1> QED BY <1>1, <1>2, <1>3, <1>4, <1>5 DEF WaitExecutorTypeOK

\* The strengthened invariant holds in every reachable state.
LEMMA Invariance == WaitExecutorSpec => []IInv
<1>1. IInv /\ [WaitExecutorNext]_waitVars => IInv'
  BY TypeStep, QueueStep, CountStep, BatonStep, FinalStep DEF IInv
<1> QED BY <1>1, InitIInv, PTL DEF WaitExecutorSpec
-----------------------------------------------------------------------------
\* keepAliveCount_ never goes below zero, and every variable keeps its type.
THEOREM TypeCorrect == WaitExecutorSpec => []WaitExecutorTypeOK
<1>1. IInv => WaitExecutorTypeOK
  BY DEF IInv
<1> QED BY <1>1, Invariance, PTL

\* However add() calls interleave with drive() and detach(), the baton is posted at most once
\* between two resets.
THEOREM PostsOnce == WaitExecutorSpec => []BatonContract
<1>1. IInv => BatonContract
  BY DEF IInv, BatonInv
<1> QED BY <1>1, Invariance, PTL

\* A wait() without a deadline returns with every function run.
THEOREM NoneDropped == WaitExecutorSpec => []NothingDropped
<1>1. IInv => NothingDropped
  <2> SUFFICES ASSUME IInv, driver = "done", ~timed, NEW f \in Funcs PROVE fate[f] = "ran"
    BY DEF NothingDropped
  <2>1. Resolved(Final) /\ fate[f] # "dropped"
    BY DEF IInv, FinalInv
  <2>2. apc[Final] # "idle"
    BY <2>1, FinalAssumption DEF IInv, QueueInv, Resolved
  <2>3. Resolved(f)
    BY <2>1, <2>2 DEF IInv, FinalInv
  <2> QED BY <2>1, <2>3 DEF Resolved
<1> QED BY <1>1, Invariance, PTL

\* The executor is deleted when, and only when, the waiting thread, every add() call and every
\* queued function have given up their references.
THEOREM DeletedExactly == WaitExecutorSpec => []DeletedOnTime
<1>1. IInv => DeletedOnTime
  <2> SUFFICES ASSUME IInv PROVE DeletedOnTime
    OBVIOUS
  <2>1. (keepAlive = 0) <=> (driver = "done" /\ Cardinality(Open) = 0 /\ Cardinality(Queued) = 0)
    BY Finite DEF IInv, CountInv, Driving
  <2>2. (keepAlive = 0) <=> (driver = "done" /\ Open = {} /\ Queued = {})
    BY <2>1, Finite, FS_EmptySet
  <2>3. (Open = {} /\ Queued = {}) <=> \A f \in Funcs : apc[f] = "done" /\ fate[f] # "queued"
    BY DEF Open, Queued
  <2>4. \A f \in Funcs : apc[f] = "done" => (fate[f] # "queued" <=> Resolved(f))
    BY DEF IInv, WaitExecutorTypeOK, QueueInv, Resolved
  <2> QED BY <2>2, <2>3, <2>4 DEF DeletedOnTime
<1> QED BY <1>1, Invariance, PTL
=============================================================================
