----------------------- MODULE EnvironmentLifecycleProofs -----------------------
(***************************************************************************)
(* Proofs about EnvironmentLifecycle, for any Apps, environments and       *)
(* handlers.  The inductive invariant adds to the type invariant that the  *)
(* targets of a shared edit come from the snapshot it took.                *)
(***************************************************************************)
EXTENDS EnvironmentLifecycle, TLAPS

\* The targets of a shared edit in flight are environments of its snapshot.
SharedOK ==
  \A w \in Workers : worker[w].at = "shared" =>
    worker[w].targets \subseteq worker[w].active

\* The inductive invariant.
IInv == TypeOK /\ SharedOK /\ OneActiveEnvironment

\* The initial state satisfies the invariant.
LEMMA InitIInv == Init => IInv
BY LifecycleAssumption DEF Init, IInv, TypeOK, RowStatus, SharedOK, Idle,
                           OneActiveEnvironment

\* The stage of a handler tells which fields it has.
LEMMA WorkerKinds ==
  ASSUME TypeOK, NEW w \in Workers
  PROVE  /\ worker[w].at \in {"create", "apply"} => worker[w].env \in Envs
         /\ worker[w].at = "shared" => /\ worker[w].targets \in SUBSET Envs
                                       /\ worker[w].active \in SUBSET Envs
                                       /\ worker[w].app \in Apps
BY DEF TypeOK, Idle

\* Steps of Apps and environments keep the invariant: archiving leaves another
\* active environment.
LEMMA LifecycleStep ==
  ASSUME IInv,
         \/ \E a \in Apps : CreateApp(a) \/ ArchiveApp(a) \/ RestoreApp(a)
         \/ \E e \in Envs : \/ CreateEnvironment(e) \/ ArchiveEnvironment(e)
                            \/ RestoreEnvironment(e)
  PROVE  IInv'
<1>1. ASSUME NEW a \in Apps, CreateApp(a) PROVE IInv'
  <2>1. TypeOK' /\ SharedOK'
    BY <1>1 DEF CreateApp, IInv, TypeOK, RowStatus, SharedOK
  <2>2. PICK d \in Defaults : AppOf[d] = a
    BY LifecycleAssumption
  <2>3. OneActiveEnvironment'
    <3> SUFFICES ASSUME NEW b \in Apps, app'[b] # "ABSENT"
                 PROVE  \E e \in Envs : AppOf[e] = b /\ env'[e] = "ACTIVE"
      BY DEF OneActiveEnvironment, ActiveEnvs
    <3>1. CASE b = a
      BY <1>1, <2>2, <3>1, LifecycleAssumption DEF CreateApp
    <3>2. CASE b # a
      <4>1. app[b] # "ABSENT"
        BY <1>1, <3>2 DEF CreateApp, IInv, TypeOK
      <4>2. PICK e \in Envs : AppOf[e] = b /\ env[e] = "ACTIVE"
        BY <4>1 DEF IInv, OneActiveEnvironment, ActiveEnvs
      <4> QED
        BY <1>1, <4>2 DEF CreateApp
    <3> QED
      BY <3>1, <3>2
  <2> QED
    BY <2>1, <2>3 DEF IInv
<1>2. ASSUME NEW a \in Apps, ArchiveApp(a) \/ RestoreApp(a) PROVE IInv'
  <2>1. TypeOK' /\ SharedOK'
    BY <1>2 DEF ArchiveApp, RestoreApp, IInv, TypeOK, RowStatus, SharedOK
  <2>2. \A b \in Apps : app'[b] # "ABSENT" => app[b] # "ABSENT"
    BY <1>2 DEF ArchiveApp, RestoreApp, IInv, TypeOK
  <2>3. OneActiveEnvironment'
    BY <1>2, <2>2 DEF ArchiveApp, RestoreApp, IInv, OneActiveEnvironment, ActiveEnvs
  <2> QED
    BY <2>1, <2>3 DEF IInv
<1>3. ASSUME NEW e \in Envs, CreateEnvironment(e) \/ RestoreEnvironment(e) PROVE IInv'
  <2>1. TypeOK' /\ SharedOK'
    BY <1>3 DEF CreateEnvironment, RestoreEnvironment, IInv, TypeOK, RowStatus, SharedOK
  <2>2. /\ app' = app
        /\ \A f \in Envs : env[f] = "ACTIVE" => env'[f] = "ACTIVE"
    BY <1>3 DEF CreateEnvironment, RestoreEnvironment, IInv, TypeOK
  <2>3. OneActiveEnvironment'
    BY <2>2 DEF IInv, OneActiveEnvironment, ActiveEnvs
  <2> QED
    BY <2>1, <2>3 DEF IInv
<1>4. ASSUME NEW e \in Envs, ArchiveEnvironment(e) PROVE IInv'
  <2>1. TypeOK' /\ SharedOK'
    BY <1>4 DEF ArchiveEnvironment, IInv, TypeOK, RowStatus, SharedOK
  <2>2. /\ app' = app
        /\ \A f \in Envs \ {e} : env'[f] = env[f]
        /\ env[e] = "ACTIVE" => OtherActive(e)
    BY <1>4 DEF ArchiveEnvironment, IInv, TypeOK
  <2>3. OneActiveEnvironment'
    <3> SUFFICES ASSUME NEW b \in Apps, app'[b] # "ABSENT"
                 PROVE  \E f \in Envs : AppOf[f] = b /\ env'[f] = "ACTIVE"
      BY DEF OneActiveEnvironment, ActiveEnvs
    <3>1. PICK f \in Envs : AppOf[f] = b /\ env[f] = "ACTIVE"
      BY <2>2 DEF IInv, OneActiveEnvironment, ActiveEnvs
    <3>2. CASE f = e
      BY <2>2, <3>1, <3>2 DEF OtherActive
    <3>3. CASE f # e
      BY <2>2, <3>1, <3>3
    <3> QED
      BY <3>2, <3>3
  <2> QED
    BY <2>1, <2>3 DEF IInv
<1> QED
  BY <1>1, <1>2, <1>3, <1>4

\* Steps of request handlers touch neither Apps nor environments.
LEMMA HandlerStep ==
  ASSUME IInv, \/ \E e \in Envs : Reject(e)
               \/ \E w \in Workers : Step(w)
  PROVE  IInv'
<1>1. UNCHANGED <<app, env>>
  BY DEF Reject, Step, Prepare, CreateCommit, ApplyCommit, SharedPrepare, SharedCommit,
         Abandon
<1>2. OneActiveEnvironment'
  BY <1>1 DEF IInv, OneActiveEnvironment, ActiveEnvs
<1>3. ASSUME NEW e \in Envs, Reject(e) PROVE TypeOK' /\ SharedOK'
  BY <1>3, LifecycleAssumption DEF Reject, StillOpen, IInv, TypeOK, SharedOK
<1>4. ASSUME NEW w \in Workers, NEW e \in Envs, NEW op \in {"create", "apply"},
             Prepare(w, op, e)
      PROVE  TypeOK' /\ SharedOK'
  BY <1>4 DEF Prepare, IInv, TypeOK, SharedOK
<1>5. ASSUME NEW w \in Workers, CreateCommit(w) \/ ApplyCommit(w)
      PROVE  TypeOK' /\ SharedOK'
  <2>1. worker[w].env \in Envs
    BY <1>5, WorkerKinds DEF CreateCommit, ApplyCommit, IInv
  <2>2. open' \in [Envs -> 0..MaxOpen]
    BY <1>5, <2>1, LifecycleAssumption DEF CreateCommit, ApplyCommit, StillOpen, IInv,
                                           TypeOK
  <2>3. worker' = [worker EXCEPT ![w] = Idle]
    BY <1>5 DEF CreateCommit, ApplyCommit
  <2> QED
    BY <1>1, <2>2, <2>3 DEF IInv, TypeOK, SharedOK, Idle
<1>6. ASSUME NEW w \in Workers, NEW a \in Apps, NEW targets \in SUBSET Envs,
             SharedPrepare(w, a, targets)
      PROVE  TypeOK' /\ SharedOK'
  <2> DEFINE h == [at |-> "shared", app |-> a, active |-> ActiveEnvs(a),
                   targets |-> targets]
  <2>1. ActiveEnvs(a) \in SUBSET Envs /\ targets \subseteq ActiveEnvs(a)
    BY <1>6 DEF ActiveEnvs, SharedPrepare
  <2>2. worker' = [worker EXCEPT ![w] = h] /\ open' = open
    BY <1>6 DEF SharedPrepare
  <2> QED
    BY <1>1, <2>1, <2>2 DEF IInv, TypeOK, SharedOK
<1>7. ASSUME NEW w \in Workers, SharedCommit(w) PROVE TypeOK' /\ SharedOK'
  <2>1. open' \in [Envs -> 0..MaxOpen]
    BY <1>7, LifecycleAssumption DEF SharedCommit, IInv, TypeOK
  <2>2. worker' = [worker EXCEPT ![w] = Idle]
    BY <1>7 DEF SharedCommit
  <2> QED
    BY <1>1, <2>1, <2>2 DEF IInv, TypeOK, SharedOK, Idle
<1>8. ASSUME NEW w \in Workers, Abandon(w) PROVE TypeOK' /\ SharedOK'
  BY <1>8 DEF Abandon, IInv, TypeOK, SharedOK, Idle
<1> QED
  BY <1>2, <1>3, <1>4, <1>5, <1>6, <1>7, <1>8 DEF Step, IInv

\* Every step preserves the invariant.
LEMMA NextIInv == IInv /\ [Next]_vars => IInv'
<1>1. IInv /\ Next => IInv'
  BY LifecycleStep, HandlerStep DEF Next
<1>2. IInv /\ UNCHANGED vars => IInv'
  BY DEF vars, IInv, TypeOK, SharedOK, OneActiveEnvironment, ActiveEnvs
<1> QED
  BY <1>1, <1>2

\* The invariant holds in every reachable state.
THEOREM Invariance == Spec => []IInv
BY InitIInv, NextIInv, PTL DEF Spec

\* Apps, environments, requests and handlers keep the states that services, environments
\* and requests give them; a prepared edit keeps a valid snapshot beside it.
THEOREM LifecycleTypes == Spec => []TypeOK
<1>1. IInv => TypeOK
  BY DEF IInv
<1> QED
  BY <1>1, Invariance, PTL

\* Every App keeps an active environment, however many it has.
THEOREM ActiveEnvironmentRemains == Spec => []OneActiveEnvironment
<1>1. IInv => OneActiveEnvironment
  BY DEF IInv
<1> QED
  BY <1>1, Invariance, PTL

\* What SharedEditsRespectArchive says of a step.
Respects ==
  \A w \in Workers : worker[w].at = "shared" /\ open' # open /\ worker'[w] = Idle =>
    \A e \in worker[w].targets : Mutable(e)

\* Only its own commit ends a shared edit while requests change.
LEMMA NextRespects == IInv /\ Next => Respects
<1> SUFFICES ASSUME IInv, Next, NEW w \in Workers, worker[w].at = "shared",
                    open' # open, worker'[w] = Idle,
                    NEW e \in worker[w].targets
             PROVE  Mutable(e)
  BY DEF Respects
<1>1. worker[w] # Idle
  BY DEF Idle
<1>2. SharedCommit(w)
  <2>1. ~(\E a \in Apps : CreateApp(a) \/ ArchiveApp(a) \/ RestoreApp(a))
    BY DEF CreateApp, ArchiveApp, RestoreApp
  <2>2. ~(\E f \in Envs : \/ CreateEnvironment(f) \/ ArchiveEnvironment(f)
                          \/ RestoreEnvironment(f) \/ Reject(f))
    BY <1>1 DEF CreateEnvironment, ArchiveEnvironment, RestoreEnvironment, Reject
  <2>3. PICK v \in Workers : Step(v)
    BY <2>1, <2>2 DEF Next
  <2>4. CreateCommit(v) \/ ApplyCommit(v) \/ SharedCommit(v)
    BY <2>3 DEF Step, Prepare, SharedPrepare, Abandon
  <2>5. worker' = [worker EXCEPT ![v] = Idle]
    BY <2>4 DEF CreateCommit, ApplyCommit, SharedCommit
  <2>6. v = w
    BY <1>1, <2>5 DEF IInv, TypeOK
  <2> QED
    BY <2>4, <2>6 DEF CreateCommit, ApplyCommit
<1>3. e \in ActiveEnvs(worker[w].app) /\ app[worker[w].app] = "ACTIVE"
  BY <1>2 DEF SharedCommit, SnapshotHolds, IInv, SharedOK
<1> QED
  BY <1>3 DEF ActiveEnvs, Mutable

\* A coordinated edit never opens a request in an environment that was archived, or
\* whose App was, since the edit was prepared.
THEOREM SharedEditsSafe == Spec => SharedEditsRespectArchive
<1>1. IInv /\ [Next]_vars => [Respects]_vars
  BY NextRespects
<1>2. [][Respects]_vars => SharedEditsRespectArchive
  BY PTL DEF SharedEditsRespectArchive, Respects
<1> QED
  BY <1>1, <1>2, Invariance, PTL DEF Spec

================================================================================
