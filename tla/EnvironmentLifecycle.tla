-------------------------- MODULE EnvironmentLifecycle --------------------------
(***************************************************************************)
(* Apps (services) and their environments: creation, archiving and         *)
(* restoring, beside the handlers that open and decide change requests.    *)
(*                                                                         *)
(* Archiving runs in one BEGIN IMMEDIATE transaction.  A request handler    *)
(* reads archived_at through the pool (environment_context, ensure_mutable)*)
(* and writes in a later transaction, so each is two actions here.  Names, *)
(* descriptions and keys are left out; an environment is created together  *)
(* with its first key in the same transaction.                             *)
(***************************************************************************)
EXTENDS Integers

CONSTANTS
  Apps,
  Envs,
  AppOf,     \* the App of each environment
  Defaults,  \* the environments an App is created with (DEFAULT_ENVIRONMENTS)
  Workers,   \* request handlers in flight
  MaxOpen    \* bound: open requests of one environment

ASSUME LifecycleAssumption ==
  /\ AppOf \in [Envs -> Apps]
  /\ Defaults \subseteq Envs
  /\ \A a \in Apps : \E e \in Defaults : AppOf[e] = a
  /\ MaxOpen \in Nat \ {0}

VARIABLES
  app,     \* services: ABSENT, ACTIVE (archived_at IS NULL) or ARCHIVED
  env,     \* environments, likewise
  open,    \* open change requests of each environment
  worker   \* what each handler in flight has read

vars == <<app, env, open, worker>>

RowStatus == {"ABSENT", "ACTIVE", "ARCHIVED"}
Idle == [at |-> "idle"]

TypeOK ==
  /\ app \in [Apps -> RowStatus]
  /\ env \in [Envs -> RowStatus]
  /\ open \in [Envs -> 0..MaxOpen]
  /\ worker \in [Workers -> {Idle}
                   \cup [at : {"create", "apply"}, env : Envs]
                   \cup [at : {"shared"}, app : Apps, active : SUBSET Envs,
                         targets : SUBSET Envs]]

Init ==
  /\ app = [a \in Apps |-> "ABSENT"]
  /\ env = [e \in Envs |-> "ABSENT"]
  /\ open = [e \in Envs |-> 0]
  /\ worker = [w \in Workers |-> Idle]

--------------------------------------------------------------------------------
(* Apps and environments.                                                       *)

\* An App and its default environments appear in one transaction.
CreateApp(a) ==
  /\ app[a] = "ABSENT"
  /\ app' = [app EXCEPT ![a] = "ACTIVE"]
  /\ env' = [e \in Envs |-> IF e \in Defaults /\ AppOf[e] = a THEN "ACTIVE"
                                                              ELSE env[e]]
  /\ UNCHANGED <<open, worker>>

CreateEnvironment(e) ==
  /\ e \notin Defaults
  /\ env[e] = "ABSENT"
  /\ app[AppOf[e]] = "ACTIVE"
  /\ env' = [env EXCEPT ![e] = "ACTIVE"]
  /\ UNCHANGED <<app, open, worker>>

\* An App is archived whatever its environments and requests are.
ArchiveApp(a) ==
  /\ app[a] # "ABSENT"
  /\ app' = [app EXCEPT ![a] = "ARCHIVED"]
  /\ UNCHANGED <<env, open, worker>>

RestoreApp(a) ==
  /\ app[a] # "ABSENT"
  /\ app' = [app EXCEPT ![a] = "ACTIVE"]
  /\ UNCHANGED <<env, open, worker>>

\* More than one environment of the App is active, e being one of them.
SomeActive(e) == \E f \in Envs : AppOf[f] = AppOf[e] /\ env[f] = "ACTIVE"
OtherActive(e) ==
  \E f \in Envs \ {e} : AppOf[f] = AppOf[e] /\ env[f] = "ACTIVE"

\* Archiving an archived environment again passes without the checks.
ArchiveEnvironment(e) ==
  /\ env[e] # "ABSENT"
  /\ env[e] = "ACTIVE" => OtherActive(e) /\ open[e] = 0
  /\ env' = [env EXCEPT ![e] = "ARCHIVED"]
  /\ UNCHANGED <<app, open, worker>>

RestoreEnvironment(e) ==
  /\ env[e] # "ABSENT"
  /\ env' = [env EXCEPT ![e] = "ACTIVE"]
  /\ UNCHANGED <<app, open, worker>>

--------------------------------------------------------------------------------
(* Change requests, as far as they touch the lifecycle.                         *)

\* ensure_mutable.
Mutable(e) == env[e] = "ACTIVE" /\ app[AppOf[e]] = "ACTIVE"

Prepare(w, op, e) ==
  /\ worker[w] = Idle
  /\ Mutable(e)
  /\ worker' = [worker EXCEPT ![w] = [at |-> op, env |-> e]]
  /\ UNCHANGED <<app, env, open>>

\* requests::create inserts the request without looking at archived_at again.
CreateCommit(w) ==
  LET e == worker[w].env IN
  /\ worker[w].at = "create"
  /\ open[e] < MaxOpen
  /\ open' = [open EXCEPT ![e] = open[e] + 1]
  /\ worker' = [worker EXCEPT ![w] = Idle]
  /\ UNCHANGED <<app, env>>

\* mark_applied and reject look for an open request again in their transaction.
TrustLoaded(e) == e \in Envs
StillOpen(e) == open[e] > 0

\* mark_applied closes an open request; it too read archived_at earlier.
ApplyCommit(w) ==
  LET e == worker[w].env IN
  /\ worker[w].at = "apply"
  /\ StillOpen(e)
  /\ open' = [open EXCEPT ![e] = open[e] - 1]
  /\ worker' = [worker EXCEPT ![w] = Idle]
  /\ UNCHANGED <<app, env>>

\* Rejecting needs no active environment.
Reject(e) ==
  /\ StillOpen(e)
  /\ open' = [open EXCEPT ![e] = open[e] - 1]
  /\ UNCHANGED <<app, env, worker>>

\* A shared edit takes a snapshot of the App's active environments and prepares a
\* request for each target.
ActiveEnvs(a) == {e \in Envs : AppOf[e] = a /\ env[e] = "ACTIVE"}
SharedPrepare(w, a, targets) ==
  /\ worker[w] = Idle
  /\ targets # {}
  /\ targets \subseteq ActiveEnvs(a)
  /\ app[a] = "ACTIVE"
  /\ worker' = [worker EXCEPT ![w] =
       [at |-> "shared", app |-> a, active |-> ActiveEnvs(a), targets |-> targets]]
  /\ UNCHANGED <<app, env, open>>

\* Snapshot::validate, inside the BEGIN IMMEDIATE transaction; an archived App
\* empties the snapshot's targets.
SkipValidation(h) == h.targets # {}
SnapshotHolds(h) == app[h.app] = "ACTIVE" /\ ActiveEnvs(h.app) = h.active
SharedCommit(w) ==
  LET h == worker[w] IN
  /\ h.at = "shared"
  /\ SnapshotHolds(h)
  /\ \A e \in h.targets : open[e] < MaxOpen
  /\ open' = [e \in Envs |-> IF e \in h.targets THEN open[e] + 1 ELSE open[e]]
  /\ worker' = [worker EXCEPT ![w] = Idle]
  /\ UNCHANGED <<app, env>>

Abandon(w) ==
  /\ worker[w] # Idle
  /\ worker' = [worker EXCEPT ![w] = Idle]
  /\ UNCHANGED <<app, env, open>>

--------------------------------------------------------------------------------

Step(w) ==
  \/ \E e \in Envs, op \in {"create", "apply"} : Prepare(w, op, e)
  \/ CreateCommit(w)
  \/ ApplyCommit(w)
  \/ \E a \in Apps, targets \in SUBSET Envs : SharedPrepare(w, a, targets)
  \/ SharedCommit(w)
  \/ Abandon(w)

Next ==
  \/ \E a \in Apps : CreateApp(a) \/ ArchiveApp(a) \/ RestoreApp(a)
  \/ \E e \in Envs : \/ CreateEnvironment(e) \/ ArchiveEnvironment(e)
                     \/ RestoreEnvironment(e) \/ Reject(e)
  \/ \E w \in Workers : Step(w)

Spec == Init /\ [][Next]_vars

--------------------------------------------------------------------------------
(* Properties.                                                                  *)

\* Every App keeps an active environment through any sequence of archiving and
\* restoring (LastActiveEnvironment in environments::set_archived).
OneActiveEnvironment ==
  \A a \in Apps : app[a] # "ABSENT" => ActiveEnvs(a) # {}

\* A coordinated edit never opens requests where archiving won the race: its
\* transaction validates the snapshot it was prepared from.
SharedEditsRespectArchive ==
  [][\A w \in Workers : worker[w].at = "shared" /\ open' # open /\ worker'[w] = Idle =>
       \A e \in worker[w].targets : Mutable(e)]_vars

================================================================================
