------------------------------ MODULE KekRotation ------------------------------
(***************************************************************************)
(* Master keys: the KEK registry, the DEKs and TOTP seeds sealed under it, *)
(* KEK rotation, the start-up validation of the mounted keys, and restores *)
(* of an older database, over the life of several server processes.        *)
(*                                                                         *)
(* A sealed row is the pair of the KEK version it names and the master key *)
(* that really sealed it.  Handlers read through the pool and write in a   *)
(* transaction of their own, as in DekRotation, where one rotation's       *)
(* batches are modelled; here they are one step.  Stop drops every request *)
(* in flight; the operator then mounts any primary and previous key, and   *)
(* may have put the saved database back.  At most one process runs.        *)
(***************************************************************************)
EXTENDS Integers, Sequences

CONSTANTS
  MasterKeys,       \* key files the operator may mount
  Environments,     \* environments that may ever be created
  Users,            \* accounts that may hold a TOTP seed
  Workers,          \* requests that may be in flight at the same time
  MaxDek,           \* bound: DEK versions of an environment
  None              \* SQL NULL, an unset variable, a missing row

ASSUME KekAssumption == MaxDek \in Nat \ {0}

VARIABLES
  db,        \* the tables that KEK rotation touches
  saved,     \* a backup of them, or None
  server,    \* the running process: its mounted keys and /ready; or None
  request    \* what each request in flight has read

vars == <<db, saved, server, request>>

--------------------------------------------------------------------------------
(* Rows.                                                                        *)

Sealed == [kek : Nat, by : MasterKeys]

\* A row of environment_keys that still holds key material, with its dek_version.
DekRow == [kek : Nat, by : MasterKeys, n : 1..MaxDek]

\* kek_registry is a sequence: the version is the index, the last one is ACTIVE.
\* operations holds the environments of unfinished DEK operations; the row of a KEK
\* operation is inserted and completed in one transaction, so it is never seen.
Database == [registry : Seq(MasterKeys),
             active : [Environments -> DekRow \cup {None}],
             pending : [Environments -> DekRow \cup {None}],
             operations : SUBSET Environments,
             seed : [Users -> Sealed \cup {None}]]

Process == [primary : MasterKeys, previous : MasterKeys \cup {None}, ready : BOOLEAN]

ASSUME AbsenceAssumption == None \notin MasterKeys /\ None \notin DekRow /\ None \notin Process

Idle == [at |-> "idle"]
GuardedRequest == [at : {"admitted"}]
EnrolRequest == [at : {"seal"}, user : Users] \cup [at : {"seed"}, user : Users, kek : Nat]
DekRequest == [at : {"dek", "rotated"}, env : Environments]
                \cup [at : {"resumed"}, env : Environments, n : 1..MaxDek]
                \cup [at : {"wrapped"}, env : Environments, row : DekRow]
KekRequest == [at : {"source", "deks", "verify"}, source : Nat]
                \cup [at : {"seeds"}, source : Nat, active : [Environments -> DekRow \cup {None}]]
                \cup [at : {"commit"}, source : Nat, active : [Environments -> DekRow \cup {None}],
                      seed : [Users -> Sealed \cup {None}]]
Request == {Idle} \cup GuardedRequest \cup EnrolRequest \cup DekRequest \cup KekRequest

TypeOK ==
  /\ db \in Database
  /\ saved = None \/ saved \in Database
  /\ server = None \/ server \in Process
  /\ request \in [Workers -> Request]

Init ==
  /\ db = [registry |-> << >>, active |-> [e \in Environments |-> None],
           pending |-> [e \in Environments |-> None], operations |-> {},
           seed |-> [u \in Users |-> None]]
  /\ saved = None
  /\ server = None
  /\ request = [w \in Workers |-> Idle]

ActiveKek(d) == Len(d.registry)
ActiveMaster(d) == d.registry[ActiveKek(d)]

\* Authenticated decryption with the mounted keys: the primary, then the previous one.
Mounted(s) == {s.primary, s.previous} \ {None}
Opens(s, row) == row.by \in Mounted(s)

Seal(kek) == [kek |-> kek, by |-> server.primary]
SealDek(kek, n) == [kek |-> kek, by |-> server.primary, n |-> n]

Forward(w, r) == request' = [request EXCEPT ![w] = r]
Write(w, d) == db' = d /\ Forward(w, Idle) /\ UNCHANGED <<saved, server>>
Read(w, r) == Forward(w, r) /\ UNCHANGED <<db, saved, server>>

--------------------------------------------------------------------------------
(* Start and stop.                                                              *)

\* initialize_and_validate_key_registry: the first start registers its key.
KnownKey(d, s) == d.registry # << >> => ActiveMaster(d) \in Mounted(s)
WithPreviousKey(d, s) ==
  IF d.registry = << >> THEN [d EXCEPT !.registry = <<s.previous>>] ELSE d
WithRegistry(d, s) ==
  IF d.registry = << >> THEN [d EXCEPT !.registry = <<s.primary>>] ELSE d

\* validate_active_environment_keys
KeysOpen(d, s) == \A e \in Environments : d.active[e] # None => Opens(s, d.active[e])

\* validate_totp_seeds
SeedsOpen(d, s) ==
  \A u \in Users : d.seed[u] # None => d.seed[u].kek = ActiveKek(d) /\ Opens(s, d.seed[u])

Start(primary, previous) ==
  LET s == [primary |-> primary, previous |-> previous, ready |-> TRUE] IN
  /\ server = None
  /\ KnownKey(db, s)
  /\ KeysOpen(db, s)
  /\ SeedsOpen(db, s)
  /\ db' = WithRegistry(db, s)
  /\ server' = s
  /\ UNCHANGED <<saved, request>>

Stop ==
  /\ server # None
  /\ server' = None
  /\ request' = [w \in Workers |-> Idle]
  /\ UNCHANGED <<db, saved>>

Backup ==
  /\ server # None
  /\ saved' = db
  /\ UNCHANGED <<db, server, request>>

Restore ==
  /\ server = None /\ saved # None
  /\ db' = saved
  /\ UNCHANGED <<saved, server, request>>

--------------------------------------------------------------------------------
(* Guarded writes, and enrolment, which the guard lets through.                 *)

\* write_blocked
WriteBlocked(d) == d.operations # {} \/ ActiveMaster(d) # server.primary

Admit(w) ==
  /\ server # None /\ request[w] = Idle
  /\ ~WriteBlocked(db)
  /\ Read(w, [at |-> "admitted"])

\* environments::create, and each environment of create_with_default_environments.
CreateEnvironment(w, e) ==
  /\ request[w].at = "admitted"
  /\ db.active[e] = None
  /\ Write(w, [db EXCEPT !.active[e] = SealDek(ActiveKek(db), 1)])

\* users::reset_totp
ResetTotp(w, u) ==
  /\ request[w].at = "admitted"
  /\ db.seed[u] # None
  /\ Write(w, [db EXCEPT !.seed[u] = None])

\* create_pending_totp: checks the fingerprint, encrypts, reads the version, writes.
MayEnrol(d) == ActiveMaster(d) = server.primary

EnrolStart(w, u) ==
  /\ server # None /\ request[w] = Idle
  /\ db.seed[u] = None
  /\ MayEnrol(db)
  /\ Read(w, [at |-> "seal", user |-> u])

EnrolVersion(w) ==
  /\ request[w].at = "seal"
  /\ Read(w, [at |-> "seed", user |-> request[w].user, kek |-> ActiveKek(db)])

EnrolWrite(w) ==
  LET u == request[w].user IN
  /\ request[w].at = "seed"
  /\ Write(w, IF db.seed[u] = None
              THEN [db EXCEPT !.seed[u] = Seal(request[w].kek)] ELSE db)

--------------------------------------------------------------------------------
(* DEK rotation, as far as it handles wrapped keys.                             *)

\* ensure_primary_kek_active
PrimaryActive(d) == ActiveMaster(d) = server.primary

DekStart(w, e) ==
  /\ server # None /\ request[w] = Idle
  /\ db.active[e] # None
  /\ PrimaryActive(db)
  /\ Read(w, [at |-> "dek", env |-> e])

\* load_or_prepare_dek_operation: an unfinished operation of this environment is
\* resumed, one of another refuses, otherwise a new DEK is wrapped.
DekPrepare(w) ==
  LET e == request[w].env
      old == db.active[e]
  IN
  /\ request[w].at = "dek"
  /\ \/ /\ e \in db.operations
        /\ Read(w, [at |-> "resumed", env |-> e, n |-> old.n])
     \/ /\ db.operations = {}
        /\ Opens(server, old)
        /\ old.n < MaxDek
        /\ Read(w, [at |-> "wrapped", env |-> e, row |-> SealDek(old.kek, old.n + 1)])

\* A rival's row and operation refuse, by UNIQUE and the partial unique indexes.
DekInsert(w) ==
  LET e == request[w].env IN
  /\ request[w].at = "wrapped"
  /\ db.pending[e] = None /\ e \notin db.operations
  /\ request[w].row.n = db.active[e].n + 1
  /\ db' = [db EXCEPT !.pending[e] = request[w].row, !.operations = db.operations \cup {e}]
  /\ Forward(w, [at |-> "resumed", env |-> e, n |-> db.active[e].n])
  /\ UNCHANGED <<saved, server>>

\* The migration unwraps both keys; verify_and_finalize_dek retires the old one.
DekFinalize(w) ==
  LET e == request[w].env IN
  /\ request[w].at = "resumed"
  /\ db.pending[e] # None /\ db.active[e].n = request[w].n
  /\ Opens(server, db.active[e]) /\ Opens(server, db.pending[e])
  /\ db' = [db EXCEPT !.active[e] = db.pending[e], !.pending[e] = None,
                      !.operations = db.operations \ {e}]
  /\ Forward(w, [at |-> "rotated", env |-> e])
  /\ UNCHANGED <<saved, server>>

\* A process whose keys do not open every active DEK is taken off /ready.
DekVerify(w) ==
  /\ request[w].at = "rotated"
  /\ server' = [server EXCEPT !.ready = server.ready /\ KeysOpen(db, server)]
  /\ Forward(w, Idle)
  /\ UNCHANGED <<db, saved>>

--------------------------------------------------------------------------------
(* KEK rotation.                                                                *)

RotateKek(w) ==
  /\ server # None /\ request[w] = Idle
  /\ server.previous = ActiveMaster(db)
  /\ server.primary # ActiveMaster(db)
  /\ Read(w, [at |-> "source", source |-> ActiveKek(db)])

\* The registry knows no fingerprint twice, and no rotation is unfinished.
IgnoreOperations(d) == \A v \in 1..ActiveKek(d) : d.registry[v] # server.primary
MayRotate(d) ==
  /\ \A v \in 1..ActiveKek(d) : d.registry[v] # server.primary
  /\ d.operations = {}

CheckKek(w) ==
  /\ request[w].at = "source"
  /\ MayRotate(db)
  /\ Read(w, [at |-> "deks", source |-> request[w].source])

\* Each row must name the source version and open with the previous key.
Rewrappable(rows, source) ==
  \A i \in DOMAIN rows :
    rows[i] # None => rows[i].kek = source /\ rows[i].by = server.previous

ReadDeks(w) ==
  /\ request[w].at = "deks"
  /\ Rewrappable(db.active, request[w].source)
  /\ Read(w, [at |-> "seeds", source |-> request[w].source, active |-> db.active])

ReadSeeds(w) ==
  LET r == request[w] IN
  /\ r.at = "seeds"
  /\ Rewrappable(db.seed, r.source)
  /\ Read(w, [at |-> "commit", source |-> r.source, active |-> r.active, seed |-> db.seed])

\* revalidate_kek_source, then one compare-and-swap per row that was read.
Unmoved(r) ==
  /\ ActiveKek(db) = r.source
  /\ \A e \in Environments : r.active[e] # None =>
       db.active[e] # None /\ db.active[e].n = r.active[e].n /\ db.active[e].kek = r.source
  /\ \A u \in Users : r.seed[u] # None => db.seed[u] # None /\ db.seed[u].kek = r.source

\* The rows that were read are sealed by the primary key under the target version.
RewrapDeksOnly(r) ==
  [db EXCEPT
     !.registry = Append(@, server.primary),
     !.active = [e \in Environments |-> IF r.active[e] = None THEN @[e]
                                        ELSE SealDek(r.source + 1, r.active[e].n)]]
Rewrapped(r) ==
  [db EXCEPT
     !.registry = Append(@, server.primary),
     !.active = [e \in Environments |-> IF r.active[e] = None THEN @[e]
                                        ELSE SealDek(r.source + 1, r.active[e].n)],
     !.seed = [u \in Users |-> IF r.seed[u] = None THEN @[u] ELSE Seal(r.source + 1)]]

CommitKek(w) ==
  LET r == request[w] IN
  /\ r.at = "commit"
  /\ Unmoved(r)
  /\ db' = Rewrapped(r)
  /\ Forward(w, [at |-> "verify", source |-> r.source])
  /\ UNCHANGED <<saved, server>>

\* validate_environment_keys_with_primary, validate_totp_with_primary
PrimaryOpensAll(d, s) ==
  /\ KeysOpen(d, [s EXCEPT !.previous = None])
  /\ SeedsOpen(d, [s EXCEPT !.previous = None])

VerifyKek(w) ==
  /\ request[w].at = "verify"
  /\ server' = [server EXCEPT !.ready = server.ready /\ PrimaryOpensAll(db, server)]
  /\ Forward(w, Idle)
  /\ UNCHANGED <<db, saved>>

\* An error, a dropped client, the timeout.
Abandon(w) ==
  /\ request[w] # Idle
  /\ Read(w, Idle)

--------------------------------------------------------------------------------

Maintenance ==
  \/ \E p \in MasterKeys, q \in MasterKeys \cup {None} : Start(p, q)
  \/ Stop
  \/ Backup
  \/ Restore

Enrol(w) ==
  \/ \E u \in Users : EnrolStart(w, u)
  \/ EnrolVersion(w)
  \/ EnrolWrite(w)

RotateDek(w) ==
  \/ \E e \in Environments : DekStart(w, e)
  \/ DekPrepare(w)
  \/ DekInsert(w)
  \/ DekFinalize(w)
  \/ DekVerify(w)

KekStep(w) ==
  \/ RotateKek(w)
  \/ CheckKek(w)
  \/ ReadDeks(w)
  \/ ReadSeeds(w)
  \/ CommitKek(w)
  \/ VerifyKek(w)

Handle(w) ==
  \/ Admit(w)
  \/ \E e \in Environments : CreateEnvironment(w, e)
  \/ \E u \in Users : ResetTotp(w, u)
  \/ Enrol(w)
  \/ RotateDek(w)
  \/ KekStep(w)
  \/ Abandon(w)

Next == Maintenance \/ \E w \in Workers : Handle(w)

Spec == Init /\ [][Next]_vars

--------------------------------------------------------------------------------
(* Properties.                                                                  *)

\* Every DEK, active or pending, and every TOTP seed names the active KEK version
\* and is sealed by exactly that master key, so rotate_kek leaves nothing behind
\* that only the previous key opens, whatever ran beside it.
SealedUnderActive ==
  \A row \in {db.active[e] : e \in Environments} \cup {db.pending[e] : e \in Environments}
               \cup {db.seed[u] : u \in Users} :
    row # None => row.kek = ActiveKek(db) /\ row.by = ActiveMaster(db)

\* A process that passed the start-up validation keeps the keys to everything it
\* serves, a key made pending later included, and the verification after a rotation
\* never takes it off /ready.
ServesWhatItOpens ==
  server # None =>
    /\ server.ready
    /\ KeysOpen(db, server) /\ SeedsOpen(db, server)
    /\ \A e \in Environments : db.pending[e] # None => Opens(server, db.pending[e])

================================================================================
