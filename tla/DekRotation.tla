------------------------------ MODULE DekRotation ------------------------------
(***************************************************************************)
(* Rotation of the data-encryption key (DEK) of one environment, running   *)
(* beside the handlers that write ciphertext.                              *)
(*                                                                         *)
(* A record is a row that holds one ciphertext: a variable, a version of   *)
(* its history, or the proposed value of a request item.  Its dek column   *)
(* names the key, its version column (variables.version, variable_versions *)
(* .version, item_revision) is part of the associated data, so a ciphertext *)
(* is the pair of what it was sealed with and opens only where both match. *)
(* Every write of a new plaintext bumps the version; a plaintext is        *)
(* therefore identified by the version it was written at.                  *)
(*                                                                         *)
(* An administrator's request prepares or resumes the one unfinished       *)
(* operation, migrates batches, verifies and finalizes; each read outside  *)
(* a transaction and each transaction is an action.  Writers pass the      *)
(* rotation guard once, when the request enters the router.  A timeout, a  *)
(* crash and every error return abandon the handler.                       *)
(***************************************************************************)
EXTENDS Integers, FiniteSets, Sequences

CONSTANTS
  Current,            \* rows of variables
  History,            \* rows of variable_versions
  Proposals,          \* rows of change_request_items
  Admins,             \* rotate-dek requests that may be in flight together
  Writers,            \* other mutating requests in flight
  BatchSize,          \* BATCH_SIZE
  MaxDek,             \* bound: no rotation starts beyond this key version
  MaxVersion,         \* bound: no write beyond this record version
  MaintenanceWindow   \* whether operators keep writers out while an
                      \* administrator rotates (docs/operations.md asks for a
                      \* maintenance window; no code enforces it)

ASSUME RotationAssumption ==
  /\ BatchSize \in Nat \ {0}
  /\ MaxDek \in Nat \ {0}
  /\ MaxVersion \in Nat
  /\ MaintenanceWindow \in BOOLEAN
  /\ IsFiniteSet(Current) /\ IsFiniteSet(History) /\ IsFiniteSet(Proposals)
  /\ Current \cap History = {}
  /\ (Current \cup History) \cap Proposals = {}

VARIABLES
  key,      \* environment_keys.status by dek_version
  op,       \* the latest row of key_rotation_operations
  dek,      \* dek_version column of each record, 0 while it holds no ciphertext
  ver,      \* version column of each record
  sealed,   \* what the ciphertext of each record was sealed with
  admin,    \* what each rotate-dek request in flight has read
  writer    \* what each mutating request in flight has read

recordVars == <<dek, ver, sealed>>
vars == <<key, op, recordVars, admin, writer>>

Records == Current \cup History \cup Proposals
DekVersion == 1..MaxDek
KeyStatus == {"NONE", "PENDING", "ACTIVE", "RETIRED"}
Seal == [dek : Nat, ver : Nat]
OpStatus == {"NONE", "MIGRATING", "VERIFYING", "COMPLETED"}
Operation == [status : OpStatus, source : Nat, target : Nat, total : Nat,
              processed : Nat]

\* A pass of the migration visits the tables in this order.
Tables == <<Current, History, Proposals>>

\* Stages of a rotate-dek request.  job is the operation row it works for, table
\* the position of its pass, read the version each record of its batch had.
Idle == [at |-> "idle"]
Job == [source : Nat, target : Nat, total : Nat]
AdminState == {Idle}
  \cup [at : {"active"}, source : Nat]
  \cup [at : {"counted", "started", "passed", "verified"}, job : Job]
  \cup [at : {"migrating"}, job : Job, table : 1..3]
  \cup [at : {"batch"}, job : Job, rows : SUBSET Records, read : [Records -> Nat]]

\* Stages of a writer.  checked tells the handlers that look up the active key
\* again inside their transaction.
WriterState == {Idle} \cup [at : {"admitted"}]
  \cup [at : {"prepared"}, dek : Nat, rows : SUBSET Records,
        read : [Records -> Nat], checked : BOOLEAN]

TypeOK ==
  /\ key \in [DekVersion -> KeyStatus]
  /\ op \in Operation
  /\ dek \in [Records -> Nat]
  /\ ver \in [Records -> Nat]
  /\ sealed \in [Records -> Seal]
  /\ admin \in [Admins -> AdminState]
  /\ writer \in [Writers -> WriterState]

--------------------------------------------------------------------------------

\* The records that name a key, in the three tables.
ForgetProposals(v) == {c \in Current \cup History : dek[c] = v}
References(v) == {c \in Records : dek[c] = v}

\* The key material is in the database: wrapped_dek IS NOT NULL.
Loadable(v) == v \in DekVersion /\ key[v] \in {"PENDING", "ACTIVE"}

\* Authenticated decryption of a record with the key its dek column names.
Opens(c) == sealed[c] = [dek |-> dek[c], ver |-> ver[c]]

ActiveDek == CHOOSE v \in DekVersion : key[v] = "ACTIVE"

Unfinished == op.status \in {"MIGRATING", "VERIFYING"}

\* MAX(dek_version) + 1.
NextDek == 1 + CHOOSE v \in DekVersion :
                 key[v] # "NONE" /\ \A u \in DekVersion : key[u] # "NONE" => u <= v
JobOf(o) == [source |-> o.source, target |-> o.target, total |-> o.total]

\* A new environment has its first key and no ciphertext.
Init ==
  /\ key = [v \in DekVersion |-> IF v = 1 THEN "ACTIVE" ELSE "NONE"]
  /\ op = [status |-> "NONE", source |-> 0, target |-> 0, total |-> 0,
           processed |-> 0]
  /\ dek = [c \in Records |-> 0]
  /\ ver = [c \in Records |-> 0]
  /\ sealed = [c \in Records |-> [dek |-> 0, ver |-> 0]]
  /\ admin = [a \in Admins |-> Idle]
  /\ writer = [w \in Writers |-> Idle]

NoWriters == \A w \in Writers : writer[w] = Idle
NoAdmins == \A a \in Admins : admin[a] = Idle

--------------------------------------------------------------------------------
(* Writers.                                                                     *)

\* rotation_write_guard lets a mutating request in while no operation is
\* unfinished, and is not consulted again.
AdmitAnyone == TRUE
GuardAdmits == ~Unfinished
Admit(w) ==
  /\ writer[w] = Idle
  /\ GuardAdmits
  /\ MaintenanceWindow => NoAdmins
  /\ writer' = [writer EXCEPT ![w] = [at |-> "admitted"]]
  /\ UNCHANGED <<key, op, recordVars, admin>>

\* What one transaction may write: proposals, and variables each with a new row of
\* the history, which is immutable.
WriteSets == {rows \in SUBSET Records \ {{}} :
                /\ Cardinality(rows \cap Current) = Cardinality(rows \cap History)
                /\ \A c \in rows \cap History : ver[c] = 0}

\* The handler reads the active key and the rows it is about to write (a row
\* without ciphertext is one it will insert or fill) and encrypts.
WritePrepare(w, rows, checked) ==
  /\ writer[w].at = "admitted"
  /\ rows \in WriteSets
  /\ writer' = [writer EXCEPT ![w] =
       [at |-> "prepared", dek |-> ActiveDek, rows |-> rows, checked |-> checked,
        read |-> [c \in Records |-> IF c \in rows THEN ver[c] ELSE 0]]]
  /\ UNCHANGED <<key, op, recordVars, admin>>

\* Its transaction: the version of every row is unchanged, and the key row exists
\* (the foreign keys and scope triggers accept a RETIRED one).  mark_applied,
\* edit_preview, import and the shared edit compare the active key again; create,
\* fulfill_value, record_applied and delete_applied do not.
WriteCommit(w) ==
  LET h == writer[w] IN
  /\ h.at = "prepared"
  /\ \A c \in h.rows : ver[c] = h.read[c] /\ ver[c] < MaxVersion
  /\ h.checked => key[h.dek] = "ACTIVE"
  /\ dek' = [c \in Records |-> IF c \in h.rows THEN h.dek ELSE dek[c]]
  /\ ver' = [c \in Records |-> IF c \in h.rows THEN ver[c] + 1 ELSE ver[c]]
  /\ sealed' = [c \in Records |-> IF c \in h.rows
                                  THEN [dek |-> h.dek, ver |-> h.read[c] + 1]
                                  ELSE sealed[c]]
  /\ writer' = [writer EXCEPT ![w] = Idle]
  /\ UNCHANGED <<key, op, admin>>

WriterAbandon(w) ==
  /\ writer[w] # Idle
  /\ writer' = [writer EXCEPT ![w] = Idle]
  /\ UNCHANGED <<key, op, recordVars, admin>>

--------------------------------------------------------------------------------
(* rotate_dek.                                                                  *)

\* load_or_prepare_dek_operation finds the unfinished operation ...
Resume(a) ==
  /\ admin[a] = Idle
  /\ MaintenanceWindow => NoWriters
  /\ Unfinished
  /\ admin' = [admin EXCEPT ![a] = [at |-> "started", job |-> JobOf(op)]]
  /\ UNCHANGED <<key, op, recordVars, writer>>

\* ... or reads the active key ...
ReadActive(a) ==
  /\ admin[a] = Idle
  /\ MaintenanceWindow => NoWriters
  /\ ~Unfinished
  /\ admin' = [admin EXCEPT ![a] = [at |-> "active", source |-> ActiveDek]]
  /\ UNCHANGED <<key, op, recordVars, writer>>

\* ... numbers the new one and counts the records to migrate ...
CountRecords(a) ==
  LET source == admin[a].source IN
  /\ admin[a].at = "active"
  /\ NextDek <= MaxDek
  /\ admin' = [admin EXCEPT ![a] =
       [at |-> "counted",
        job |-> [source |-> source, target |-> NextDek,
                 total |-> Cardinality(References(source))]]]
  /\ UNCHANGED <<key, op, recordVars, writer>>

\* ... and inserts the pending key and the operation.  The unique indexes refuse
\* a second version row, a second pending key and a second unfinished operation.
AnySlot(job) == job.target \in DekVersion
SlotFree(job) == key[job.target] = "NONE" /\ ~Unfinished
InsertOperation(a) ==
  LET job == admin[a].job IN
  /\ admin[a].at = "counted"
  /\ SlotFree(job)
  /\ key' = [key EXCEPT ![job.target] = "PENDING"]
  /\ op' = [status |-> "MIGRATING", source |-> job.source, target |-> job.target,
            total |-> job.total, processed |-> 0]
  /\ admin' = [admin EXCEPT ![a] = [at |-> "started", job |-> job]]
  /\ UNCHANGED <<recordVars, writer>>

\* Both keys are unwrapped once, before the first batch, and then held in memory.
LoadKeys(a) ==
  LET job == admin[a].job IN
  /\ admin[a].at = "started"
  /\ Loadable(job.source) /\ Loadable(job.target)
  /\ admin' = [admin EXCEPT ![a] = [at |-> "migrating", job |-> job, table |-> 1]]
  /\ UNCHANGED <<key, op, recordVars, writer>>

\* The records of the table at hand that still name the old key.
ToMigrate(h) == References(h.job.source) \cap Tables[h.table]

\* A batch is read and re-encrypted outside the transaction; a record that does
\* not open fails it.
ReadBatch(a, rows) ==
  LET h == admin[a] IN
  /\ h.at = "migrating"
  /\ rows # {}
  /\ rows \subseteq ToMigrate(h)
  /\ rows = ToMigrate(h) \/ Cardinality(rows) = BatchSize
  /\ Cardinality(rows) <= BatchSize
  /\ \A c \in rows : Opens(c)
  /\ admin' = [admin EXCEPT ![a] =
       [at |-> "batch", job |-> h.job, rows |-> rows,
        read |-> [c \in Records |-> IF c \in rows THEN ver[c] ELSE 0]]]
  /\ UNCHANGED <<key, op, recordVars, writer>>

\* An empty batch moves on to the next table.
NextTable(a) ==
  LET h == admin[a] IN
  /\ h.at = "migrating" /\ h.table < Len(Tables)
  /\ ToMigrate(h) = {}
  /\ admin' = [admin EXCEPT ![a] = [h EXCEPT !.table = h.table + 1]]
  /\ UNCHANGED <<key, op, recordVars, writer>>

\* update_cipher_row: the only condition is that the record still names the old
\* key.
StillOldKey(c, source) == dek[c] = source

\* The associated data keep the version that was read and name the new key.
ResealUnderOldKey(job, v) == [dek |-> job.source, ver |-> v]
Reseal(job, v) == [dek |-> job.target, ver |-> v]

\* checkpoint: the operation is still migrating and counts the batch.
CheckpointedBelowTotal(job, n) ==
  /\ op.target = job.target
  /\ op.status = "MIGRATING"
  /\ op.processed + n < op.total
Checkpointed(job, n) ==
  /\ op.target = job.target
  /\ op.status = "MIGRATING"
  /\ op.processed + n <= op.total

CommitBatch(a) ==
  LET h == admin[a]
      n == Cardinality(h.rows)
  IN
  /\ h.at = "batch"
  /\ \A c \in h.rows : StillOldKey(c, h.job.source)
  /\ Checkpointed(h.job, n)
  /\ dek' = [c \in Records |-> IF c \in h.rows THEN h.job.target ELSE dek[c]]
  /\ sealed' = [c \in Records |-> IF c \in h.rows
                                  THEN Reseal(h.job, h.read[c])
                                  ELSE sealed[c]]
  /\ op' = [op EXCEPT !.processed = op.processed + n]
  /\ admin' = [admin EXCEPT ![a] = [at |-> "migrating", job |-> h.job, table |-> 1]]
  /\ UNCHANGED <<key, ver, writer>>

\* An empty batch of the last table ends the migration.
EndMigration(a) ==
  LET job == admin[a].job IN
  /\ admin[a].at = "migrating" /\ admin[a].table = Len(Tables)
  /\ ToMigrate(admin[a]) = {}
  /\ op' = IF op.target = job.target /\ op.status = "MIGRATING"
           THEN [op EXCEPT !.status = "VERIFYING"] ELSE op
  /\ admin' = [admin EXCEPT ![a] = [at |-> "passed", job |-> job]]
  /\ UNCHANGED <<key, recordVars, writer>>

\* The counts and the trial decryption, before the transaction.
Verified(job) ==
  /\ References(job.source) = {}
  /\ Cardinality(References(job.target)) = job.total
  /\ Loadable(job.target)
  /\ \A c \in References(job.target) : Opens(c)
Verify(a) ==
  /\ admin[a].at = "passed"
  /\ Verified(admin[a].job)
  /\ admin' = [admin EXCEPT ![a] = [at |-> "verified", job |-> admin[a].job]]
  /\ UNCHANGED <<key, op, recordVars, writer>>

\* complete_operation; COMMITTING never outlives the transaction.
LeaveCommitting(job) == [op EXCEPT !.status = "COMMITTING"]
CompleteOperation(job) == [op EXCEPT !.status = "COMPLETED", !.processed = job.total]

\* The old key material is destroyed, the new key activated, the operation closed.
Finalize(a) ==
  LET job == admin[a].job IN
  /\ admin[a].at = "verified"
  /\ key[job.source] = "ACTIVE"
  /\ key[job.target] = "PENDING"
  /\ key' = [key EXCEPT ![job.source] = "RETIRED", ![job.target] = "ACTIVE"]
  /\ op' = CompleteOperation(job)
  /\ admin' = [admin EXCEPT ![a] = Idle]
  /\ UNCHANGED <<recordVars, writer>>

AdminAbandon(a) ==
  /\ admin[a] # Idle
  /\ admin' = [admin EXCEPT ![a] = Idle]
  /\ UNCHANGED <<key, op, recordVars, writer>>

--------------------------------------------------------------------------------

WriterStep(w) ==
  \/ Admit(w)
  \/ \E rows \in SUBSET Records, checked \in BOOLEAN : WritePrepare(w, rows, checked)
  \/ WriteCommit(w)
  \/ WriterAbandon(w)

Batch(a) == \E rows \in SUBSET Records : ReadBatch(a, rows)

AdminStep(a) ==
  \/ Resume(a)
  \/ ReadActive(a)
  \/ CountRecords(a)
  \/ InsertOperation(a)
  \/ LoadKeys(a)
  \/ Batch(a)
  \/ NextTable(a)
  \/ CommitBatch(a)
  \/ EndMigration(a)
  \/ Verify(a)
  \/ Finalize(a)
  \/ AdminAbandon(a)

Next == \/ \E w \in Writers : WriterStep(w)
        \/ \E a \in Admins : AdminStep(a)

Spec == Init /\ [][Next]_vars

\* The administrator re-submits an unfinished rotation, a request in flight ends
\* (it completes, fails, or the timeout drops it), and no stage times out every time
\* it is reached: a batch is bounded so that it fits the timeout.
Fairness ==
  /\ WF_vars(\E a \in Admins : AdminAbandon(a))
  /\ SF_vars(\E a \in Admins : Resume(a))
  /\ SF_vars(\E a \in Admins : LoadKeys(a))
  /\ SF_vars(\E a \in Admins : Batch(a))
  /\ \A t \in 1..2 : SF_vars(\E a \in Admins : NextTable(a) /\ admin[a].table = t)
  /\ SF_vars(\E a \in Admins : CommitBatch(a))
  /\ SF_vars(\E a \in Admins : EndMigration(a))
  /\ SF_vars(\E a \in Admins : Verify(a))
  /\ SF_vars(\E a \in Admins : Finalize(a))

FairSpec == Spec /\ Fairness

--------------------------------------------------------------------------------
(* Properties.                                                                  *)

\* Every ciphertext can be decrypted at every moment of a rotation: its key
\* material exists and its associated data match the row.
AlwaysReadable ==
  \A c \in Records : dek[c] # 0 => Loadable(dek[c]) /\ Opens(c)

\* Exactly one key is active, and a key is pending exactly while the operation that
\* introduced it is unfinished, whatever rival administrators do.
KeysFollowOperation ==
  /\ \E v \in DekVersion : \A u \in DekVersion : key[u] = "ACTIVE" <=> u = v
  /\ \A v \in DekVersion : key[v] = "PENDING" <=> Unfinished /\ v = op.target

\* The operation row is exact across timeouts and resumptions: it replaces the
\* active key, what was processed names the new key and the rest names the old one.
ProgressExact ==
  Unfinished => /\ key[op.source] = "ACTIVE"
                /\ op.processed = Cardinality(References(op.target))
                /\ op.total = op.processed + Cardinality(References(op.source))

\* Key material is destroyed only when no ciphertext names it and every ciphertext
\* of the new key opens (docs/operations.md, DEK rotation).
DestroyedOnlyUnused ==
  [][\A v \in DekVersion : key[v] = "ACTIVE" /\ key'[v] = "RETIRED" =>
       \A c \in Records : dek[c] # v /\ (dek[c] # 0 => Opens(c))]_vars

\* An unfinished rotation can be resumed until it completes.
RotationCompletes == Unfinished ~> op.status = "COMPLETED"

================================================================================
