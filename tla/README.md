# ConfigDeck in TLA+

ConfigDeck is a registry of environment variables: Apps (services) have
environments, environments have encrypted variables, and changes are proposed,
reviewed against a preview of the resulting dotenv file, and marked as applied.
One Axum process serves HTTP requests on one SQLite database (WAL, a pool of up
to 16 connections); there is no other shared state. This directory holds the
TLA+ model of its state-changing parts, the TLC configurations that check it on small
instances and the proofs that hold for all instances.

## How the code behaves, and what makes it hard

Nearly every mutating handler follows one pattern: read rows through the pool,
check and encrypt outside any transaction (Argon2 and AES work must not hold the
writer lock), then open a transaction, check *some* of it again with `WHERE`
clauses on versions, revisions and statuses, and write. Two such handlers
interleave freely between their statements. A transaction is atomic and
transactions are serial: SQLite has one writer, and a deferred transaction whose
snapshot was superseded fails on its first write. A handler may also vanish
between any two statements: `TimeoutLayer` drops it after 15 s, the client
disconnects, the process stops. So each module models

- a read (or a group of reads with the same role) as one action that stores what
  was read in the handler's state,
- a transaction as one action whose guard is the conjunction of all its checks,
  those of the schema included,
- every failure, early return and disappearance as one `Abandon` action.

What outlives the process (database file, write-ahead log, marker and archive files,
mounted key files) matters only to maintenance and startup; `Operations` and
`KekRotation` add stops, restarts, crashes and power losses there.

## Inventory

| Component | State | Operations | Interacts with | Hard part | What makes it correct |
|---|---|---|---|---|---|
| Change requests (`requests`, `requests/review`) | `change_requests`, `change_request_items` | create, inline edit, fulfill, approve, reject, preview, edit preview, mark applied | variables, environments, active DEK | checks before the transaction; overlapping selections; stale previews | decisions are final; status follows review; what is applied is what was shown, once |
| Coordinated edit (`requests/shared`) | a snapshot held by the handler | prepare for all environments, persist | environments, keys, variables | snapshot taken before the transaction | never lands where archiving won |
| Variables and history (`variables`) | `variables`, `variable_versions` | record, delete, import, reveal, export | requests, DEK | two writers on one version | the history is a gap-free ledger |
| Import review (`variables/import_review`) | snapshot | preview, import | variables, requests | the same | all or nothing on an unchanged snapshot |
| DEK rotation (`rotations`) | `environment_keys`, `key_rotation_operations`, the `dek_version` of every ciphertext | start, resume, batches, verify, finalize | every writer of ciphertext, write guard | resumable over timeouts; writers in flight; two administrators | everything stays readable; old keys die unused; it completes |
| KEK rotation (`rotations`, `db`) | `kek_registry`, wrapped DEKs, TOTP seeds | rotate, startup validation | DEK rotation, enrolment, environments | rows read before the transaction | every wrapped key belongs to the active KEK |
| Environments and Apps (`environments`, `services`) | `archived_at` | create, archive, restore | requests | archiving beside handlers in flight | one environment stays active; no open request in an archived one |
| Login, TOTP, sessions (`auth`) | users, `sessions`, `login_attempts` | login, TOTP, enrol, recent auth, logout | user administration | resets beside logins, single use of a TOTP step | an invalidated session or password stays invalid |
| User administration (`users`) | users, `user_service_access` | create, role, activate, reset, grants | sessions | two administrators at once | one active administrator remains |
| Backup, restore (`operations`) | files, marker | backup, intent, preflight, reconcile | startup | crashes between file and database | a restore is recorded and the marker consumed once |
| Audit (`audit`, `operations/audit_archive`) | `audit_logs`, files | append, archive | everything | file before delete | no row is lost |
| Dotenv (`dotenv`) | none | parse, render | import, preview, export | quoting | parse inverts render |
| Crypto, web, organization, configuration, errors, dashboard | keys in memory, none | | | | see "Not modelled" |

`PROJECT.json` lists the hazards with their source lines, the covered ones with
the properties that cover them.

## Modules

### RequestWorkflow

The requests, items, variables and history of one environment, with any number of
handlers (`Workers`).

| State | Code |
|---|---|
| `status`, `revision`, `approved`, `preview` | columns of `change_requests` (`approved_at IS NOT NULL`, `preview_fingerprint`) |
| `item[r][k]` | `change_request_items`, unique by request and key |
| `current[k]`, `history` | `variables`, `variable_versions` |
| `handler[w]` | local variables of a handler between its statements |
| `shown` | preview pages that reached a reviewer; edit and apply start from one, because the form carries the digest of the page |

| Action | Code |
|---|---|
| `CreatePrepare`, `CreateCommit` | `create` before and in its transaction; `create_inline_edit` only composes a draft and calls it |
| `FulfillPrepare`, `FulfillCommit` | `fulfill_value` |
| `Approve`, `Reject` | `approve`, `reject`, whose checks are inside the transaction |
| `LoadRequests`, `LoadItems`, `LoadCurrentRows` | the three reads that preview, edit and apply share |
| `PreviewCommit`, `EditCommit`, `ApplyCommit` | the transactions of `preview_resulting`, `edit_preview`, `mark_applied` |
| `RecordPrepare`, `DeletePrepare`, `DirectCommit` | `record_applied`, `delete_applied` |
| `Abandon` | every early return, rollback, timeout |

Abstractions. A content is a plaintext with its metadata. The digest is the record
of what is hashed, so equal digests mean equal inputs. The per-request SELECTs of one
load are one action, as are the per-key SELECTs of `create`: each request row read is
compared by its own revision at commit, the keys of its items never change, and an
item records the version of its own row only.
A direct write also inserts a request born `APPLIED`; no handler selects it and the
model shows it only as `by = None` in the history. Environment archiving and
encryption keys are other modules' subject. Authorization is left out: every handler
is one that passed it.

### Registry

The abstract specification of the same environment: a request is submitted, revised
or rejected, a set of requests is applied, or a key is written directly, each in one
step on the rows of that moment. There are no handlers, revisions, approvals or
previews. `RequestWorkflow` instantiates it with `state` computed from `status`
(every open status is `OPEN`), `proposal` from `item`, and `row` and `ledger` equal to
`current` and `history`; `ImplementsRegistry` is its specification under that mapping.
So however far apart a handler's reads and its transaction lie, the effect is one that
an instantaneous operation could have had: an apply takes its selection as a whole, on
the base versions the items name, with the values they hold at that moment.

### DekRotation

The keys, the latest rotation operation and the ciphertexts of one environment. A
ciphertext is what it was sealed with: the key and the version in the associated
data; it opens where both match the row. Administrators run `rotate_dek`
(`Resume` or `ReadActive`, `CountRecords`, `InsertOperation`; then `LoadKeys`,
`ReadBatch`, `CommitBatch`, `NextTable`, `EndMigration`, `Verify`, `Finalize`);
writers pass `rotation_write_guard` (`Admit`), read the active key and rows
(`WritePrepare`) and commit (`WriteCommit`). `checked` separates the handlers that
compare the active key again in their transaction (apply, preview edit, import,
coordinated edit) from those that do not (create, fulfill, record, delete).

The constant `MaintenanceWindow` says whether operators keep writers and rotations
apart, as `docs/operations.md` asks; no code does. The passing runs assume it, the
run `straggler_destroyed` does not.

### KekRotation

Master keys over the life of several server processes. A sealed row is the KEK version
it names and the master key that really sealed it.

| State | Code |
|---|---|
| `db` | `kek_registry`, the wrapped keys of `environment_keys`, unfinished rows of `key_rotation_operations`, sealed TOTP seeds |
| `saved` | a backup of these tables |
| `server` | the running process: primary and previous key file, `/ready` |
| `request[w]` | what a request in flight has read |

| Action | Code |
|---|---|
| `Start`, `Stop` | `main`: `initialize_and_validate_key_registry`, `validate_active_environment_keys`, `validate_totp_seeds`; shutdown |
| `Backup`, `Restore` | a snapshot, and the operator putting it back while stopped |
| `Admit`, `CreateEnvironment`, `ResetTotp`, `EnrolStart/Version/Write` | the write guard and the handlers that add or drop sealed rows; `create_pending_totp` reads the KEK version and writes in separate statements |
| `DekStart/Prepare/Insert/Finalize/Verify` | `rotate_dek`, its batches as one step |
| `RotateKek`, `CheckKek`, `ReadDeks`, `ReadSeeds`, `CommitKek`, `VerifyKek` | `rotate_kek`: precondition, unfinished operations, the two reads outside the transaction, the transaction with its comparisons, the verification that may take the process off `/ready` |

### EnvironmentLifecycle

Apps, environments, the number of open requests of each environment, and the
handlers that check `archived_at` before their transaction. `ArchiveEnvironment`
is one `BEGIN IMMEDIATE` transaction; archiving an archived environment again skips
the checks, as in the code. `SharedPrepare` and `SharedCommit` are the coordinated
edit, reduced to the environments in its snapshot.

### Accounts

`account` (`users` and `user_service_access`), `session`, `request` (handlers), the
TOTP `clock` and the Argon2 `params` of the process. `epoch`, `temporary` and
`consumed` are history variables the properties need. Passwords and seeds are numbers;
a TOTP code is a seed and a time step.

| Action | Code |
|---|---|
| `BootstrapInitialAdmin`, `Redeploy` | startup |
| `SignIn`, `UpgradePassword`, `CreatePendingTotp`, `CreateSession` | `authenticate`: row read and password verified, hash upgraded, seed made, session created with the `auth_version` that was read |
| `LoadSession`, `ReadAccount`, `ConsumeCode`, `EnableTotp`, `Claim`, `IssueSession` | `complete_login_totp`, `confirm_totp`, `recent_authenticate` and `SessionManager::rotate`, statement by statement |
| `ReplacePassword`, `EndSession` | `change_own_password`, `logout` |
| `CreateUser`, `SetServiceAccess` | single transactions of user administration |
| `ResetPasswordStart` ... `ResetTotp` | the other administrator operations: what is read outside the transaction, then the transaction; `DropGrants` is the DELETE `set_active` runs without one |

### Operations

The database as main file and write-ahead log, snapshots, the restore marker (as
readers see it and as its directory was last synced), archive files, the server's
startup stage, and the requests in flight.

| Action | Code |
|---|---|
| `Write`, `AutoCheckpoint` | any handler's audit event; SQLite folding the log |
| `VacuumInto`, `VacuumDone`, `RecordBackup`, `DiscardBackup` | `create_backup` |
| `ValidateIntent`, `LinkMarker`, `SyncMarker`, `RecordIntent`, `RetractIntent` | `create_restore_intent` |
| `SelectArchive`, `WriteArchive`, `CommitArchive` | `archive_batch`, which holds the writer lock while it writes the file |
| `Preflight`, `ConnectAndMigrate`, `RecordRestore`, `MakeRestoreDurable`, `RemoveMarker`, `SyncParent`, `ServeWithoutIntent` | startup |
| `Crash`, `PowerLoss`, `Stop` | the process dies; a suffix of the log and unsynced directory changes are lost; a clean stop folds the log |
| `Replace`, `AbandonRestore`, `DropSafety` | the operator of `docs/operations.md`, who may pick the wrong snapshot |

### Dotenv and Import

`Dotenv` has `dotenv::parse` and `dotenv::render` as operators over sequences of
tokens (a character, or a word the parser never looks into): lines, assignments with
`export`, single, double and no quotes, values over several lines, headings and
decorated comments that open groups; quoting, escaping and the order of groups. The
parser's loops are folds and one recursive function over lines, and the order of a file
is given by the place each entry gets (`Place`), so that both can be proved about.
`Entries` of an export come in any order: display positions are left out.

`Import` has the rows of one App's environments, the items of open requests, previews
in browsers (`token`, the sealed review) and handlers. `Preview` parses a file and
stores the review; `Prepare` and `CommitImport` are `import_applied_reviewed` before
and in its transaction. `OpenPage`, `PrepareShared` and `PersistShared` are the
comparison page and the coordinated edit that starts from it. `DirectWrite`,
`DirectDelete`, `OpenRequest`, `CloseRequest`, `ApplyRequest`, `Archive` and `Restore`
are the operations reviews and snapshots depend on, each in one step because its
compare-and-swap makes it so (`RequestWorkflow` has the steps). What is uploaded may be
a given text or an export of any environment.

## Properties and runs

`TypeOK` is each module's type invariant. The others:

| Property | What it says |
|---|---|
| `FinalFrozen` | an applied or rejected request never changes, not even by a `fulfill_value` that started before the decision; the schema's CHECK is what stops that one |
| `StatusReflectsReview` | an open request is ready exactly when approved and complete, waiting for input exactly when a value is missing |
| `LedgerComplete` | one history row per version of each key, none beyond, the last equal to the current row |
| `AppliesWhatWasShown` | marking as applied installs the dotenv of a page shown for exactly that selection, and all of the selection |
| `AppliedExactlyOnce` | an applied request wrote each item once, on the version it was proposed against; others wrote nothing |
| `ImplementsRegistry` | every behaviour of the handlers is one of the abstract `Registry` |
| `AlwaysReadable` | at every moment of a DEK rotation each ciphertext opens with key material that exists |
| `KeysFollowOperation` | one active key; a pending key exactly while its operation is unfinished |
| `ProgressExact` | across interruptions the operation row counts exactly the migrated and remaining records |
| `DestroyedOnlyUnused` | key material is destroyed only when no ciphertext names it and all open |
| `RotationCompletes` | an unfinished rotation completes (liveness) |
| `SealedUnderActive` | every DEK and TOTP seed names the active KEK and is sealed by it |
| `ServesWhatItOpens` | a process that passed startup validation stays ready and opens everything it serves |
| `OneActiveEnvironment` | every App keeps an active environment |
| `SharedEditsRespectArchive` | a coordinated edit never opens a request where archiving won the race |
| `SessionsFollowAccount` | a session that is accepted was signed in after the last operation that took the account's sessions away |
| `SecondFactorProven` | a full session of an account with, or in need of, TOTP was obtained with a code of the current seed |
| `CodeUsedOnce` | no TOTP code is accepted twice |
| `RotatedOnce` | a session is replaced at most once and never usable beside its replacement |
| `AdministratorRemains` | an active administrator remains |
| `GrantsFollowAccount` | grants belong to active contributors |
| `ResetForcesReplacement` | until it is replaced, a temporary password is the account's password and must be replaced |
| `RestoreRecorded` | a restored database is never served without its `RESTORE_BACKUP` event |
| `RestoreTruthful` | that event is written only into a database that is that backup |
| `AuditPreserved` | an event that reached the database file is in the log or in a verified archive |
| `RecordedOnce` | a preview records at most one change, however often and late it is submitted |
| `ImportsAgree` | after an import, the App's active environments agree on the visibility of what it wrote, and no open request of that environment is about it |
| `ExportReimports` | what an environment exports parses, and to the same entries |
| `SharedEditCurrent` | the requests of a coordinated edit appear together, exactly where the current rows change, based on those rows |
| `EditComparesWhatPageShowed` | an edit is compared with current values exactly when its page showed them |

| Run | Bounds | Result |
|---|---|---|
| `concurrent` | 2 requests, 1 key, 2 contents, 2 handlers | holds, 1.2 M states |
| `selection` | 2 requests, 2 keys, 1 content, 1 handler, 2 items per request | holds, 0.6 M states |
| `rivals` | 2 administrators, maintenance window | holds |
| `resume` | 1 administrator, 1 writer, maintenance window, fairness | holds |
| `straggler_destroyed` | no maintenance window | violates `DestroyedOnlyUnused` |
| `archive` | 2 Apps, 3 environments, 2 handlers | holds |
| `sign_in` | 2 accounts, 3 sessions, 2 handlers, 2 time steps, 2 generations of parameters | holds, 1.4 M states |
| `administration` | 3 accounts, 2 handlers | holds, 0.7 M states |
| `reset_undone` | as `sign_in` | violates `ResetForcesReplacement` |
| `kek` | 3 master keys, 2 environments, 1 seed, 2 DEKs each, 2 handlers | holds, 0.2 M states |
| `maintenance` | 2 backups, 3 audit events, batches of 1, 2 handlers | holds, 1.9 M states |
| `import` | 2 environments, 2 keys, 1 preview, 2 handlers, 1 other write, 1 submission of requests | holds, 2.0 M states |

Why the bounds are enough to meet the interesting cases: races are between two
handlers; a conflict needs two requests for one key, a partial application two keys;
add, delete and revive need version 3; a DEK rotation needs every table and more
records than a batch so that it can be cut between batches, and a second rotation so
that a retired key exists; a KEK mix-up needs a primary, a previous and a foreign key,
and an environment created during the rotation of another; mutual demotion needs two
administrators, and a third account to be granted access; a session rotation needs a
session, its replacement and a rival; a wrong restore needs two backups, a lost
archive an event before and after the batch; a stale review needs a second environment
and one write by another. `MaxVersion`, `MaxItemRevision`, `MaxDek`, `MaxOpen`,
`MaxAuthVersion`, `MaxStep`, `MaxParams`, `MaxEvents`, `MaxWrites` and `MaxRequests`
cap counters the code does not bound. `SignsIn`, `AdminOps`, `AssignedRoles`,
`EditedKeys` and `Editors` restrict a run to the part it is about. `MCImport` also
evaluates, as an assumption, that every value of up to three characters from eleven
(quotes, backslash, blanks, line ends, `#`, `=`) survives rendering and parsing, alone
and before a grouped entry. Handlers, requests, keys, environments and contents are
symmetric where the configuration says so (never in a liveness run). Deadlock is
checked in every run: there is always a handler, a clock, an operator or a restart that
can take a step, so the system never stops.

Each property of a passing run has a mutant in `PROJECT.json`: an operator next to the
definition it replaces, with a plausible slip of that code, under which TLC finds the
property violated.

Fairness (only `FairSpec` of `DekRotation`). Weak fairness on `AdminAbandon`: a
request in flight ends, because the timeout drops it. Strong fairness on `Resume`:
`docs/operations.md` tells the administrator to re-submit until completion. Strong
fairness on each stage: a stage that is reached again and again does not time out
every single time, because a batch is 64 records.

## Disagreements between documents and code

Two runs show the code doing what a document says it does not (`findings` in
`PROJECT.json` quotes them).

1. *A straggler loses its key* (`straggler_destroyed`). Finalization trusts counts
   taken before its transaction, and the write guard is consulted only when a
   request enters.
2. *A reset is undone* (`reset_undone`). The upgrade of an old password hash after a
   sign-in is written without comparing the hash or the `auth_version` that was read,
   and may land after an administrator's reset.

Observations of the same kind, met while modelling and not kept as runs:

- A record written after the rotation's count can never be checkpointed, so a straggler
  can also leave a rotation that no resubmission completes; so can a second
  administrator who read the active key before the first one retired it.
- A batch that was read before a straggler committed writes the superseded value back:
  `update_cipher_row` does not compare the row's version.
- `create` checks `archived_at` before its transaction, so a request may open in an
  environment archived meanwhile. An apply that starts later is refused.
- A crash between the checkpoint and the removal of the restore marker leaves a file
  whose digest is not the marker's: the next start is refused until the operator
  abandons the restore. A crash before the checkpoint may record the restore twice.
- An unfinished DEK rotation together with a newly mounted primary key makes both
  rotations refuse until the old key is mounted again.
- `set_active` on an account that looks inactive deletes its grants outside a
  transaction; a grant made after a concurrent reactivation goes with them.
- A group named like a decorated comment (`- x`) is normalised when its export is
  imported again.
- An environment can outgrow `MAX_ENTRIES`. The limit is kept by refusing display
  positions, but requests that are open together are given the same ones (`create` reads
  the next position before its transaction, and applying does not look at it again).
  The export of such an environment is refused as an import.

## Proofs

The theorems hold for every value of the constants that meets the assumptions of the
modules: any number of requests, keys, environments, accounts, records and handlers.
Every property the passing runs check is proved except one of liveness (below). Each
module about a state machine has one lemma per action (or per group of actions that
change the same state) and derives the properties from an inductive invariant at its
end.

Why an invariant is needed at all. A handler acts on what it read earlier, so the
properties, which speak of the tables, are not inductive: a step may break them if a
handler holds something impossible. Each inductive invariant adds what is true of
everything read and still held, and nearly always it has the form *what was read is
still so, unless the number beside it has moved*. The invariants were model-checked
before they were proved, except those of `ImportProofs`, which were proved at once.

| Module | Theorems | The inductive invariant, beside the types |
|---|---|---|
| `RequestWorkflowProofs` | `TypeCorrect`, `ReviewCorrect`, `LedgerCorrect`, `DecisionsFinal` | `IInv`: the id of a create in flight is free; the item a fulfill will fill exists and is not a DELETE; a loaded selection has no missing value; an edit loaded what its digest says; an apply fits its rows, so a DELETE finds a content to keep |
| | `AppliedOnce`, `AppliesShown`, `WorkflowImplementsRegistry` | `IInv` and `ReadsInv`: items that were read are there still unless the revision moved; rows that were read are in the ledger under their version; a page shows the dotenv of rows there were |
| `DekRotationProofs` | `DekRotationTypes`, `OneActiveKey`; `EverythingReadable`, `DestroysUnused`; `ProgressIsExact` | `KeyInv`: keys are numbered without a gap, requests hold keys that were active, and the operation's key was; `WindowInv`: no writer beside a rotation, so a batch still has the versions it read; `ProgressInv`: the lone administrator works on the unfinished operation from the active key |
| `KekRotationProofs` | `KekTypes`, `EverythingRewrapped`, `KeepsItsKeys` | who seals with the primary key found it active, and it stays active while the process lives; a rotation whose source version is still active has seen every row |
| `EnvironmentLifecycleProofs` | `LifecycleTypes`, `ActiveEnvironmentRemains`, `SharedEditsSafe` | the targets of a coordinated edit come from its snapshot |
| `AccountsProofs` | `AccountsTypes`, `NoSessionOutlives`, `SecondFactorHolds`, `OneReplacement`, `LastAdministratorStays`, `GrantsOfContributors`, `CodeFresh` | `auth_version` dates what was read: role, factor, seed and epoch do not change under the same `auth_version`, seeds are not shared, and codes of the present seed are no newer than the step the row remembers |
| `OperationsProofs` | `OperationsTypes`, `RestoresAreRecorded`, `RestoresAreTrue`, `NoEventLost` | every state of `audit_logs` that a power loss can bring back keeps its events and names only its own restores; a restore that is not recorded has its marker, on disk too, and its safety copy |
| `ImportProofs` | `PreviewRecordsOnce`, `ImportsAgreeAlways`, `EditsAreCurrent`, `EditsCompareShown` | `IInv`: rows are replaced only by higher versions, so a preview that recorded is stale for good, and a comparison page whose versions are current shows current values |
| | `ImportTypes`, `ExportsReimport` | `IInv` and `ContentInv(G)`: rows, previews, imports and edits in flight hold text, and groups of `G`; items are based on versions that have been |
| `DotenvProofs` | `ValuesReadBack`, `AssignmentsReadBack`, `FilesReadBack`, `ExportsReadBack` | none: about `Parse` and `Render`, for every text |

`WorkflowImplementsRegistry` is the refinement: the initial states map to an initial
state of `Registry`, and each action maps to one of its actions or to a stutter. Only
the transactions map to actions; `ReadsInv` is what makes an apply, prepared from reads
spread over many steps, an `Apply` on the rows and proposals of its last step.

`DotenvProofs` proves that parsing undoes rendering, in the order in which a file is
built: a value (`ValuesReadBack`), a line (`AssignmentsReadBack`), entries with headings
and values over several lines (`FilesReadBack`), and entries in the order `render` sorts
them into (`ExportsReadBack`). The other direction, about texts nobody rendered, is
`EntriesParsed`: a valid key, and only tokens of the text or what an escape stands for.
These are statements about every sequence, so they need induction. The library's
induction theorems take an operator, which the provers cannot instantiate; `Induction`
and `SeqInduction` at the head of the module state it for *sets* of naturals and of
sequences instead (from `WFMin` and the well-foundedness of `<`), and a proof defines
the set of those it holds for. `FoldExists` and the lemmas named `...Run` unfold
`FoldLeft`, `FlattenSeq` and the recursion over lines once; the rest cites what one step
does. What makes the argument over lines go through is that it speaks of any
continuation: `Reaches(T, ls, state)` says the parser is in that state after the lines
`ls` whatever lines follow. `ReadSoFar` says the same of a text that ends a line.

`ExportsReimport` combines the two modules. What is exported was written directly,
applied, or imported, and an import may itself have been of an export; so that groups
are kept by a heading is part of the invariant (`ContentInv(Kept(Alphabet))`), and an
export preserves it by `ExportsReadBack`. The same invariant over all strings, with
`EntriesParsed`, gives `ImportTypes`.

Assumptions. Bounds are naturals. `None` (an absent row) is none of the values it
stands beside (`WorkflowAssumption`, `NoneAssumption`, `ProposalAssumption`,
`AbsenceAssumption`); TLC evaluates these too. The tables of `DekRotation` are finite,
so that they can be counted, and disjoint. Every App of `EnvironmentLifecycle` has a
default environment. Keys of `Import` are finite, an App has an environment, and files,
values and groups are sequences. Four theorems have hypotheses:

- `EverythingReadable` and `DestroysUnused` assume `MaintenanceWindow`. Without it
  both are false: a straggler's record is left under a key that finalization destroys
  (`straggler_destroyed`).
- `ProgressIsExact` also assumes `SingleAdmin`, that there is one administrator. With
  two it is false: an operation can be inserted from a key that the rival has retired
  meanwhile, and its counts then describe nothing (see the observations above).
- `ExportsReimport` assumes `Exportable`: keys up to `MAX_ENTRIES`, and groups, written
  or read from uploaded files, that normalising leaves alone and that are one line.
  Without the second it is false: the group `- x` comes back as `x` (see the
  observations above). Without the first it is false too, for an environment that has
  outgrown the limit. `MCImport` evaluates `Exportable` for its instance.

`OneActiveKey` needs neither: keys and operations stay consistent whatever runs beside
them. `CodeFresh`, `DestroysUnused`, `AppliesShown`, `DecisionsFinal`, `SharedEditsSafe`,
`ImportsAgreeAlways`, `EditsAreCurrent` and `EditsCompareShown` are about steps; the
others are invariants, and `WorkflowImplementsRegistry` is a refinement.

The first four theorems of `ImportProofs` hold whatever `Parse` returns: `Prepare`
checks the keys of a file again (`Admitted`, as `import_applied_reviewed` does), and
that is all they need.

Only model-checked:

- `RotationCompletes`, a liveness property under fairness, which the proof system does
  not handle;
- the two violations, each a behaviour that TLC exhibits.

## Plan

Done: all modules and runs above, and the proofs. What is left:

1. `ProgressExact` for several administrators needs a weaker statement, about an
   operation whose source is still active; if TLC finds one that holds, prove it in
   place of the hypothesis `SingleAdmin`.
2. Shorter proofs: `AccountsProofs` repeats one argument for each of its reads.

## Not modelled

- Cryptographic primitives (library calls; a ciphertext is modelled by what it was
  sealed with) and password hashing (an abstract comparison).
- The login throttle: it counts failures in time windows and only refuses.
- HTTP routing, forms, templates, CSRF and token formats; the organization profile
  (one row in single statements), configuration parsing, error mapping, the dashboard.
- Reveals, copies, histories, lists and searches: they read and audit.
- Renaming a key in a coordinated edit, and pending proposals on the comparison page.
- Names, types, descriptions, display positions and timestamps; size limits of files.
