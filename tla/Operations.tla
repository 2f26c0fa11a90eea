------------------------------- MODULE Operations ------------------------------
(***************************************************************************)
(* Backup, restore intent, start-up reconciliation and audit archive, with *)
(* crashes and power losses between any two steps.                         *)
(*                                                                         *)
(* The database is its main file and its write-ahead log.  A process that  *)
(* dies keeps both; a power loss keeps the main file and a prefix of the   *)
(* log, for the pool runs with synchronous = NORMAL, and undoes a change   *)
(* of the marker's directory that was not synced.  A clean stop folds the  *)
(* log into the main file.  The operator acts while the server is stopped, *)
(* as docs/operations.md describes, but may pick the wrong snapshot.       *)
(*                                                                         *)
(* An audit event is <<number, backup>>: numbers grow with time, and       *)
(* backup is what a RESTORE_BACKUP event names, None for any other event.  *)
(***************************************************************************)
EXTENDS Integers, Sequences, FiniteSets

CONSTANTS
  Backups,        \* identifiers generate_backup_identifier may ever return
  Workers,        \* requests that may be in flight at the same time
  BatchSize,      \* BATCH_SIZE of the archive
  MaxEvents,      \* bound: audit events ever written
  None            \* a missing file, and no backup

ASSUME OperationsAssumption == BatchSize \in Nat \ {0} /\ MaxEvents \in Nat

VARIABLES
  db,        \* the live database
  safety,    \* the copy the operator preserves before a replacement, or None
  snapshot,  \* the files of the backup directory, by identifier
  marker,    \* the backup named by restore-intent.json, or None
  onDisk,    \* the marker as the last sync of its directory left it
  server,    \* where the process is
  request,   \* the requests in flight
  archived,  \* events in verified archive files
  next,      \* the number of the next audit event
  kept       \* history: events of this database that reached its main file

files == <<safety, snapshot, archived>>
intent == <<marker, onDisk>>
vars == <<db, files, intent, server, request, next, kept>>

Event == (1..MaxEvents) \X (Backups \cup {None})

\* lineage is a history: the backups this database went through.  bytes tells which
\* snapshot the main file still equals byte by byte; wal holds audit_logs as each
\* transaction since the last checkpoint left it.
Database == [lineage : SUBSET Backups, bytes : Backups \cup {None},
             file : SUBSET Event, wal : Seq(SUBSET Event)]
Snapshot == [lineage : SUBSET Backups, log : SUBSET Event, complete : BOOLEAN]

ASSUME AbsenceAssumption == None \notin Backups /\ None \notin Database /\ None \notin Snapshot

Idle == [at |-> "idle"]
Request == {Idle} \cup [at : {"copying", "copied", "validated", "linked", "marked"}, backup : Backups]
             \cup [at : {"selected", "written"}, rows : SUBSET Event]

Stages == {"down", "preflight", "open", "recorded", "durable", "unlinked", "serving"}

TypeOK ==
  /\ db \in Database
  /\ safety = None \/ safety \in Database
  /\ snapshot \in [Backups -> Snapshot \cup {None}]
  /\ marker \in Backups \cup {None} /\ onDisk \in Backups \cup {None}
  /\ server \in Stages
  /\ request \in [Workers -> Request]
  /\ archived \subseteq Event /\ kept \subseteq Event
  /\ next \in 1..(MaxEvents + 1)

Init ==
  /\ db = [lineage |-> {}, bytes |-> None, file |-> {}, wal |-> << >>]
  /\ safety = None
  /\ snapshot = [b \in Backups |-> None]
  /\ marker = None /\ onDisk = None
  /\ server = "down"
  /\ request = [w \in Workers |-> Idle]
  /\ archived = {} /\ next = 1 /\ kept = {}

\* audit_logs as readers see it.
Log == IF db.wal = << >> THEN db.file ELSE db.wal[Len(db.wal)]

Commit(log) == db' = [db EXCEPT !.wal = Append(@, log)]
Folded(d) == IF d.wal = << >> THEN d
             ELSE [d EXCEPT !.file = d.wal[Len(d.wal)], !.wal = << >>, !.bytes = None]

\* BEGIN IMMEDIATE of archive_batch keeps every other writer out.
Locked == \E w \in Workers : request[w].at \in {"selected", "written"}

CanRecord == ~Locked /\ next <= MaxEvents
UnnumberedEvent(b) == <<next - 1, b>>
NewEvent(b) == <<next, b>>
Record(b) == Commit(Log \cup {NewEvent(b)}) /\ next' = next + 1

Forward(w, r) == request' = [request EXCEPT ![w] = r]
Done(w) == Forward(w, Idle)

--------------------------------------------------------------------------------
(* While serving.                                                               *)

\* Any handler that writes an audit event.
Write ==
  /\ server = "serving" /\ CanRecord
  /\ Record(None)
  /\ UNCHANGED <<files, intent, server, request, kept>>

\* SQLite's automatic checkpoint.
AutoCheckpoint ==
  /\ server = "serving" /\ ~Locked
  /\ db.wal # << >>
  /\ db' = Folded(db)
  /\ kept' = kept \cup Log
  /\ UNCHANGED <<files, intent, server, request, next>>

\* create_backup: VACUUM INTO a new file, validate it, record it.
VacuumInto(w, b) ==
  /\ server = "serving" /\ request[w] = Idle
  /\ snapshot[b] = None
  /\ snapshot' = [snapshot EXCEPT ![b] = [lineage |-> db.lineage, log |-> Log, complete |-> FALSE]]
  /\ Forward(w, [at |-> "copying", backup |-> b])
  /\ UNCHANGED <<db, safety, intent, server, archived, next, kept>>

VacuumDone(w) ==
  LET b == request[w].backup IN
  /\ request[w].at = "copying"
  /\ snapshot' = [snapshot EXCEPT ![b].complete = TRUE]
  /\ Forward(w, [at |-> "copied", backup |-> b])
  /\ UNCHANGED <<db, safety, intent, server, archived, next, kept>>

RecordBackup(w) ==
  /\ request[w].at = "copied" /\ CanRecord
  /\ Record(None)
  /\ Done(w)
  /\ UNCHANGED <<files, intent, server, kept>>

\* The INSERT fails (the archive holds the lock beyond busy_timeout): no file is left.
DiscardBackup(w) ==
  /\ request[w].at = "copied"
  /\ snapshot' = [snapshot EXCEPT ![request[w].backup] = None]
  /\ Done(w)
  /\ UNCHANGED <<db, safety, intent, server, archived, next, kept>>

\* create_restore_intent: validate_sqlite_snapshot, then write_restore_intent.
ValidSnapshot(b) == snapshot[b] # None /\ snapshot[b].complete

ValidateIntent(w, b) ==
  /\ server = "serving" /\ request[w] = Idle
  /\ ValidSnapshot(b)
  /\ Forward(w, [at |-> "validated", backup |-> b])
  /\ UNCHANGED <<db, files, intent, server, next, kept>>

\* hard_link refuses to replace the marker of another intent.
MarkerFree == marker = None
LinkMarker(w) ==
  /\ request[w].at = "validated"
  /\ MarkerFree
  /\ marker' = request[w].backup
  /\ Forward(w, [at |-> "linked", backup |-> request[w].backup])
  /\ UNCHANGED <<db, files, onDisk, server, next, kept>>

SyncMarker(w) ==
  /\ request[w].at = "linked"
  /\ onDisk' = marker
  /\ Forward(w, [at |-> "marked", backup |-> request[w].backup])
  /\ UNCHANGED <<db, files, marker, server, next, kept>>

RecordIntent(w) ==
  /\ request[w].at = "marked" /\ CanRecord
  /\ Record(None)
  /\ Done(w)
  /\ UNCHANGED <<files, intent, server, kept>>

\* The INSERT fails: the marker is removed again, without a sync.
RetractIntent(w) ==
  /\ request[w].at = "marked"
  /\ marker' = None
  /\ Done(w)
  /\ UNCHANGED <<db, files, onDisk, server, next, kept>>

\* archive_batch: the oldest events before the cutoff, in one write transaction.  The
\* cutoff moves with the clock, so any oldest events may be the ones behind it.
OldestBatch(rows) ==
  /\ Cardinality(rows) \in 1..BatchSize
  /\ \A r \in rows, e \in Log \ rows : r[1] < e[1]

SelectArchive(w, rows) ==
  /\ server = "serving" /\ request[w] = Idle /\ ~Locked
  /\ OldestBatch(rows)
  /\ Forward(w, [at |-> "selected", rows |-> rows])
  /\ UNCHANGED <<db, files, intent, server, next, kept>>

\* write_verified: the file is synced, read back, and its directory synced.
WriteUnsynced(rows) == archived
WriteVerified(rows) == archived \cup rows
WriteArchive(w) ==
  /\ request[w].at = "selected"
  /\ archived' = WriteVerified(request[w].rows)
  /\ Forward(w, [at |-> "written", rows |-> request[w].rows])
  /\ UNCHANGED <<db, safety, snapshot, intent, server, next, kept>>

\* DELETE, the restored append-only trigger and ARCHIVE_AUDIT commit together.
CommitArchive(w) ==
  /\ request[w].at = "written" /\ next <= MaxEvents
  /\ Commit((Log \ request[w].rows) \cup {NewEvent(None)})
  /\ next' = next + 1
  /\ Done(w)
  /\ UNCHANGED <<files, intent, server, kept>>

\* An error, a dropped client or the timeout: the transaction rolls back, files stay.
Abandon(w) ==
  /\ request[w] # Idle
  /\ Done(w)
  /\ UNCHANGED <<db, files, intent, server, next, kept>>

--------------------------------------------------------------------------------
(* Start and stop.                                                              *)

\* read_and_validate_restore_intent and preflight_restore_intent: without a marker
\* anything may start, with one only the bytes it names.
AnyDatabase == marker # None => ValidSnapshot(marker)
Preflighted == marker # None => ValidSnapshot(marker) /\ db.bytes = marker

Preflight ==
  /\ server = "down"
  /\ Preflighted
  /\ server' = "preflight"
  /\ UNCHANGED <<db, files, intent, request, next, kept>>

\* connect_and_migrate: switching to WAL, or a migration, may rewrite the main file.
ConnectAndMigrate ==
  /\ server = "preflight"
  /\ server' = "open"
  /\ \E bytes \in {db.bytes, None} : db' = [db EXCEPT !.bytes = bytes]
  /\ UNCHANGED <<files, intent, request, next, kept>>

\* reconcile_restore_intent: RESTORE_BACKUP, wal_checkpoint(FULL), remove the marker,
\* sync its directory.
RecordRestore ==
  /\ server = "open" /\ marker # None /\ next <= MaxEvents
  /\ Record(marker)
  /\ server' = "recorded"
  /\ UNCHANGED <<files, intent, request, kept>>

NoCheckpoint == db
RestoreCheckpoint == Folded(db)
MakeRestoreDurable ==
  /\ server = "recorded"
  /\ db' = RestoreCheckpoint
  /\ kept' = kept \cup Log
  /\ server' = "durable"
  /\ UNCHANGED <<files, intent, request, next>>

RemoveMarker ==
  /\ server = "durable"
  /\ marker' = None
  /\ server' = "unlinked"
  /\ UNCHANGED <<db, files, onDisk, request, next, kept>>

SyncParent ==
  /\ server = "unlinked"
  /\ onDisk' = marker
  /\ server' = "serving"
  /\ UNCHANGED <<db, files, marker, request, next, kept>>

ServeWithoutIntent ==
  /\ server = "open" /\ marker = None
  /\ server' = "serving"
  /\ UNCHANGED <<db, files, intent, request, next, kept>>

\* A graceful shutdown closes the last connection, which checkpoints.
Stop ==
  /\ server = "serving"
  /\ server' = "down"
  /\ db' = Folded(db)
  /\ kept' = kept \cup Log
  /\ request' = [w \in Workers |-> Idle]
  /\ UNCHANGED <<files, intent, next>>

\* The process is killed, or start-up fails.
Crash ==
  /\ server # "down"
  /\ server' = "down"
  /\ request' = [w \in Workers |-> Idle]
  /\ UNCHANGED <<db, files, intent, next, kept>>

PowerLoss ==
  /\ server' = "down"
  /\ \E n \in 0..Len(db.wal) : db' = [db EXCEPT !.wal = SubSeq(@, 1, n)]
  /\ \E m \in {marker, onDisk} : marker' = m /\ onDisk' = m
  /\ request' = [w \in Workers |-> Idle]
  /\ UNCHANGED <<files, next, kept>>

--------------------------------------------------------------------------------
(* The operator, while the server is stopped (docs/operations.md).              *)

\* With an intent and an empty log, a complete snapshot replaces the database, and
\* the directory that also holds the marker is synced.
Replace(b) ==
  /\ server = "down" /\ marker # None
  /\ db.wal = << >> /\ ValidSnapshot(b)
  /\ safety' = IF safety = None THEN db ELSE safety
  /\ db' = [lineage |-> snapshot[b].lineage \cup {b}, bytes |-> b,
            file |-> snapshot[b].log, wal |-> << >>]
  /\ kept' = snapshot[b].log
  /\ onDisk' = marker
  /\ UNCHANGED <<snapshot, archived, marker, server, request, next>>

\* Giving up: the marker goes and the safety copy returns.
AbandonRestore ==
  /\ server = "down" /\ marker # None
  /\ marker' = None /\ onDisk' = None
  /\ db' = IF safety = None THEN db ELSE safety
  /\ kept' = IF safety = None THEN kept ELSE safety.file
  /\ safety' = None
  /\ UNCHANGED <<snapshot, archived, server, request, next>>

\* Safety copies of a restore that succeeded are deleted.
DropSafety ==
  /\ marker = None /\ safety # None
  /\ server = "serving"
  /\ safety' = None
  /\ UNCHANGED <<db, snapshot, archived, intent, server, request, next, kept>>

--------------------------------------------------------------------------------

Handle(w) ==
  \/ \E b \in Backups : VacuumInto(w, b)
  \/ VacuumDone(w)
  \/ RecordBackup(w)
  \/ DiscardBackup(w)
  \/ \E b \in Backups : ValidateIntent(w, b)
  \/ LinkMarker(w)
  \/ SyncMarker(w)
  \/ RecordIntent(w)
  \/ RetractIntent(w)
  \/ \E rows \in SUBSET Log : SelectArchive(w, rows)
  \/ WriteArchive(w)
  \/ CommitArchive(w)
  \/ Abandon(w)

StartUp ==
  \/ Preflight
  \/ ConnectAndMigrate
  \/ RecordRestore
  \/ MakeRestoreDurable
  \/ RemoveMarker
  \/ SyncParent
  \/ ServeWithoutIntent

Fault == Stop \/ Crash \/ PowerLoss

Operator == (\E b \in Backups : Replace(b)) \/ AbandonRestore \/ DropSafety

Next ==
  \/ Write
  \/ AutoCheckpoint
  \/ \E w \in Workers : Handle(w)
  \/ StartUp
  \/ Fault
  \/ Operator

Spec == Init /\ [][Next]_vars

--------------------------------------------------------------------------------
(* Properties.                                                                  *)

NamedBy(events) == {e[2] : e \in events} \ {None}

\* A server never serves a restored database without the RESTORE_BACKUP event of
\* every restore behind it, even after power losses ("It removes
\* /data/restore-intent.json only after committing RESTORE_BACKUP").
RestoreRecorded ==
  server = "serving" => db.lineage \subseteq NamedBy(Log \cup archived)

\* A RESTORE_BACKUP event is written only into a database that really is that
\* backup: a start with an intent but without the replacement fails closed.
RestoreTruthful == NamedBy(Log) \subseteq db.lineage

\* Archiving never loses an event: what reached the database file is in audit_logs
\* or in a verified archive file, wherever the archive was cut off.
AuditPreserved == kept \subseteq Log \cup archived

================================================================================
