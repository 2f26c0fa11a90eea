----------------------------- MODULE OperationsProofs ----------------------------
(***************************************************************************)
(* Proofs about Operations, for any backups, archive batch size and number *)
(* of concurrent requests.                                                 *)
(*                                                                         *)
(* A power loss may bring back any log the database had since its last     *)
(* checkpoint, so what must hold of audit_logs is kept of each of them.    *)
(* A replaced database is not recorded yet; until a checkpoint has made    *)
(* its RESTORE_BACKUP event durable the marker stays, on disk too, and the *)
(* safety copy with it.                                                    *)
(***************************************************************************)
EXTENDS Operations, SequenceTheorems, TLAPS

\* Every state of audit_logs that a database may come back with.
Logs(d) == {d.file} \cup {d.wal[i] : i \in 1..Len(d.wal)}

\* The restores behind a database that a log, or the archive, names.
Covered(lineage, log, files0) == lineage \subseteq NamedBy(log \cup files0)
Recorded(d, files0) == \A log \in Logs(d) : Covered(d.lineage, log, files0)

\* All but the restore that is still to be recorded.
AllBut(b, d, files0) == \A log \in Logs(d) : Covered(d.lineage \ {b}, log, files0)

\* A log names no other restores, and a snapshot's bytes are its own restore.
Truthful(d) ==
  /\ \A log \in Logs(d) : NamedBy(log) \subseteq d.lineage
  /\ d.bytes # None => d.bytes \in d.lineage

\* A database lacks no event that must be kept, and no restore but its latest.
DatabaseOK(d, kept0, files0) ==
  /\ Truthful(d)
  /\ \A log \in Logs(d) : kept0 \subseteq log \cup files0
  /\ d.bytes # None => AllBut(d.bytes, d, files0)

\* The safety copy has recorded its restores; without one the database has.
SafetyOK ==
  /\ safety # None => Recorded(safety, archived) /\ Truthful(safety) /\ safety.wal = << >>
  /\ safety = None => Recorded(db, archived)

\* A snapshot names exactly the restores behind it.
SnapshotOK(s, files0) ==
  s # None => Covered(s.lineage, s.log, files0) /\ NamedBy(s.log) \subseteq s.lineage

\* Where start-up is with the restore that the marker names.
RestoreOK ==
  /\ ~Recorded(db, archived) => /\ marker # None /\ onDisk = marker
                                /\ server \notin {"durable", "unlinked", "serving"}
  /\ server \in {"preflight", "open"} /\ marker # None =>
       marker \in db.lineage /\ AllBut(marker, db, archived)
  /\ server = "recorded" => Covered(db.lineage, Log, archived)

\* Requests run only while the server serves; a written archive file is in the archive.
RequestOK(r, stage, files0) ==
  /\ r # Idle => stage = "serving"
  /\ r.at = "written" => r.rows \subseteq files0

\* A file that is still being written has one writer.
Copying(r) == r.at \in {"copying", "copied"}
CopiesOK ==
  \A w \in Workers : Copying(request[w]) =>
    /\ snapshot[request[w].backup] # None
    /\ \A v \in Workers \ {w} : Copying(request[v]) => request[v].backup # request[w].backup

RequestsOK ==
  /\ \A w \in Workers : RequestOK(request[w], server, archived)
  /\ CopiesOK

\* The inductive invariant.
IInv ==
  /\ TypeOK
  /\ DatabaseOK(db, kept, archived)
  /\ SafetyOK
  /\ \A b \in Backups : SnapshotOK(snapshot[b], archived)
  /\ RestoreOK
  /\ RequestsOK

--------------------------------------------------------------------------------
(* Facts about logs.                                                            *)

\* What more events name includes what fewer name.
LEMMA NamedMore ==
  ASSUME NEW S, NEW T, S \subseteq T
  PROVE  NamedBy(S) \subseteq NamedBy(T)
BY DEF NamedBy

\* A coverage stays one when the events become more and the restores fewer.
LEMMA CoveredMore ==
  ASSUME NEW lineage, NEW log, NEW f, Covered(lineage, log, f),
         NEW less, less \subseteq lineage, NEW log2, NEW f2, log \cup f \subseteq log2 \cup f2
  PROVE  Covered(less, log2, f2)
<1>1. NamedBy(log \cup f) \subseteq NamedBy(log2 \cup f2)
  BY NamedMore
<1> QED
  BY <1>1 DEF Covered

\* The fields of a database, and its logs.
LEMMA DatabaseTypes ==
  ASSUME NEW d \in Database
  PROVE  /\ d.lineage \subseteq Backups /\ d.bytes \in Backups \cup {None}
         /\ d.file \subseteq Event /\ d.wal \in Seq(SUBSET Event) /\ Len(d.wal) \in Nat
         /\ d.file \in Logs(d)
         /\ \A i \in 1..Len(d.wal) : d.wal[i] \in Logs(d) /\ d.wal[i] \subseteq Event
         /\ \A log \in Logs(d) : log \subseteq Event
<1>1. /\ d.lineage \subseteq Backups /\ d.bytes \in Backups \cup {None}
      /\ d.file \subseteq Event /\ d.wal \in Seq(SUBSET Event)
  BY DEF Database
<1>2. Len(d.wal) \in Nat /\ \A i \in 1..Len(d.wal) : d.wal[i] \subseteq Event
  BY <1>1
<1> QED
  BY <1>1, <1>2 DEF Logs

\* What readers see is the last log.
LEMMA LogMember ==
  ASSUME db \in Database
  PROVE  Log \in Logs(db) /\ Log \subseteq Event
<1>1. db.wal # << >> => Len(db.wal) \in 1..Len(db.wal)
  BY DatabaseTypes, EmptySeq
<1> QED
  BY <1>1, DatabaseTypes DEF Log

WithLog(d, log) == [d EXCEPT !.wal = Append(@, log)]

\* A transaction adds one log.
LEMMA Appended ==
  ASSUME NEW d \in Database, NEW log \in SUBSET Event, NEW e, e = WithLog(d, log)
  PROVE  /\ e \in Database /\ e.lineage = d.lineage /\ e.bytes = d.bytes
         /\ Logs(e) = Logs(d) \cup {log}
         /\ e.wal # << >> /\ e.wal[Len(e.wal)] = log
<1>1. d.wal \in Seq(SUBSET Event) /\ Len(d.wal) \in Nat
  BY DatabaseTypes
<1>2. PICK s : s = Append(d.wal, log)
  OBVIOUS
<1>3. /\ s \in Seq(SUBSET Event) /\ Len(s) = Len(d.wal) + 1
      /\ s[Len(d.wal) + 1] = log /\ \A i \in 1..Len(d.wal) : s[i] = d.wal[i]
  BY <1>1, <1>2
<1>4. /\ e \in Database /\ e.lineage = d.lineage /\ e.bytes = d.bytes
      /\ e.file = d.file /\ e.wal = s
  BY <1>2, <1>3 DEF Database, WithLog
<1>5. 1..Len(s) = 1..Len(d.wal) \cup {Len(d.wal) + 1}
  BY <1>1, <1>3
<1>6. {s[i] : i \in 1..Len(s)} = {d.wal[i] : i \in 1..Len(d.wal)} \cup {log}
  <2>1. PICK n \in Nat : n = Len(d.wal)
    BY <1>1
  <2>2. 1..Len(s) = 1..n \cup {n + 1} /\ s[n + 1] = log /\ \A i \in 1..n : s[i] = d.wal[i]
    BY <1>3, <1>5, <2>1
  <2>3. {s[i] : i \in 1..Len(s)} = {s[i] : i \in 1..n} \cup {s[n + 1]}
    BY ONLY <2>2
  <2>4. {s[i] : i \in 1..n} = {d.wal[i] : i \in 1..n}
    BY ONLY <2>2
  <2> QED
    BY ONLY <2>1, <2>2, <2>3, <2>4
<1>7. s # << >>
  BY <1>1, <1>3
<1> QED
  BY <1>3, <1>4, <1>6, <1>7 DEF Logs

\* A checkpoint leaves the last log.
LEMMA FoldedLogs ==
  ASSUME db \in Database
  PROVE  /\ Folded(db) \in Database /\ Folded(db).lineage = db.lineage
         /\ Folded(db).bytes \in {None, db.bytes}
         /\ Logs(Folded(db)) = {Log} /\ Logs(Folded(db)) \subseteq Logs(db)
<1>1. Log \in Logs(db) /\ Log \subseteq Event
  BY LogMember
<1>2. << >> \in Seq(SUBSET Event) /\ Len(<< >>) = 0
  OBVIOUS
<1>3. CASE db.wal = << >>
  <2>1. Logs(db) = {db.file}
    BY <1>2, <1>3 DEF Logs
  <2> QED
    BY <2>1, <1>3 DEF Folded, Log
<1>4. CASE db.wal # << >>
  <2>1. Folded(db) = [db EXCEPT !.file = Log, !.wal = << >>, !.bytes = None]
    BY <1>4 DEF Folded, Log
  <2>2. /\ Folded(db) \in Database /\ Folded(db).lineage = db.lineage
        /\ Folded(db).bytes = None /\ Folded(db).file = Log /\ Folded(db).wal = << >>
    BY <2>1, <1>1, <1>2 DEF Database
  <2>3. Logs(Folded(db)) = {Log}
    BY <2>2, <1>2 DEF Logs
  <2> QED
    BY <2>2, <2>3, <1>1
<1> QED
  BY <1>3, <1>4

\* A power loss leaves some of the logs.
LEMMA CutLogs ==
  ASSUME NEW d \in Database, NEW n \in 0..Len(d.wal),
         NEW e, e = [d EXCEPT !.wal = SubSeq(@, 1, n)]
  PROVE  /\ e \in Database /\ e.lineage = d.lineage /\ e.bytes = d.bytes
         /\ Logs(e) \subseteq Logs(d)
<1>1. d.wal \in Seq(SUBSET Event) /\ Len(d.wal) \in Nat
  BY DatabaseTypes
<1>2. PICK s : s = SubSeq(d.wal, 1, n)
  OBVIOUS
<1>3. s \in Seq(SUBSET Event) /\ Len(s) = n /\ \A i \in 1..n : s[i] = d.wal[i]
  BY <1>1, <1>2, SubSeqProperties
<1>4. /\ e \in Database /\ e.lineage = d.lineage /\ e.bytes = d.bytes
      /\ e.file = d.file /\ e.wal = s
  BY <1>2, <1>3 DEF Database
<1>5. 1..n \subseteq 1..Len(d.wal)
  BY <1>1
<1> QED
  BY <1>3, <1>4, <1>5 DEF Logs

\* A database that comes back with fewer of its logs keeps what was true of all.
LEMMA FewerLogs ==
  ASSUME NEW d, NEW e, e.lineage = d.lineage, e.bytes \in {None, d.bytes},
         Logs(e) \subseteq Logs(d), NEW f, NEW k
  PROVE  /\ Truthful(d) => Truthful(e)
         /\ Recorded(d, f) => Recorded(e, f)
         /\ \A b : AllBut(b, d, f) => AllBut(b, e, f)
         /\ DatabaseOK(d, k, f) => DatabaseOK(e, k, f)
BY DEF Truthful, Recorded, AllBut, DatabaseOK

\* More archived events cover what fewer cover.
LEMMA MoreFiles ==
  ASSUME NEW f, NEW g, f \subseteq g
  PROVE  /\ \A d : Recorded(d, f) => Recorded(d, g)
         /\ \A b, d : AllBut(b, d, f) => AllBut(b, d, g)
         /\ \A d, k : DatabaseOK(d, k, f) => DatabaseOK(d, k, g)
         /\ \A s : SnapshotOK(s, f) => SnapshotOK(s, g)
         /\ \A lineage, log : Covered(lineage, log, f) => Covered(lineage, log, g)
<1>1. \A lineage, log : Covered(lineage, log, f) => Covered(lineage, log, g)
  BY CoveredMore
<1> QED
  BY <1>1 DEF Recorded, AllBut, DatabaseOK, SnapshotOK

\* A transaction that loses no event and names only restores that happened.
LEMMA OneMoreLog ==
  ASSUME NEW d, NEW e, e.lineage = d.lineage, e.bytes = d.bytes,
         NEW old \in Logs(d), NEW log, Logs(e) = Logs(d) \cup {log},
         NEW f, old \subseteq log \cup f, NamedBy(log) \subseteq d.lineage, NEW k
  PROVE  /\ Truthful(d) => Truthful(e)
         /\ Recorded(d, f) => Recorded(e, f)
         /\ \A b : AllBut(b, d, f) => AllBut(b, e, f)
         /\ DatabaseOK(d, k, f) => DatabaseOK(e, k, f)
<1>1. \A lineage : Covered(lineage, old, f) => Covered(lineage, log, f)
  BY CoveredMore
<1>2. k \subseteq old \cup f => k \subseteq log \cup f
  OBVIOUS
<1>3. Truthful(d) => Truthful(e)
  BY DEF Truthful
<1>4. \A b : AllBut(b, d, f) => AllBut(b, e, f)
  BY <1>1 DEF AllBut
<1> QED
  BY <1>1, <1>2, <1>3, <1>4 DEF Recorded, DatabaseOK

\* An event that is no restore names nothing, a RESTORE_BACKUP its backup.
LEMMA NamedPlus ==
  ASSUME NEW S, NEW e
  PROVE  NamedBy(S \cup {e}) = NamedBy(S) \cup ({e[2]} \ {None})
<1>1. {f[2] : f \in S \cup {e}} = {f[2] : f \in S} \cup {e[2]}
  OBVIOUS
<1> QED
  BY <1>1 DEF NamedBy

\* The next event is an event.
LEMMA NextEvent ==
  ASSUME TypeOK, next <= MaxEvents, NEW b \in Backups \cup {None}
  PROVE  NewEvent(b) \in Event /\ next + 1 \in 1..(MaxEvents + 1)
BY OperationsAssumption DEF TypeOK, NewEvent, Event

--------------------------------------------------------------------------------
(* Facts about requests.                                                        *)

\* The stage of a request tells which record it is.
LEMMA RequestKinds ==
  ASSUME NEW r \in Request
  PROVE  /\ r.at \in {"copying", "copied", "validated", "linked", "marked"} => r.backup \in Backups
         /\ r.at \in {"selected", "written"} => r.rows \subseteq Event
         /\ r.at # "idle" => r # Idle
BY DEF Request, Idle

\* The requests after one of them moves on to r.
LEMMA Forwarded ==
  ASSUME request \in [Workers -> Request], NEW w \in Workers, NEW r \in Request, Forward(w, r)
  PROVE  /\ request' \in [Workers -> Request]
         /\ request'[w] = r
         /\ \A v \in Workers \ {w} : request'[v] = request[v]
BY DEF Forward

\* A request that is over asks for nothing, at any stage.
LEMMA IdleOK == Idle \in Request /\ ~Copying(Idle) /\ \A stage, f : RequestOK(Idle, stage, f)
BY DEF RequestOK, Idle, Request, Copying

\* When all requests are over.
LEMMA AllIdle ==
  ASSUME request' = [w \in Workers |-> Idle]
  PROVE  request' \in [Workers -> Request] /\ RequestsOK'
<1>1. \A w \in Workers : request'[w] = Idle
  OBVIOUS
<1> QED
  BY <1>1, IdleOK DEF RequestsOK, CopiesOK

\* No request is in flight but while serving.
LEMMA NoRequest ==
  ASSUME IInv, server # "serving", NEW w \in Workers
  PROVE  request[w] = Idle
BY DEF IInv, RequestsOK, RequestOK

\* While serving, every restore is recorded in every log.
LEMMA ServingRecorded ==
  ASSUME IInv, server \in {"durable", "unlinked", "serving"}
  PROVE  Recorded(db, archived)
BY DEF IInv, RestoreOK

--------------------------------------------------------------------------------
(* One lemma per kind of step.                                                  *)

\* The requests after a step of one of them that leaves the backup files alone.
LEMMA RequestStep ==
  ASSUME IInv, NEW w \in Workers, NEW r \in Request, Forward(w, r),
         server' = server, snapshot' = snapshot, archived \subseteq archived',
         RequestOK(r, server, archived'),
         Copying(r) => Copying(request[w]) /\ r.backup = request[w].backup
  PROVE  request' \in [Workers -> Request] /\ RequestsOK'
<1>1. /\ request' \in [Workers -> Request] /\ request'[w] = r
      /\ \A v \in Workers \ {w} : request'[v] = request[v]
  BY Forwarded DEF IInv, TypeOK
<1>2. ASSUME NEW v \in Workers PROVE RequestOK(request'[v], server', archived')
  BY <1>1 DEF IInv, RequestsOK, RequestOK
<1>3. \A v \in Workers : Copying(request'[v]) =>
        Copying(request[v]) /\ request'[v].backup = request[v].backup
  BY <1>1
<1>4. CopiesOK'
  BY <1>3 DEF IInv, RequestsOK, CopiesOK, Copying
<1> QED
  BY <1>1, <1>2, <1>4 DEF RequestsOK

\* A step that only moves a request on.
LEMMA ReadStep ==
  ASSUME IInv, NEW w \in Workers, NEW r \in Request, Forward(w, r),
         RequestOK(r, server, archived),
         Copying(r) => Copying(request[w]) /\ r.backup = request[w].backup,
         UNCHANGED <<db, files, intent, server, next, kept>>
  PROVE  IInv'
<1>1. request' \in [Workers -> Request] /\ RequestsOK'
  BY RequestStep DEF files
<1>2. /\ db' = db /\ safety' = safety /\ snapshot' = snapshot /\ archived' = archived
      /\ marker' = marker /\ onDisk' = onDisk /\ server' = server /\ next' = next /\ kept' = kept
  BY DEF files, intent
<1>3. TypeOK'
  BY <1>1, <1>2 DEF IInv, TypeOK
<1>4. SafetyOK' /\ RestoreOK' /\ Log' = Log
  BY <1>2 DEF IInv, SafetyOK, RestoreOK, Log
<1> QED
  BY <1>1, <1>2, <1>3, <1>4 DEF IInv

WithFile(b, s) == [snapshot EXCEPT ![b] = s]

\* A step that changes one file of the backup directory: no other request writes it.
LEMMA SnapshotStep ==
  ASSUME IInv, NEW w \in Workers, NEW r \in Request, Forward(w, r),
         RequestOK(r, server, archived), NEW b \in Backups, NEW s \in Snapshot \cup {None},
         snapshot' = WithFile(b, s), SnapshotOK(s, archived),
         \A v \in Workers \ {w} : Copying(request[v]) => request[v].backup # b,
         Copying(r) => r.backup = b /\ s # None,
         UNCHANGED <<db, safety, intent, server, archived, next, kept>>
  PROVE  IInv'
<1>1. /\ request' \in [Workers -> Request] /\ request'[w] = r
      /\ \A v \in Workers \ {w} : request'[v] = request[v]
  BY Forwarded DEF IInv, TypeOK
<1>2. /\ db' = db /\ safety' = safety /\ archived' = archived
      /\ marker' = marker /\ onDisk' = onDisk /\ server' = server /\ next' = next /\ kept' = kept
  BY DEF intent
<1>3. /\ snapshot' \in [Backups -> Snapshot \cup {None}] /\ snapshot'[b] = s
      /\ \A c \in Backups \ {b} : snapshot'[c] = snapshot[c]
      /\ \A c \in Backups : SnapshotOK(snapshot'[c], archived)
  BY DEF IInv, TypeOK, WithFile
<1>4. TypeOK'
  BY <1>1, <1>2, <1>3 DEF IInv, TypeOK
<1>5. SafetyOK' /\ RestoreOK'
  BY <1>2 DEF IInv, SafetyOK, RestoreOK, Log
<1>6. \A v \in Workers : RequestOK(request[v], server, archived)'
  BY <1>1, <1>2 DEF IInv, RequestsOK
<1>7. ASSUME NEW v \in Workers \ {w}, Copying(request[v])
      PROVE  snapshot'[request[v].backup] # None
  BY <1>1, <1>3, <1>7, RequestKinds DEF IInv, TypeOK, RequestsOK, CopiesOK, Copying
<1>8. CopiesOK'
  BY <1>1, <1>3, <1>7 DEF IInv, RequestsOK, CopiesOK, Copying
<1> QED
  BY <1>2, <1>3, <1>4, <1>5, <1>6, <1>8 DEF IInv, RequestsOK

\* A step of the marker while nothing is left to record.
LEMMA MarkerStep ==
  ASSUME IInv, server \in {"durable", "unlinked", "serving"}, server' \in {"unlinked", "serving"},
         marker' \in Backups \cup {None}, onDisk' \in Backups \cup {None},
         request' \in [Workers -> Request],
         RequestsOK',
         UNCHANGED <<db, files, next, kept>>
  PROVE  IInv'
<1>1. db' = db /\ safety' = safety /\ snapshot' = snapshot /\ archived' = archived
      /\ next' = next /\ kept' = kept
  BY DEF files
<1>2. Recorded(db, archived)
  BY ServingRecorded
<1>3. TypeOK'
  BY <1>1 DEF IInv, TypeOK, Stages
<1>4. SafetyOK' /\ RestoreOK'
  BY <1>1, <1>2 DEF IInv, SafetyOK, RestoreOK
<1> QED
  BY <1>1, <1>3, <1>4 DEF IInv

\* A transaction of a handler: no event is lost, no restore is named.
LEMMA RecordStep ==
  ASSUME IInv, server = "serving", server' = server, next <= MaxEvents, next' = next + 1,
         NEW log \in SUBSET Event, Commit(log),
         Log \subseteq log \cup archived, NamedBy(log) \subseteq NamedBy(Log),
         request' \in [Workers -> Request],
         RequestsOK',
         UNCHANGED <<files, intent, kept>>
  PROVE  IInv'
<1>1. /\ safety' = safety /\ snapshot' = snapshot /\ archived' = archived
      /\ marker' = marker /\ onDisk' = onDisk /\ kept' = kept
  BY DEF files, intent
<1>2. PICK e : e = db'
  OBVIOUS
<1>3. db \in Database /\ e = WithLog(db, log)
  BY <1>2 DEF IInv, TypeOK, Commit, WithLog
<1>4. /\ e \in Database /\ e.lineage = db.lineage /\ e.bytes = db.bytes
      /\ Logs(e) = Logs(db) \cup {log}
  BY <1>3, Appended
<1>5. Log \in Logs(db)
  BY <1>3, LogMember
<1>6. NamedBy(log) \subseteq db.lineage
  BY <1>5 DEF IInv, DatabaseOK, Truthful
<1>7. Recorded(db, archived)
  BY ServingRecorded
<1>8. Recorded(e, archived) /\ DatabaseOK(e, kept, archived)
  BY <1>4, <1>5, <1>6, <1>7, OneMoreLog DEF IInv
<1>9. TypeOK'
  BY <1>1, <1>2, <1>4, NextEvent, OperationsAssumption DEF IInv, TypeOK
<1>10. SafetyOK' /\ RestoreOK'
  BY <1>1, <1>2, <1>8 DEF IInv, SafetyOK, RestoreOK
<1> QED
  BY <1>1, <1>2, <1>8, <1>9, <1>10 DEF IInv

\* A step after which the database has some of its logs: a checkpoint, a new main
\* file, a stop or a loss.
LEMMA FewerStep ==
  ASSUME IInv, NEW e \in Database, db' = e, e.lineage = db.lineage, e.bytes \in {None, db.bytes},
         Logs(e) \subseteq Logs(db), kept' \subseteq Event,
         \A log \in Logs(e) : kept' \subseteq log \cup archived,
         marker' \in Backups \cup {None}, onDisk' \in Backups \cup {None},
         server' \in Stages, request' \in [Workers -> Request],
         RequestsOK',
         RestoreOK',
         UNCHANGED <<files, next>>
  PROVE  IInv'
<1>1. safety' = safety /\ snapshot' = snapshot /\ archived' = archived /\ next' = next
  BY DEF files
<1>2. TypeOK'
  BY <1>1 DEF IInv, TypeOK
<1>3. Truthful(e) /\ (Recorded(db, archived) => Recorded(e, archived))
      /\ DatabaseOK(e, kept, archived)
  BY FewerLogs DEF IInv, DatabaseOK
<1>4. DatabaseOK(e, kept', archived)
  BY <1>3 DEF DatabaseOK
<1>5. SafetyOK'
  BY <1>1, <1>3 DEF IInv, SafetyOK
<1> QED
  BY <1>1, <1>2, <1>4, <1>5 DEF IInv

--------------------------------------------------------------------------------
(* The steps.                                                                   *)

\* What a handler records of itself: one more event, and no restore.
LEMMA OrdinaryEvent ==
  ASSUME IInv, next <= MaxEvents, NEW rows \in SUBSET Event, rows \subseteq archived
  PROVE  LET log == (Log \ rows) \cup {NewEvent(None)} IN
         /\ log \in SUBSET Event
         /\ Log \subseteq log \cup archived
         /\ NamedBy(log) \subseteq NamedBy(Log)
<1>1. Log \subseteq Event /\ NewEvent(None) \in Event
  BY LogMember, NextEvent DEF IInv, TypeOK
<1>2. NamedBy((Log \ rows) \cup {NewEvent(None)}) = NamedBy(Log \ rows)
  <2>1. PICK e : e = NewEvent(None)
    OBVIOUS
  <2>2. PICK S : S = Log \ rows
    OBVIOUS
  <2>3. NamedBy(S \cup {e}) = NamedBy(S) \cup ({e[2]} \ {None}) /\ e[2] = None
    BY <2>1, NamedPlus DEF NewEvent
  <2> QED
    BY <2>1, <2>2, <2>3
<1>3. NamedBy(Log \ rows) \subseteq NamedBy(Log)
  BY NamedMore
<1> QED
  BY <1>1, <1>2, <1>3

\* Recording an event keeps the invariant: the event is new, and the log only grows.
LEMMA WriteStep ==
  ASSUME IInv, Write
  PROVE  IInv'
<1>1. /\ server = "serving" /\ server' = server /\ next <= MaxEvents /\ next' = next + 1
      /\ Commit(Log \cup {NewEvent(None)}) /\ request' = request
      /\ UNCHANGED <<files, intent, kept>>
  BY DEF Write, CanRecord, Record
<1>a. {} \in SUBSET Event /\ {} \subseteq archived /\ Log \ {} = Log
  OBVIOUS
<1>2. PICK log : log = (Log \ {}) \cup {NewEvent(None)}
  OBVIOUS
<1>3. /\ log \in SUBSET Event /\ Log \subseteq log \cup archived
      /\ NamedBy(log) \subseteq NamedBy(Log) /\ Commit(log)
  BY <1>1, <1>a, <1>2, OrdinaryEvent
<1>4. request' \in [Workers -> Request] /\ RequestsOK'
  BY <1>1 DEF IInv, TypeOK, files, RequestsOK, CopiesOK
<1> QED
  BY <1>1, <1>3, <1>4, RecordStep

\* A handler that ends with one ordinary event.
LEMMA LastStep ==
  ASSUME IInv, NEW w \in Workers, request[w] # Idle, Done(w), UNCHANGED <<files, intent, server, kept>>,
         next <= MaxEvents, next' = next + 1,
         NEW rows \in SUBSET Event, rows \subseteq archived,
         Commit((Log \ rows) \cup {NewEvent(None)})
  PROVE  IInv'
<1>1. server = "serving"
  BY NoRequest
<1>2. PICK log : log = (Log \ rows) \cup {NewEvent(None)}
  OBVIOUS
<1>3. /\ log \in SUBSET Event /\ Log \subseteq log \cup archived
      /\ NamedBy(log) \subseteq NamedBy(Log) /\ Commit(log)
  BY <1>2, OrdinaryEvent
<1>4. request' \in [Workers -> Request] /\ RequestsOK'
  BY IdleOK, RequestStep DEF Done, files
<1> QED
  BY <1>1, <1>3, <1>4, RecordStep

\* The steps of a handler (backup, restore request, archive) keep the invariant.
LEMMA HandleStep ==
  ASSUME IInv, NEW w \in Workers, Handle(w)
  PROVE  IInv'
<1> request[w] \in Request
  BY DEF IInv, TypeOK
<1>1. ASSUME NEW b \in Backups, VacuumInto(w, b) PROVE IInv'
  <2>1. PICK s : s = [lineage |-> db.lineage, log |-> Log, complete |-> FALSE]
    OBVIOUS
  <2>2. s \in Snapshot
    BY <2>1, LogMember, DatabaseTypes DEF Snapshot, IInv, TypeOK
  <2>3. Log \in Logs(db) /\ Recorded(db, archived)
    BY <1>1, LogMember, ServingRecorded DEF IInv, TypeOK, VacuumInto
  <2>4. SnapshotOK(s, archived)
    BY <2>1, <2>3 DEF SnapshotOK, Recorded, IInv, DatabaseOK, Truthful
  <2>5. PICK r : r = [at |-> "copying", backup |-> b]
    OBVIOUS
  <2>6. r \in Request /\ RequestOK(r, server, archived) /\ Forward(w, r)
    BY <1>1, <2>5 DEF Request, RequestOK, VacuumInto
  <2>7. /\ snapshot' = WithFile(b, s)
        /\ UNCHANGED <<db, safety, intent, server, archived, next, kept>>
    BY <1>1, <2>1 DEF VacuumInto, WithFile
  <2>8. \A v \in Workers \ {w} : Copying(request[v]) => request[v].backup # b
    BY <1>1 DEF IInv, RequestsOK, CopiesOK, VacuumInto
  <2>9. r.backup = b /\ s # None
    BY <2>2, <2>5, AbsenceAssumption
  <2> QED
    BY <2>2, <2>4, <2>6, <2>7, <2>8, <2>9, SnapshotStep
<1>2. CASE VacuumDone(w)
  <2>1. PICK b : b = request[w].backup
    OBVIOUS
  <2>2. b \in Backups /\ request[w] # Idle
    BY <1>2, <2>1, RequestKinds DEF VacuumDone
  <2>3. PICK s : s = [snapshot[b] EXCEPT !.complete = TRUE]
    OBVIOUS
  <2>4. PICK r : r = [at |-> "copied", backup |-> b]
    OBVIOUS
  <2>5. r \in Request /\ RequestOK(r, server, archived) /\ Forward(w, r)
    BY <1>2, <2>1, <2>2, <2>4, NoRequest DEF Request, RequestOK, VacuumDone
  <2>6. /\ snapshot' = WithFile(b, s)
        /\ UNCHANGED <<db, safety, intent, server, archived, next, kept>>
    BY <1>2, <2>1, <2>3 DEF VacuumDone, WithFile
  <2>7. snapshot[b] \in Snapshot \cup {None} /\ SnapshotOK(snapshot[b], archived)
    BY <2>2 DEF IInv, TypeOK
  <2>8. /\ snapshot[b] # None
        /\ \A v \in Workers \ {w} : Copying(request[v]) => request[v].backup # b
    BY <1>2, <2>1 DEF IInv, RequestsOK, CopiesOK, Copying, VacuumDone
  <2>9. s \in Snapshot /\ SnapshotOK(s, archived) /\ s # None
    BY <2>3, <2>7, <2>8, AbsenceAssumption DEF Snapshot, SnapshotOK
  <2>10. r.backup = b
    BY <2>4
  <2> QED
    BY <2>2, <2>5, <2>6, <2>8, <2>9, <2>10, SnapshotStep
<1>3. CASE RecordBackup(w)
  <2>1. {} \in SUBSET Event /\ {} \subseteq archived /\ Log \ {} = Log
    OBVIOUS
  <2>2. /\ request[w] # Idle /\ Done(w) /\ UNCHANGED <<files, intent, server, kept>>
        /\ next <= MaxEvents /\ next' = next + 1 /\ Commit(Log \cup {NewEvent(None)})
    BY <1>3 DEF RecordBackup, CanRecord, Record, Idle
  <2>3. Commit((Log \ {}) \cup {NewEvent(None)})
    BY <2>1, <2>2
  <2> QED
    BY <2>1, <2>2, <2>3, LastStep
<1>4. CASE DiscardBackup(w)
  <2>1. PICK b : b = request[w].backup
    OBVIOUS
  <2>2. b \in Backups
    BY <1>4, <2>1, RequestKinds DEF DiscardBackup
  <2>3. \A v \in Workers \ {w} : Copying(request[v]) => request[v].backup # b
    BY <1>4, <2>1 DEF IInv, RequestsOK, CopiesOK, Copying, DiscardBackup
  <2>4. /\ snapshot' = WithFile(b, None) /\ Forward(w, Idle)
        /\ UNCHANGED <<db, safety, intent, server, archived, next, kept>>
    BY <1>4, <2>1 DEF DiscardBackup, WithFile, Done
  <2>5. SnapshotOK(None, archived)
    BY DEF SnapshotOK
  <2> QED
    BY <2>2, <2>3, <2>4, <2>5, IdleOK, SnapshotStep
<1>5. ASSUME NEW b \in Backups, ValidateIntent(w, b) PROVE IInv'
  <2>1. PICK r : r = [at |-> "validated", backup |-> b]
    OBVIOUS
  <2>2. r \in Request /\ RequestOK(r, server, archived) /\ ~Copying(r) /\ Forward(w, r)
    BY <1>5, <2>1 DEF Request, RequestOK, Copying, ValidateIntent
  <2>3. UNCHANGED <<db, files, intent, server, next, kept>>
    BY <1>5 DEF ValidateIntent
  <2> QED
    BY <2>2, <2>3, ReadStep
<1>6. CASE LinkMarker(w)
  <2>1. PICK r : r = [at |-> "linked", backup |-> request[w].backup]
    OBVIOUS
  <2>2. request[w].backup \in Backups /\ server = "serving"
    BY <1>6, RequestKinds, NoRequest DEF LinkMarker
  <2>3. r \in Request /\ RequestOK(r, server, archived) /\ ~Copying(r) /\ Forward(w, r)
    BY <1>6, <2>1, <2>2 DEF Request, RequestOK, Copying, LinkMarker
  <2>4. /\ server' = server /\ snapshot' = snapshot /\ archived' = archived
        /\ UNCHANGED <<db, files, next, kept>>
        /\ marker' \in Backups \cup {None} /\ onDisk' \in Backups \cup {None}
    BY <1>6, <2>2 DEF LinkMarker, files, IInv, TypeOK
  <2>5. request' \in [Workers -> Request] /\ RequestsOK'
    BY <2>3, <2>4, RequestStep
  <2> QED
    BY <2>2, <2>4, <2>5, MarkerStep
<1>7. CASE SyncMarker(w)
  <2>1. PICK r : r = [at |-> "marked", backup |-> request[w].backup]
    OBVIOUS
  <2>2. request[w].backup \in Backups /\ server = "serving"
    BY <1>7, RequestKinds, NoRequest DEF SyncMarker
  <2>3. r \in Request /\ RequestOK(r, server, archived) /\ ~Copying(r) /\ Forward(w, r)
    BY <1>7, <2>1, <2>2 DEF Request, RequestOK, Copying, SyncMarker
  <2>4. /\ server' = server /\ snapshot' = snapshot /\ archived' = archived
        /\ UNCHANGED <<db, files, next, kept>>
        /\ marker' \in Backups \cup {None} /\ onDisk' \in Backups \cup {None}
    BY <1>7, <2>2 DEF SyncMarker, files, IInv, TypeOK
  <2>5. request' \in [Workers -> Request] /\ RequestsOK'
    BY <2>3, <2>4, RequestStep
  <2> QED
    BY <2>2, <2>4, <2>5, MarkerStep
<1>8. CASE RecordIntent(w)
  <2>1. {} \in SUBSET Event /\ {} \subseteq archived /\ Log \ {} = Log
    OBVIOUS
  <2>2. /\ request[w] # Idle /\ Done(w) /\ UNCHANGED <<files, intent, server, kept>>
        /\ next <= MaxEvents /\ next' = next + 1 /\ Commit(Log \cup {NewEvent(None)})
    BY <1>8 DEF RecordIntent, CanRecord, Record, Idle
  <2>3. Commit((Log \ {}) \cup {NewEvent(None)})
    BY <2>1, <2>2
  <2> QED
    BY <2>1, <2>2, <2>3, LastStep
<1>9. CASE RetractIntent(w)
  <2>1. server = "serving"
    BY <1>9, RequestKinds, NoRequest DEF RetractIntent
  <2>2. /\ server' = server /\ snapshot' = snapshot /\ archived' = archived
        /\ UNCHANGED <<db, files, next, kept>> /\ Forward(w, Idle)
        /\ marker' \in Backups \cup {None} /\ onDisk' \in Backups \cup {None}
    BY <1>9 DEF RetractIntent, files, IInv, TypeOK, Done
  <2>3. request' \in [Workers -> Request] /\ RequestsOK'
    BY <2>2, IdleOK, RequestStep
  <2> QED
    BY <2>1, <2>2, <2>3, MarkerStep
<1>10. ASSUME NEW rows \in SUBSET Log, SelectArchive(w, rows) PROVE IInv'
  <2>1. PICK r : r = [at |-> "selected", rows |-> rows]
    OBVIOUS
  <2>2. rows \subseteq Event
    BY LogMember DEF IInv, TypeOK
  <2>3. r \in Request /\ RequestOK(r, server, archived) /\ ~Copying(r) /\ Forward(w, r)
    BY <1>10, <2>1, <2>2 DEF Request, RequestOK, Copying, SelectArchive
  <2>4. UNCHANGED <<db, files, intent, server, next, kept>>
    BY <1>10 DEF SelectArchive
  <2> QED
    BY <2>3, <2>4, ReadStep
<1>11. CASE WriteArchive(w)
  <2>1. PICK r : r = [at |-> "written", rows |-> request[w].rows]
    OBVIOUS
  <2>2. request[w].rows \subseteq Event /\ server = "serving"
    BY <1>11, RequestKinds, NoRequest DEF WriteArchive
  <2>3. PICK f : f = archived \cup request[w].rows
    OBVIOUS
  <2>4. /\ archived' = f /\ archived \subseteq f /\ f \subseteq Event
        /\ UNCHANGED <<db, safety, snapshot, intent, server, next, kept>>
        /\ db' = db /\ safety' = safety /\ snapshot' = snapshot /\ server' = server
        /\ marker' = marker /\ onDisk' = onDisk /\ next' = next /\ kept' = kept
    BY <1>11, <2>2, <2>3 DEF WriteArchive, WriteVerified, IInv, TypeOK, intent
  <2>5. r \in Request /\ RequestOK(r, server, f) /\ ~Copying(r) /\ Forward(w, r)
    BY <1>11, <2>1, <2>2, <2>3 DEF Request, RequestOK, Copying, WriteArchive
  <2>6. request' \in [Workers -> Request] /\ RequestsOK'
    BY <2>4, <2>5, RequestStep
  <2>7. TypeOK'
    BY <2>4, <2>6 DEF IInv, TypeOK
  <2>8. /\ DatabaseOK(db, kept, f) /\ (safety # None => Recorded(safety, f))
        /\ Recorded(db, f) /\ \A b \in Backups : SnapshotOK(snapshot[b], f)
    BY <2>2, <2>4, MoreFiles, ServingRecorded DEF IInv, SafetyOK
  <2>9. SafetyOK' /\ RestoreOK'
    BY <2>2, <2>4, <2>8 DEF IInv, SafetyOK, RestoreOK
  <2> QED
    BY <2>4, <2>6, <2>7, <2>8, <2>9 DEF IInv
<1>12. CASE CommitArchive(w)
  <2>1. PICK rows : rows = request[w].rows
    OBVIOUS
  <2>2. rows \in SUBSET Event /\ rows \subseteq archived
    BY <1>12, <2>1, RequestKinds DEF CommitArchive, IInv, RequestsOK, RequestOK
  <2>3. /\ request[w] # Idle /\ Done(w) /\ UNCHANGED <<files, intent, server, kept>>
        /\ next <= MaxEvents /\ next' = next + 1
        /\ Commit((Log \ rows) \cup {NewEvent(None)})
    BY <1>12, <2>1 DEF CommitArchive, Idle
  <2> QED
    BY <2>2, <2>3, LastStep
<1>13. CASE Abandon(w)
  <2>1. Forward(w, Idle) /\ UNCHANGED <<db, files, intent, server, next, kept>>
    BY <1>13 DEF Abandon, Done
  <2> QED
    BY <2>1, IdleOK, ReadStep
<1> QED
  BY <1>1, <1>2, <1>3, <1>4, <1>5, <1>6, <1>7, <1>8, <1>9, <1>10, <1>11, <1>12, <1>13 DEF Handle

\* A step that leaves the database and its files alone, without a request in flight.
LEMMA StageStep ==
  ASSUME IInv, server # "serving", server' \in Stages,
         UNCHANGED <<db, files, intent, request, next, kept>>, RestoreOK'
  PROVE  IInv'
<1>1. /\ db' = db /\ safety' = safety /\ snapshot' = snapshot /\ archived' = archived
      /\ marker' = marker /\ onDisk' = onDisk /\ request' = request
      /\ next' = next /\ kept' = kept
  BY DEF files, intent
<1>2. \A w \in Workers : request[w] = Idle
  BY NoRequest
<1>3. RequestsOK'
  BY <1>1, <1>2, IdleOK DEF RequestsOK, CopiesOK
<1>4. TypeOK' /\ SafetyOK'
  BY <1>1 DEF IInv, TypeOK, SafetyOK
<1> QED
  BY <1>1, <1>3, <1>4 DEF IInv

\* The steps of a start.
LEMMA StartUpStep ==
  ASSUME IInv, StartUp
  PROVE  IInv'
<1>0. db \in Database /\ Log \in Logs(db)
  BY LogMember DEF IInv, TypeOK
<1>1. CASE Preflight
  <2>1. /\ server = "down" /\ server' = "preflight" /\ db' = db /\ marker' = marker
        /\ onDisk' = onDisk /\ archived' = archived
        /\ UNCHANGED <<db, files, intent, request, next, kept>>
    BY <1>1 DEF Preflight, intent, files
  <2>2. marker # None => marker \in db.lineage /\ AllBut(marker, db, archived)
    BY <1>1 DEF Preflight, Preflighted, IInv, DatabaseOK, Truthful
  <2>3. RestoreOK'
    BY <2>1, <2>2 DEF IInv, RestoreOK
  <2> QED
    BY <2>1, <2>3, StageStep DEF Stages
<1>2. CASE ConnectAndMigrate
  <2>1. PICK bytes \in {db.bytes, None} : db' = [db EXCEPT !.bytes = bytes]
    BY <1>2 DEF ConnectAndMigrate
  <2>2. PICK e : e = db'
    OBVIOUS
  <2>3. /\ e \in Database /\ e.lineage = db.lineage /\ e.bytes \in {None, db.bytes}
        /\ e.file = db.file /\ e.wal = db.wal
    BY <1>0, <2>1, <2>2 DEF Database
  <2>4. Logs(e) = Logs(db)
    BY <2>3 DEF Logs
  <2>5. /\ server = "preflight" /\ server' = "open" /\ marker' = marker /\ onDisk' = onDisk
        /\ request' = request /\ archived' = archived /\ kept' = kept /\ snapshot' = snapshot
        /\ UNCHANGED <<files, next>>
    BY <1>2 DEF ConnectAndMigrate, intent, files
  <2>6. RestoreOK'
    BY <2>2, <2>3, <2>4, <2>5 DEF IInv, RestoreOK, Recorded, AllBut
  <2>7. RequestsOK'
    <3>1. \A w \in Workers : request[w] = Idle
      BY <2>5, NoRequest
    <3> QED
      BY <2>5, <3>1, IdleOK DEF RequestsOK, CopiesOK
  <2>8. kept' \subseteq Event /\ \A log \in Logs(e) : kept' \subseteq log \cup archived
    BY <2>4, <2>5 DEF IInv, TypeOK, DatabaseOK
  <2>9. /\ marker' \in Backups \cup {None} /\ onDisk' \in Backups \cup {None}
        /\ server' \in Stages /\ request' \in [Workers -> Request]
    BY <2>5 DEF IInv, TypeOK, Stages
  <2> QED
    BY <2>2, <2>3, <2>4, <2>5, <2>6, <2>7, <2>8, <2>9, FewerStep
<1>3. CASE RecordRestore
  <2>1. /\ server = "open" /\ marker # None /\ next <= MaxEvents /\ next' = next + 1
        /\ server' = "recorded" /\ safety' = safety /\ snapshot' = snapshot
        /\ archived' = archived /\ marker' = marker /\ onDisk' = onDisk /\ request' = request
        /\ kept' = kept /\ Commit(Log \cup {NewEvent(marker)})
    BY <1>3 DEF RecordRestore, Record, files, intent
  <2>2. PICK log : log = Log \cup {NewEvent(marker)}
    OBVIOUS
  <2>3. PICK e : e = db'
    OBVIOUS
  <2>4. log \in SUBSET Event /\ next + 1 \in 1..(MaxEvents + 1)
    BY <1>0, <2>1, <2>2, NextEvent, LogMember DEF IInv, TypeOK
  <2>5. /\ e \in Database /\ e.lineage = db.lineage /\ e.bytes = db.bytes
        /\ Logs(e) = Logs(db) \cup {log} /\ e.wal # << >> /\ e.wal[Len(e.wal)] = log
    <3>1. e = WithLog(db, log)
      BY <2>1, <2>2, <2>3 DEF Commit, WithLog
    <3> QED
      BY <1>0, <2>4, <3>1, Appended
  <2>6. marker \in db.lineage /\ AllBut(marker, db, archived)
    BY <2>1 DEF IInv, RestoreOK
  <2>7. NamedBy(log) = NamedBy(Log) \cup {marker}
    <3>1. PICK S : S = Log
      OBVIOUS
    <3>2. PICK f : f = NewEvent(marker)
      OBVIOUS
    <3>3. NamedBy(S \cup {f}) = NamedBy(S) \cup ({f[2]} \ {None})
      BY NamedPlus
    <3> QED
      BY <2>1, <2>2, <3>1, <3>2, <3>3 DEF NewEvent
  <2>8. NamedBy(log) \subseteq db.lineage
    BY <1>0, <2>6, <2>7 DEF IInv, DatabaseOK, Truthful
  <2>9. Covered(db.lineage, log, archived)
    <3>1. Covered(db.lineage \ {marker}, Log, archived)
      BY <1>0, <2>6 DEF AllBut
    <3>2. Covered(db.lineage \ {marker}, log, archived)
      BY <2>2, <3>1, CoveredMore
    <3>3. marker \in NamedBy(log \cup archived)
      BY <2>7, NamedMore
    <3> QED
      BY <3>2, <3>3 DEF Covered
  <2>10. Log \subseteq log \cup archived
    BY <2>2
  <2>11. /\ Recorded(db, archived) => Recorded(e, archived)
         /\ DatabaseOK(e, kept, archived)
    <3>1. PICK d : d = db
      OBVIOUS
    <3>2. PICK old : old = Log
      OBVIOUS
    <3>3. PICK f : f = archived
      OBVIOUS
    <3>4. PICK k : k = kept
      OBVIOUS
    <3>5. /\ e.lineage = d.lineage /\ e.bytes = d.bytes /\ old \in Logs(d)
          /\ Logs(e) = Logs(d) \cup {log} /\ old \subseteq log \cup f
          /\ NamedBy(log) \subseteq d.lineage
      BY ONLY <1>0, <2>5, <2>8, <2>10, <3>1, <3>2, <3>3
    <3>6. /\ Recorded(d, f) => Recorded(e, f)
          /\ DatabaseOK(d, k, f) => DatabaseOK(e, k, f)
      BY ONLY <3>5, OneMoreLog
    <3>7. DatabaseOK(db, kept, archived)
      BY DEF IInv
    <3> QED
      BY ONLY <3>1, <3>3, <3>4, <3>6, <3>7
  <2>12. TypeOK'
    BY <2>1, <2>3, <2>4, <2>5 DEF IInv, TypeOK, Stages
  <2>13. SafetyOK'
    BY <2>1, <2>3, <2>11 DEF IInv, SafetyOK
  <2>14. Log' = log
    BY <2>3, <2>5 DEF Log
  <2>15. RestoreOK'
    BY <2>1, <2>3, <2>5, <2>9, <2>11, <2>14 DEF IInv, RestoreOK
  <2>16. RequestsOK'
    <3>1. \A w \in Workers : request[w] = Idle
      BY <2>1, NoRequest
    <3> QED
      BY <2>1, <3>1, IdleOK DEF RequestsOK, CopiesOK
  <2> QED
    BY <2>1, <2>3, <2>11, <2>12, <2>13, <2>15, <2>16 DEF IInv
<1>4. CASE MakeRestoreDurable
  <2>1. PICK e : e = db'
    OBVIOUS
  <2>2. /\ server = "recorded" /\ server' = "durable" /\ marker' = marker /\ onDisk' = onDisk
        /\ request' = request /\ archived' = archived /\ kept' = kept \cup Log
        /\ UNCHANGED <<files, next>> /\ e = Folded(db)
    BY <1>4, <2>1 DEF MakeRestoreDurable, RestoreCheckpoint, intent, files
  <2>3. /\ e \in Database /\ e.lineage = db.lineage /\ e.bytes \in {None, db.bytes}
        /\ Logs(e) = {Log} /\ Logs(e) \subseteq Logs(db)
    BY <1>0, <2>2, FoldedLogs
  <2>4. Recorded(e, archived)
    BY <2>2, <2>3 DEF IInv, RestoreOK, Recorded
  <2>5. RestoreOK'
    BY <2>1, <2>2, <2>4 DEF RestoreOK
  <2>6. RequestsOK'
    <3>1. \A w \in Workers : request[w] = Idle
      BY <2>2, NoRequest
    <3> QED
      BY <2>2, <3>1, IdleOK DEF RequestsOK, CopiesOK
  <2>7. kept' \subseteq Event /\ \A log \in Logs(e) : kept' \subseteq log \cup archived
    BY <1>0, <2>2, <2>3, LogMember DEF IInv, TypeOK, DatabaseOK
  <2>8. /\ marker' \in Backups \cup {None} /\ onDisk' \in Backups \cup {None}
        /\ server' \in Stages /\ request' \in [Workers -> Request]
    BY <2>2 DEF IInv, TypeOK, Stages
  <2> QED
    BY <2>1, <2>2, <2>3, <2>5, <2>6, <2>7, <2>8, FewerStep
<1>5. CASE RemoveMarker \/ SyncParent
  <2>1. /\ server \in {"durable", "unlinked"} /\ server' \in {"unlinked", "serving"}
        /\ marker' \in Backups \cup {None} /\ onDisk' \in Backups \cup {None}
        /\ UNCHANGED <<db, files, next, kept>> /\ request' = request
    BY <1>5 DEF RemoveMarker, SyncParent, IInv, TypeOK
  <2>2. \A w \in Workers : request[w] = Idle
    BY <2>1, NoRequest
  <2>3. request' \in [Workers -> Request] /\ RequestsOK'
    BY <2>1, <2>2, IdleOK DEF RequestsOK, CopiesOK, IInv, TypeOK
  <2> QED
    BY <2>1, <2>3, MarkerStep
<1>6. CASE ServeWithoutIntent
  <2>1. /\ server = "open" /\ server' = "serving" /\ marker = None
        /\ UNCHANGED <<db, files, intent, request, next, kept>>
    BY <1>6 DEF ServeWithoutIntent
  <2>2. Recorded(db, archived)
    BY <2>1 DEF IInv, RestoreOK
  <2>3. RestoreOK'
    BY <2>1, <2>2 DEF RestoreOK, files
  <2> QED
    BY <2>1, <2>3, StageStep DEF Stages
<1> QED
  BY <1>1, <1>2, <1>3, <1>4, <1>5, <1>6 DEF StartUp

\* What a stop, a crash and a power loss leave.
LEMMA FaultStep ==
  ASSUME IInv, Fault
  PROVE  IInv'
<1>0. db \in Database /\ Log \in Logs(db)
  BY LogMember DEF IInv, TypeOK
<1>1. /\ request' = [w \in Workers |-> Idle] /\ server' = "down" /\ UNCHANGED <<files, next>>
      /\ archived' = archived
  BY DEF Fault, Stop, Crash, PowerLoss, files
<1>2. request' \in [Workers -> Request] /\ RequestsOK' /\ server' \in Stages
  BY <1>1, AllIdle DEF Stages
<1>3. PICK e : e = db'
  OBVIOUS
<1>4. /\ e \in Database /\ e.lineage = db.lineage /\ e.bytes \in {None, db.bytes}
      /\ Logs(e) \subseteq Logs(db)
  <2>1. CASE Stop
    BY <1>0, <1>3, <2>1, FoldedLogs DEF Stop
  <2>2. CASE Crash
    BY <1>0, <1>3, <2>2 DEF Crash
  <2>3. CASE PowerLoss
    BY <1>0, <1>3, <2>3, CutLogs DEF PowerLoss
  <2> QED
    BY <2>1, <2>2, <2>3 DEF Fault
<1>5. kept' \subseteq Event /\ \A log \in Logs(e) : kept' \subseteq log \cup archived
  <2>1. CASE Stop
    <3>1. Logs(e) = {Log} /\ kept' = kept \cup Log
      BY <1>0, <1>3, <2>1, FoldedLogs DEF Stop
    <3> QED
      BY <1>0, <3>1, LogMember DEF IInv, TypeOK, DatabaseOK
  <2>2. CASE Crash \/ PowerLoss
    BY <1>4, <2>2 DEF Crash, PowerLoss, IInv, TypeOK, DatabaseOK
  <2> QED
    BY <2>1, <2>2 DEF Fault
<1>6. /\ marker' \in {marker, onDisk} /\ onDisk' \in {marker, onDisk}
      /\ marker = onDisk => marker' = marker /\ onDisk' = marker
  BY DEF Fault, Stop, Crash, PowerLoss, intent
<1>7. marker' \in Backups \cup {None} /\ onDisk' \in Backups \cup {None}
  BY <1>6 DEF IInv, TypeOK
<1>8. Recorded(db, archived) => Recorded(e, archived)
  BY <1>4, FewerLogs
<1>9. RestoreOK'
  BY <1>1, <1>3, <1>6, <1>8 DEF IInv, RestoreOK
<1> QED
  BY <1>1, <1>2, <1>3, <1>4, <1>5, <1>7, <1>9, FewerStep

\* What the operator does while the server is stopped, and the safety copy's end.
LEMMA OperatorStep ==
  ASSUME IInv, Operator
  PROVE  IInv'
<1>1. ASSUME NEW b \in Backups, Replace(b) PROVE IInv'
  <2>1. PICK s : s = snapshot[b]
    OBVIOUS
  <2>2. s \in Snapshot /\ Covered(s.lineage, s.log, archived) /\ NamedBy(s.log) \subseteq s.lineage
    BY <1>1, <2>1 DEF Replace, ValidSnapshot, IInv, TypeOK, SnapshotOK
  <2>3. PICK e : e = [lineage |-> s.lineage \cup {b}, bytes |-> b, file |-> s.log, wal |-> << >>]
    OBVIOUS
  <2>4. /\ server = "down" /\ marker # None /\ db.wal = << >> /\ db' = e /\ kept' = s.log
        /\ safety' = IF safety = None THEN db ELSE safety
        /\ onDisk' = marker /\ marker' = marker /\ server' = server /\ request' = request
        /\ snapshot' = snapshot /\ archived' = archived /\ next' = next
    BY <1>1, <2>1, <2>3 DEF Replace
  <2>5. << >> \in Seq(SUBSET Event) /\ Len(<< >>) = 0
    OBVIOUS
  <2>6. /\ e \in Database /\ Logs(e) = {s.log} /\ e.lineage = s.lineage \cup {b} /\ e.bytes = b
        /\ s.log \subseteq Event
    BY <2>2, <2>3, <2>5 DEF Snapshot, Database, Logs
  <2>7. AllBut(b, e, archived)
    <3>1. (s.lineage \cup {b}) \ {b} \subseteq s.lineage
      OBVIOUS
    <3> QED
      BY <2>2, <2>6, <3>1 DEF AllBut, Covered
  <2>8. DatabaseOK(e, s.log, archived)
    BY <2>2, <2>6, <2>7 DEF DatabaseOK, Truthful
  <2>9. TypeOK'
    BY <2>4, <2>6 DEF IInv, TypeOK
  <2>10. SafetyOK'
    <3>1. CASE safety = None
      <4>1. db # None /\ Recorded(db, archived) /\ Truthful(db)
        BY <3>1, AbsenceAssumption DEF IInv, TypeOK, SafetyOK, DatabaseOK
      <4> QED
        BY <2>4, <3>1, <4>1 DEF SafetyOK
    <3>2. CASE safety # None
      BY <2>4, <3>2 DEF IInv, SafetyOK
    <3> QED
      BY <3>1, <3>2
  <2>11. RestoreOK'
    BY <2>4 DEF RestoreOK
  <2>12. RequestsOK'
    <3>1. \A w \in Workers : request[w] = Idle
      BY <2>4, NoRequest
    <3> QED
      BY <2>4, <3>1, IdleOK DEF RequestsOK, CopiesOK
  <2> QED
    BY <2>4, <2>8, <2>9, <2>10, <2>11, <2>12 DEF IInv
<1>2. CASE AbandonRestore
  <2>1. PICK d : d = IF safety = None THEN db ELSE safety
    OBVIOUS
  <2>2. PICK k : k = IF safety = None THEN kept ELSE safety.file
    OBVIOUS
  <2>3. /\ server = "down" /\ marker' = None /\ onDisk' = None /\ db' = d /\ kept' = k
        /\ safety' = None /\ server' = server /\ request' = request
        /\ snapshot' = snapshot /\ archived' = archived /\ next' = next
    BY <1>2, <2>1, <2>2 DEF AbandonRestore
  <2>4. d \in Database /\ Recorded(d, archived) /\ Truthful(d)
    BY <2>1 DEF IInv, TypeOK, SafetyOK, DatabaseOK
  <2>5. k \subseteq Event /\ \A log \in Logs(d) : k \subseteq log \cup archived
    <3>1. CASE safety = None
      BY <2>1, <2>2, <3>1 DEF IInv, TypeOK, DatabaseOK
    <3>2. CASE safety # None
      <4>1. d = safety /\ k = d.file /\ d.wal = << >>
        BY <2>1, <2>2, <3>2 DEF IInv, SafetyOK
      <4>2. Len(<< >>) = 0
        OBVIOUS
      <4>3. Logs(d) = {d.file}
        BY <4>1, <4>2 DEF Logs
      <4> QED
        BY <2>4, <4>1, <4>3, DatabaseTypes
    <3> QED
      BY <3>1, <3>2
  <2>6. \A b : AllBut(b, d, archived)
    BY <2>4 DEF AllBut, Recorded, Covered
  <2>7. DatabaseOK(d, k, archived)
    BY <2>4, <2>5, <2>6 DEF DatabaseOK
  <2>8. TypeOK'
    BY <2>3, <2>4, <2>5 DEF IInv, TypeOK
  <2>9. SafetyOK' /\ RestoreOK'
    BY <2>3, <2>4 DEF SafetyOK, RestoreOK
  <2>10. RequestsOK'
    <3>1. \A w \in Workers : request[w] = Idle
      BY <2>3, NoRequest
    <3> QED
      BY <2>3, <3>1, IdleOK DEF RequestsOK, CopiesOK
  <2> QED
    BY <2>3, <2>7, <2>8, <2>9, <2>10 DEF IInv
<1>3. CASE DropSafety
  <2>1. /\ server = "serving" /\ safety' = None /\ db' = db /\ snapshot' = snapshot
        /\ archived' = archived /\ marker' = marker /\ onDisk' = onDisk /\ server' = server
        /\ request' = request /\ next' = next /\ kept' = kept
    BY <1>3 DEF DropSafety, intent
  <2>2. TypeOK' /\ RestoreOK' /\ RequestsOK'
    BY <2>1 DEF IInv, TypeOK, RestoreOK, RequestsOK, CopiesOK, Log
  <2>3. SafetyOK'
    BY <2>1, ServingRecorded DEF SafetyOK
  <2> QED
    BY <2>1, <2>2, <2>3 DEF IInv
<1> QED
  BY <1>1, <1>2, <1>3 DEF Operator

\* SQLite's checkpoint while serving.
LEMMA CheckpointStep ==
  ASSUME IInv, AutoCheckpoint
  PROVE  IInv'
<1>1. PICK e : e = db'
  OBVIOUS
<1>2. /\ server = "serving" /\ e = Folded(db) /\ kept' = kept \cup Log
      /\ marker' = marker /\ onDisk' = onDisk /\ server' = server /\ request' = request
      /\ snapshot' = snapshot /\ archived' = archived /\ UNCHANGED <<files, next>>
  BY <1>1 DEF AutoCheckpoint, intent, files
<1>3. db \in Database /\ Log \in Logs(db) /\ Log \subseteq Event
  BY LogMember DEF IInv, TypeOK
<1>4. /\ e \in Database /\ e.lineage = db.lineage /\ e.bytes \in {None, db.bytes}
      /\ Logs(e) = {Log} /\ Logs(e) \subseteq Logs(db)
  BY <1>2, <1>3, FoldedLogs
<1>5. kept' \subseteq Event /\ \A log \in Logs(e) : kept' \subseteq log \cup archived
  BY <1>2, <1>3, <1>4 DEF IInv, TypeOK, DatabaseOK
<1>6. Recorded(e, archived)
  BY <1>2, <1>4, ServingRecorded, FewerLogs
<1>7. RestoreOK' /\ RequestsOK'
  BY <1>1, <1>2, <1>6 DEF RestoreOK, IInv, RequestsOK, CopiesOK
<1>8. /\ marker' \in Backups \cup {None} /\ onDisk' \in Backups \cup {None}
      /\ server' \in Stages /\ request' \in [Workers -> Request]
  BY <1>2 DEF IInv, TypeOK
<1> QED
  BY <1>1, <1>2, <1>4, <1>5, <1>7, <1>8, FewerStep

--------------------------------------------------------------------------------
(* The invariant.                                                               *)

\* Before the first start nothing is recorded, and nothing has to be.
LEMMA InitIInv == Init => IInv
<1> SUFFICES ASSUME Init PROVE IInv
  OBVIOUS
<1>1. << >> \in Seq(SUBSET Event) /\ Len(<< >>) = 0
  OBVIOUS
<1>2. db \in Database /\ Logs(db) = {{}} /\ db.lineage = {} /\ db.bytes = None
  BY <1>1 DEF Init, Database, Logs
<1>3. NamedBy({}) = {}
  BY DEF NamedBy
<1>4. Recorded(db, archived) /\ DatabaseOK(db, kept, archived)
  BY <1>2, <1>3 DEF Init, Recorded, Covered, DatabaseOK, Truthful
<1>5. request \in [Workers -> Request] /\ RequestsOK
  BY IdleOK DEF Init, RequestsOK, CopiesOK
<1>6. TypeOK
  BY <1>2, <1>5, OperationsAssumption DEF Init, TypeOK, Stages
<1>7. SafetyOK /\ RestoreOK /\ \A b \in Backups : SnapshotOK(snapshot[b], archived)
  BY <1>4 DEF Init, SafetyOK, RestoreOK, SnapshotOK
<1> QED
  BY <1>4, <1>5, <1>6, <1>7 DEF IInv

\* Every step, crashes and faults included, keeps the invariant.
LEMMA NextIInv == IInv /\ [Next]_vars => IInv'
<1> SUFFICES ASSUME IInv, [Next]_vars PROVE IInv'
  OBVIOUS
<1>1. CASE UNCHANGED vars
  BY <1>1 DEF vars, files, intent, IInv, TypeOK, SafetyOK, RestoreOK, RequestsOK, CopiesOK, Log
<1> QED
  BY <1>1, WriteStep, CheckpointStep, HandleStep, StartUpStep, FaultStep, OperatorStep DEF Next

\* The invariant holds in every reachable state.
LEMMA OperationsInvariant == Spec => []IInv
BY InitIInv, NextIInv, PTL DEF Spec

--------------------------------------------------------------------------------
(* The results.                                                                 *)

\* Type correctness: whatever the crashes, the files, the marker and the requests stay
\* what the code stores and reads.
THEOREM OperationsTypes == Spec => []TypeOK
<1>1. IInv => TypeOK
  BY DEF IInv
<1> QED
  BY <1>1, OperationsInvariant, PTL

\* reconcile_restore_intent removes the marker only behind a durable RESTORE_BACKUP: a
\* server that serves has recorded every restore behind its database.
THEOREM RestoresAreRecorded == Spec => []RestoreRecorded
<1>1. IInv => RestoreRecorded
  <2> SUFFICES ASSUME IInv, server = "serving" PROVE db.lineage \subseteq NamedBy(Log \cup archived)
    BY DEF RestoreRecorded
  <2>1. Recorded(db, archived) /\ Log \in Logs(db)
    BY ServingRecorded, LogMember DEF IInv, TypeOK
  <2> QED
    BY <2>1 DEF Recorded, Covered
<1> QED
  BY <1>1, OperationsInvariant, PTL

\* The preflight compares the bytes: no database claims a restore it did not have.
THEOREM RestoresAreTrue == Spec => []RestoreTruthful
<1>1. IInv => RestoreTruthful
  BY LogMember DEF IInv, TypeOK, DatabaseOK, Truthful, RestoreTruthful
<1> QED
  BY <1>1, OperationsInvariant, PTL

\* archive_batch deletes only what write_verified made durable: no event that reached
\* the main file is lost.
THEOREM NoEventLost == Spec => []AuditPreserved
<1>1. IInv => AuditPreserved
  BY LogMember DEF IInv, TypeOK, DatabaseOK, AuditPreserved
<1> QED
  BY <1>1, OperationsInvariant, PTL

================================================================================
