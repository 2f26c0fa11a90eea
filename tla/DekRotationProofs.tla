---------------------------- MODULE DekRotationProofs ---------------------------
(***************************************************************************)
(* Proofs about DekRotation, for any tables, batch size and number of      *)
(* administrators and writers.                                             *)
(*                                                                         *)
(* Three inductive invariants, each built on the one before: the keys and  *)
(* the operation, which need no maintenance window; the ciphertexts within *)
(* one; and the progress of the operation when there is one administrator. *)
(***************************************************************************)
EXTENDS DekRotation, FiniteSetTheorems, TLAPS

\* A key that was the active one when somebody read it.
Old(v) == v \in DekVersion /\ key[v] \in {"ACTIVE", "RETIRED"}

\* Key versions are numbered without a gap, and an unfinished operation replaces a key
\* that was active.
KeysOK ==
  /\ KeysFollowOperation
  /\ \E m \in DekVersion : \A v \in DekVersion : key[v] # "NONE" <=> v <= m
  /\ Unfinished => Old(op.source) /\ op.target \in DekVersion

JobStages == {"counted", "started", "passed", "verified", "migrating", "batch"}

\* What an administrator's request has read of the keys: that they existed stays true.
AdminOK(h) ==
  /\ h.at = "active" => Old(h.source)
  /\ h.at \in JobStages => Old(h.job.source) /\ h.job.target \in DekVersion
  /\ h.at = "counted" => \A v \in DekVersion : v < h.job.target => key[v] # "NONE"

KeyInv == TypeOK /\ KeysOK /\ \A a \in Admins : AdminOK(admin[a])

\* The window keeps writers and rotations apart, so what either has read of the records
\* is current until it ends.
WriterOK(h) ==
  /\ h # Idle => ~Unfinished /\ NoAdmins
  /\ h.at = "prepared" => h.dek \in DekVersion /\ key[h.dek] = "ACTIVE"

BatchOK(h) ==
  /\ h.at = "batch" => \A c \in h.rows : h.read[c] = ver[c]
  /\ h.at = "verified" /\ key[h.job.source] = "ACTIVE" => References(h.job.source) = {}

WindowInv ==
  /\ AlwaysReadable
  /\ \A w \in Writers : WriterOK(writer[w])
  /\ \A a \in Admins : BatchOK(admin[a])

\* A lone administrator works on the unfinished operation, from the key that is active.
SingleAdmin == \A a, b \in Admins : a = b

AloneOK(h) ==
  /\ h.at = "active" => key[h.source] = "ACTIVE"
  /\ h.at = "counted" => /\ key[h.job.source] = "ACTIVE"
                         /\ h.job.total = Cardinality(References(h.job.source))
  /\ h.at \in JobStages \ {"counted"} => Unfinished /\ h.job = JobOf(op)

ProgressInv == ProgressExact /\ \A a \in Admins : AloneOK(admin[a])

--------------------------------------------------------------------------------
(* Facts about records, keys and requests.                                      *)

\* There are finitely many records, so they can be counted.
LEMMA CountRecordsType ==
  ASSUME NEW rows \in SUBSET Records
  PROVE  IsFiniteSet(rows) /\ Cardinality(rows) \in Nat
<1>1. IsFiniteSet(Records)
  BY RotationAssumption, FS_Union DEF Records
<1> QED
  BY <1>1, FS_Subset, FS_CardinalityType

\* There is an active key.
LEMMA ActiveKey ==
  ASSUME KeyInv
  PROVE  ActiveDek \in DekVersion /\ key[ActiveDek] = "ACTIVE"
<1>1. \E v \in DekVersion : key[v] = "ACTIVE"
  BY DEF KeyInv, KeysOK, KeysFollowOperation
<1> QED
  BY <1>1 DEF ActiveDek

\* The next key version comes right after those in use.
LEMMA NextKey ==
  ASSUME KeyInv
  PROVE  /\ NextDek \in Nat \ {0}
         /\ \A v \in DekVersion : v < NextDek => key[v] # "NONE"
<1>1. PICK m \in DekVersion : \A v \in DekVersion : key[v] # "NONE" <=> v <= m
  BY DEF KeyInv, KeysOK
<1>2. DekVersion \subseteq Nat \ {0}
  BY DEF DekVersion
<1>3. key[m] # "NONE" /\ \A u \in DekVersion : key[u] # "NONE" => u <= m
  BY <1>1, <1>2
<1>4. PICK n : n = CHOOSE v \in DekVersion :
                     key[v] # "NONE" /\ \A u \in DekVersion : key[u] # "NONE" => u <= v
  OBVIOUS
<1>5. n \in DekVersion /\ key[n] # "NONE" /\ \A u \in DekVersion : key[u] # "NONE" => u <= n
  BY <1>3, <1>4
<1>6. n = m
  BY <1>1, <1>2, <1>3, <1>5
<1>7. NextDek = 1 + m
  BY <1>4, <1>6 DEF NextDek
<1> QED
  BY <1>1, <1>2, <1>7

\* The stage of a rotate-dek request tells which record it is.
LEMMA AdminKinds ==
  ASSUME NEW h \in AdminState
  PROVE  /\ h.at = "active" => h.source \in Nat
         /\ h.at \in JobStages => h.job \in Job
         /\ h.at = "migrating" => h.table \in 1..3
         /\ h.at = "batch" => h.rows \subseteq Records /\ h.read \in [Records -> Nat]
BY DEF AdminState, Idle, JobStages

\* The fields of a job.
LEMMA JobFields ==
  ASSUME NEW j \in Job
  PROVE  j.source \in Nat /\ j.target \in Nat /\ j.total \in Nat
BY DEF Job

\* The stage of a writer tells which record it is.
LEMMA WriterKinds ==
  ASSUME NEW h \in WriterState
  PROVE  h.at = "prepared" => /\ h.dek \in Nat /\ h.rows \subseteq Records
                              /\ h.read \in [Records -> Nat] /\ h.checked \in BOOLEAN
BY DEF WriterState, Idle

AdminMoves(a, r) == admin' = [admin EXCEPT ![a] = r]
WriterMoves(w, r) == writer' = [writer EXCEPT ![w] = r]

\* The administrators after one of them moves on.
LEMMA AdminMoved ==
  ASSUME admin \in [Admins -> AdminState], NEW a \in Admins, NEW r \in AdminState, AdminMoves(a, r)
  PROVE  /\ admin' \in [Admins -> AdminState] /\ admin'[a] = r
         /\ \A b \in Admins \ {a} : admin'[b] = admin[b]
BY DEF AdminMoves

\* The writers after one of them moves on.
LEMMA WriterMoved ==
  ASSUME writer \in [Writers -> WriterState], NEW w \in Writers, NEW r \in WriterState,
         WriterMoves(w, r)
  PROVE  /\ writer' \in [Writers -> WriterState] /\ writer'[w] = r
         /\ \A v \in Writers \ {w} : writer'[v] = writer[v]
BY DEF WriterMoves

--------------------------------------------------------------------------------
(* The keys and the operation.                                                  *)

\* A step of an administrator, for what it leaves behind.
LEMMA KeyStep ==
  ASSUME KeyInv, NEW a \in Admins, NEW r \in AdminState, AdminMoves(a, r),
         key' \in [DekVersion -> KeyStatus], op' \in Operation,
         dek' \in [Records -> Nat], ver' \in [Records -> Nat], sealed' \in [Records -> Seal],
         writer' = writer,
         \A v \in DekVersion : Old(v) => Old(v)',
         \A v \in DekVersion : key[v] # "NONE" => key'[v] # "NONE",
         KeysOK', AdminOK(r)'
  PROVE  KeyInv'
<1>1. /\ admin' \in [Admins -> AdminState] /\ admin'[a] = r
      /\ \A b \in Admins \ {a} : admin'[b] = admin[b]
  BY AdminMoved DEF KeyInv, TypeOK
<1>2. TypeOK'
  BY <1>1 DEF KeyInv, TypeOK
<1>3. ASSUME NEW b \in Admins \ {a} PROVE AdminOK(admin[b])'
  <2>1. PICK h : h = admin[b]
    OBVIOUS
  <2>2. AdminOK(h) /\ admin'[b] = h
    BY <1>1, <2>1 DEF KeyInv
  <2>3. AdminOK(h)'
    <3>1. \A v : Old(v) => Old(v)'
      BY DEF Old
    <3> QED
      BY <2>2, <3>1 DEF AdminOK
  <2> QED
    BY <2>2, <2>3
<1>4. AdminOK(admin[a])'
  BY <1>1
<1> QED
  BY <1>2, <1>3, <1>4 DEF KeyInv

\* A step that only reads.
LEMMA KeyRead ==
  ASSUME KeyInv, NEW a \in Admins, NEW r \in AdminState, AdminMoves(a, r),
         UNCHANGED <<key, op, recordVars, writer>>, AdminOK(r)
  PROVE  KeyInv'
<1>1. key' = key /\ op' = op /\ dek' = dek /\ ver' = ver /\ sealed' = sealed /\ writer' = writer
  BY DEF recordVars
<1>2. KeysOK' /\ AdminOK(r)' /\ \A v \in DekVersion : Old(v) => Old(v)'
  BY <1>1 DEF KeyInv, KeysOK, KeysFollowOperation, Unfinished, AdminOK, Old
<1> QED
  BY <1>1, <1>2, KeyStep DEF KeyInv, TypeOK

\* A step of a writer.
LEMMA KeyWrite ==
  ASSUME KeyInv, NEW w \in Writers, NEW r \in WriterState, WriterMoves(w, r),
         dek' \in [Records -> Nat], ver' \in [Records -> Nat], sealed' \in [Records -> Seal],
         UNCHANGED <<key, op, admin>>
  PROVE  KeyInv'
<1>1. writer' \in [Writers -> WriterState]
  BY WriterMoved DEF KeyInv, TypeOK
<1>2. key' = key /\ op' = op /\ admin' = admin
  OBVIOUS
<1>3. TypeOK'
  BY <1>1, <1>2 DEF KeyInv, TypeOK
<1>4. KeysOK'
  BY <1>2 DEF KeyInv, KeysOK, KeysFollowOperation, Unfinished, Old
<1>5. \A a \in Admins : AdminOK(admin[a])'
  BY <1>2 DEF KeyInv, AdminOK, Old
<1> QED
  BY <1>3, <1>4, <1>5 DEF KeyInv

\* The steps of writers.
LEMMA KeyWriterStep ==
  ASSUME KeyInv, NEW w \in Writers, WriterStep(w)
  PROVE  KeyInv'
<1> writer[w] \in WriterState
  BY DEF KeyInv, TypeOK
<1>0. Idle \in WriterState
  BY DEF WriterState
<1>1. CASE Admit(w)
  <2>1. PICK r : r = [at |-> "admitted"]
    OBVIOUS
  <2>2. r \in WriterState /\ WriterMoves(w, r)
    BY <1>1, <2>1 DEF WriterState, Admit, WriterMoves
  <2>3. /\ UNCHANGED <<key, op, admin>> /\ dek' \in [Records -> Nat] /\ ver' \in [Records -> Nat]
        /\ sealed' \in [Records -> Seal]
    BY <1>1 DEF Admit, recordVars, KeyInv, TypeOK
  <2> QED
    BY <2>2, <2>3, KeyWrite
<1>2. ASSUME NEW rows \in SUBSET Records, NEW checked \in BOOLEAN, WritePrepare(w, rows, checked)
      PROVE  KeyInv'
  <2>1. PICK f : f = [c \in Records |-> IF c \in rows THEN ver[c] ELSE 0]
    OBVIOUS
  <2>2. PICK n : n = ActiveDek
    OBVIOUS
  <2>3. PICK r : r = [at |-> "prepared", dek |-> n, rows |-> rows, checked |-> checked, read |-> f]
    OBVIOUS
  <2>4. f \in [Records -> Nat] /\ n \in Nat
    BY <2>1, <2>2, ActiveKey DEF KeyInv, TypeOK, DekVersion
  <2>5. r \in WriterState
    BY <2>3, <2>4 DEF WriterState
  <2>6. WriterMoves(w, r)
    BY <1>2, <2>1, <2>2, <2>3 DEF WritePrepare, WriterMoves
  <2>7. /\ UNCHANGED <<key, op, admin>> /\ dek' \in [Records -> Nat] /\ ver' \in [Records -> Nat]
        /\ sealed' \in [Records -> Seal]
    BY <1>2 DEF WritePrepare, recordVars, KeyInv, TypeOK
  <2> QED
    BY <2>5, <2>6, <2>7, KeyWrite
<1>3. CASE WriteCommit(w)
  <2>1. PICK h : h = writer[w]
    OBVIOUS
  <2>2. h.dek \in Nat /\ h.rows \subseteq Records /\ h.read \in [Records -> Nat]
    BY <1>3, <2>1, WriterKinds DEF WriteCommit
  <2>3. \A c \in Records : ver[c] + 1 \in Nat /\ h.read[c] + 1 \in Nat
    BY <2>2 DEF KeyInv, TypeOK
  <2>4. \A c \in Records : [dek |-> h.dek, ver |-> h.read[c] + 1] \in Seal
    BY <2>2, <2>3 DEF Seal
  <2>5. /\ dek' = [c \in Records |-> IF c \in h.rows THEN h.dek ELSE dek[c]]
        /\ ver' = [c \in Records |-> IF c \in h.rows THEN ver[c] + 1 ELSE ver[c]]
        /\ sealed' = [c \in Records |-> IF c \in h.rows
                                        THEN [dek |-> h.dek, ver |-> h.read[c] + 1]
                                        ELSE sealed[c]]
        /\ WriterMoves(w, Idle) /\ UNCHANGED <<key, op, admin>>
    BY <1>3, <2>1 DEF WriteCommit, WriterMoves
  <2>6. dek' \in [Records -> Nat]
    BY <2>2, <2>5 DEF KeyInv, TypeOK
  <2>7. ver' \in [Records -> Nat]
    BY <2>3, <2>5 DEF KeyInv, TypeOK
  <2>8. sealed' \in [Records -> Seal]
    BY <2>4, <2>5 DEF KeyInv, TypeOK
  <2> QED
    BY <1>0, <2>5, <2>6, <2>7, <2>8, KeyWrite
<1>4. CASE WriterAbandon(w)
  <2>1. WriterMoves(w, Idle) /\ UNCHANGED <<key, op, admin>>
    BY <1>4 DEF WriterAbandon, WriterMoves
  <2>2. dek' \in [Records -> Nat] /\ ver' \in [Records -> Nat] /\ sealed' \in [Records -> Seal]
    BY <1>4 DEF WriterAbandon, recordVars, KeyInv, TypeOK
  <2> QED
    BY <1>0, <2>1, <2>2, KeyWrite
<1> QED
  BY <1>1, <1>2, <1>3, <1>4 DEF WriterStep

\* The steps of administrators.
LEMMA KeyAdminStep ==
  ASSUME KeyInv, NEW a \in Admins, AdminStep(a)
  PROVE  KeyInv'
<1> admin[a] \in AdminState /\ AdminOK(admin[a])
  BY DEF KeyInv, TypeOK
<1>0. Idle \in AdminState /\ AdminOK(Idle)
  BY DEF AdminState, AdminOK, Idle, JobStages
<1> DEFINE Same == UNCHANGED <<key, op, recordVars, writer>>
<1>1. CASE Resume(a)
  <2>1. PICK j : j = JobOf(op)
    OBVIOUS
  <2>2. PICK r : r = [at |-> "started", job |-> j]
    OBVIOUS
  <2>3. j \in Job /\ j.source = op.source /\ j.target = op.target
    BY <2>1 DEF JobOf, Job, Operation, KeyInv, TypeOK
  <2>4. Old(j.source) /\ j.target \in DekVersion
    BY <1>1, <2>3 DEF Resume, KeyInv, KeysOK
  <2>5. r \in AdminState /\ AdminOK(r)
    BY <2>2, <2>3, <2>4 DEF AdminState, AdminOK
  <2>6. AdminMoves(a, r) /\ Same
    BY <1>1, <2>1, <2>2 DEF Resume, AdminMoves
  <2> QED
    BY <2>5, <2>6, KeyRead
<1>2. CASE ReadActive(a)
  <2>1. PICK n : n = ActiveDek
    OBVIOUS
  <2>2. PICK r : r = [at |-> "active", source |-> n]
    OBVIOUS
  <2>3. n \in Nat /\ Old(n)
    BY <2>1, ActiveKey DEF Old, DekVersion
  <2>4. r \in AdminState /\ AdminOK(r)
    BY <2>2, <2>3 DEF AdminState, AdminOK, JobStages
  <2>5. AdminMoves(a, r) /\ Same
    BY <1>2, <2>1, <2>2 DEF ReadActive, AdminMoves
  <2> QED
    BY <2>4, <2>5, KeyRead
<1>3. CASE CountRecords(a)
  <2>1. PICK s : s = admin[a].source
    OBVIOUS
  <2>2. PICK n : n = NextDek
    OBVIOUS
  <2>3. PICK t : t = Cardinality(References(s))
    OBVIOUS
  <2>4. PICK j : j = [source |-> s, target |-> n, total |-> t]
    OBVIOUS
  <2>5. PICK r : r = [at |-> "counted", job |-> j]
    OBVIOUS
  <2>6. s \in Nat /\ Old(s)
    BY <1>3, <2>1, AdminKinds DEF CountRecords, AdminOK
  <2>7. n \in Nat /\ n \in DekVersion /\ \A v \in DekVersion : v < n => key[v] # "NONE"
    <3>1. n \in Nat \ {0} /\ n <= MaxDek
      BY <1>3, <2>2, NextKey DEF CountRecords
    <3> QED
      BY <2>2, <3>1, NextKey, RotationAssumption DEF DekVersion
  <2>8. t \in Nat
    BY <2>3, CountRecordsType DEF References
  <2>9. r \in AdminState /\ AdminOK(r)
    BY <2>4, <2>5, <2>6, <2>7, <2>8 DEF AdminState, AdminOK, Job
  <2>10. AdminMoves(a, r) /\ Same
    BY <1>3, <2>1, <2>2, <2>3, <2>4, <2>5 DEF CountRecords, AdminMoves
  <2> QED
    BY <2>9, <2>10, KeyRead
<1>4. CASE InsertOperation(a)
  <2>1. PICK j : j = admin[a].job
    OBVIOUS
  <2>2. PICK r : r = [at |-> "started", job |-> j]
    OBVIOUS
  <2>3. /\ j \in Job /\ Old(j.source) /\ j.target \in DekVersion
        /\ \A v \in DekVersion : v < j.target => key[v] # "NONE"
    BY <1>4, <2>1, AdminKinds DEF InsertOperation, AdminOK, JobStages
  <2>4. /\ key[j.target] = "NONE" /\ ~Unfinished
        /\ key' = [key EXCEPT ![j.target] = "PENDING"]
        /\ op' = [status |-> "MIGRATING", source |-> j.source, target |-> j.target,
                  total |-> j.total, processed |-> 0]
        /\ AdminMoves(a, r) /\ dek' = dek /\ ver' = ver /\ sealed' = sealed /\ writer' = writer
    BY <1>4, <2>1, <2>2 DEF InsertOperation, SlotFree, AdminMoves, recordVars
  <2>5. /\ key' \in [DekVersion -> KeyStatus] /\ key'[j.target] = "PENDING"
        /\ \A v \in DekVersion \ {j.target} : key'[v] = key[v]
    BY <2>3, <2>4 DEF KeyInv, TypeOK, KeyStatus
  <2>6. op' \in Operation /\ Unfinished' /\ op'.source = j.source /\ op'.target = j.target
    BY <2>3, <2>4 DEF Operation, OpStatus, Job, Unfinished
  <2>7. \A v : Old(v) => Old(v)'
    BY <2>3, <2>4, <2>5 DEF Old
  <2>8. KeysFollowOperation'
    <3>1. PICK v \in DekVersion : \A u \in DekVersion : key[u] = "ACTIVE" <=> u = v
      BY DEF KeyInv, KeysOK, KeysFollowOperation
    <3>2. \A u \in DekVersion : key'[u] = "ACTIVE" <=> u = v
      BY <2>4, <2>5, <3>1
    <3>3. \A u \in DekVersion : key[u] # "PENDING"
      BY <2>4 DEF KeyInv, KeysOK, KeysFollowOperation
    <3>4. \A u \in DekVersion : key'[u] = "PENDING" <=> u = j.target
      BY <2>5, <3>3
    <3> QED
      BY <2>6, <3>2, <3>4 DEF KeysFollowOperation
  <2>9. \E m \in DekVersion : \A v \in DekVersion : key'[v] # "NONE" <=> v <= m
    <3>1. PICK m \in DekVersion : \A v \in DekVersion : key[v] # "NONE" <=> v <= m
      BY DEF KeyInv, KeysOK
    <3>2. PICK n : n = j.target
      OBVIOUS
    <3>3. n \in Nat /\ m \in Nat /\ ~(n <= m)
      BY <2>3, <2>4, <3>1, <3>2 DEF DekVersion
    <3>4. ASSUME NEW v \in DekVersion PROVE key'[v] # "NONE" <=> v <= n
      <4>1. v \in Nat /\ (v < n => key[v] # "NONE") /\ (v <= m <=> key[v] # "NONE")
        BY <2>3, <3>1, <3>2 DEF DekVersion
      <4>2. v < n \/ v = n \/ (v > n /\ ~(v <= m))
        BY <3>3, <4>1
      <4>3. v < n => v # n /\ v <= n
        BY <3>3, <4>1
      <4>4. v > n => v # n /\ ~(v <= n)
        BY <3>3, <4>1
      <4>5. v = n => v <= n
        BY <3>3
      <4>6. (v = n => key'[v] = "PENDING") /\ (v # n => key'[v] = key[v])
        BY <2>5, <3>2
      <4> QED
        BY <4>1, <4>2, <4>3, <4>4, <4>5, <4>6
    <3> QED
      BY <2>3, <3>2, <3>4
  <2>10. KeysOK'
    BY <2>3, <2>6, <2>7, <2>8, <2>9 DEF KeysOK
  <2>11. r \in AdminState /\ AdminOK(r)'
    BY <2>2, <2>3, <2>7 DEF AdminState, AdminOK
  <2>12. /\ dek' \in [Records -> Nat] /\ ver' \in [Records -> Nat] /\ sealed' \in [Records -> Seal]
         /\ \A v \in DekVersion : key[v] # "NONE" => key'[v] # "NONE"
    BY <2>4, <2>5 DEF KeyInv, TypeOK
  <2> QED
    BY <2>4, <2>5, <2>6, <2>7, <2>10, <2>11, <2>12, KeyStep
<1>5. CASE LoadKeys(a)
  <2>1. PICK j : j = admin[a].job
    OBVIOUS
  <2>2. PICK r : r = [at |-> "migrating", job |-> j, table |-> 1]
    OBVIOUS
  <2>3. j \in Job /\ Old(j.source) /\ j.target \in DekVersion
    BY <1>5, <2>1, AdminKinds DEF LoadKeys, AdminOK, JobStages
  <2>4. r \in AdminState /\ AdminOK(r)
    BY <2>2, <2>3 DEF AdminState, AdminOK
  <2>5. AdminMoves(a, r) /\ Same
    BY <1>5, <2>1, <2>2 DEF LoadKeys, AdminMoves
  <2> QED
    BY <2>4, <2>5, KeyRead
<1>6. ASSUME NEW rows \in SUBSET Records, ReadBatch(a, rows) PROVE KeyInv'
  <2>1. PICK j : j = admin[a].job
    OBVIOUS
  <2>2. PICK f : f = [c \in Records |-> IF c \in rows THEN ver[c] ELSE 0]
    OBVIOUS
  <2>3. PICK r : r = [at |-> "batch", job |-> j, rows |-> rows, read |-> f]
    OBVIOUS
  <2>4. j \in Job /\ Old(j.source) /\ j.target \in DekVersion
    BY <1>6, <2>1, AdminKinds DEF ReadBatch, AdminOK, JobStages
  <2>5. f \in [Records -> Nat]
    BY <2>2 DEF KeyInv, TypeOK
  <2>6. r \in AdminState /\ AdminOK(r)
    BY <2>3, <2>4, <2>5 DEF AdminState, AdminOK
  <2>7. AdminMoves(a, r) /\ Same
    BY <1>6, <2>1, <2>2, <2>3 DEF ReadBatch, AdminMoves
  <2> QED
    BY <2>6, <2>7, KeyRead
<1>7. CASE NextTable(a)
  <2>1. PICK h : h = admin[a]
    OBVIOUS
  <2>2. PICK r : r = [h EXCEPT !.table = h.table + 1]
    OBVIOUS
  <2>3. h \in AdminState /\ h.at = "migrating" /\ h.table \in 1..3 /\ h.table < 3
    BY <1>7, <2>1, AdminKinds DEF NextTable, Tables
  <2>4. h \in [at : {"migrating"}, job : Job, table : 1..3] /\ h.table + 1 \in 1..3
    BY <2>3 DEF AdminState, Idle
  <2>5. r \in AdminState /\ r.at = "migrating" /\ r.job = h.job
    BY <2>2, <2>4 DEF AdminState
  <2>6. AdminOK(r)
    BY <2>1, <2>3, <2>5 DEF AdminOK
  <2>7. AdminMoves(a, r) /\ Same
    BY <1>7, <2>1, <2>2 DEF NextTable, AdminMoves
  <2> QED
    BY <2>5, <2>6, <2>7, KeyRead

<1>8. CASE CommitBatch(a)
  <2>1. PICK h : h = admin[a]
    OBVIOUS
  <2>2. PICK r : r = [at |-> "migrating", job |-> h.job, table |-> 1]
    OBVIOUS
  <2>3. PICK n : n = Cardinality(h.rows)
    OBVIOUS
  <2>4. /\ h.at = "batch" /\ h.job \in Job /\ Old(h.job.source) /\ h.job.target \in DekVersion
        /\ h.rows \subseteq Records /\ h.read \in [Records -> Nat]
    BY <1>8, <2>1, AdminKinds DEF CommitBatch, AdminOK, JobStages
  <2>5. h.job.target \in Nat /\ n \in Nat
    BY <2>3, <2>4, JobFields, CountRecordsType
  <2>6. /\ dek' = [c \in Records |-> IF c \in h.rows THEN h.job.target ELSE dek[c]]
        /\ sealed' = [c \in Records |-> IF c \in h.rows THEN Reseal(h.job, h.read[c]) ELSE sealed[c]]
        /\ op' = [op EXCEPT !.processed = op.processed + n]
        /\ AdminMoves(a, r) /\ key' = key /\ ver' = ver /\ writer' = writer
    BY <1>8, <2>1, <2>2, <2>3 DEF CommitBatch, AdminMoves
  <2>7. dek' \in [Records -> Nat]
    BY <2>5, <2>6 DEF KeyInv, TypeOK
  <2>8. \A c \in Records : Reseal(h.job, h.read[c]) \in Seal
    BY <2>4, <2>5 DEF Reseal, Seal
  <2>9. sealed' \in [Records -> Seal]
    BY <2>6, <2>8 DEF KeyInv, TypeOK
  <2>10. op.processed + n \in Nat /\ op \in Operation
    BY <2>5 DEF KeyInv, TypeOK, Operation
  <2>11. /\ op' \in Operation /\ op'.status = op.status
         /\ op'.source = op.source /\ op'.target = op.target
    BY <2>6, <2>10 DEF Operation
  <2>12. KeysOK' /\ \A v : Old(v) => Old(v)'
    BY <2>6, <2>11 DEF KeyInv, KeysOK, KeysFollowOperation, Unfinished, Old
  <2>13. r \in AdminState
    BY <2>2, <2>4 DEF AdminState
  <2>14. AdminOK(r)'
    BY <2>2, <2>4, <2>12 DEF AdminOK
  <2>15. key' \in [DekVersion -> KeyStatus] /\ ver' \in [Records -> Nat]
    BY <2>6 DEF KeyInv, TypeOK
  <2> QED
    BY <2>6, <2>7, <2>9, <2>11, <2>12, <2>13, <2>14, <2>15, KeyStep
<1>9. CASE EndMigration(a)
  <2>1. PICK j : j = admin[a].job
    OBVIOUS
  <2>2. PICK r : r = [at |-> "passed", job |-> j]
    OBVIOUS
  <2>3. j \in Job /\ Old(j.source) /\ j.target \in DekVersion
    BY <1>9, <2>1, AdminKinds DEF EndMigration, AdminOK, JobStages
  <2>4. /\ op' = IF op.target = j.target /\ op.status = "MIGRATING"
                 THEN [op EXCEPT !.status = "VERIFYING"] ELSE op
        /\ AdminMoves(a, r) /\ key' = key /\ dek' = dek /\ ver' = ver /\ sealed' = sealed
        /\ writer' = writer
    BY <1>9, <2>1, <2>2 DEF EndMigration, AdminMoves, recordVars
  <2>5. op \in Operation
    BY DEF KeyInv, TypeOK
  <2>6. /\ op' \in Operation /\ (Unfinished' <=> Unfinished)
        /\ op'.source = op.source /\ op'.target = op.target
    BY <2>4, <2>5 DEF Operation, OpStatus, Unfinished
  <2>7. KeysOK' /\ \A v : Old(v) => Old(v)'
    BY <2>4, <2>6 DEF KeyInv, KeysOK, KeysFollowOperation, Old
  <2>8. r \in AdminState
    BY <2>2, <2>3 DEF AdminState
  <2>9. AdminOK(r)'
    BY <2>2, <2>3, <2>7 DEF AdminOK
  <2>10. /\ key' \in [DekVersion -> KeyStatus] /\ dek' \in [Records -> Nat]
         /\ ver' \in [Records -> Nat] /\ sealed' \in [Records -> Seal]
    BY <2>4 DEF KeyInv, TypeOK
  <2> QED
    BY <2>4, <2>6, <2>7, <2>8, <2>9, <2>10, KeyStep
<1>10. CASE Verify(a)
  <2>1. PICK j : j = admin[a].job
    OBVIOUS
  <2>2. PICK r : r = [at |-> "verified", job |-> j]
    OBVIOUS
  <2>3. j \in Job /\ Old(j.source) /\ j.target \in DekVersion
    BY <1>10, <2>1, AdminKinds DEF Verify, AdminOK, JobStages
  <2>4. r \in AdminState /\ AdminOK(r)
    BY <2>2, <2>3 DEF AdminState, AdminOK
  <2>5. AdminMoves(a, r) /\ Same
    BY <1>10, <2>1, <2>2 DEF Verify, AdminMoves
  <2> QED
    BY <2>4, <2>5, KeyRead
<1>11. CASE Finalize(a)
  <2>1. PICK j : j = admin[a].job
    OBVIOUS
  <2>2. j \in Job /\ Old(j.source) /\ j.target \in DekVersion
    BY <1>11, <2>1, AdminKinds DEF Finalize, AdminOK, JobStages
  <2>3. /\ key[j.source] = "ACTIVE" /\ key[j.target] = "PENDING"
        /\ key' = [key EXCEPT ![j.source] = "RETIRED", ![j.target] = "ACTIVE"]
        /\ op' = [op EXCEPT !.status = "COMPLETED", !.processed = j.total]
        /\ AdminMoves(a, Idle) /\ dek' = dek /\ ver' = ver /\ sealed' = sealed /\ writer' = writer
    BY <1>11, <2>1 DEF Finalize, CompleteOperation, AdminMoves, recordVars
  <2>4. /\ key' \in [DekVersion -> KeyStatus] /\ key'[j.source] = "RETIRED"
        /\ key'[j.target] = "ACTIVE"
        /\ \A v \in DekVersion \ {j.source, j.target} : key'[v] = key[v]
    BY <2>2, <2>3 DEF KeyInv, TypeOK, KeyStatus, Old
  <2>5. op' \in Operation /\ ~Unfinished'
    BY <2>2, <2>3 DEF KeyInv, TypeOK, Operation, OpStatus, Job, Unfinished
  <2>6. KeysFollowOperation'
    <3>1. \A u \in DekVersion : key[u] = "ACTIVE" => u = j.source
      BY <2>2, <2>3 DEF KeyInv, KeysOK, KeysFollowOperation, Old
    <3>2. \A u \in DekVersion : key[u] = "PENDING" => u = j.target
      BY <2>2, <2>3 DEF KeyInv, KeysOK, KeysFollowOperation
    <3>3. \A u \in DekVersion : key'[u] = "ACTIVE" <=> u = j.target
      BY <2>2, <2>4, <3>1
    <3>4. \A u \in DekVersion : key'[u] # "PENDING"
      BY <2>2, <2>4, <3>2
    <3> QED
      BY <2>2, <2>5, <3>3, <3>4 DEF KeysFollowOperation
  <2>7. \A v \in DekVersion : key'[v] # "NONE" <=> key[v] # "NONE"
    BY <2>2, <2>3, <2>4
  <2>8. KeysOK'
    BY <2>5, <2>6, <2>7 DEF KeyInv, KeysOK
  <2>9. \A v \in DekVersion : Old(v) => Old(v)'
    BY <2>2, <2>4 DEF Old
  <2>10. AdminOK(Idle)'
    BY DEF AdminOK, Idle, JobStages
  <2>11. dek' \in [Records -> Nat] /\ ver' \in [Records -> Nat] /\ sealed' \in [Records -> Seal]
    BY <2>3 DEF KeyInv, TypeOK
  <2> QED
    BY <1>0, <2>3, <2>4, <2>5, <2>7, <2>8, <2>9, <2>10, <2>11, KeyStep
<1>12. CASE AdminAbandon(a)
  <2>1. AdminMoves(a, Idle) /\ Same
    BY <1>12 DEF AdminAbandon, AdminMoves
  <2> QED
    BY <1>0, <2>1, KeyRead
<1> QED
  BY <1>1, <1>2, <1>3, <1>4, <1>5, <1>6, <1>7, <1>8, <1>9, <1>10, <1>11, <1>12 DEF AdminStep, Batch

\* At first there is one key, no operation and no request.
LEMMA InitKeys == Init => KeyInv
<1> SUFFICES ASSUME Init PROVE KeyInv
  OBVIOUS
<1>1. 1 \in DekVersion /\ 0 \in Nat /\ DekVersion \subseteq Nat
  BY RotationAssumption DEF DekVersion
<1>2. TypeOK
  BY <1>1 DEF Init, TypeOK, KeyStatus, Operation, OpStatus, Seal, AdminState, WriterState
<1>3. KeysOK
  <2>1. \A v \in DekVersion : key[v] # "NONE" <=> v <= 1
    BY <1>1 DEF Init, DekVersion
  <2>2. KeysFollowOperation /\ ~Unfinished
    BY <1>1 DEF Init, KeysFollowOperation, Unfinished
  <2> QED
    BY <1>1, <2>1, <2>2 DEF KeysOK
<1>4. \A a \in Admins : AdminOK(admin[a])
  BY DEF Init, AdminOK, Idle, JobStages
<1> QED
  BY <1>2, <1>3, <1>4 DEF KeyInv

\* Every step keeps the invariant on keys and operations, with or without a window.
LEMMA NextKeys == KeyInv /\ [Next]_vars => KeyInv'
<1> SUFFICES ASSUME KeyInv, [Next]_vars PROVE KeyInv'
  OBVIOUS
<1>1. CASE UNCHANGED vars
  BY <1>1 DEF vars, recordVars, KeyInv, TypeOK, KeysOK, KeysFollowOperation, Unfinished, AdminOK, Old
<1> QED
  BY <1>1, KeyWriterStep, KeyAdminStep DEF Next

\* The invariant on keys and operations holds in every reachable state.
LEMMA KeyInvariant == Spec => []KeyInv
BY InitKeys, NextKeys, PTL DEF Spec

\* Type correctness: the keys, the operation, the ciphertexts and every request stay
\* what the code stores and reads.
THEOREM DekRotationTypes == Spec => []TypeOK
<1>1. KeyInv => TypeOK
  BY DEF KeyInv
<1> QED
  BY <1>1, KeyInvariant, PTL

\* Whatever rival administrators do, in or out of a maintenance window: one key is
\* active, and a key is pending exactly while its operation is unfinished.
THEOREM OneActiveKey == Spec => []KeysFollowOperation
<1>1. KeyInv => KeysFollowOperation
  BY DEF KeyInv, KeysOK
<1> QED
  BY <1>1, KeyInvariant, PTL

--------------------------------------------------------------------------------
(* The ciphertexts, within the maintenance window.                              *)

\* Nobody who is idle holds anything.
LEMMA IdleHolds == WriterOK(Idle) /\ BatchOK(Idle)
BY DEF WriterOK, BatchOK, Idle

\* The window: no writer is in flight while an administrator's request acts.
LEMMA WindowQuiet ==
  ASSUME MaintenanceWindow, WindowInv, NEW a \in Admins, AdminStep(a)
  PROVE  NoWriters
<1>1. CASE admin[a] = Idle
  BY <1>1 DEF AdminStep, Resume, ReadActive, CountRecords, InsertOperation, LoadKeys, Batch, ReadBatch,
              NextTable, CommitBatch, EndMigration, Verify, Finalize, AdminAbandon, Idle
<1>2. CASE admin[a] # Idle
  BY <1>2 DEF WindowInv, WriterOK, NoAdmins, NoWriters
<1> QED
  BY <1>1, <1>2

\* A step of an administrator, for what it leaves of the keys and the records.
LEMMA WindowStep ==
  ASSUME KeyInv, WindowInv, NoWriters, NEW a \in Admins, NEW r \in AdminState, AdminMoves(a, r),
         writer' = writer, ver' = ver,
         AlwaysReadable', BatchOK(r)',
         \A b \in Admins \ {a} : BatchOK(admin[b]) => BatchOK(admin[b])'
  PROVE  WindowInv'
<1>1. /\ admin'[a] = r /\ \A b \in Admins \ {a} : admin'[b] = admin[b]
  BY AdminMoved DEF KeyInv, TypeOK
<1>2. \A w \in Writers : WriterOK(writer[w])'
  <2>1. \A w \in Writers : writer'[w] = Idle
    BY DEF NoWriters
  <2> QED
    BY <2>1 DEF WriterOK, Idle
<1>3. \A b \in Admins : BatchOK(admin[b])'
  BY <1>1 DEF WindowInv
<1> QED
  BY <1>2, <1>3 DEF WindowInv

\* A step of an administrator that changes neither keys nor records.
LEMMA WindowRead ==
  ASSUME KeyInv, WindowInv, NoWriters, NEW a \in Admins, NEW r \in AdminState, AdminMoves(a, r),
         UNCHANGED <<key, recordVars, writer>>, BatchOK(r)
  PROVE  WindowInv'
<1>1. key' = key /\ dek' = dek /\ ver' = ver /\ sealed' = sealed /\ writer' = writer
  BY DEF recordVars
<1>2. AlwaysReadable' /\ BatchOK(r)'
  BY <1>1 DEF WindowInv, AlwaysReadable, Loadable, Opens, BatchOK, References
<1>3. ASSUME NEW b \in Admins \ {a}, BatchOK(admin[b]) PROVE BatchOK(admin[b])'
  <2>1. PICK h : h = admin[b]
    OBVIOUS
  <2>2. admin'[b] = h
    BY <2>1, AdminMoved DEF KeyInv, TypeOK
  <2> QED
    BY <1>1, <1>3, <2>1, <2>2 DEF BatchOK, References
<1> QED
  BY <1>1, <1>2, <1>3, WindowStep

\* The steps of writers.
LEMMA WindowWriterStep ==
  ASSUME MaintenanceWindow, KeyInv, WindowInv, NEW w \in Writers, WriterStep(w)
  PROVE  WindowInv'
<1> writer[w] \in WriterState /\ WriterOK(writer[w])
  BY DEF KeyInv, TypeOK, WindowInv
<1>0. Idle \in WriterState
  BY DEF WriterState
<1>1. key' = key /\ op' = op /\ admin' = admin
  BY DEF WriterStep, Admit, WritePrepare, WriteCommit, WriterAbandon
<1>2. ASSUME NEW r \in WriterState, WriterMoves(w, r), WriterOK(r),
             dek' = dek, ver' = ver, sealed' = sealed
      PROVE  WindowInv'
  <2>1. writer'[w] = r /\ \A v \in Writers \ {w} : writer'[v] = writer[v]
    BY <1>2, WriterMoved DEF KeyInv, TypeOK
  <2>2. \A v \in Writers : WriterOK(writer'[v])
    BY <1>2, <2>1 DEF WindowInv
  <2>3. \A v \in Writers : WriterOK(writer[v])'
    BY <1>1, <2>2 DEF WriterOK, Unfinished, NoAdmins
  <2>4. AlwaysReadable'
    BY <1>1, <1>2 DEF WindowInv, AlwaysReadable, Loadable, Opens
  <2>5. \A a \in Admins : BatchOK(admin[a])'
    BY <1>1, <1>2 DEF WindowInv, BatchOK, References
  <2> QED
    BY <2>3, <2>4, <2>5 DEF WindowInv
<1>3. CASE Admit(w)
  <2>1. PICK r : r = [at |-> "admitted"]
    OBVIOUS
  <2>2. r \in WriterState /\ WriterMoves(w, r)
    BY <1>3, <2>1 DEF WriterState, Admit, WriterMoves
  <2>3. WriterOK(r)
    BY <1>3, <2>1 DEF WriterOK, Admit, GuardAdmits
  <2> QED
    BY <1>2, <1>3, <2>2, <2>3 DEF Admit, recordVars
<1>4. ASSUME NEW rows \in SUBSET Records, NEW checked \in BOOLEAN, WritePrepare(w, rows, checked)
      PROVE  WindowInv'
  <2>1. PICK f : f = [c \in Records |-> IF c \in rows THEN ver[c] ELSE 0]
    OBVIOUS
  <2>2. PICK n : n = ActiveDek
    OBVIOUS
  <2>3. PICK r : r = [at |-> "prepared", dek |-> n, rows |-> rows, checked |-> checked, read |-> f]
    OBVIOUS
  <2>4. f \in [Records -> Nat] /\ n \in Nat /\ n \in DekVersion /\ key[n] = "ACTIVE"
    BY <2>1, <2>2, ActiveKey DEF KeyInv, TypeOK, DekVersion
  <2>5. r \in WriterState
    BY <2>3, <2>4 DEF WriterState
  <2>6. WriterMoves(w, r) /\ dek' = dek /\ ver' = ver /\ sealed' = sealed
    BY <1>4, <2>1, <2>2, <2>3 DEF WritePrepare, WriterMoves, recordVars
  <2>7. ~Unfinished /\ NoAdmins
    BY <1>4 DEF WritePrepare, WriterOK, Idle
  <2>8. WriterOK(r)
    BY <2>3, <2>4, <2>7 DEF WriterOK
  <2> QED
    BY <1>2, <2>5, <2>6, <2>8
<1>5. CASE WriteCommit(w)
  <2>1. PICK h : h = writer[w]
    OBVIOUS
  <2>2. /\ h.at = "prepared" /\ h.rows \subseteq Records /\ h.read \in [Records -> Nat]
        /\ h.dek \in DekVersion /\ key[h.dek] = "ACTIVE" /\ NoAdmins
        /\ \A c \in h.rows : ver[c] = h.read[c]
    BY <1>5, <2>1, WriterKinds DEF WriteCommit, WriterOK, Idle
  <2>3. /\ dek' = [c \in Records |-> IF c \in h.rows THEN h.dek ELSE dek[c]]
        /\ ver' = [c \in Records |-> IF c \in h.rows THEN ver[c] + 1 ELSE ver[c]]
        /\ sealed' = [c \in Records |-> IF c \in h.rows
                                        THEN [dek |-> h.dek, ver |-> h.read[c] + 1]
                                        ELSE sealed[c]]
        /\ WriterMoves(w, Idle)
    BY <1>5, <2>1 DEF WriteCommit, WriterMoves
  <2>4. ASSUME NEW c \in Records, dek'[c] # 0
        PROVE  Loadable(dek'[c]) /\ sealed'[c] = [dek |-> dek'[c], ver |-> ver'[c]]
    <3>1. CASE c \in h.rows
      BY <2>2, <2>3, <3>1 DEF Loadable
    <3>2. CASE c \notin h.rows
      BY <2>3, <2>4, <3>2 DEF WindowInv, AlwaysReadable, Opens
    <3> QED
      BY <3>1, <3>2
  <2>5. AlwaysReadable'
    BY <1>1, <2>4 DEF AlwaysReadable, Loadable, Opens
  <2>6. writer'[w] = Idle /\ \A v \in Writers \ {w} : writer'[v] = writer[v]
    BY <1>0, <2>3, WriterMoved DEF KeyInv, TypeOK
  <2>7. \A v \in Writers : WriterOK(writer'[v])
    BY <2>6, IdleHolds DEF WindowInv
  <2>8. \A v \in Writers : WriterOK(writer[v])'
    BY <1>1, <2>7 DEF WriterOK, Unfinished, NoAdmins
  <2>9. \A a \in Admins : BatchOK(admin[a])'
    <3>1. \A a \in Admins : admin'[a] = Idle
      BY <1>1, <2>2 DEF NoAdmins
    <3> QED
      BY <3>1 DEF BatchOK, Idle
  <2> QED
    BY <2>5, <2>8, <2>9 DEF WindowInv
<1>6. CASE WriterAbandon(w)
  BY <1>0, <1>2, <1>6, IdleHolds DEF WriterAbandon, WriterMoves, recordVars
<1> QED
  BY <1>3, <1>4, <1>5, <1>6 DEF WriterStep

\* The steps of administrators.
LEMMA WindowAdminStep ==
  ASSUME MaintenanceWindow, KeyInv, WindowInv, NEW a \in Admins, AdminStep(a)
  PROVE  WindowInv'
<1> DEFINE Same == UNCHANGED <<key, recordVars, writer>>
<1>0. /\ NoWriters /\ Idle \in AdminState
      /\ admin[a] \in AdminState /\ BatchOK(admin[a]) /\ AdminOK(admin[a])
  BY WindowQuiet DEF AdminState, KeyInv, TypeOK, WindowInv
\* The stages that hold no batch and no verdict.
<1>1. ASSUME NEW r \in AdminState, AdminMoves(a, r), Same, r.at \notin {"batch", "verified"}
      PROVE  WindowInv'
  BY <1>0, <1>1, WindowRead DEF BatchOK
<1>2. CASE Resume(a)
  <2>1. PICK r : r = [at |-> "started", job |-> JobOf(op)]
    OBVIOUS
  <2>2. r \in AdminState /\ r.at = "started"
    BY <2>1 DEF AdminState, JobOf, Job, Operation, KeyInv, TypeOK
  <2> QED
    BY <1>1, <1>2, <2>1, <2>2 DEF Resume, AdminMoves
<1>3. CASE ReadActive(a)
  <2>1. PICK r : r = [at |-> "active", source |-> ActiveDek]
    OBVIOUS
  <2>2. r \in AdminState /\ r.at = "active"
    BY <2>1, ActiveKey DEF AdminState, DekVersion
  <2> QED
    BY <1>1, <1>3, <2>1, <2>2 DEF ReadActive, AdminMoves
<1>4. CASE CountRecords(a)
  <2>1. PICK r : r = admin'[a]
    OBVIOUS
  <2>2. r \in AdminState
    BY <2>1, KeyAdminStep DEF KeyInv, TypeOK
  <2>3. r.at = "counted" /\ AdminMoves(a, r) /\ Same
    BY <1>4, <2>1 DEF CountRecords, AdminMoves, KeyInv, TypeOK
  <2> QED
    BY <1>1, <2>2, <2>3
<1>5. CASE LoadKeys(a) \/ NextTable(a)
  <2>1. PICK r : r = admin'[a]
    OBVIOUS
  <2>2. r \in AdminState
    BY <2>1, KeyAdminStep DEF KeyInv, TypeOK
  <2>3. r.at = "migrating" /\ AdminMoves(a, r) /\ Same
    <3>1. CASE LoadKeys(a)
      BY <2>1, <3>1 DEF LoadKeys, AdminMoves, KeyInv, TypeOK
    <3>2. CASE NextTable(a)
      <4>1. PICK h : h = admin[a]
        OBVIOUS
      <4>2. h \in [at : {"migrating"}, job : Job, table : 1..3]
        BY <1>0, <3>2, <4>1 DEF AdminState, Idle, NextTable
      <4>3. PICK s : s = [h EXCEPT !.table = h.table + 1]
        OBVIOUS
      <4>4. s.at = "migrating"
        BY <4>2, <4>3
      <4>5. admin' = [admin EXCEPT ![a] = s] /\ r = s /\ Same
        BY <2>1, <3>2, <4>1, <4>3 DEF NextTable, KeyInv, TypeOK
      <4> QED
        BY <4>4, <4>5 DEF AdminMoves
    <3> QED
      BY <1>5, <3>1, <3>2
  <2> QED
    BY <1>1, <2>2, <2>3
<1>6. CASE InsertOperation(a)
  <2>1. PICK j : j = admin[a].job
    OBVIOUS
  <2>2. PICK r : r = [at |-> "started", job |-> j]
    OBVIOUS
  <2>3. j \in Job /\ j.target \in DekVersion
    BY <1>0, <1>6, <2>1, AdminKinds DEF InsertOperation, AdminOK, JobStages
  <2>4. /\ key[j.target] = "NONE" /\ key' = [key EXCEPT ![j.target] = "PENDING"]
        /\ AdminMoves(a, r) /\ dek' = dek /\ ver' = ver /\ sealed' = sealed /\ writer' = writer
    BY <1>6, <2>1, <2>2 DEF InsertOperation, SlotFree, AdminMoves, recordVars
  <2>5. \A v \in DekVersion : /\ key[v] \in {"ACTIVE", "PENDING"} => key'[v] = key[v]
                              /\ key'[v] = "ACTIVE" => key[v] = "ACTIVE"
    BY <2>3, <2>4 DEF KeyInv, TypeOK
  <2>6. AlwaysReadable'
    BY <2>4, <2>5 DEF WindowInv, AlwaysReadable, Loadable, Opens
  <2>7. r \in AdminState /\ BatchOK(r)'
    BY <2>2, <2>3 DEF AdminState, BatchOK
  <2>8. ASSUME NEW b \in Admins \ {a}, BatchOK(admin[b]) PROVE BatchOK(admin[b])'
    <3>1. PICK h : h = admin[b]
      OBVIOUS
    <3>2. admin'[b] = h
      BY <2>4, <2>7, <3>1, AdminMoved DEF KeyInv, TypeOK
    <3>3. h.at = "verified" => h.job.source \in DekVersion
      BY <3>1 DEF KeyInv, AdminOK, JobStages, Old
    <3> QED
      BY <2>4, <2>5, <2>8, <3>1, <3>2, <3>3 DEF BatchOK, References
  <2> QED
    BY <1>0, <2>4, <2>6, <2>7, <2>8, WindowStep
<1>7. ASSUME NEW rows \in SUBSET Records, ReadBatch(a, rows) PROVE WindowInv'
  <2>1. PICK j : j = admin[a].job
    OBVIOUS
  <2>2. PICK f : f = [c \in Records |-> IF c \in rows THEN ver[c] ELSE 0]
    OBVIOUS
  <2>3. PICK r : r = [at |-> "batch", job |-> j, rows |-> rows, read |-> f]
    OBVIOUS
  <2>4. j \in Job
    BY <1>0, <1>7, <2>1, AdminKinds DEF ReadBatch, JobStages
  <2>5. f \in [Records -> Nat] /\ \A c \in rows : f[c] = ver[c]
    BY <2>2 DEF KeyInv, TypeOK
  <2>6. r \in AdminState /\ BatchOK(r)
    BY <2>3, <2>4, <2>5 DEF AdminState, BatchOK
  <2>7. AdminMoves(a, r) /\ Same
    BY <1>7, <2>1, <2>2, <2>3 DEF ReadBatch, AdminMoves
  <2> QED
    BY <1>0, <2>6, <2>7, WindowRead
<1>8. CASE CommitBatch(a)
  <2>1. PICK h : h = admin[a]
    OBVIOUS
  <2>2. PICK r : r = [at |-> "migrating", job |-> h.job, table |-> 1]
    OBVIOUS
  <2>3. /\ h.at = "batch" /\ h.job \in Job /\ h.job.target \in DekVersion
        /\ h.rows \subseteq Records /\ h.read \in [Records -> Nat]
        /\ \A c \in h.rows : h.read[c] = ver[c]
    BY <1>0, <1>8, <2>1, AdminKinds DEF CommitBatch, AdminOK, JobStages, BatchOK
  <2>4. /\ dek' = [c \in Records |-> IF c \in h.rows THEN h.job.target ELSE dek[c]]
        /\ sealed' = [c \in Records |-> IF c \in h.rows THEN Reseal(h.job, h.read[c]) ELSE sealed[c]]
        /\ op.target = h.job.target /\ op.status = "MIGRATING"
        /\ AdminMoves(a, r) /\ key' = key /\ ver' = ver /\ writer' = writer
    BY <1>8, <2>1, <2>2 DEF CommitBatch, Checkpointed, AdminMoves
  <2>5. key[h.job.target] = "PENDING"
    BY <2>3, <2>4 DEF KeyInv, KeysOK, KeysFollowOperation, Unfinished
  <2>6. ASSUME NEW c \in Records, dek'[c] # 0
        PROVE  Loadable(dek'[c]) /\ sealed'[c] = [dek |-> dek'[c], ver |-> ver[c]]
    <3>1. CASE c \in h.rows
      BY <2>3, <2>4, <2>5, <3>1 DEF Loadable, Reseal
    <3>2. CASE c \notin h.rows
      BY <2>4, <2>6, <3>2 DEF WindowInv, AlwaysReadable, Opens
    <3> QED
      BY <3>1, <3>2
  <2>7. AlwaysReadable'
    BY <2>4, <2>6 DEF AlwaysReadable, Loadable, Opens
  <2>8. r \in AdminState /\ BatchOK(r)'
    BY <2>2, <2>3 DEF AdminState, BatchOK
  <2>9. ASSUME NEW b \in Admins \ {a}, BatchOK(admin[b]) PROVE BatchOK(admin[b])'
    <3>1. PICK g : g = admin[b]
      OBVIOUS
    <3>2. admin'[b] = g
      BY <2>4, <2>8, <3>1, AdminMoved DEF KeyInv, TypeOK
    <3>3. \A v : key[v] = "ACTIVE" /\ References(v) = {} => References(v)' = {}
      BY <2>4, <2>5 DEF References
    <3> QED
      BY <2>4, <2>9, <3>1, <3>2, <3>3 DEF BatchOK
  <2> QED
    BY <1>0, <2>4, <2>7, <2>8, <2>9, WindowStep
<1>9. CASE EndMigration(a)
  <2>1. PICK r : r = [at |-> "passed", job |-> admin[a].job]
    OBVIOUS
  <2>2. r \in AdminState /\ r.at = "passed"
    BY <1>0, <1>9, <2>1, AdminKinds DEF EndMigration, AdminState, JobStages
  <2> QED
    BY <1>1, <1>9, <2>1, <2>2 DEF EndMigration, AdminMoves
<1>10. CASE Verify(a)
  <2>1. PICK r : r = [at |-> "verified", job |-> admin[a].job]
    OBVIOUS
  <2>2. r \in AdminState /\ BatchOK(r)
    BY <1>0, <1>10, <2>1, AdminKinds DEF Verify, Verified, AdminState, JobStages, BatchOK
  <2>3. AdminMoves(a, r) /\ Same
    BY <1>10, <2>1 DEF Verify, AdminMoves
  <2> QED
    BY <1>0, <2>2, <2>3, WindowRead
<1>11. CASE Finalize(a)
  <2>1. PICK j : j = admin[a].job
    OBVIOUS
  <2>2. /\ j \in Job /\ j.source \in DekVersion /\ j.target \in DekVersion
        /\ References(j.source) = {}
    BY <1>0, <1>11, <2>1, AdminKinds DEF Finalize, AdminOK, JobStages, Old, BatchOK
  <2>3. /\ key[j.source] = "ACTIVE" /\ key[j.target] = "PENDING"
        /\ key' = [key EXCEPT ![j.source] = "RETIRED", ![j.target] = "ACTIVE"]
        /\ AdminMoves(a, Idle) /\ dek' = dek /\ ver' = ver /\ sealed' = sealed /\ writer' = writer
    BY <1>11, <2>1 DEF Finalize, AdminMoves, recordVars
  <2>4. /\ key'[j.source] = "RETIRED" /\ key'[j.target] = "ACTIVE"
        /\ \A v \in DekVersion \ {j.source, j.target} : key'[v] = key[v]
    BY <2>2, <2>3 DEF KeyInv, TypeOK
  <2>5. AlwaysReadable'
    <3>1. \A c \in Records : dek[c] # j.source
      BY <2>2 DEF References
    <3>2. ASSUME NEW c \in Records, dek[c] # 0
          PROVE  /\ dek[c] \in DekVersion /\ key'[dek[c]] \in {"PENDING", "ACTIVE"}
                 /\ sealed[c] = [dek |-> dek[c], ver |-> ver[c]]
      <4>1. Loadable(dek[c]) /\ Opens(c)
        BY <3>2 DEF WindowInv, AlwaysReadable
      <4> QED
        BY ONLY <2>4, <3>1, <3>2, <4>1 DEF Loadable, Opens
    <3>3. dek' = dek /\ ver' = ver /\ sealed' = sealed
      BY <2>3
    <3> QED
      BY ONLY <3>2, <3>3 DEF AlwaysReadable, Loadable, Opens
  <2>6. BatchOK(Idle)'
    BY DEF BatchOK, Idle
  <2>7. ASSUME NEW b \in Admins \ {a}, BatchOK(admin[b]) PROVE BatchOK(admin[b])'
    <3>1. PICK g : g = admin[b]
      OBVIOUS
    <3>2. admin'[b] = g
      BY <1>0, <2>3, <3>1, AdminMoved DEF KeyInv, TypeOK
    <3>3. g.at = "verified" => g.job.source \in DekVersion /\ key[g.job.source] # "PENDING"
      BY <3>1 DEF KeyInv, AdminOK, JobStages, Old
    <3>4. BatchOK(g) /\ dek' = dek /\ ver' = ver
      BY <2>3, <2>7, <3>1
    <3>5. g.at = "batch" => \A c \in g.rows : g.read[c] = ver'[c]
      BY ONLY <3>4 DEF BatchOK
    <3>6. ASSUME g.at = "verified", key'[g.job.source] = "ACTIVE"
          PROVE  References(g.job.source) = {}
      <4>1. CASE g.job.source = j.target
        BY <2>3, <3>3, <3>6, <4>1
      <4>2. CASE g.job.source # j.target
        <5>1. g.job.source # j.source
          BY ONLY <2>4, <3>6
        <5>2. key[g.job.source] = "ACTIVE"
          BY ONLY <2>4, <3>3, <3>6, <4>2, <5>1
        <5> QED
          BY ONLY <3>4, <3>6, <5>2 DEF BatchOK
      <4> QED
        BY <4>1, <4>2
    <3>7. ASSUME g.at = "verified", key'[g.job.source] = "ACTIVE"
          PROVE  \A c \in Records : dek'[c] # g.job.source
      BY ONLY <3>4, <3>6, <3>7 DEF References
    <3> QED
      BY ONLY <3>2, <3>5, <3>7 DEF BatchOK, References
  <2> QED
    BY <1>0, <2>3, <2>5, <2>6, <2>7, WindowStep
<1>12. CASE AdminAbandon(a)
  <2>1. Idle.at = "idle"
    BY DEF Idle
  <2> QED
    BY <1>0, <1>1, <1>12, <2>1 DEF AdminAbandon, AdminMoves
<1> QED
  BY <1>2, <1>3, <1>4, <1>5, <1>6, <1>7, <1>8, <1>9, <1>10, <1>11, <1>12 DEF AdminStep, Batch

\* At first every ciphertext is under the one key there is.
LEMMA InitWindow == Init => WindowInv
BY IdleHolds DEF Init, WindowInv, AlwaysReadable

\* Inside the maintenance window every step keeps what may be read readable.
LEMMA NextWindow ==
  ASSUME MaintenanceWindow
  PROVE  KeyInv /\ WindowInv /\ [Next]_vars => WindowInv'
<1> SUFFICES ASSUME KeyInv, WindowInv, [Next]_vars PROVE WindowInv'
  OBVIOUS
<1>1. CASE UNCHANGED vars
  BY <1>1 DEF vars, recordVars, WindowInv, AlwaysReadable, Loadable, Opens, WriterOK, BatchOK,
              Unfinished, NoAdmins, References
<1> QED
  BY <1>1, WindowWriterStep, WindowAdminStep DEF Next

\* Inside the maintenance window both invariants hold in every reachable state.
LEMMA WindowInvariant ==
  ASSUME MaintenanceWindow
  PROVE  Spec => [](KeyInv /\ WindowInv)
BY InitKeys, NextKeys, InitWindow, NextWindow, PTL DEF Spec

\* Within the maintenance window of docs/operations.md, every ciphertext opens with key
\* material that exists, at every moment of a rotation, whatever rival administrators do
\* and wherever their requests are cut off.
THEOREM EverythingReadable ==
  ASSUME MaintenanceWindow
  PROVE  Spec => []AlwaysReadable
<1>1. KeyInv /\ WindowInv => AlwaysReadable
  BY DEF WindowInv
<1> QED
  BY <1>1, WindowInvariant, PTL

\* Within that window, finalize destroys key material only when no ciphertext names it
\* and all ciphertexts open, although it was a step of its own that counted them.
THEOREM DestroysUnused ==
  ASSUME MaintenanceWindow
  PROVE  Spec => DestroyedOnlyUnused
<1>1. KeyInv /\ WindowInv /\ [Next]_vars =>
        [\A v \in DekVersion : key[v] = "ACTIVE" /\ key'[v] = "RETIRED" =>
           \A c \in Records : dek[c] # v /\ (dek[c] # 0 => Opens(c))]_vars
  <2> SUFFICES ASSUME KeyInv, WindowInv, Next,
                      NEW v \in DekVersion, key[v] = "ACTIVE", key'[v] = "RETIRED",
                      NEW c \in Records
               PROVE  dek[c] # v /\ (dek[c] # 0 => Opens(c))
    OBVIOUS
  <2>1. key' # key
    OBVIOUS
  <2>2. PICK a \in Admins : InsertOperation(a) \/ Finalize(a)
    BY <2>1 DEF Next, WriterStep, Admit, WritePrepare, WriteCommit, WriterAbandon,
                AdminStep, Resume, ReadActive, CountRecords, LoadKeys, Batch, ReadBatch, NextTable,
                CommitBatch, EndMigration, Verify, AdminAbandon
  <2>3. admin[a] \in AdminState /\ AdminOK(admin[a]) /\ BatchOK(admin[a])
    BY DEF KeyInv, TypeOK, WindowInv
  <2>4. CASE InsertOperation(a)
    <3>1. PICK t : t = admin[a].job.target
      OBVIOUS
    <3>2. t \in DekVersion
      BY <2>3, <2>4, <3>1 DEF InsertOperation, AdminOK, JobStages
    <3>3. key'[v] \in {"PENDING", key[v]}
      BY <2>4, <3>1, <3>2 DEF InsertOperation, KeyInv, TypeOK
    <3> QED
      BY <3>3
  <2>5. CASE Finalize(a)
    <3>1. PICK j : j = admin[a].job
      OBVIOUS
    <3>2. /\ j.source \in DekVersion /\ j.target \in DekVersion /\ References(j.source) = {}
      BY <2>3, <2>5, <3>1 DEF Finalize, AdminOK, JobStages, Old, BatchOK
    <3>3. key' = [key EXCEPT ![j.source] = "RETIRED", ![j.target] = "ACTIVE"]
      BY <2>5, <3>1 DEF Finalize
    <3>4. v = j.source
      BY <3>2, <3>3 DEF KeyInv, TypeOK
    <3>5. dek[c] # v
      BY <3>2, <3>4 DEF References
    <3> QED
      BY <3>5 DEF WindowInv, AlwaysReadable
  <2> QED
    BY <2>2, <2>4, <2>5
<1> QED
  BY <1>1, WindowInvariant, PTL DEF Spec, DestroyedOnlyUnused

--------------------------------------------------------------------------------
(* The progress of a lone administrator's operation.                            *)

\* The steps of writers: no operation is unfinished.
LEMMA ProgressWriterStep ==
  ASSUME MaintenanceWindow, WindowInv, NEW w \in Writers, WriterStep(w)
  PROVE  ProgressInv'
<1>1. key' = key /\ op' = op /\ admin' = admin
  BY DEF WriterStep, Admit, WritePrepare, WriteCommit, WriterAbandon
<1>2. NoAdmins /\ ~Unfinished
  <2>1. CASE Admit(w)
    BY <2>1 DEF Admit, GuardAdmits
  <2>2. CASE ~Admit(w)
    <3>1. writer[w] # Idle
      BY <2>2 DEF WriterStep, WritePrepare, WriteCommit, WriterAbandon, Idle
    <3> QED
      BY <3>1 DEF WindowInv, WriterOK
  <2> QED
    BY <2>1, <2>2
<1>3. ~Unfinished' /\ \A a \in Admins : admin'[a] = Idle
  BY <1>1, <1>2 DEF Unfinished, NoAdmins
<1> QED
  BY <1>3 DEF ProgressInv, ProgressExact, AloneOK, Idle, JobStages

\* A step of the lone administrator, for what it leaves.
LEMMA ProgressStep ==
  ASSUME SingleAdmin, KeyInv, NEW a \in Admins, NEW r \in AdminState, AdminMoves(a, r),
         ProgressExact', AloneOK(r)'
  PROVE  ProgressInv'
<1>1. admin'[a] = r /\ \A b \in Admins : b = a
  BY AdminMoved DEF KeyInv, TypeOK, SingleAdmin
<1> QED
  BY <1>1 DEF ProgressInv

\* A step that only reads.
LEMMA ProgressRead ==
  ASSUME SingleAdmin, KeyInv, ProgressInv, NEW a \in Admins, NEW r \in AdminState,
         AdminMoves(a, r), UNCHANGED <<key, op, recordVars, writer>>, AloneOK(r)
  PROVE  ProgressInv'
<1>1. key' = key /\ op' = op /\ dek' = dek
  BY DEF recordVars
<1>2. ProgressExact' /\ AloneOK(r)'
  BY <1>1 DEF ProgressInv, ProgressExact, AloneOK, Unfinished, References, JobOf
<1> QED
  BY <1>2, ProgressStep

\* Moving rows from one key to another moves their count.
LEMMA Moved ==
  ASSUME NEW A \in SUBSET Records, NEW B \in SUBSET Records, NEW rows \in SUBSET A, A \cap B = {}
  PROVE  /\ Cardinality(A \ rows) = Cardinality(A) - Cardinality(rows)
         /\ Cardinality(B \cup rows) = Cardinality(B) + Cardinality(rows)
<1>1. IsFiniteSet(A) /\ IsFiniteSet(B) /\ IsFiniteSet(rows) /\ rows \subseteq Records
  BY CountRecordsType
<1>2. A \cap rows = rows /\ B \cap rows = {}
  OBVIOUS
<1>3. Cardinality(A \ rows) = Cardinality(A) - Cardinality(A \cap rows)
  BY <1>1, FS_Difference
<1>4. Cardinality(B \cup rows) = Cardinality(B) + Cardinality(rows) - Cardinality(B \cap rows)
  BY <1>1, FS_Union
<1>5. Cardinality(B) \in Nat /\ Cardinality(rows) \in Nat
  BY <1>1, CountRecordsType
<1>6. Cardinality({}) = 0
  BY FS_EmptySet
<1>7. Cardinality(A \ rows) = Cardinality(A) - Cardinality(rows)
  BY <1>2, <1>3
<1>8. Cardinality(B \cup rows) = Cardinality(B) + Cardinality(rows) - 0
  BY <1>2, <1>4, <1>6
<1> QED
  BY <1>5, <1>7, <1>8

\* The steps of the administrator.
LEMMA ProgressAdminStep ==
  ASSUME MaintenanceWindow, SingleAdmin, KeyInv, WindowInv, ProgressInv,
         NEW a \in Admins, AdminStep(a)
  PROVE  ProgressInv'
<1> DEFINE Same == UNCHANGED <<key, op, recordVars, writer>>
<1>0. /\ admin[a] \in AdminState /\ AdminOK(admin[a]) /\ AloneOK(admin[a])
      /\ admin' \in [Admins -> AdminState]
  BY KeyAdminStep DEF KeyInv, TypeOK, ProgressInv
<1>r. PICK r : r = admin'[a]
  OBVIOUS
<1>s. r \in AdminState /\ AdminOK(r)'
  BY <1>0, <1>r, KeyAdminStep DEF KeyInv
\* A stage that goes on with the job of the operation.
<1>1. ASSUME NEW s, AdminMoves(a, s), s.at \in JobStages \ {"counted"},
             admin[a].at \in JobStages \ {"counted"}, s.job = admin[a].job, Same
      PROVE  ProgressInv'
  <2>1. s = r
    BY <1>1, <1>0, <1>r DEF AdminMoves, KeyInv, TypeOK
  <2>2. AloneOK(s)
    BY <1>0, <1>1 DEF AloneOK, JobStages
  <2> QED
    BY <1>s, <1>1, <2>1, <2>2, ProgressRead
<1>2. CASE Resume(a)
  <2>1. PICK s : s = [at |-> "started", job |-> JobOf(op)]
    OBVIOUS
  <2>2. AdminMoves(a, s) /\ Same /\ Unfinished /\ s = r
    BY <1>2, <1>r, <2>1 DEF Resume, AdminMoves, KeyInv, TypeOK
  <2>3. AloneOK(s)
    BY <2>1, <2>2 DEF AloneOK
  <2> QED
    BY <1>s, <2>2, <2>3, ProgressRead
<1>3. CASE ReadActive(a)
  <2>1. PICK s : s = [at |-> "active", source |-> ActiveDek]
    OBVIOUS
  <2>2. AdminMoves(a, s) /\ Same /\ s = r
    BY <1>3, <1>r, <2>1 DEF ReadActive, AdminMoves, KeyInv, TypeOK
  <2>3. AloneOK(s)
    BY <2>1, ActiveKey DEF AloneOK, JobStages
  <2> QED
    BY <1>s, <2>2, <2>3, ProgressRead
<1>4. CASE CountRecords(a)
  <2>1. PICK v : v = admin[a].source
    OBVIOUS
  <2>2. PICK j : j = [source |-> v, target |-> NextDek, total |-> Cardinality(References(v))]
    OBVIOUS
  <2>3. PICK s : s = [at |-> "counted", job |-> j]
    OBVIOUS
  <2>4. AdminMoves(a, s) /\ Same /\ s = r
    BY <1>4, <1>r, <2>1, <2>2, <2>3 DEF CountRecords, AdminMoves, KeyInv, TypeOK
  <2>5. key[v] = "ACTIVE"
    BY <1>0, <1>4, <2>1 DEF CountRecords, AloneOK
  <2>6. AloneOK(s)
    BY <2>2, <2>3, <2>5 DEF AloneOK
  <2> QED
    BY <1>s, <2>4, <2>6, ProgressRead
<1>5. CASE InsertOperation(a)
  <2>1. PICK j : j = admin[a].job
    OBVIOUS
  <2>2. PICK s : s = [at |-> "started", job |-> j]
    OBVIOUS
  <2>3. /\ j \in Job /\ j.source \in DekVersion /\ j.target \in DekVersion
        /\ key[j.source] = "ACTIVE" /\ j.total = Cardinality(References(j.source))
    BY <1>0, <1>5, <2>1, AdminKinds DEF InsertOperation, AdminOK, AloneOK, JobStages, Old
  <2>4. /\ key[j.target] = "NONE" /\ key' = [key EXCEPT ![j.target] = "PENDING"]
        /\ op' = [status |-> "MIGRATING", source |-> j.source, target |-> j.target,
                  total |-> j.total, processed |-> 0]
        /\ AdminMoves(a, s) /\ dek' = dek /\ s = r
    BY <1>5, <1>r, <2>1, <2>2
       DEF InsertOperation, SlotFree, AdminMoves, recordVars, KeyInv, TypeOK
  <2>5. key'[j.source] = "ACTIVE"
    BY <2>3, <2>4 DEF KeyInv, TypeOK
  <2>6. References(j.target) = {}
    BY <2>3, <2>4 DEF WindowInv, AlwaysReadable, Loadable, References, DekVersion
  <2>7. Cardinality(References(j.target)) = 0
    BY <2>6, FS_EmptySet
  <2>8. j.total \in Nat
    BY <2>3, JobFields
  <2>9. ProgressExact'
    BY <2>3, <2>4, <2>5, <2>7, <2>8 DEF ProgressExact, References
  <2>10. Unfinished' /\ JobOf(op)' = j
    BY <2>3, <2>4 DEF Unfinished, JobOf, Job
  <2>11. AloneOK(s)'
    BY <2>2, <2>10 DEF AloneOK
  <2> QED
    BY <1>s, <2>4, <2>9, <2>11, ProgressStep
<1>6. CASE LoadKeys(a)
  <2>1. PICK s : s = [at |-> "migrating", job |-> admin[a].job, table |-> 1]
    OBVIOUS
  <2> QED
    BY <1>1, <1>6, <2>1 DEF LoadKeys, AdminMoves, JobStages
<1>7. ASSUME NEW rows \in SUBSET Records, ReadBatch(a, rows) PROVE ProgressInv'
  <2>1. PICK s : s = [at |-> "batch", job |-> admin[a].job, rows |-> rows,
                      read |-> [c \in Records |-> IF c \in rows THEN ver[c] ELSE 0]]
    OBVIOUS
  <2> QED
    BY <1>1, <1>7, <2>1 DEF ReadBatch, AdminMoves, JobStages
<1>8. CASE NextTable(a)
  <2>1. PICK h : h = admin[a]
    OBVIOUS
  <2>2. PICK s : s = [h EXCEPT !.table = h.table + 1]
    OBVIOUS
  <2>3. h \in [at : {"migrating"}, job : Job, table : 1..3]
    BY <1>0, <1>8, <2>1 DEF AdminState, Idle, NextTable
  <2>4. s.at = h.at /\ s.job = h.job
    BY <2>2, <2>3
  <2> QED
    BY <1>1, <1>8, <2>1, <2>2, <2>3, <2>4 DEF NextTable, AdminMoves, JobStages
<1>9. CASE CommitBatch(a)
  <2>1. PICK h : h = admin[a]
    OBVIOUS
  <2>2. PICK n : n = Cardinality(h.rows)
    OBVIOUS
  <2>3. PICK s : s = [at |-> "migrating", job |-> h.job, table |-> 1]
    OBVIOUS
  <2>4. /\ h.at = "batch" /\ h.rows \subseteq Records /\ Unfinished /\ h.job = JobOf(op)
        /\ \A c \in h.rows : dek[c] = h.job.source
    BY <1>0, <1>9, <2>1, AdminKinds DEF CommitBatch, AloneOK, JobStages, StillOldKey
  <2>5. h.job.source = op.source /\ h.job.target = op.target
    BY <2>4 DEF JobOf
  <2>6. /\ dek' = [c \in Records |-> IF c \in h.rows THEN op.target ELSE dek[c]]
        /\ op' = [op EXCEPT !.processed = op.processed + n]
        /\ AdminMoves(a, s) /\ key' = key /\ s = r
    BY <1>9, <1>r, <2>1, <2>2, <2>3, <2>5 DEF CommitBatch, AdminMoves, KeyInv, TypeOK
  <2>7. /\ op \in Operation /\ op.processed \in Nat /\ op.total \in Nat
        /\ op.source \in DekVersion /\ op.target \in DekVersion
    BY <2>4 DEF KeyInv, TypeOK, KeysOK, Old, Operation
  <2>8. /\ op'.status = op.status /\ op'.source = op.source /\ op'.target = op.target
        /\ op'.total = op.total /\ op'.processed = op.processed + n
    BY <2>6, <2>7 DEF Operation
  <2>9. Unfinished' /\ JobOf(op)' = JobOf(op)
    BY <2>4, <2>8 DEF Unfinished, JobOf
  <2>10. /\ key[op.source] = "ACTIVE" /\ op.processed = Cardinality(References(op.target))
         /\ op.total = op.processed + Cardinality(References(op.source))
    BY <2>4 DEF ProgressInv, ProgressExact
  <2>11. key[op.target] = "PENDING"
    BY <2>4, <2>7 DEF KeyInv, KeysOK, KeysFollowOperation
  <2>12. PICK A : A = References(op.source)
    OBVIOUS
  <2>13. PICK B : B = References(op.target)
    OBVIOUS
  <2>14. A \in SUBSET Records /\ B \in SUBSET Records /\ h.rows \in SUBSET A /\ A \cap B = {}
    BY <2>4, <2>5, <2>10, <2>11, <2>12, <2>13 DEF References
  <2>15. References(op.source)' = A \ h.rows /\ References(op.target)' = B \cup h.rows
    BY <2>6, <2>8, <2>10, <2>11, <2>12, <2>13, <2>14 DEF References
  <2>16. /\ Cardinality(A \ h.rows) = Cardinality(A) - n
         /\ Cardinality(B \cup h.rows) = Cardinality(B) + n
    BY <2>2, <2>14, Moved
  <2>17. Cardinality(A) \in Nat /\ Cardinality(B) \in Nat /\ n \in Nat
    BY <2>2, <2>4, <2>14, CountRecordsType
  <2>18. ProgressExact'
    <3>1. op.processed = Cardinality(B) /\ op.total = op.processed + Cardinality(A)
      BY <2>10, <2>12, <2>13
    <3>2. op'.processed = Cardinality(B \cup h.rows)
      BY <2>8, <2>16, <3>1
    <3>3. op'.total = op'.processed + Cardinality(A \ h.rows)
      BY <2>8, <2>16, <2>17, <3>1
    <3>4. key'[op'.source] = "ACTIVE"
      BY <2>6, <2>8, <2>10
    <3> QED
      BY <2>15, <3>2, <3>3, <3>4 DEF ProgressExact, References
  <2>19. AloneOK(s)'
    BY <2>3, <2>4, <2>9 DEF AloneOK
  <2> QED
    BY <1>s, <2>6, <2>18, <2>19, ProgressStep
<1>10. CASE EndMigration(a)
  <2>1. PICK j : j = admin[a].job
    OBVIOUS
  <2>2. PICK s : s = [at |-> "passed", job |-> j]
    OBVIOUS
  <2>3. Unfinished /\ j = JobOf(op)
    BY <1>0, <1>10, <2>1 DEF EndMigration, AloneOK, JobStages
  <2>4. /\ op' = IF op.target = j.target /\ op.status = "MIGRATING"
                 THEN [op EXCEPT !.status = "VERIFYING"] ELSE op
        /\ AdminMoves(a, s) /\ key' = key /\ dek' = dek /\ s = r
    BY <1>10, <1>r, <2>1, <2>2 DEF EndMigration, AdminMoves, recordVars, KeyInv, TypeOK
  <2>5. op \in Operation
    BY DEF KeyInv, TypeOK
  <2>6. /\ Unfinished' /\ op'.source = op.source /\ op'.target = op.target
        /\ op'.total = op.total /\ op'.processed = op.processed
    BY <2>3, <2>4, <2>5 DEF Operation, Unfinished
  <2>7. ProgressExact'
    BY <2>3, <2>4, <2>6 DEF ProgressInv, ProgressExact, References
  <2>8. AloneOK(s)'
    BY <2>2, <2>3, <2>6 DEF AloneOK, JobOf
  <2> QED
    BY <1>s, <2>4, <2>7, <2>8, ProgressStep
<1>11. CASE Verify(a)
  <2>1. PICK s : s = [at |-> "verified", job |-> admin[a].job]
    OBVIOUS
  <2> QED
    BY <1>1, <1>11, <2>1 DEF Verify, AdminMoves, JobStages
<1>12. CASE Finalize(a)
  <2>1. AdminMoves(a, Idle) /\ op' = [op EXCEPT !.status = "COMPLETED", !.processed = admin[a].job.total]
    BY <1>12 DEF Finalize, CompleteOperation, AdminMoves
  <2>2. ~Unfinished'
    BY <2>1 DEF Unfinished, KeyInv, TypeOK, Operation
  <2>3. Idle \in AdminState /\ AloneOK(Idle)' /\ ProgressExact'
    BY <2>2 DEF AdminState, AloneOK, Idle, JobStages, ProgressExact
  <2> QED
    BY <2>1, <2>3, ProgressStep
<1>13. CASE AdminAbandon(a)
  <2>1. Idle \in AdminState /\ AloneOK(Idle)
    BY DEF AdminState, AloneOK, Idle, JobStages
  <2> QED
    BY <1>13, <2>1, ProgressRead DEF AdminAbandon, AdminMoves
<1> QED
  BY <1>2, <1>3, <1>4, <1>5, <1>6, <1>7, <1>8, <1>9, <1>10, <1>11, <1>12, <1>13 DEF AdminStep, Batch

\* At first no operation has progress to report.
LEMMA InitProgress == Init => ProgressInv
BY DEF Init, ProgressInv, ProgressExact, Unfinished, AloneOK, Idle, JobStages

\* With one administrator inside the window every step keeps the progress exact.
LEMMA NextProgress ==
  ASSUME MaintenanceWindow, SingleAdmin
  PROVE  KeyInv /\ WindowInv /\ ProgressInv /\ [Next]_vars => ProgressInv'
<1> SUFFICES ASSUME KeyInv, WindowInv, ProgressInv, [Next]_vars PROVE ProgressInv'
  OBVIOUS
<1>1. CASE UNCHANGED vars
  BY <1>1 DEF vars, recordVars, ProgressInv, ProgressExact, Unfinished, References, AloneOK, JobOf
<1> QED
  BY <1>1, ProgressWriterStep, ProgressAdminStep DEF Next

\* A lone administrator's operation is exact across timeouts and resumptions: it
\* replaces the active key, counts every record it moved once, and leaves the rest.
THEOREM ProgressIsExact ==
  ASSUME MaintenanceWindow, SingleAdmin
  PROVE  Spec => []ProgressExact
<1>1. ProgressInv => ProgressExact
  BY DEF ProgressInv
<1> QED
  BY <1>1, InitKeys, NextKeys, InitWindow, NextWindow, InitProgress, NextProgress, PTL DEF Spec

================================================================================
