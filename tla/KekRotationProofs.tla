---------------------------- MODULE KekRotationProofs ----------------------------
(***************************************************************************)
(* Proofs about KekRotation, for any master keys, environments, accounts   *)
(* and number of concurrent requests.                                      *)
(*                                                                         *)
(* The argument: whoever seals something with the primary key found it     *)
(* active before, and it stays active for the life of the process.  While  *)
(* it is not active nothing writes but the KEK rotation that makes it so,  *)
(* so that rotation finds at its commit the rows it has read.              *)
(***************************************************************************)
EXTENDS KekRotation, SequenceTheorems, TLAPS

\* A sealed row is under the active KEK and its master key.
UnderActive(d, row) == row.kek = ActiveKek(d) /\ row.by = ActiveMaster(d)

\* What a database holds is sealed under its active master key, a pending key belongs
\* to an unfinished operation, and before the first start there is nothing.
Sound(d) ==
  /\ \A e \in Environments :
       /\ d.active[e] # None => d.registry # << >> /\ UnderActive(d, d.active[e])
       /\ d.pending[e] # None => d.registry # << >> /\ UnderActive(d, d.pending[e])
       /\ d.pending[e] # None => e \in d.operations
  /\ \A u \in Users : d.seed[u] # None => d.registry # << >> /\ UnderActive(d, d.seed[u])

PrimaryActiveStages == {"admitted", "seal", "seed", "dek", "resumed", "wrapped", "rotated",
                        "verify"}
RotationStages == {"source", "deks", "seeds", "commit"}

\* A KEK rotation whose source is still the active version has seen all there is.
SourceUnmoved(r) ==
  /\ ActiveMaster(db) # server.primary
  /\ r.at # "source" => db.operations = {}
  /\ r.at \in {"seeds", "commit"} => r.active = db.active
  /\ r.at = "commit" => r.seed = db.seed

\* A request holds what its stage has read; requests run only while a process does.
RequestOK(r) ==
  /\ r # Idle => server # None
  /\ r.at \in PrimaryActiveStages => ActiveMaster(db) = server.primary
  /\ r.at = "seed" => r.kek = ActiveKek(db)
  /\ r.at \in {"dek", "resumed", "wrapped"} => db.active[r.env] # None
  /\ r.at = "wrapped" => UnderActive(db, r.row)
  /\ r.at \in RotationStages =>
       r.source <= ActiveKek(db) /\ (r.source = ActiveKek(db) => SourceUnmoved(r))

\* A running process has mounted the active master key.
ServerOK ==
  server # None => server.ready /\ db.registry # << >> /\ ActiveMaster(db) \in Mounted(server)

SavedOK == saved # None => Sound(saved)

\* The inductive invariant.
IInv ==
  /\ TypeOK
  /\ Sound(db) /\ SavedOK /\ ServerOK
  /\ \A w \in Workers : RequestOK(request[w])

--------------------------------------------------------------------------------
(* Facts about rows and requests.                                               *)

\* The stage of a request tells which record it is.
LEMMA RequestKinds ==
  ASSUME NEW r \in Request
  PROVE  /\ r.at \in {"seal", "seed"} => r.user \in Users
         /\ r.at = "seed" => r.kek \in Nat
         /\ r.at \in {"dek", "resumed", "wrapped", "rotated"} => r.env \in Environments
         /\ r.at = "resumed" => r.n \in 1..MaxDek
         /\ r.at = "wrapped" => r.row \in DekRow
         /\ r.at \in {"source", "deks", "seeds", "commit", "verify"} => r.source \in Nat
         /\ r.at \in {"seeds", "commit"} => r.active \in [Environments -> DekRow \cup {None}]
         /\ r.at = "commit" => r.seed \in [Users -> Sealed \cup {None}]
BY DEF Request, Idle, GuardedRequest, EnrolRequest, DekRequest, KekRequest

\* The fields of a database.
LEMMA DatabaseTypes ==
  ASSUME NEW d \in Database
  PROVE  /\ d.registry \in Seq(MasterKeys) /\ ActiveKek(d) \in Nat
         /\ d.active \in [Environments -> DekRow \cup {None}]
         /\ d.pending \in [Environments -> DekRow \cup {None}]
         /\ d.operations \subseteq Environments
         /\ d.seed \in [Users -> Sealed \cup {None}]
BY DEF Database, ActiveKek

\* The active master key of a registry that is not empty.
LEMMA ActiveMasterType ==
  ASSUME NEW d \in Database, d.registry # << >>
  PROVE  ActiveMaster(d) \in MasterKeys /\ ActiveKek(d) \in 1..Len(d.registry)
<1>1. d.registry \in Seq(MasterKeys)
  BY DatabaseTypes
<1>2. Len(d.registry) \in Nat \ {0}
  BY <1>1
<1> QED
  BY <1>1, <1>2 DEF ActiveMaster, ActiveKek

\* What is sealed under the active master key, a process that mounts it opens.
LEMMA SoundOpens ==
  ASSUME NEW d, Sound(d), NEW s, ActiveMaster(d) \in Mounted(s)
  PROVE  KeysOpen(d, s) /\ SeedsOpen(d, s)
BY DEF Sound, UnderActive, KeysOpen, SeedsOpen, Opens

\* The requests after one of them moves on to r.
LEMMA Forwarded ==
  ASSUME request \in [Workers -> Request], NEW w \in Workers, NEW r \in Request, Forward(w, r)
  PROVE  /\ request' \in [Workers -> Request]
         /\ request'[w] = r
         /\ \A v \in Workers \ {w} : request'[v] = request[v]
BY DEF Forward

\* A request that is over asks for nothing.
LEMMA IdleOK == RequestOK(Idle) /\ Idle \in Request
BY DEF RequestOK, Idle, PrimaryActiveStages, RotationStages, Request

--------------------------------------------------------------------------------
(* One lemma per kind of step.                                                  *)

\* A step that only reads.
LEMMA ReadStep ==
  ASSUME IInv, NEW w \in Workers, NEW r \in Request, Read(w, r), RequestOK(r)
  PROVE  IInv'
<1>1. /\ request' \in [Workers -> Request] /\ request'[w] = r
      /\ \A v \in Workers \ {w} : request'[v] = request[v]
      /\ UNCHANGED <<db, saved, server>>
  BY Forwarded DEF Read, IInv, TypeOK
<1>2. TypeOK' /\ Sound(db)' /\ SavedOK' /\ ServerOK'
  BY <1>1 DEF IInv, TypeOK, Sound, SavedOK, ServerOK, UnderActive
<1>3. ASSUME NEW v \in Workers PROVE RequestOK(request[v])'
  <2>1. RequestOK(request'[v])
    BY <1>1 DEF IInv
  <2> QED
    BY <1>1, <2>1 DEF RequestOK, SourceUnmoved, UnderActive
<1> QED
  BY <1>2, <1>3 DEF IInv

\* A write of a request that found the primary key active: no KEK rotation that could
\* still commit is in flight, and the registry stays.
LEMMA PrimaryWrite ==
  ASSUME IInv, NEW w \in Workers, NEW r \in Request, Forward(w, r),
         request[w].at \in PrimaryActiveStages,
         NEW d \in Database, db' = d, d.registry = db.registry, Sound(d),
         \A e \in Environments : db.active[e] # None => d.active[e] # None,
         saved' = saved,
         NEW s \in Process, server' = s, s.primary = server.primary,
         s.previous = server.previous, s.ready,
         r.at \notin {"seed", "wrapped"},
         r.at \in {"dek", "resumed"} => d.active[r.env] # None,
         r.at \notin RotationStages
  PROVE  IInv'
<1>1. /\ request' \in [Workers -> Request] /\ request'[w] = r
      /\ \A v \in Workers \ {w} : request'[v] = request[v]
  BY Forwarded DEF IInv, TypeOK
<1>2. /\ RequestOK(request[w]) /\ request[w] # Idle /\ server # None
      /\ ActiveMaster(db) = server.primary
  BY DEF IInv, RequestOK, PrimaryActiveStages, Idle
<1>3. ActiveMaster(d) = ActiveMaster(db) /\ ActiveKek(d) = ActiveKek(db)
  BY DEF ActiveMaster, ActiveKek
<1>4. TypeOK'
  BY <1>1 DEF IInv, TypeOK
<1>5. ServerOK'
  BY <1>2, <1>3 DEF IInv, ServerOK, Mounted
<1>6. Sound(db)' /\ SavedOK'
  BY DEF IInv, Sound, SavedOK, UnderActive
<1>7. s # None
  BY AbsenceAssumption
<1>8. ASSUME NEW v \in Workers, v # w PROVE RequestOK(request[v])'
  <2>1. PICK q : q = request[v]
    OBVIOUS
  <2>2. RequestOK(q) /\ q \in Request /\ request'[v] = q
    BY <1>1, <1>8, <2>1 DEF IInv, TypeOK
  <2>3. q.at \in RotationStages => q.source <= ActiveKek(db) /\ q.source # ActiveKek(db)
    BY <1>2, <2>2 DEF RequestOK, SourceUnmoved
  <2>4. q.at \in {"dek", "resumed", "wrapped"} => d.active[q.env] # None
    BY <2>2, RequestKinds DEF RequestOK
  <2> QED
    BY <1>2, <1>3, <1>7, <2>2, <2>3, <2>4 DEF RequestOK, UnderActive
<1>9. RequestOK(request[w])'
  BY <1>1, <1>2, <1>3, <1>7 DEF RequestOK
<1> QED
  BY <1>4, <1>5, <1>6, <1>8, <1>9 DEF IInv
\* Admission and the reads of enrolment.
LEMMA ReadingSteps ==
  ASSUME IInv, NEW w \in Workers,
         Admit(w) \/ (\E u \in Users : EnrolStart(w, u)) \/ EnrolVersion(w) \/ Abandon(w)
         \/ \E e \in Environments : DekStart(w, e)
  PROVE  IInv'
<1>1. request[w] \in Request /\ RequestOK(request[w]) /\ db \in Database
  BY DEF IInv, TypeOK
<1>2. CASE Admit(w)
  <2>1. PICK r : r = [at |-> "admitted"]
    OBVIOUS
  <2>2. r \in Request
    BY <2>1 DEF Request, GuardedRequest
  <2>3. RequestOK(r)
    BY <1>2, <2>1 DEF Admit, WriteBlocked, RequestOK, PrimaryActiveStages, RotationStages
  <2> QED
    BY <1>2, <2>1, <2>2, <2>3, ReadStep DEF Admit
<1>3. ASSUME NEW u \in Users, EnrolStart(w, u) PROVE IInv'
  <2>1. PICK r : r = [at |-> "seal", user |-> u]
    OBVIOUS
  <2>2. r \in Request
    BY <2>1 DEF Request, EnrolRequest
  <2>3. RequestOK(r)
    BY <1>3, <2>1 DEF EnrolStart, MayEnrol, RequestOK, PrimaryActiveStages, RotationStages
  <2> QED
    BY <1>3, <2>1, <2>2, <2>3, ReadStep DEF EnrolStart
<1>4. CASE EnrolVersion(w)
  <2>1. PICK r : r = [at |-> "seed", user |-> request[w].user, kek |-> ActiveKek(db)]
    OBVIOUS
  <2>2. request[w].at = "seal" /\ request[w].user \in Users
    BY <1>1, <1>4, RequestKinds DEF EnrolVersion
  <2>3. r \in Request
    BY <1>1, <2>1, <2>2, DatabaseTypes DEF Request, EnrolRequest
  <2>4. server # None /\ ActiveMaster(db) = server.primary
    BY <1>1, <2>2 DEF RequestOK, PrimaryActiveStages, Idle
  <2>5. RequestOK(r)
    BY <2>1, <2>4 DEF RequestOK, RotationStages
  <2> QED
    BY <1>4, <2>1, <2>3, <2>5, ReadStep DEF EnrolVersion
<1>5. CASE Abandon(w)
  BY <1>5, IdleOK, ReadStep DEF Abandon
<1>6. ASSUME NEW e \in Environments, DekStart(w, e) PROVE IInv'
  <2>1. PICK r : r = [at |-> "dek", env |-> e]
    OBVIOUS
  <2>2. r \in Request
    BY <2>1 DEF Request, DekRequest
  <2>3. RequestOK(r)
    BY <1>6, <2>1 DEF DekStart, PrimaryActive, RequestOK, PrimaryActiveStages, RotationStages
  <2> QED
    BY <1>6, <2>1, <2>2, <2>3, ReadStep DEF DekStart
<1> QED
  BY <1>2, <1>3, <1>4, <1>5, <1>6

\* What a request that found the primary key active still knows.
LEMMA PrimaryFacts ==
  ASSUME IInv, NEW w \in Workers, request[w].at \in PrimaryActiveStages
  PROVE  /\ db \in Database /\ Sound(db) /\ request[w] \in Request /\ RequestOK(request[w])
         /\ server # None /\ server \in Process /\ server.ready
         /\ db.registry # << >> /\ ActiveMaster(db) = server.primary
         /\ server.primary \in MasterKeys
         /\ saved = None \/ saved \in Database
         /\ ActiveKek(db) \in Nat
<1>1. request[w] \in Request /\ RequestOK(request[w]) /\ request[w] # Idle /\ db \in Database
  BY DEF IInv, TypeOK, PrimaryActiveStages, Idle
<1> QED
  BY <1>1, DatabaseTypes DEF IInv, TypeOK, ServerOK, RequestOK, Process

\* A row sealed now, under the active version, is sealed under the active key.
LEMMA SealedNow ==
  ASSUME NEW d \in Database, server \in Process, ActiveMaster(d) = server.primary
  PROVE  /\ Seal(ActiveKek(d)) \in Sealed /\ UnderActive(d, Seal(ActiveKek(d)))
         /\ \A n \in 1..MaxDek : /\ SealDek(ActiveKek(d), n) \in DekRow
                                 /\ UnderActive(d, SealDek(ActiveKek(d), n))
BY DatabaseTypes DEF Seal, SealDek, Sealed, DekRow, UnderActive, Process

\* A new environment gets a key under the active master key, a TOTP seed may go.
LEMMA CreateEnvironmentStep ==
  ASSUME IInv, NEW w \in Workers, NEW e \in Environments, CreateEnvironment(w, e)
  PROVE  IInv'
<1>1. PICK row : row = SealDek(ActiveKek(db), 1)
  OBVIOUS
<1>2. PICK d : d = [db EXCEPT !.active[e] = row]
  OBVIOUS
<1>3. request[w].at = "admitted" /\ request[w].at \in PrimaryActiveStages
  BY DEF CreateEnvironment, PrimaryActiveStages
<1>4. /\ db \in Database /\ Sound(db) /\ server \in Process /\ server.ready
      /\ db.registry # << >> /\ ActiveMaster(db) = server.primary
  BY <1>3, PrimaryFacts
<1>5. row \in DekRow /\ UnderActive(db, row) /\ row # None
  BY <1>1, <1>4, SealedNow, KekAssumption, AbsenceAssumption
<1>6. /\ d \in Database /\ d.registry = db.registry /\ d.pending = db.pending
      /\ d.operations = db.operations /\ d.seed = db.seed
      /\ d.active[e] = row /\ \A f \in Environments \ {e} : d.active[f] = db.active[f]
  BY <1>2, <1>4, <1>5 DEF Database
<1>7. ActiveMaster(d) = ActiveMaster(db) /\ ActiveKek(d) = ActiveKek(db)
  BY <1>6 DEF ActiveMaster, ActiveKek
<1>8. Sound(d)
  BY <1>4, <1>5, <1>6, <1>7 DEF Sound, UnderActive
<1>9. \A f \in Environments : db.active[f] # None => d.active[f] # None
  BY <1>5, <1>6
<1>10. db' = d /\ Forward(w, Idle) /\ UNCHANGED <<saved, server>>
  BY <1>1, <1>2 DEF CreateEnvironment, Write
<1>11. /\ Idle \in Request /\ Idle.at \notin {"seed", "wrapped"}
       /\ Idle.at \notin {"dek", "resumed"} /\ Idle.at \notin RotationStages
  BY IdleOK DEF Idle, RotationStages
<1> QED
  BY <1>3, <1>4, <1>6, <1>8, <1>9, <1>10, <1>11, PrimaryWrite

\* The writes of TOTP seeds.
LEMMA SeedWrite ==
  ASSUME IInv, NEW w \in Workers, request[w].at \in PrimaryActiveStages,
         NEW u \in Users, NEW row \in Sealed \cup {None},
         row # None => UnderActive(db, row),
         Write(w, [db EXCEPT !.seed[u] = row])
  PROVE  IInv'
<1>1. PICK d : d = [db EXCEPT !.seed[u] = row]
  OBVIOUS
<1>2. /\ db \in Database /\ Sound(db) /\ server \in Process /\ server.ready
      /\ db.registry # << >>
  BY PrimaryFacts
<1>3. /\ d \in Database /\ d.registry = db.registry /\ d.pending = db.pending
      /\ d.operations = db.operations /\ d.active = db.active
      /\ d.seed[u] = row /\ \A v \in Users \ {u} : d.seed[v] = db.seed[v]
  BY <1>1, <1>2 DEF Database
<1>4. ActiveMaster(d) = ActiveMaster(db) /\ ActiveKek(d) = ActiveKek(db)
  BY <1>3 DEF ActiveMaster, ActiveKek
<1>5. Sound(d)
  BY <1>2, <1>3, <1>4 DEF Sound, UnderActive
<1>6. db' = d /\ Forward(w, Idle) /\ UNCHANGED <<saved, server>>
  BY <1>1 DEF Write
<1>7. /\ Idle \in Request /\ Idle.at \notin {"seed", "wrapped"}
      /\ Idle.at \notin {"dek", "resumed"} /\ Idle.at \notin RotationStages
  BY IdleOK DEF Idle, RotationStages
<1> QED
  BY <1>2, <1>3, <1>5, <1>6, <1>7, PrimaryWrite

\* Enrolment writes the seed under the version it read, which is still the active one.
LEMMA SeedSteps ==
  ASSUME IInv, NEW w \in Workers, EnrolWrite(w) \/ \E u \in Users : ResetTotp(w, u)
  PROVE  IInv'
<1>1. ASSUME NEW u \in Users, ResetTotp(w, u) PROVE IInv'
  BY <1>1, SeedWrite DEF ResetTotp, PrimaryActiveStages
<1>2. CASE EnrolWrite(w)
  <2>1. PICK u : u = request[w].user
    OBVIOUS
  <2>2. request[w].at = "seed" /\ request[w].at \in PrimaryActiveStages
    BY <1>2 DEF EnrolWrite, PrimaryActiveStages
  <2>3. /\ db \in Database /\ server \in Process /\ ActiveMaster(db) = server.primary
        /\ u \in Users /\ request[w].kek = ActiveKek(db)
    BY <2>1, <2>2, PrimaryFacts, RequestKinds DEF RequestOK
  <2>4. CASE db.seed[u] = None
    <3>1. Write(w, [db EXCEPT !.seed[u] = Seal(ActiveKek(db))])
      BY <1>2, <2>1, <2>3, <2>4 DEF EnrolWrite
    <3> QED
      BY <2>2, <2>3, <3>1, SealedNow, SeedWrite
  <2>5. CASE db.seed[u] # None
    <3>1. Read(w, Idle)
      BY <1>2, <2>1, <2>5 DEF EnrolWrite, Write, Read
    <3> QED
      BY <3>1, IdleOK, ReadStep
  <2> QED
    BY <2>4, <2>5
<1> QED
  BY <1>1, <1>2
\* An operation is resumed, or a new key wrapped under the version of the old one.
LEMMA DekPrepareStep ==
  ASSUME IInv, NEW w \in Workers, DekPrepare(w)
  PROVE  IInv'
<1>1. PICK e : e = request[w].env
  OBVIOUS
<1>2. PICK old : old = db.active[e]
  OBVIOUS
<1>3. request[w].at = "dek" /\ request[w].at \in PrimaryActiveStages
  BY DEF DekPrepare, PrimaryActiveStages
<1>4. /\ db \in Database /\ Sound(db) /\ server \in Process /\ server # None
      /\ ActiveMaster(db) = server.primary /\ e \in Environments
      /\ old # None /\ old \in DekRow /\ UnderActive(db, old)
  BY <1>1, <1>2, <1>3, PrimaryFacts, RequestKinds, DatabaseTypes DEF RequestOK, Sound
<1>5. CASE Read(w, [at |-> "resumed", env |-> e, n |-> old.n])
  <2>1. PICK r : r = [at |-> "resumed", env |-> e, n |-> old.n]
    OBVIOUS
  <2>2. r \in Request
    BY <1>4, <2>1 DEF Request, DekRequest, DekRow
  <2>3. RequestOK(r)
    BY <1>2, <1>4, <2>1 DEF RequestOK, RotationStages
  <2> QED
    BY <1>5, <2>1, <2>2, <2>3, ReadStep
<1>6. CASE old.n < MaxDek /\ Read(w, [at |-> "wrapped", env |-> e,
                                      row |-> SealDek(old.kek, old.n + 1)])
  <2>1. PICK row : row = SealDek(old.kek, old.n + 1)
    OBVIOUS
  <2>2. PICK r : r = [at |-> "wrapped", env |-> e, row |-> row]
    OBVIOUS
  <2>3. old.n + 1 \in 1..MaxDek /\ old.kek = ActiveKek(db)
    BY <1>4, <1>6, KekAssumption DEF DekRow, UnderActive
  <2>4. row \in DekRow /\ UnderActive(db, row)
    BY <1>4, <2>1, <2>3, SealedNow
  <2>5. r \in Request
    BY <1>4, <2>2, <2>4 DEF Request, DekRequest
  <2>6. RequestOK(r)
    BY <1>2, <1>4, <2>2, <2>4 DEF RequestOK, RotationStages
  <2> QED
    BY <1>6, <2>1, <2>2, <2>5, <2>6, ReadStep
<1> QED
  BY <1>1, <1>2, <1>5, <1>6 DEF DekPrepare

\* The new key becomes pending with its operation.
LEMMA DekInsertStep ==
  ASSUME IInv, NEW w \in Workers, DekInsert(w)
  PROVE  IInv'
<1>1. PICK e : e = request[w].env
  OBVIOUS
<1>2. PICK row : row = request[w].row
  OBVIOUS
<1>3. request[w].at = "wrapped" /\ request[w].at \in PrimaryActiveStages
  BY DEF DekInsert, PrimaryActiveStages
<1>4. /\ db \in Database /\ Sound(db) /\ server \in Process /\ server.ready
      /\ db.registry # << >> /\ e \in Environments /\ row \in DekRow
      /\ UnderActive(db, row) /\ db.active[e] # None /\ db.active[e] \in DekRow
  BY <1>1, <1>2, <1>3, PrimaryFacts, RequestKinds, DatabaseTypes DEF RequestOK
<1>5. PICK d : d = [db EXCEPT !.pending[e] = row, !.operations = db.operations \cup {e}]
  OBVIOUS
<1>6. /\ d \in Database /\ d.registry = db.registry /\ d.active = db.active
      /\ d.operations = db.operations \cup {e} /\ d.seed = db.seed
      /\ d.pending[e] = row /\ \A f \in Environments \ {e} : d.pending[f] = db.pending[f]
  BY <1>4, <1>5 DEF Database
<1>7. ActiveMaster(d) = ActiveMaster(db) /\ ActiveKek(d) = ActiveKek(db)
  BY <1>6 DEF ActiveMaster, ActiveKek
<1>8. Sound(d)
  BY <1>4, <1>6, <1>7 DEF Sound, UnderActive
<1>9. PICK r : r = [at |-> "resumed", env |-> e, n |-> db.active[e].n]
  OBVIOUS
<1>10. r \in Request
  BY <1>4, <1>9 DEF Request, DekRequest, DekRow
<1>11. db' = d /\ Forward(w, r) /\ UNCHANGED <<saved, server>>
  BY <1>1, <1>2, <1>5, <1>9 DEF DekInsert
<1>12. /\ r.at \notin {"seed", "wrapped"} /\ r.at \notin RotationStages
       /\ r.at \in {"dek", "resumed"} => d.active[r.env] # None
  BY <1>4, <1>6, <1>9 DEF RotationStages
<1>13. \A f \in Environments : db.active[f] # None => d.active[f] # None
  BY <1>6
<1> QED
  BY <1>3, <1>4, <1>6, <1>8, <1>10, <1>11, <1>12, <1>13, PrimaryWrite

\* The pending key takes the place of the active one.
LEMMA DekFinalizeStep ==
  ASSUME IInv, NEW w \in Workers, DekFinalize(w)
  PROVE  IInv'
<1>1. PICK e : e = request[w].env
  OBVIOUS
<1>2. PICK row : row = db.pending[e]
  OBVIOUS
<1>3. request[w].at = "resumed" /\ request[w].at \in PrimaryActiveStages
  BY DEF DekFinalize, PrimaryActiveStages
<1>4. /\ db \in Database /\ Sound(db) /\ server \in Process /\ server.ready
      /\ db.registry # << >> /\ e \in Environments /\ row # None /\ row \in DekRow
      /\ UnderActive(db, row)
  BY <1>1, <1>2, <1>3, PrimaryFacts, RequestKinds, DatabaseTypes DEF DekFinalize, Sound
<1>5. PICK d : d = [db EXCEPT !.active[e] = row, !.pending[e] = None,
                              !.operations = db.operations \ {e}]
  OBVIOUS
<1>6. /\ d \in Database /\ d.registry = db.registry
      /\ d.active[e] = row /\ \A f \in Environments \ {e} : d.active[f] = db.active[f]
      /\ d.operations = db.operations \ {e} /\ d.seed = db.seed
      /\ d.pending[e] = None /\ \A f \in Environments \ {e} : d.pending[f] = db.pending[f]
  BY <1>4, <1>5 DEF Database
<1>7. ActiveMaster(d) = ActiveMaster(db) /\ ActiveKek(d) = ActiveKek(db)
  BY <1>6 DEF ActiveMaster, ActiveKek
<1>8. Sound(d)
  BY <1>4, <1>6, <1>7 DEF Sound, UnderActive
<1>9. PICK r : r = [at |-> "rotated", env |-> e]
  OBVIOUS
<1>10. r \in Request
  BY <1>4, <1>9 DEF Request, DekRequest
<1>11. db' = d /\ Forward(w, r) /\ UNCHANGED <<saved, server>>
  BY <1>1, <1>2, <1>5, <1>9 DEF DekFinalize
<1>12. /\ r.at \notin {"seed", "wrapped"} /\ r.at \notin RotationStages
       /\ r.at \in {"dek", "resumed"} => d.active[r.env] # None
  BY <1>9 DEF RotationStages
<1>13. \A f \in Environments : db.active[f] # None => d.active[f] # None
  BY <1>4, <1>6
<1> QED
  BY <1>3, <1>4, <1>6, <1>8, <1>10, <1>11, <1>12, <1>13, PrimaryWrite

\* The verification after a rotation, of either kind, finds everything open.
LEMMA VerifySteps ==
  ASSUME IInv, NEW w \in Workers, DekVerify(w) \/ VerifyKek(w)
  PROVE  IInv'
<1>1. request[w].at \in PrimaryActiveStages
  BY DEF DekVerify, VerifyKek, PrimaryActiveStages
<1>2. /\ db \in Database /\ Sound(db) /\ server \in Process /\ server.ready
      /\ db.registry # << >> /\ ActiveMaster(db) = server.primary
      /\ server.primary \in MasterKeys
  BY <1>1, PrimaryFacts
<1>3. KeysOpen(db, server)
  BY <1>2, SoundOpens, AbsenceAssumption DEF Mounted
<1>4. PrimaryOpensAll(db, server)
  <2>1. PICK s : s = [server EXCEPT !.previous = None]
    OBVIOUS
  <2>2. ActiveMaster(db) \in Mounted(s)
    BY <1>2, <2>1, AbsenceAssumption DEF Process, Mounted
  <2> QED
    BY <1>2, <2>1, <2>2, SoundOpens DEF PrimaryOpensAll
<1>5. server' = server
  BY <1>2, <1>3, <1>4 DEF DekVerify, VerifyKek, Process
<1>6. Read(w, Idle)
  BY <1>5 DEF DekVerify, VerifyKek, Read
<1> QED
  BY <1>6, IdleOK, ReadStep
\* A rotation in flight and its database.
LEMMA RotationFacts ==
  ASSUME IInv, NEW w \in Workers, request[w].at \in RotationStages
  PROVE  /\ db \in Database /\ request[w] \in Request /\ RequestOK(request[w])
         /\ server # None /\ request[w].source \in Nat /\ ActiveKek(db) \in Nat
         /\ request[w].source <= ActiveKek(db)
         /\ request[w].source = ActiveKek(db) => SourceUnmoved(request[w])
<1>1. request[w] \in Request /\ RequestOK(request[w]) /\ request[w] # Idle /\ db \in Database
  BY DEF IInv, TypeOK, RotationStages, Idle
<1>2. request[w].at \in {"source", "deks", "seeds", "commit", "verify"}
  BY DEF RotationStages
<1> QED
  BY <1>1, <1>2, RequestKinds, DatabaseTypes DEF RequestOK

\* The reads of a rotation, each of what nobody else changes while its source is active.
LEMMA RotationReads ==
  ASSUME IInv, NEW w \in Workers, RotateKek(w) \/ CheckKek(w) \/ ReadDeks(w) \/ ReadSeeds(w)
  PROVE  IInv'
<1>1. db \in Database /\ ActiveKek(db) \in Nat
  BY DatabaseTypes DEF IInv, TypeOK
<1>2. CASE RotateKek(w)
  <2>1. PICK r : r = [at |-> "source", source |-> ActiveKek(db)]
    OBVIOUS
  <2>2. r \in Request
    BY <1>1, <2>1 DEF Request, KekRequest
  <2>3. ActiveMaster(db) # server.primary /\ server # None /\ Read(w, r)
    BY <1>2, <2>1 DEF RotateKek
  <2>4. RequestOK(r)
    BY <1>1, <2>1, <2>3 DEF RequestOK, SourceUnmoved, PrimaryActiveStages
  <2> QED
    BY <2>2, <2>3, <2>4, ReadStep
<1>3. CASE CheckKek(w)
  <2>1. PICK r : r = [at |-> "deks", source |-> request[w].source]
    OBVIOUS
  <2>2. request[w].at = "source" /\ request[w].at \in RotationStages
        /\ db.operations = {} /\ Read(w, r)
    BY <1>3, <2>1 DEF CheckKek, MayRotate, RotationStages
  <2>3. r \in Request
    BY <2>1, <2>2, RotationFacts DEF Request, KekRequest
  <2>4. RequestOK(r)
    BY <2>1, <2>2, RotationFacts DEF RequestOK, SourceUnmoved, PrimaryActiveStages
  <2> QED
    BY <2>2, <2>3, <2>4, ReadStep
<1>4. CASE ReadDeks(w)
  <2>1. PICK r : r = [at |-> "seeds", source |-> request[w].source, active |-> db.active]
    OBVIOUS
  <2>2. request[w].at = "deks" /\ request[w].at \in RotationStages /\ Read(w, r)
    BY <1>4, <2>1 DEF ReadDeks, RotationStages
  <2>3. r \in Request
    BY <1>1, <2>1, <2>2, RotationFacts, DatabaseTypes DEF Request, KekRequest
  <2>4. RequestOK(r)
    BY <2>1, <2>2, RotationFacts DEF RequestOK, SourceUnmoved, PrimaryActiveStages
  <2> QED
    BY <2>2, <2>3, <2>4, ReadStep
<1>5. CASE ReadSeeds(w)
  <2>1. PICK r : r = [at |-> "commit", source |-> request[w].source,
                      active |-> request[w].active, seed |-> db.seed]
    OBVIOUS
  <2>2. request[w].at = "seeds" /\ request[w].at \in RotationStages /\ Read(w, r)
    BY <1>5, <2>1 DEF ReadSeeds, RotationStages
  <2>3. r \in Request
    BY <1>1, <2>1, <2>2, RotationFacts, RequestKinds, DatabaseTypes DEF Request, KekRequest
  <2>4. RequestOK(r)
    BY <2>1, <2>2, RotationFacts DEF RequestOK, SourceUnmoved, PrimaryActiveStages
  <2> QED
    BY <2>2, <2>3, <2>4, ReadStep
<1> QED
  BY <1>2, <1>3, <1>4, <1>5

\* The commit: every row there is was read, and is sealed anew.
LEMMA CommitKekStep ==
  ASSUME IInv, NEW w \in Workers, CommitKek(w)
  PROVE  IInv'
<1>1. PICK r : r = request[w]
  OBVIOUS
<1>2. r.at = "commit" /\ r.at \in RotationStages /\ r.source = ActiveKek(db)
  BY <1>1 DEF CommitKek, Unmoved, RotationStages
<1>3. /\ db \in Database /\ server # None /\ r \in Request
      /\ ActiveMaster(db) # server.primary /\ db.operations = {}
      /\ r.active = db.active /\ r.seed = db.seed
      /\ ActiveKek(db) \in Nat
  BY <1>1, <1>2, RotationFacts DEF SourceUnmoved
<1>4. /\ server \in Process /\ server.ready /\ Sound(db) /\ server.primary \in MasterKeys
      /\ saved = None \/ saved \in Database
  BY <1>3 DEF IInv, TypeOK, ServerOK, Process
<1>5. PICK d : d = Rewrapped(r)
  OBVIOUS
<1>6. /\ d.registry = Append(db.registry, server.primary)
      /\ d.active = [e \in Environments |-> IF r.active[e] = None THEN db.active[e]
                                            ELSE SealDek(r.source + 1, r.active[e].n)]
      /\ d.pending = db.pending /\ d.operations = db.operations
      /\ d.seed = [u \in Users |-> IF r.seed[u] = None THEN db.seed[u]
                                   ELSE Seal(r.source + 1)]
      /\ d = [registry |-> d.registry, active |-> d.active, pending |-> d.pending,
              operations |-> d.operations, seed |-> d.seed]
  BY <1>3, <1>5 DEF Rewrapped, Database
<1>7. db.registry \in Seq(MasterKeys)
  BY <1>3, DatabaseTypes
<1>8. /\ d.registry \in Seq(MasterKeys) /\ d.registry # << >>
      /\ ActiveKek(d) = ActiveKek(db) + 1 /\ ActiveMaster(d) = server.primary
  BY <1>4, <1>6, <1>7 DEF ActiveKek, ActiveMaster
<1>9. ASSUME NEW n \in 1..MaxDek
      PROVE  /\ SealDek(r.source + 1, n) \in DekRow
             /\ UnderActive(d, SealDek(r.source + 1, n))
  BY <1>2, <1>3, <1>4, <1>8 DEF SealDek, DekRow, UnderActive
<1>10. Seal(r.source + 1) \in Sealed /\ UnderActive(d, Seal(r.source + 1))
  BY <1>2, <1>3, <1>4, <1>8 DEF Seal, Sealed, UnderActive
<1>11. \A e \in Environments :
         /\ d.active[e] \in DekRow \cup {None}
         /\ d.active[e] # None => UnderActive(d, d.active[e])
         /\ db.active[e] # None => d.active[e] # None
  <2> SUFFICES ASSUME NEW e \in Environments
               PROVE  /\ d.active[e] \in DekRow \cup {None}
                      /\ d.active[e] # None => UnderActive(d, d.active[e])
                      /\ db.active[e] # None => d.active[e] # None
    OBVIOUS
  <2>1. CASE db.active[e] = None
    BY <1>3, <1>6, <2>1
  <2>2. CASE db.active[e] # None
    <3>1. db.active[e].n \in 1..MaxDek
      BY <1>3, <2>2, DatabaseTypes DEF DekRow
    <3>2. d.active[e] = SealDek(r.source + 1, db.active[e].n)
      BY <1>3, <1>6, <2>2
    <3> QED
      BY <1>9, <3>1, <3>2, AbsenceAssumption
  <2> QED
    BY <2>1, <2>2
<1>12. \A u \in Users : /\ d.seed[u] \in Sealed \cup {None}
                        /\ d.seed[u] # None => UnderActive(d, d.seed[u])
  BY <1>3, <1>6, <1>10
<1>13. \A e \in Environments : d.pending[e] = None
  BY <1>3, <1>4, <1>6 DEF Sound
<1>14. d \in Database
  <2>1. d.active \in [Environments -> DekRow \cup {None}]
    BY <1>6, <1>11
  <2>2. d.seed \in [Users -> Sealed \cup {None}]
    BY <1>6, <1>12
  <2>3. d.pending \in [Environments -> DekRow \cup {None}] /\ d.operations \subseteq Environments
    BY <1>3, <1>6, DatabaseTypes
  <2> QED
    BY <1>6, <1>8, <2>1, <2>2, <2>3 DEF Database
<1>15. Sound(d)
  BY <1>8, <1>11, <1>12, <1>13 DEF Sound
<1>16. PICK q : q = [at |-> "verify", source |-> r.source]
  OBVIOUS
<1>17. q \in Request
  BY <1>2, <1>3, <1>16 DEF Request, KekRequest
<1>18. db' = d /\ Forward(w, q) /\ UNCHANGED <<saved, server>>
  BY <1>1, <1>5, <1>16 DEF CommitKek
<1>19. /\ request' \in [Workers -> Request] /\ request'[w] = q
       /\ \A v \in Workers \ {w} : request'[v] = request[v]
  BY <1>17, <1>18, Forwarded DEF IInv, TypeOK
<1>20. TypeOK' /\ Sound(db)' /\ SavedOK'
  BY <1>14, <1>15, <1>18, <1>19 DEF IInv, TypeOK, SavedOK, Sound, UnderActive
<1>21. ServerOK'
  BY <1>4, <1>8, <1>18, AbsenceAssumption DEF ServerOK, Mounted
<1>22. RequestOK(request[w])'
  BY <1>3, <1>8, <1>16, <1>18, <1>19 DEF RequestOK, RotationStages, PrimaryActiveStages
<1>23. ASSUME NEW v \in Workers, v # w PROVE RequestOK(request[v])'
  <2>1. PICK p : p = request[v]
    OBVIOUS
  <2>2. RequestOK(p) /\ p \in Request /\ request'[v] = p
    BY <1>19, <1>23, <2>1 DEF IInv, TypeOK
  <2>3. p.at \notin PrimaryActiveStages
    BY <1>3, <2>2 DEF RequestOK
  <2>4. p.at \notin {"seed", "dek", "resumed", "wrapped"}
    BY <2>3 DEF PrimaryActiveStages
  <2>5. p.at \in RotationStages => p.source <= ActiveKek(d) /\ p.source # ActiveKek(d)
    <3> SUFFICES ASSUME p.at \in RotationStages
                 PROVE  p.source <= ActiveKek(d) /\ p.source # ActiveKek(d)
      OBVIOUS
    <3>1. p.source \in Nat /\ p.source <= ActiveKek(db)
      BY <2>1, RotationFacts
    <3> QED
      BY <1>3, <1>8, <3>1
  <2> QED
    BY <1>3, <1>18, <2>2, <2>3, <2>4, <2>5 DEF RequestOK
<1> QED
  BY <1>20, <1>21, <1>22, <1>23 DEF IInv

\* Start, stop, backup and restore.
LEMMA MaintenanceSteps ==
  ASSUME IInv, Maintenance
  PROVE  IInv'
<1>1. db \in Database /\ Sound(db)
  BY DEF IInv, TypeOK
<1>2. server = None => \A w \in Workers : request[w] = Idle
  BY DEF IInv, RequestOK
<1>3. ASSUME NEW p \in MasterKeys, NEW q \in MasterKeys \cup {None}, Start(p, q) PROVE IInv'
  <2>1. PICK s : s = [primary |-> p, previous |-> q, ready |-> TRUE]
    OBVIOUS
  <2>2. s \in Process /\ s # None /\ p \in Mounted(s) /\ s.ready
    <3>1. s \in Process
      BY <2>1 DEF Process
    <3>2. p \in Mounted(s) /\ s.ready
      BY <2>1, AbsenceAssumption DEF Mounted
    <3> QED
      BY <3>1, <3>2, AbsenceAssumption
  <2>3. /\ server = None /\ KnownKey(db, s) /\ db' = WithRegistry(db, s) /\ server' = s
        /\ UNCHANGED <<saved, request>>
    BY <1>3, <2>1 DEF Start
  <2>4. PICK d : d = WithRegistry(db, s)
    OBVIOUS
  <2>5. d \in Database /\ Sound(d) /\ d.registry # << >> /\ ActiveMaster(d) \in Mounted(s)
    <3>1. CASE db.registry # << >>
      BY <1>1, <2>3, <2>4, <3>1 DEF WithRegistry, KnownKey
    <3>2. CASE db.registry = << >>
      <4>1. d = [db EXCEPT !.registry = <<p>>]
        BY <2>1, <2>4, <3>2 DEF WithRegistry
      <4>2. /\ d.registry = <<p>> /\ d.active = db.active /\ d.pending = db.pending
            /\ d.operations = db.operations /\ d.seed = db.seed
        BY <1>1, <4>1 DEF Database
      <4>3. d \in Database
        <5>1. <<p>> \in Seq(MasterKeys)
          OBVIOUS
        <5> QED
          BY <1>1, <4>1, <5>1 DEF Database
      <4>4. Sound(d)
        BY <1>1, <3>2, <4>2 DEF Sound
      <4>5. d.registry # << >> /\ ActiveMaster(d) = p
        BY <4>2 DEF ActiveMaster, ActiveKek
      <4> QED
        BY <2>2, <4>3, <4>4, <4>5
    <3> QED
      BY <3>1, <3>2
  <2>6. TypeOK' /\ Sound(db)' /\ SavedOK' /\ ServerOK'
    BY <2>2, <2>3, <2>4, <2>5 DEF IInv, TypeOK, SavedOK, ServerOK, Sound, UnderActive
  <2>7. \A w \in Workers : request'[w] = Idle
    BY <1>2, <2>3
  <2>8. \A w \in Workers : RequestOK(request[w])'
    BY <2>7 DEF RequestOK, Idle, PrimaryActiveStages, RotationStages
  <2> QED
    BY <2>6, <2>8 DEF IInv
<1>4. CASE Stop
  <2>1. /\ request' = [w \in Workers |-> Idle] /\ server' = None /\ UNCHANGED <<db, saved>>
    BY <1>4 DEF Stop
  <2>2. TypeOK' /\ Sound(db)' /\ SavedOK' /\ ServerOK'
    BY <2>1, IdleOK DEF IInv, TypeOK, SavedOK, ServerOK, Sound, UnderActive
  <2>3. \A w \in Workers : RequestOK(request[w])'
    BY <2>1 DEF RequestOK, Idle, PrimaryActiveStages, RotationStages
  <2> QED
    BY <2>2, <2>3 DEF IInv
<1>5. CASE Backup
  <2>1. saved' = db /\ UNCHANGED <<db, server, request>>
    BY <1>5 DEF Backup
  <2>2. TypeOK' /\ Sound(db)' /\ SavedOK' /\ ServerOK'
    BY <2>1 DEF IInv, TypeOK, SavedOK, ServerOK, Sound, UnderActive
  <2>3. \A w \in Workers : RequestOK(request[w])'
    BY <2>1 DEF IInv, RequestOK, SourceUnmoved, UnderActive
  <2> QED
    BY <2>2, <2>3 DEF IInv
<1>6. CASE Restore
  <2>1. server = None /\ saved # None /\ db' = saved /\ UNCHANGED <<saved, server, request>>
    BY <1>6 DEF Restore
  <2>2. TypeOK' /\ Sound(db)' /\ SavedOK' /\ ServerOK'
    BY <2>1 DEF IInv, TypeOK, SavedOK, ServerOK, Sound, UnderActive
  <2>3. \A w \in Workers : request'[w] = Idle
    BY <1>2, <2>1
  <2>4. \A w \in Workers : RequestOK(request[w])'
    BY <2>3 DEF RequestOK, Idle, PrimaryActiveStages, RotationStages
  <2> QED
    BY <2>2, <2>4 DEF IInv
<1> QED
  BY <1>3, <1>4, <1>5, <1>6 DEF Maintenance

--------------------------------------------------------------------------------
(* The invariant, and the properties it implies.                                *)

\* Before the first start there is nothing.
LEMMA InitIInv == Init => IInv
<1> SUFFICES ASSUME Init PROVE IInv
  OBVIOUS
<1>1. db \in Database
  BY DEF Init, Database
<1>2. TypeOK
  BY <1>1, IdleOK DEF Init, TypeOK
<1>3. Sound(db) /\ SavedOK /\ ServerOK
  BY DEF Init, Sound, SavedOK, ServerOK
<1>4. \A w \in Workers : RequestOK(request[w])
  BY IdleOK DEF Init
<1> QED
  BY <1>2, <1>3, <1>4 DEF IInv

\* Every step keeps the invariant.
LEMMA NextIInv == IInv /\ [Next]_vars => IInv'
<1> SUFFICES ASSUME IInv, [Next]_vars PROVE IInv'
  OBVIOUS
<1>1. CASE UNCHANGED vars
  BY <1>1 DEF vars, IInv, TypeOK, Sound, SavedOK, ServerOK, RequestOK, SourceUnmoved,
              UnderActive
<1>2. CASE Maintenance
  BY <1>2, MaintenanceSteps
<1>3. ASSUME NEW w \in Workers, Handle(w) PROVE IInv'
  BY <1>3, ReadingSteps, CreateEnvironmentStep, SeedSteps, DekPrepareStep, DekInsertStep,
     DekFinalizeStep, VerifySteps, RotationReads, CommitKekStep
     DEF Handle, Enrol, RotateDek, KekStep
<1> QED
  BY <1>1, <1>2, <1>3 DEF Next

\* Every behaviour keeps the invariant.
LEMMA KekInvariant == Spec => []IInv
BY InitIInv, NextIInv, PTL DEF Spec

\* Every variable has its type.
THEOREM KekTypes == Spec => []TypeOK
<1>1. IInv => TypeOK
  BY DEF IInv
<1> QED
  BY <1>1, KekInvariant, PTL

\* SealedUnderActive: every DEK, active or pending, and every TOTP seed names the active
\* KEK version and is sealed by exactly that master key.
THEOREM EverythingRewrapped == Spec => []SealedUnderActive
<1>1. IInv => SealedUnderActive
  BY DEF IInv, Sound, UnderActive, SealedUnderActive
<1> QED
  BY <1>1, KekInvariant, PTL

\* ServesWhatItOpens: a process that passed the start-up validation keeps the keys to
\* everything it serves, and stays on /ready.
THEOREM KeepsItsKeys == Spec => []ServesWhatItOpens
<1>1. IInv => ServesWhatItOpens
  <2> SUFFICES ASSUME IInv, server # None
               PROVE  /\ server.ready /\ KeysOpen(db, server) /\ SeedsOpen(db, server)
                      /\ \A e \in Environments :
                           db.pending[e] # None => Opens(server, db.pending[e])
    BY DEF ServesWhatItOpens
  <2>1. server.ready /\ ActiveMaster(db) \in Mounted(server) /\ Sound(db)
    BY DEF IInv, ServerOK
  <2>2. KeysOpen(db, server) /\ SeedsOpen(db, server)
    BY <2>1, SoundOpens
  <2>3. \A e \in Environments : db.pending[e] # None => Opens(server, db.pending[e])
    BY <2>1 DEF Sound, UnderActive, Opens
  <2> QED
    BY <2>1, <2>2, <2>3
<1> QED
  BY <1>1, KekInvariant, PTL

================================================================================
