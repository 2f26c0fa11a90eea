----------------------------- MODULE AccountsProofs -----------------------------
(***************************************************************************)
(* Proofs about Accounts, for any users, sessions and number of concurrent *)
(* handlers.                                                               *)
(*                                                                         *)
(* What a handler read is stale as soon as it was read.  The argument is   *)
(* that auth_version dates it: role, factor and seed do not change under   *)
(* the same auth_version, and whatever takes the sessions of an account    *)
(* away moves it, so that a read or a session of the current auth_version  *)
(* still describes the account.                                            *)
(***************************************************************************)
EXTENDS Accounts, FiniteSetTheorems, TLAPS

\* An enabled factor has a seed that the counter made up, and grants are for active
\* contributors.
AccountOK(u) ==
  Exists(u) => /\ account[u].enabled => account[u].seed # 0
               /\ account[u].grant => account[u].active /\ account[u].role = "CONTRIBUTOR"
               /\ account[u].seed <= fresh

\* No two accounts share a seed.
SeedsDistinct ==
  \A u, v \in Users : /\ Exists(u) /\ Exists(v) /\ u # v
                      /\ account[u].seed = account[v].seed
                      => account[u].seed = 0

\* A code of the present seed was accepted only once the factor was enabled, and not
\* for a later step than the row remembers.
ConsumedOK ==
  \A c \in consumed :
    /\ c[1] <= fresh
    /\ \A u \in Users : Exists(u) /\ account[u].seed # 0 /\ account[u].seed = c[1] =>
         account[u].enabled /\ c[2] <= account[u].last

\* A row that was read describes the account as long as its auth_version does.
RowOK(u, row) ==
  /\ Exists(u)
  /\ row.authv <= account[u].authv
  /\ row.authv = account[u].authv =>
       /\ row.role = account[u].role /\ row.enabled = account[u].enabled
       /\ row.seed # 0 => row.seed = account[u].seed
  /\ row.seed <= fresh
  /\ \A v \in Users : Exists(v) /\ v # u /\ account[v].seed = row.seed => row.seed = 0

\* Proof of the second factor the account has now.
Proven(u, proof) ==
  RequiresTotp(account[u].role) \/ account[u].enabled =>
    account[u].enabled /\ proof = account[u].seed

\* A session of the present auth_version was signed in in the present epoch and, when
\* full, with the present factor.
SessionOK(s) ==
  session[s] # None =>
    LET u == session[s].user IN
    /\ Exists(u)
    /\ session[s].authv <= account[u].authv
    /\ session[s].authv = account[u].authv =>
         /\ session[s].epoch = epoch[u]
         /\ session[s].state = "FULL" => Proven(u, session[s].proof)

\* A handler's session was usable when it was loaded: while nobody revoked it, no
\* operation took the account's sessions away.
LoadedOK(sid) ==
  /\ session[sid] # None
  /\ Exists(session[sid].user)
  /\ ~session[sid].revoked => session[sid].epoch = epoch[session[sid].user]

\* A version and proof to issue a session with are the account's, or out of date.
IssuableOK(u, authv, proof) ==
  authv <= account[u].authv /\ (authv = account[u].authv => Proven(u, proof))

RequestOK(r) ==
  /\ r.at \in {"upgrade", "pending", "create"} =>
       /\ RowOK(r.user, r.row)
       /\ r.row.authv = account[r.user].authv => r.epoch = epoch[r.user]
  /\ r.at \in {"loaded", "consume", "enable", "replace", "claim"} => LoadedOK(r.sid)
  /\ r.at \in {"consume", "enable"} => RowOK(session[r.sid].user, r.row)
  /\ r.at = "consume" => r.authv = r.row.authv
  /\ r.at = "enable" => r.authv = r.row.authv + 1 /\ r.row.seed # 0
  /\ r.at \in {"claim", "issue"} => IssuableOK(session[r.sid].user, r.authv, r.proof)
  /\ r.at = "issue" =>
       /\ session[r.sid] # None
       /\ Exists(session[r.sid].user)
       /\ session[r.sid].revoked
       /\ r.authv = account[session[r.sid].user].authv =>
            session[r.sid].epoch = epoch[session[r.sid].user]
  /\ r.at \in {"password", "grants", "totp", "role", "active"} => Exists(r.user)

\* A session that was replaced is revoked, has one replacement, and nobody is still
\* issuing another; nobody else is issuing one for the same session.
HeirOf(t, s) == session[t] # None /\ session[t].from = s
Issuing(w, s) == request[w].at = "issue" /\ request[w].sid = s
RotationsOK ==
  \A s \in Sids :
    /\ \A t \in Sids : HeirOf(t, s) => /\ session[s] # None
                                       /\ session[s].revoked
                                       /\ \A w \in Workers : ~Issuing(w, s)
    /\ \A t, x \in Sids : HeirOf(t, s) /\ HeirOf(x, s) => t = x
    /\ \A w, v \in Workers : Issuing(w, s) /\ Issuing(v, s) => w = v

AccountsOK == (\A u \in Users : AccountOK(u)) /\ SeedsDistinct /\ ConsumedOK
SessionsOK == \A s \in Sids : SessionOK(s)
RequestsOK == \A w \in Workers : RequestOK(request[w])

\* The inductive invariant.
IInv == TypeOK /\ AccountsOK /\ SessionsOK /\ RequestsOK /\ RotationsOK /\ AdministratorRemains

--------------------------------------------------------------------------------
(* What every step respects, and what that keeps.                               *)

\* Numbers only grow; role, factor, seed and epoch stay under the same auth_version;
\* a new seed is a fresh number; a session keeps all but its validity, which it loses
\* when the epoch of its account moves.
AccountAdvances(u) ==
  /\ account'[u] # None
  /\ account[u].authv <= account'[u].authv
  /\ account'[u].authv = account[u].authv =>
       /\ epoch'[u] = epoch[u]
       /\ account'[u].role = account[u].role
       /\ account'[u].enabled = account[u].enabled
       /\ account[u].seed # 0 => account'[u].seed = account[u].seed
  /\ \/ account'[u].seed = 0
     \/ account'[u].seed = account[u].seed
     \/ account'[u].seed > fresh
SessionAdvances(s) ==
  /\ session'[s] # None
  /\ session'[s].user = session[s].user
  /\ session'[s].authv = session[s].authv
  /\ session'[s].epoch = session[s].epoch
  /\ session'[s].state = session[s].state
  /\ session'[s].proof = session[s].proof
  /\ session'[s].from = session[s].from
  /\ session[s].revoked => session'[s].revoked
  /\ ~session'[s].revoked => epoch'[session[s].user] = epoch[session[s].user]
Advance ==
  /\ fresh <= fresh'
  /\ \A u \in Users : Exists(u) => AccountAdvances(u)
  /\ \A u \in Users : ~Exists(u) /\ account'[u] # None => account'[u].seed = 0
  /\ \A s \in Sids : session[s] # None => SessionAdvances(s)

\* The stage of a request tells which record it is.
LEMMA RequestKinds ==
  ASSUME NEW r \in Request
  PROVE  /\ r.at \in {"upgrade", "pending", "create"} => r \in SignInRequest
         /\ r.at = "loaded" => r \in Loaded
         /\ r.at \in {"consume", "enable", "replace"} => r \in RowRead
         /\ r.at \in {"claim", "issue"} => r \in VerifiedRequest
         /\ r.at \in {"password", "grants", "totp", "role", "active"} =>
              r.user \in Users
         /\ r.at = "role" => r.role \in Role
         /\ r.at = "active" => r.active \in BOOLEAN
BY DEF Request, Idle, SignInRequest, Loaded, RowRead, VerifiedRequest, AdminRequest

\* A row or session that exists is well formed.
LEMMA RowTypes ==
  ASSUME TypeOK
  PROVE  /\ \A u \in Users : Exists(u) => account[u] \in Account
         /\ \A s \in Sids : session[s] # None => session[s] \in Session
         /\ \A w \in Workers : request[w] \in Request
BY DEF TypeOK, Exists

\* A row that was read still describes the account, or is out of date.
LEMMA RowKept ==
  ASSUME TypeOK, TypeOK', Advance, NEW u \in Users, NEW row \in Account, RowOK(u, row)
  PROVE  RowOK(u, row)'
<1>1. /\ account[u] \in Account /\ account'[u] \in Account /\ AccountAdvances(u)
      /\ fresh \in Nat /\ fresh' \in Nat
  BY DEF RowOK, Exists, TypeOK, Advance, AccountAdvances
<1>2. row.authv \in Nat /\ row.seed \in Nat
  BY DEF Account
<1>3. /\ account'[u] # None
      /\ row.authv <= account'[u].authv
      /\ row.authv = account'[u].authv =>
           /\ row.role = account'[u].role /\ row.enabled = account'[u].enabled
           /\ row.seed # 0 => row.seed = account'[u].seed
  BY <1>1, <1>2 DEF RowOK, AccountAdvances, Account
<1>4. row.seed <= fresh'
  BY <1>1, <1>2 DEF RowOK, Advance
<1>5. ASSUME NEW v \in Users, account'[v] # None, v # u, account'[v].seed = row.seed
      PROVE  row.seed = 0
  <2>1. CASE ~Exists(v)
    BY <1>5, <2>1 DEF Advance
  <2>2. CASE Exists(v)
    BY <1>1, <1>2, <1>5, <2>2 DEF Advance, AccountAdvances, RowOK
  <2> QED
    BY <2>1, <2>2
<1> QED
  BY <1>3, <1>4, <1>5 DEF RowOK, Exists

\* A proof under the present auth_version is a proof under the next, unless that moved.
LEMMA ProvenKept ==
  ASSUME TypeOK, TypeOK', Advance, NEW u \in Users, Exists(u), AccountOK(u),
         account'[u].authv = account[u].authv, NEW proof, Proven(u, proof)
  PROVE  Proven(u, proof)'
BY DEF Proven, Advance, AccountAdvances, AccountOK

\* A session stays as good as it was.
LEMMA SessionKept ==
  ASSUME TypeOK, TypeOK', Advance, AccountsOK, NEW s \in Sids, session[s] # None,
         SessionOK(s)
  PROVE  SessionOK(s)'
<1>0. PICK u \in Users : u = session[s].user
  BY DEF TypeOK, Session
<1>1. /\ session[s] \in Session /\ u \in Users /\ SessionAdvances(s)
      /\ Exists(u) /\ account[u] \in Account /\ account'[u] \in Account
      /\ AccountAdvances(u) /\ AccountOK(u)
  BY <1>0 DEF TypeOK, Session, SessionOK, Advance, Exists, AccountsOK, AccountAdvances
<1>2. session'[s].user = u /\ session'[s].authv = session[s].authv
      /\ session'[s].epoch = session[s].epoch /\ session'[s].state = session[s].state
      /\ session'[s].proof = session[s].proof
  BY <1>0, <1>1 DEF SessionAdvances
<1>3. /\ session[s].authv \in Nat /\ account[u].authv \in Nat /\ account'[u].authv \in Nat
      /\ session[s].authv <= account[u].authv /\ account[u].authv <= account'[u].authv
  BY <1>0, <1>1 DEF Session, Account, SessionOK, AccountAdvances
<1>4. ASSUME session[s].authv = account'[u].authv
      PROVE  /\ session[s].epoch = epoch'[u]
             /\ session[s].state = "FULL" => Proven(u, session[s].proof)'
  <2>1. account'[u].authv = account[u].authv
    BY <1>3, <1>4
  <2>2. session[s].epoch = epoch[u] /\ epoch'[u] = epoch[u]
    BY <1>0, <1>1, <1>4, <2>1 DEF SessionOK, AccountAdvances
  <2>3. session[s].state = "FULL" => Proven(u, session[s].proof)
    BY <1>0, <1>1, <1>4, <2>1 DEF SessionOK
  <2>4. \A p : Proven(u, p) => Proven(u, p)'
    BY <1>1, <2>1, ProvenKept
  <2>5. session'[s].proof = session[s].proof
    BY <1>2
  <2> QED
    BY ONLY <2>2, <2>3, <2>4, <2>5 DEF Proven
<1> QED
  <2>1. account'[u] # None
    BY <1>1 DEF AccountAdvances
  <2>2. session[s].authv <= account'[u].authv
    BY <1>3
  <2> QED
    BY ONLY <1>2, <1>4, <2>1, <2>2 DEF SessionOK, Exists

\* What another handler read stays as good as it was.
LEMMA RequestKept ==
  ASSUME TypeOK, TypeOK', Advance, AccountsOK, NEW w \in Workers, RequestOK(request[w]),
         request'[w] = request[w]
  PROVE  RequestOK(request[w])'
<1> DEFINE r == request[w]
<1>1. r \in Request
  BY RowTypes
<1>2. ASSUME r.at \in {"upgrade", "pending", "create"}
      PROVE  /\ RowOK(r.user, r.row)'
             /\ r.row.authv = account'[r.user].authv => r.epoch = epoch'[r.user]
  <2>1. /\ r.user \in Users /\ r.row \in Account /\ RowOK(r.user, r.row)
        /\ r.row.authv = account[r.user].authv => r.epoch = epoch[r.user]
    BY <1>1, <1>2, RequestKinds DEF SignInRequest, RequestOK
  <2>2. RowOK(r.user, r.row)'
    <3>1. \A u \in Users, row \in Account : RowOK(u, row) => RowOK(u, row)'
      BY RowKept
    <3> QED
      BY <2>1, <3>1, request'[w] = r DEF RowOK, Exists
  <2>3. AccountAdvances(r.user) /\ account[r.user] \in Account /\ account'[r.user] \in Account
    <3>1. account[r.user] # None
      BY ONLY <2>1 DEF RowOK, Exists
    <3>2. AccountAdvances(r.user)
      BY ONLY Advance, <2>1, <3>1 DEF Advance, Exists
    <3>3. account'[r.user] # None
      BY ONLY <3>2 DEF AccountAdvances
    <3>4. account[r.user] \in Account /\ account'[r.user] \in Account
      BY ONLY TypeOK, TypeOK', <2>1, <3>1, <3>3 DEF TypeOK
    <3> QED
      BY ONLY <3>2, <3>4
  <2>4. r.row.authv <= account[r.user].authv /\ r.row.authv \in Nat
    BY <2>1 DEF RowOK, Account
  <2>5. PICK n : n = account[r.user].authv
    OBVIOUS
  <2>6. PICK m : m = account'[r.user].authv
    OBVIOUS
  <2>7. n \in Nat /\ m \in Nat
    BY ONLY <2>3, <2>5, <2>6 DEF Account
  <2>8. n <= m /\ (m = n => epoch'[r.user] = epoch[r.user])
    BY ONLY <2>3, <2>5, <2>6 DEF AccountAdvances
  <2>9. r.row.authv = m => m = n
    BY ONLY <2>4, <2>5, <2>7, <2>8
  <2>10. r.row.authv = n => r.epoch = epoch[r.user]
    BY ONLY <2>1, <2>5
  <2> QED
    BY ONLY <2>2, <2>6, <2>8, <2>9, <2>10
<1>3. ASSUME NEW sid \in Sids, LoadedOK(sid) PROVE LoadedOK(sid)'
  <2>1. session[sid] # None /\ session[sid] \in Session /\ SessionAdvances(sid)
        /\ AccountAdvances(session[sid].user)
    BY <1>3, RowTypes DEF LoadedOK, Advance, Session
  <2> QED
    BY <1>3, <2>1 DEF LoadedOK, SessionAdvances, AccountAdvances, Exists
<1>4. ASSUME NEW sid \in Sids, session[sid] # None, Exists(session[sid].user)
      PROVE  /\ session[sid].user \in Users /\ session'[sid].user = session[sid].user
             /\ SessionAdvances(sid) /\ AccountAdvances(session[sid].user)
             /\ account[session[sid].user] \in Account
             /\ account'[session[sid].user] \in Account
             /\ AccountOK(session[sid].user)
  <2>1. session[sid] \in Session
    BY <1>4, RowTypes
  <2>2. session[sid].user \in Users
    BY ONLY <2>1 DEF Session
  <2>3. SessionAdvances(sid) /\ AccountAdvances(session[sid].user)
    BY ONLY Advance, <1>4, <2>2 DEF Advance
  <2>4. account[session[sid].user] \in Account
    BY ONLY TypeOK, <1>4, <2>2 DEF TypeOK, Exists
  <2>5. account'[session[sid].user] \in Account
    BY ONLY TypeOK', <2>2, <2>3 DEF TypeOK, AccountAdvances
  <2> QED
    BY ONLY AccountsOK, <2>2, <2>3, <2>4, <2>5 DEF AccountsOK, SessionAdvances
<1>5. ASSUME r.at \in {"consume", "enable"}
      PROVE  RowOK(session[r.sid].user, r.row)'
  <2>1. r.sid \in Sids /\ r.row \in Account /\ LoadedOK(r.sid)
        /\ RowOK(session[r.sid].user, r.row)
    BY <1>1, <1>5, RequestKinds DEF RowRead, RequestOK
  <2>2. session[r.sid].user \in Users /\ session'[r.sid].user = session[r.sid].user
    BY <1>4, <2>1 DEF LoadedOK
  <2>3. \A u \in Users, row \in Account : RowOK(u, row) => RowOK(u, row)'
    BY RowKept
  <2>4. PICK u : u = session[r.sid].user
    OBVIOUS
  <2>5. PICK row : row = r.row
    OBVIOUS
  <2>6. RowOK(u, row)'
    BY ONLY <2>1, <2>2, <2>3, <2>4, <2>5
  <2>7. session'[r.sid].user = u /\ request'[w] = r
    BY <2>2, <2>4
  <2> QED
    BY ONLY <2>5, <2>6, <2>7 DEF RowOK, Exists
<1>6. ASSUME r.at \in {"claim", "issue"}
      PROVE  IssuableOK(session[r.sid].user, r.authv, r.proof)'
  <2>1. /\ r.sid \in Sids /\ r.authv \in Nat
        /\ session[r.sid] # None /\ Exists(session[r.sid].user)
        /\ IssuableOK(session[r.sid].user, r.authv, r.proof)
    BY <1>1, <1>6, RequestKinds DEF VerifiedRequest, RequestOK, LoadedOK
  <2> DEFINE u == session[r.sid].user
  <2>2. /\ u \in Users /\ session'[r.sid].user = u /\ AccountAdvances(u)
        /\ account[u] \in Account /\ account'[u] \in Account /\ AccountOK(u)
    BY <1>4, <2>1
  <2>3. account[u].authv \in Nat /\ account'[u].authv \in Nat
    BY ONLY <2>2 DEF Account
  <2>4. r.authv <= account[u].authv /\ account[u].authv <= account'[u].authv
    BY ONLY <2>1, <2>2 DEF IssuableOK, AccountAdvances
  <2>5. r.authv <= account'[u].authv
        /\ (r.authv = account'[u].authv => account'[u].authv = account[u].authv)
    <3>1. PICK n : n = account[u].authv
      OBVIOUS
    <3>2. PICK m : m = account'[u].authv
      OBVIOUS
    <3>3. PICK v : v = r.authv
      OBVIOUS
    <3>4. n \in Nat /\ m \in Nat /\ n <= m /\ v <= n
      BY ONLY <2>3, <2>4, <3>1, <3>2, <3>3
    <3>5. v \in Nat
      BY ONLY <2>1, <3>3
    <3>6. v <= m /\ (v = m => m = n)
      BY ONLY <3>4, <3>5
    <3> QED
      BY ONLY <3>1, <3>2, <3>3, <3>6
  <2>6. ASSUME r.authv = account'[u].authv PROVE Proven(u, r.proof)'
    <3>1. account'[u].authv = account[u].authv
      BY ONLY <2>5, <2>6
    <3>2. \A p : Proven(u, p) => Proven(u, p)'
      BY <2>1, <2>2, <3>1, ProvenKept
    <3>3. Proven(u, r.proof)
      BY ONLY <2>1, <2>6, <3>1 DEF IssuableOK
    <3>4. PICK p : p = r.proof
      OBVIOUS
    <3>5. Proven(u, p)' /\ request'[w] = r
      BY <3>2, <3>3, <3>4
    <3> QED
      BY ONLY <2>2, <3>4, <3>5 DEF Proven
  <2>7. request'[w] = r
    OBVIOUS
  <2> QED
    BY ONLY <2>2, <2>5, <2>6, <2>7 DEF IssuableOK, Proven
<1>7. ASSUME r.at = "issue"
      PROVE  /\ session'[r.sid] # None /\ account'[session'[r.sid].user] # None
             /\ session'[r.sid].revoked
             /\ r.authv = account'[session'[r.sid].user].authv =>
                  session'[r.sid].epoch = epoch'[session'[r.sid].user]
  <2>1. /\ r.sid \in Sids /\ r.authv \in Nat /\ session[r.sid] # None
        /\ Exists(session[r.sid].user) /\ session[r.sid].revoked
        /\ r.authv <= account[session[r.sid].user].authv
        /\ r.authv = account[session[r.sid].user].authv =>
             session[r.sid].epoch = epoch[session[r.sid].user]
    BY <1>1, <1>7, RequestKinds DEF VerifiedRequest, RequestOK, IssuableOK
  <2> DEFINE u == session[r.sid].user
  <2>2. /\ session'[r.sid].user = u /\ SessionAdvances(r.sid) /\ AccountAdvances(u)
        /\ account[u] \in Account /\ account'[u] \in Account
    BY <1>4, <2>1
  <2>3. account[u].authv \in Nat /\ account'[u].authv \in Nat
    BY ONLY <2>2 DEF Account
  <2>4. /\ session'[r.sid] # None /\ session'[r.sid].revoked
        /\ session'[r.sid].epoch = session[r.sid].epoch
    BY ONLY <2>1, <2>2 DEF SessionAdvances
  <2>5. /\ account'[u] # None /\ account[u].authv <= account'[u].authv
        /\ account'[u].authv = account[u].authv => epoch'[u] = epoch[u]
    BY ONLY <2>2 DEF AccountAdvances
  <2>6. r.authv = account'[u].authv => account'[u].authv = account[u].authv
    <3>1. PICK n : n = account[u].authv
      OBVIOUS
    <3>2. PICK m : m = account'[u].authv
      OBVIOUS
    <3>3. r.authv \in Nat /\ r.authv <= n
      BY ONLY <2>1, <3>1
    <3>4. n \in Nat /\ m \in Nat /\ n <= m
      BY ONLY <2>3, <2>5, <3>1, <3>2
    <3>5. r.authv = m => m = n
      BY ONLY <3>3, <3>4
    <3> QED
      BY ONLY <3>1, <3>2, <3>5
  <2> QED
    BY ONLY <2>1, <2>2, <2>4, <2>5, <2>6
<1>8. ASSUME r.at \in {"password", "grants", "totp", "role", "active"}
      PROVE  account'[r.user] # None
  BY <1>1, <1>8, RequestKinds DEF RequestOK, Advance, AccountAdvances
<1>9. r.at \in {"loaded", "consume", "enable", "replace", "claim"} => LoadedOK(r.sid)'
  <2> SUFFICES ASSUME r.at \in {"loaded", "consume", "enable", "replace", "claim"}
               PROVE  LoadedOK(r.sid)'
    OBVIOUS
  <2>1. r.sid \in Sids /\ LoadedOK(r.sid)
    BY <1>1, RequestKinds DEF Loaded, RowRead, VerifiedRequest, RequestOK
  <2> QED
    BY <1>3, <2>1, request'[w] = r DEF LoadedOK, Exists
<1>10. (r.at = "consume" => r.authv = r.row.authv)
       /\ (r.at = "enable" => r.authv = r.row.authv + 1 /\ r.row.seed # 0)
  BY DEF RequestOK
<1>11. request'[w] = r
  OBVIOUS
<1> QED
  <2>1. (r.at \in {"upgrade", "pending", "create"} =>
          /\ RowOK(r.user, r.row)
          /\ r.row.authv = account[r.user].authv => r.epoch = epoch[r.user])'
    BY ONLY <1>2, <1>11
  <2>2. (r.at \in {"loaded", "consume", "enable", "replace", "claim"} => LoadedOK(r.sid))'
    BY ONLY <1>9, <1>11
  <2>3. (r.at \in {"consume", "enable"} => RowOK(session[r.sid].user, r.row))'
    BY ONLY <1>5, <1>11
  <2>4. (/\ r.at = "consume" => r.authv = r.row.authv
         /\ r.at = "enable" => r.authv = r.row.authv + 1 /\ r.row.seed # 0)'
    BY ONLY <1>10, <1>11
  <2>5. (r.at \in {"claim", "issue"} => IssuableOK(session[r.sid].user, r.authv, r.proof))'
    BY ONLY <1>6, <1>11
  <2>6. (r.at = "issue" =>
          /\ session[r.sid] # None /\ account[session[r.sid].user] # None
          /\ session[r.sid].revoked
          /\ r.authv = account[session[r.sid].user].authv =>
               session[r.sid].epoch = epoch[session[r.sid].user])'
    BY ONLY <1>7, <1>11
  <2>7. (r.at \in {"password", "grants", "totp", "role", "active"} => Exists(r.user))'
    BY ONLY <1>8, <1>11 DEF Exists
  <2> QED
    BY ONLY <2>1, <2>2, <2>3, <2>4, <2>5, <2>6, <2>7 DEF RequestOK, Exists

\* Of the accounts, a step changes x alone.
OnlyAccount(x) ==
  \A u \in Users \ {x} : account'[u] = account[u] /\ epoch'[u] = epoch[u]

\* The codes accepted so far still fit x, and so do the ones the step accepts.
CodesFollow(x) ==
  /\ account'[x].seed # 0 /\ account'[x].seed = account[x].seed /\ account[x].enabled =>
       account'[x].enabled /\ account[x].last <= account'[x].last
  /\ \A c \in consumed' \ consumed :
       /\ c[1] <= fresh /\ c[1] # 0
       /\ account'[x].enabled /\ c[2] <= account'[x].last
       /\ \A v \in Users \ {x} : Exists(v) => account[v].seed # c[1]

\* The rows that do not change advance, and stay right.
LEMMA AccountsUnchanged ==
  ASSUME IInv, UNCHANGED <<account, fresh, epoch, consumed>>
  PROVE  AccountsOK' /\ AdministratorRemains' /\ \A u \in Users : Exists(u) => AccountAdvances(u)
<1>1. AccountsOK'
  BY DEF IInv, AccountsOK, AccountOK, SeedsDistinct, ConsumedOK, Exists
<1>2. AdministratorRemains'
  BY DEF IInv, AdministratorRemains, ManagesUsers, Exists
<1>3. ASSUME NEW u \in Users, Exists(u) PROVE AccountAdvances(u)
  BY <1>3, RowTypes DEF IInv, AccountAdvances, Exists, Account
<1> QED
  BY <1>1, <1>2, <1>3

\* One changed row leaves the accounts right, when it is right itself.
LEMMA AccountChanged ==
  ASSUME IInv, TypeOK', NEW x \in Users, Exists(x), OnlyAccount(x), AccountAdvances(x),
         fresh <= fresh', AccountOK(x)', CodesFollow(x),
         ~ManagesUsers(x) \/ ManagesUsers(x)' \/ OtherAdministrator(x)
  PROVE  AccountsOK' /\ AdministratorRemains' /\ \A u \in Users : Exists(u) => AccountAdvances(u)
<1>1. /\ fresh \in Nat /\ fresh' \in Nat
      /\ account[x] \in Account /\ account'[x] \in Account
      /\ \A u \in Users : account[u] \in Account \cup {None}
      /\ \A u \in Users \ {x} : account'[u] = account[u]
  BY DEF TypeOK, IInv, OnlyAccount, Exists, AccountAdvances
<1>2. ASSUME NEW u \in Users, Exists(u) PROVE AccountAdvances(u)
  BY <1>1, <1>2 DEF OnlyAccount, AccountAdvances, Account, Exists
<1>3. ASSUME NEW u \in Users PROVE AccountOK(u)'
  <2>1. CASE u # x
    BY <1>1, <2>1 DEF IInv, AccountsOK, AccountOK, Exists, Account
  <2> QED
    BY <2>1
<1>4. \A u \in Users : Exists(u) => account[u].seed \in Nat /\ account[u].seed <= fresh
  BY <1>1 DEF IInv, AccountsOK, AccountOK, Exists, Account
<1>5. account'[x].seed \in Nat
  BY <1>1 DEF Account
<1>6. SeedsDistinct'
  <2>1. ASSUME NEW v \in Users, v # x, account'[v] # None, account'[v].seed = account'[x].seed
        PROVE  account'[x].seed = 0
    <3>1. account[v] # None /\ account[v].seed = account'[x].seed
      BY <1>1, <2>1
    <3>2. CASE account'[x].seed > fresh
      BY <1>4, <1>1, <3>1, <3>2 DEF Exists
    <3>3. CASE account'[x].seed = account[x].seed
      BY <3>1, <3>3, <2>1 DEF IInv, AccountsOK, SeedsDistinct, Exists
    <3> QED
      BY <3>2, <3>3 DEF AccountAdvances
  <2>2. ASSUME NEW u \in Users, NEW v \in Users, account'[u] # None, account'[v] # None,
               u # v, account'[u].seed = account'[v].seed
        PROVE  account'[u].seed = 0
    <3>1. CASE u = x
      BY <2>1, <2>2, <3>1
    <3>2. CASE v = x
      BY <2>1, <2>2, <3>2
    <3>3. CASE u # x /\ v # x
      BY <1>1, <2>2, <3>3 DEF IInv, AccountsOK, SeedsDistinct, Exists
    <3> QED
      BY <3>1, <3>2, <3>3
  <2> QED
    BY <2>2 DEF SeedsDistinct, Exists
<1>7. ConsumedOK'
  <2> SUFFICES ASSUME NEW c \in consumed'
               PROVE  /\ c[1] <= fresh'
                      /\ \A u \in Users : account'[u] # None /\ account'[u].seed # 0
                                          /\ account'[u].seed = c[1] =>
                           account'[u].enabled /\ c[2] <= account'[u].last
    BY DEF ConsumedOK, Exists
  <2>1. c[1] \in Nat /\ c[2] \in Nat
    BY DEF TypeOK
  <2>2. CASE c \in consumed
    <3>1. /\ c[1] <= fresh
          /\ \A u \in Users : Exists(u) /\ account[u].seed # 0 /\ account[u].seed = c[1] =>
               account[u].enabled /\ c[2] <= account[u].last
      BY <2>2 DEF IInv, AccountsOK, ConsumedOK
    <3>2. ASSUME NEW u \in Users, account'[u] # None, account'[u].seed # 0,
                 account'[u].seed = c[1]
          PROVE  account'[u].enabled /\ c[2] <= account'[u].last
      <4>1. CASE u # x
        BY <1>1, <3>1, <3>2, <4>1 DEF Exists
      <4>2. CASE u = x
        <5>1. account'[x].seed = account[x].seed
          BY <1>1, <1>5, <2>1, <3>1, <3>2, <4>2 DEF AccountAdvances
        <5>2. account[x].enabled /\ c[2] <= account[x].last
          BY <3>1, <3>2, <4>2, <5>1
        <5>3. account'[x].enabled /\ account[x].last <= account'[x].last
          BY <3>2, <4>2, <5>1, <5>2 DEF CodesFollow
        <5>4. account[x].last \in Nat /\ account'[x].last \in Nat
          BY <1>1 DEF Account
        <5> QED
          BY <2>1, <4>2, <5>2, <5>3, <5>4
      <4> QED
        BY <4>1, <4>2
    <3> QED
      BY <1>1, <2>1, <3>1, <3>2
  <2>3. CASE c \notin consumed
    <3>1. /\ c[1] <= fresh /\ c[1] # 0
          /\ account'[x].enabled /\ c[2] <= account'[x].last
          /\ \A v \in Users \ {x} : account[v] # None => account[v].seed # c[1]
      BY <2>3 DEF CodesFollow, Exists
    <3> QED
      BY <1>1, <2>1, <3>1
  <2> QED
    BY <2>2, <2>3
<1>8. AdministratorRemains'
  <2>1. \A v \in Users \ {x} : ManagesUsers(v) => ManagesUsers(v)'
    BY <1>1 DEF ManagesUsers, Exists
  <2>2. \E v \in Users : ManagesUsers(v)
    BY DEF IInv, AdministratorRemains
  <2> QED
    BY <2>1, <2>2 DEF AdministratorRemains, OtherAdministrator
<1> QED
  BY <1>2, <1>3, <1>6, <1>7, <1>8 DEF AccountsOK

\* Sessions and requests are right after a step when those it adds or changes are.
LEMMA RestKept ==
  ASSUME IInv, TypeOK', Advance,
         \A s \in Sids : session[s] # None \/ SessionOK(s)',
         \A w \in Workers : request'[w] = request[w] \/ RequestOK(request[w])'
  PROVE  SessionsOK' /\ RequestsOK'
<1>1. ASSUME NEW s \in Sids PROVE SessionOK(s)'
  BY SessionKept DEF IInv, SessionsOK
<1>2. ASSUME NEW w \in Workers PROVE RequestOK(request[w])'
  BY RequestKept DEF IInv, RequestsOK
<1> QED
  BY <1>1, <1>2 DEF SessionsOK, RequestsOK

\* A request that is over asks for nothing.
LEMMA IdleOK == ASSUME NEW w, request'[w] = Idle PROVE RequestOK(request[w])'
BY DEF RequestOK, Idle

\* Rotations stay right where no session is added and nobody begins to issue one.
LEMMA RotationsKept ==
  ASSUME RotationsOK, Advance,
         \A s \in Sids : session[s] = None => session'[s] = None,
         \A w \in Workers : request'[w].at = "issue" => request'[w] = request[w]
  PROVE  RotationsOK'
<1>1. \A t, s \in Sids : HeirOf(t, s)' => HeirOf(t, s)
  BY DEF HeirOf, Advance, SessionAdvances
<1>2. \A w \in Workers, s \in Sids : Issuing(w, s)' => Issuing(w, s)
  BY DEF Issuing
<1>3. \A s \in Sids : session[s] # None /\ session[s].revoked =>
                        session'[s] # None /\ session'[s].revoked
  BY DEF Advance, SessionAdvances
<1> QED
  BY <1>1, <1>2, <1>3 DEF RotationsOK
--------------------------------------------------------------------------------
(* One lemma per kind of step.                                                  *)

\* A step that only reads: the tables stay, and the new request is right.
LEMMA ReadStep ==
  ASSUME IInv, UNCHANGED <<tables, fresh, history>>,
         clock' \in 1..MaxStep, params' \in 1..MaxParams, request' \in [Workers -> Request],
         \A w \in Workers : request'[w] = request[w]
                            \/ (request'[w].at # "issue" /\ RequestOK(request[w])')
  PROVE  IInv'
<1>1. TypeOK'
  BY DEF IInv, TypeOK, tables, history
<1>2. AccountsOK' /\ AdministratorRemains' /\ \A u \in Users : Exists(u) => AccountAdvances(u)
  BY AccountsUnchanged DEF tables, history
<1>3. Advance
  <2>1. ASSUME NEW s \in Sids, session[s] # None PROVE SessionAdvances(s)
    BY <2>1 DEF SessionAdvances, tables, history
  <2>2. fresh <= fresh'
    BY DEF IInv, TypeOK
  <2> QED
    BY <1>2, <2>1, <2>2 DEF Advance, tables, Exists
<1>4. SessionsOK'
  BY DEF IInv, SessionsOK, SessionOK, Proven, Exists, tables, history
<1>5. RequestsOK'
  BY <1>1, <1>3, RequestKept DEF IInv, RequestsOK
<1>6. RotationsOK'
  BY <1>3, RotationsKept DEF IInv, tables
<1> QED
  BY <1>1, <1>2, <1>4, <1>5, <1>6 DEF IInv

\* The requests after one of them moves on to r.
LEMMA Forwarded ==
  ASSUME request \in [Workers -> Request], NEW w \in Workers, NEW r \in Request, Forward(w, r)
  PROVE  /\ request' \in [Workers -> Request]
         /\ request'[w] = r
         /\ \A v \in Workers \ {w} : request'[v] = request[v]
BY DEF Forward

\* The administrator's operations begin with a read of an account that exists.
LEMMA ManagesStep ==
  ASSUME IInv, NEW w \in Workers, NEW a \in Users, NEW u \in Users,
         \/ ResetPasswordStart(w, a, u)
         \/ \E role \in AssignedRoles : UpdateRoleStart(w, a, u, role)
         \/ \E active \in BOOLEAN : SetActiveStart(w, a, u, active)
         \/ ResetTotpStart(w, a, u)
  PROVE  IInv'
<1>1. /\ Manages(w, a, u)
      /\ \E r \in AdminRequest : Forward(w, r) /\ r.user = u
                                 /\ r.at \in {"password", "grants", "totp", "role", "active"}
  <2>1. CASE ResetPasswordStart(w, a, u)
    BY <2>1 DEF ResetPasswordStart, AdminRequest
  <2>2. CASE ResetTotpStart(w, a, u)
    BY <2>2 DEF ResetTotpStart, AdminRequest
  <2>3. ASSUME NEW role \in AssignedRoles, UpdateRoleStart(w, a, u, role)
        PROVE  <1>1!:
    <3>1. role \in Role
      BY AccountsAssumption
    <3> QED
      BY <2>3, <3>1 DEF UpdateRoleStart, AdminRequest
  <2>4. ASSUME NEW active \in BOOLEAN, SetActiveStart(w, a, u, active)
        PROVE  <1>1!:
    BY <2>4 DEF SetActiveStart, AdminRequest
  <2> QED
    BY <2>1, <2>2, <2>3, <2>4
<1>2. PICK r \in AdminRequest : Forward(w, r) /\ r.user = u
                                /\ r.at \in {"password", "grants", "totp", "role", "active"}
  BY <1>1
<1>3. r \in Request
  BY <1>2 DEF Request
<1>4. /\ request' \in [Workers -> Request] /\ request'[w] = r
      /\ \A v \in Workers \ {w} : request'[v] = request[v]
  BY <1>2, <1>3, Forwarded DEF IInv, TypeOK
<1>5. UNCHANGED <<tables, process, fresh, history>> /\ Exists(u)
  BY <1>1 DEF Manages
<1>6. RequestOK(request[w])' /\ request'[w].at # "issue"
  BY <1>2, <1>4, <1>5 DEF RequestOK, Exists, tables
<1>7. clock' \in 1..MaxStep /\ params' \in 1..MaxParams
  BY <1>5 DEF process, IInv, TypeOK
<1>8. \A v \in Workers : request'[v] = request[v]
                         \/ (request'[v].at # "issue" /\ RequestOK(request[v])')
  BY <1>4, <1>6
<1> QED
  BY <1>4, <1>5, <1>7, <1>8, ReadStep

\* Sign-in reads the account row once.
LEMMA SignInStep ==
  ASSUME IInv, NEW w \in Workers, NEW u \in Users, SignIn(w, u)
  PROVE  IInv'
<1>1. PICK r : /\ r = [at |-> IF account[u].hash # params THEN "upgrade"
                              ELSE AfterPassword(account[u]),
                       user |-> u, row |-> account[u], epoch |-> epoch[u]]
               /\ Forward(w, r)
  BY DEF SignIn
<1>2. /\ Exists(u) /\ account[u] \in Account /\ epoch[u] \in Nat
      /\ UNCHANGED <<tables, process, fresh, history>>
  BY DEF SignIn, IInv, TypeOK, Exists
<1>3. r.at \in {"upgrade", "pending", "create"} /\ r.user = u /\ r.row = account[u]
      /\ r.epoch = epoch[u]
  BY <1>1 DEF AfterPassword
<1>4. r \in Request
  BY <1>1, <1>2, <1>3 DEF Request, SignInRequest, AfterPassword
<1>5. /\ request' \in [Workers -> Request] /\ request'[w] = r
      /\ \A v \in Workers \ {w} : request'[v] = request[v]
  BY <1>1, <1>4, Forwarded DEF IInv, TypeOK
<1>6. RowOK(u, account[u])
  BY <1>2 DEF IInv, AccountsOK, AccountOK, SeedsDistinct, RowOK, Account
<1>7. RequestOK(request[w])' /\ request'[w].at # "issue"
  <2>1. account' = account /\ epoch' = epoch /\ fresh' = fresh
    BY <1>2 DEF tables, history
  <2>2. RowOK(r.user, r.row)'
    BY <1>3, <1>6, <2>1 DEF RowOK, Exists
  <2> QED
    BY <1>3, <1>5, <2>1, <2>2 DEF RequestOK, RowOK, Exists
<1>8. clock' \in 1..MaxStep /\ params' \in 1..MaxParams
  BY <1>2 DEF process, IInv, TypeOK
<1>9. \A v \in Workers : request'[v] = request[v]
                         \/ (request'[v].at # "issue" /\ RequestOK(request[v])')
  BY <1>5, <1>7
<1> QED
  BY <1>2, <1>5, <1>8, <1>9, ReadStep

\* A loaded session is in the present epoch of its account.
LEMMA LoadSessionStep ==
  ASSUME IInv, NEW w \in Workers, NEW s \in Sids, NEW op \in SessionOp, LoadSession(w, s, op)
  PROVE  IInv'
<1>1. /\ session[s] \in Session /\ session[s] # None
      /\ account[session[s].user] \in Account /\ Exists(session[s].user)
      /\ session[s].epoch = epoch[session[s].user]
      /\ UNCHANGED <<tables, process, fresh, history>>
  <2>1. session[s] \in Session /\ session[s] # None
    BY DEF LoadSession, Usable, IInv, TypeOK
  <2> QED
    BY <2>1 DEF LoadSession, Usable, IInv, TypeOK, SessionsOK, SessionOK, Session, Exists
<1>2. PICK r : /\ r = [at |-> "loaded", op |-> op, sid |-> s,
                       authv |-> account[session[s].user].authv]
               /\ Forward(w, r)
  BY DEF LoadSession
<1>3. r \in Request
  BY <1>1, <1>2 DEF Request, Loaded, Account
<1>4. /\ request' \in [Workers -> Request] /\ request'[w] = r
      /\ \A v \in Workers \ {w} : request'[v] = request[v]
  BY <1>2, <1>3, Forwarded DEF IInv, TypeOK
<1>5. RequestOK(request[w])' /\ request'[w].at # "issue"
  <2>1. r.at = "loaded" /\ r.sid = s
    BY <1>2
  <2>2. account' = account /\ epoch' = epoch /\ session' = session
    BY <1>1 DEF tables, history
  <2> QED
    BY <1>1, <1>4, <2>1, <2>2 DEF RequestOK, LoadedOK, Exists
<1>6. clock' \in 1..MaxStep /\ params' \in 1..MaxParams
  BY <1>1 DEF process, IInv, TypeOK
<1>7. \A v \in Workers : request'[v] = request[v]
                         \/ (request'[v].at # "issue" /\ RequestOK(request[v])')
  BY <1>4, <1>5
<1> QED
  BY <1>1, <1>4, <1>6, <1>7, ReadStep

\* A handler that is now at q is as good as q is.
LEMMA SameRequestOK ==
  ASSUME NEW w, NEW q, request'[w] = q, RequestOK(q)'
  PROVE  RequestOK(request[w])'
<1> DEFINE r == request[w]
<1>1. (r.at \in {"upgrade", "pending", "create"} =>
         /\ RowOK(r.user, r.row)
         /\ r.row.authv = account[r.user].authv => r.epoch = epoch[r.user])'
  BY DEF RequestOK, RowOK, Exists
<1>2. (/\ r.at \in {"loaded", "consume", "enable", "replace", "claim"} => LoadedOK(r.sid)
       /\ r.at \in {"consume", "enable"} => RowOK(session[r.sid].user, r.row))'
  BY DEF RequestOK, RowOK, LoadedOK, Exists
<1>3. (/\ r.at = "consume" => r.authv = r.row.authv
       /\ r.at = "enable" => r.authv = r.row.authv + 1 /\ r.row.seed # 0)'
  BY DEF RequestOK
<1>4. (r.at \in {"claim", "issue"} => IssuableOK(session[r.sid].user, r.authv, r.proof))'
  BY DEF RequestOK, IssuableOK, Proven
<1>5. (r.at = "issue" =>
         /\ session[r.sid] # None
         /\ Exists(session[r.sid].user)
         /\ session[r.sid].revoked
         /\ r.authv = account[session[r.sid].user].authv =>
              session[r.sid].epoch = epoch[session[r.sid].user])'
  BY DEF RequestOK, Exists
<1>6. (r.at \in {"password", "grants", "totp", "role", "active"} => Exists(r.user))'
  BY DEF RequestOK, Exists
<1> QED
  BY ONLY <1>1, <1>2, <1>3, <1>4, <1>5, <1>6 DEF RequestOK

\* An account row, as it is, describes its account.
LEMMA PresentRow ==
  ASSUME IInv, NEW u \in Users, Exists(u)
  PROVE  account[u] \in Account /\ RowOK(u, account[u])
BY DEF IInv, TypeOK, AccountsOK, AccountOK, SeedsDistinct, RowOK, Account, Exists

\* A session's account is read again, and the handler goes on with what it found.
LEMMA ReadAccountStep ==
  ASSUME IInv, NEW w \in Workers, ReadAccount(w)
  PROVE  IInv'
<1>1. PICK r : r = request[w]
  OBVIOUS
<1>2. /\ r \in Loaded /\ LoadedOK(r.sid) /\ r.sid \in Sids /\ r.op \in SessionOp
      /\ r.authv \in Nat
  <2>1. r \in Request /\ r.at = "loaded" /\ RequestOK(r)
    BY <1>1 DEF IInv, TypeOK, RequestsOK, ReadAccount
  <2> QED
    BY <2>1, RequestKinds DEF RequestOK, Loaded, Account
<1>3. PICK u : u = session[r.sid].user
  OBVIOUS
<1>4. u \in Users /\ Exists(u) /\ session[r.sid] \in Session /\ session[r.sid] # None
  BY <1>2, <1>3 DEF LoadedOK, IInv, TypeOK, Session
<1>5. PICK row : row = account[u]
  OBVIOUS
<1>6. row \in Account /\ RowOK(u, row)
  BY <1>4, <1>5, PresentRow
<1>7. UNCHANGED <<tables, process, fresh, history>>
  BY DEF ReadAccount
<1> DEFINE Reading(at, authv) == [at |-> at, op |-> r.op, sid |-> r.sid, authv |-> authv,
                                  row |-> row]
           Unproved == [at |-> "claim", sid |-> r.sid, authv |-> r.authv,
                        proof |-> session[r.sid].proof]
<1>8. \/ Forward(w, Reading("consume", r.authv)) /\ row.authv = r.authv
      \/ Forward(w, Reading("enable", row.authv + 1)) /\ row.seed # 0
      \/ /\ Forward(w, Unproved) /\ row.authv = r.authv
         /\ ~RequiresTotp(row.role) /\ ~row.enabled
      \/ Forward(w, Reading("replace", r.authv))
  BY <1>1, <1>3, <1>5 DEF ReadAccount
<1>9. row.authv \in Nat /\ row.authv + 1 \in Nat /\ session[r.sid].proof \in Nat
  BY <1>4, <1>6 DEF Account, Session
<1>10. ASSUME NEW q \in Request, Forward(w, q), RequestOK(q), q.at # "issue"
       PROVE  IInv'
  <2>1. /\ request' \in [Workers -> Request] /\ request'[w] = q
        /\ \A v \in Workers \ {w} : request'[v] = request[v]
    BY <1>10, Forwarded DEF IInv, TypeOK
  <2>2. RequestOK(request[w])'
    <3>1. account' = account /\ session' = session /\ epoch' = epoch /\ fresh' = fresh
      BY <1>7 DEF tables, history
    <3>2. request'[w] = q
      BY <2>1
    <3>3. RequestOK(q)'
      BY ONLY <1>10, <3>1 DEF RequestOK, RowOK, LoadedOK, IssuableOK, Proven, Exists
    <3> QED
      BY ONLY <3>2, <3>3, SameRequestOK
  <2>3. clock' \in 1..MaxStep /\ params' \in 1..MaxParams
    BY <1>7 DEF process, IInv, TypeOK
  <2>4. \A v \in Workers : request'[v] = request[v]
                           \/ (request'[v].at # "issue" /\ RequestOK(request[v])')
    BY <1>10, <2>1, <2>2
  <2> QED
    BY <1>7, <2>1, <2>3, <2>4, ReadStep
<1>11. CASE Forward(w, Reading("consume", r.authv)) /\ row.authv = r.authv
  <2>1. Reading("consume", r.authv) \in Request
    BY <1>2, <1>6 DEF Request, RowRead
  <2>2. RequestOK(Reading("consume", r.authv))
    BY <1>2, <1>3, <1>6, <1>11 DEF RequestOK
  <2> QED
    BY <1>10, <1>11, <2>1, <2>2
<1>12. CASE Forward(w, Reading("enable", row.authv + 1)) /\ row.seed # 0
  <2>1. Reading("enable", row.authv + 1) \in Request
    BY <1>2, <1>6, <1>9 DEF Request, RowRead
  <2>2. RequestOK(Reading("enable", row.authv + 1))
    BY <1>2, <1>3, <1>6, <1>12 DEF RequestOK
  <2> QED
    BY <1>10, <1>12, <2>1, <2>2
<1>13. CASE Forward(w, Unproved) /\ row.authv = r.authv /\ ~RequiresTotp(row.role)
            /\ ~row.enabled
  <2>1. Unproved \in Request
    BY <1>2, <1>9 DEF Request, VerifiedRequest
  <2>2. IssuableOK(u, r.authv, session[r.sid].proof)
    BY <1>5, <1>9, <1>13 DEF IssuableOK, Proven
  <2>3. RequestOK(Unproved)
    BY <1>2, <1>3, <2>2 DEF RequestOK
  <2> QED
    BY <1>10, <1>13, <2>1, <2>3
<1>14. CASE Forward(w, Reading("replace", r.authv))
  <2>1. Reading("replace", r.authv) \in Request
    BY <1>2, <1>6 DEF Request, RowRead
  <2>2. RequestOK(Reading("replace", r.authv))
    BY <1>2 DEF RequestOK
  <2> QED
    BY <1>10, <1>14, <2>1, <2>2
<1> QED
  BY <1>8, <1>11, <1>12, <1>13, <1>14

\* A handler that gives up, the clock and a restart leave the tables alone.
LEMMA EnvironmentSteps ==
  ASSUME IInv, \/ \E w \in Workers : Abandon(w)
               \/ Tick
               \/ Redeploy
               \/ UNCHANGED vars
  PROVE  IInv'
<1>1. Idle \in Request
  BY DEF Request
<1>2. ASSUME NEW w \in Workers, Abandon(w) PROVE IInv'
  <2>1. /\ request' \in [Workers -> Request] /\ request'[w] = Idle
        /\ \A v \in Workers \ {w} : request'[v] = request[v]
    BY <1>1, <1>2, Forwarded DEF IInv, TypeOK, Abandon, Done
  <2>2. RequestOK(request[w])' /\ request'[w].at # "issue"
    BY <2>1, IdleOK DEF Idle
  <2>3. \A v \in Workers : request'[v] = request[v]
                           \/ (request'[v].at # "issue" /\ RequestOK(request[v])')
    BY <2>1, <2>2
  <2>4. clock' \in 1..MaxStep /\ params' \in 1..MaxParams
    BY <1>2 DEF Abandon, process, IInv, TypeOK
  <2> QED
    BY <1>2, <2>1, <2>3, <2>4, ReadStep DEF Abandon
<1>3. CASE Tick
  <2>1. clock' \in 1..MaxStep /\ params' \in 1..MaxParams
    BY <1>3, AccountsAssumption DEF Tick, IInv, TypeOK
  <2>2. request' \in [Workers -> Request]
    BY <1>3 DEF Tick, IInv, TypeOK
  <2>3. \A v \in Workers : request'[v] = request[v]
    BY <1>3 DEF Tick
  <2> QED
    BY <1>3, <2>1, <2>2, <2>3, ReadStep DEF Tick
<1>4. CASE Redeploy
  <2>1. clock' \in 1..MaxStep /\ params' \in 1..MaxParams
    BY <1>4, AccountsAssumption DEF Redeploy, IInv, TypeOK
  <2>2. request' \in [Workers -> Request] /\ \A v \in Workers : request'[v] = Idle
    BY <1>1, <1>4 DEF Redeploy
  <2>3. \A v \in Workers : request'[v].at # "issue" /\ RequestOK(request[v])'
    BY <2>2, IdleOK DEF Idle
  <2> QED
    BY <1>4, <2>1, <2>2, <2>3, ReadStep DEF Redeploy
<1>5. CASE UNCHANGED vars
  <2>1. /\ UNCHANGED <<tables, fresh, history>> /\ request' = request
        /\ clock' = clock /\ params' = params
    BY <1>5 DEF vars, process
  <2>2. clock' \in 1..MaxStep /\ params' \in 1..MaxParams /\ request' \in [Workers -> Request]
    BY <2>1 DEF IInv, TypeOK
  <2> QED
    BY <2>1, <2>2, ReadStep
<1> QED
  BY <1>2, <1>3, <1>4, <1>5
\* Whatever takes the sessions of an account away moves its auth_version and epoch, and
\* revokes them; the row it writes keeps the seed and its use, or drops it.
LEMMA InvalidateStep ==
  ASSUME IInv, NEW u \in Users, NEW row \in Account, Exists(u), Invalidate(u, row),
         row.enabled => row.seed # 0,
         row.grant => row.active /\ row.role = "CONTRIBUTOR",
         \/ row.seed = 0
         \/ /\ row.seed = account[u].seed
            /\ row.enabled = account[u].enabled
            /\ row.last = account[u].last,
         ~ManagesUsers(u) \/ (row.active /\ row.role = "ADMINISTRATOR") \/ OtherAdministrator(u),
         UNCHANGED <<process, consumed>>, fresh' \in Nat, fresh <= fresh',
         temporary' \in [Users -> Nat], request' \in [Workers -> Request],
         \A w \in Workers : request'[w] = request[w] \/ request'[w] = Idle
  PROVE  IInv'
<1>1. account[u] \in Account /\ account[u].authv \in Nat /\ account[u].authv # 0
  BY DEF IInv, TypeOK, Exists, Account
<1>2. PICK written : written = [row EXCEPT !.authv = account[u].authv + 1]
  OBVIOUS
<1>3. /\ written \in Account /\ written # None
      /\ written.authv = account[u].authv + 1 /\ written.role = row.role
      /\ written.active = row.active /\ written.seed = row.seed
      /\ written.enabled = row.enabled /\ written.last = row.last /\ written.grant = row.grant
  <2>1. account[u].authv + 1 \in Nat \ {0}
    BY <1>1
  <2>2. written \in Account
    BY <1>2, <2>1 DEF Account
  <2> QED
    BY <1>2, <2>2, AbsenceAssumption DEF Account
<1>4. /\ account' = [account EXCEPT ![u] = written]
      /\ session' = RevokeSessions(u)
      /\ epoch' = [epoch EXCEPT ![u] = @ + 1]
  BY <1>2 DEF Invalidate
<1>5. TypeOK'
  <2>1. account' \in [Users -> Account \cup {None}]
    BY <1>3, <1>4 DEF IInv, TypeOK
  <2>2. ASSUME NEW s \in Sids PROVE RevokeSessions(u)[s] \in Session \cup {None}
    <3>1. session[s] \in Session \cup {None}
      BY DEF IInv, TypeOK
    <3> QED
      BY ONLY <3>1 DEF RevokeSessions, Session
  <2>3. session' \in [Sids -> Session \cup {None}]
    BY <1>4, <2>2 DEF RevokeSessions
  <2>4. epoch' \in [Users -> Nat]
    BY <1>4 DEF IInv, TypeOK
  <2> QED
    BY <2>1, <2>3, <2>4 DEF IInv, TypeOK, process
<1>6. account'[u] = written /\ epoch'[u] = epoch[u] + 1 /\ OnlyAccount(u)
  BY <1>4 DEF IInv, TypeOK, OnlyAccount
<1>7. AccountAdvances(u)
  BY <1>1, <1>3, <1>6 DEF AccountAdvances
<1>8. account[u].seed \in Nat /\ fresh \in Nat /\ account[u].seed <= fresh
  BY <1>1 DEF Account, IInv, TypeOK, AccountsOK, AccountOK
<1>9. AccountOK(u)'
  <2>1. written.seed <= fresh'
    BY <1>3, <1>8
  <2> QED
    BY <1>3, <1>6, <2>1 DEF AccountOK, Exists
<1>10. CodesFollow(u)
  <2>1. account[u].last \in Nat
    BY <1>1 DEF Account
  <2> QED
    BY <1>3, <1>6, <2>1 DEF CodesFollow
<1>11. ~ManagesUsers(u) \/ ManagesUsers(u)' \/ OtherAdministrator(u)
  BY <1>3, <1>6 DEF ManagesUsers, Exists
<1>12. AccountsOK' /\ AdministratorRemains' /\ \A v \in Users : Exists(v) => AccountAdvances(v)
  BY <1>5, <1>6, <1>7, <1>9, <1>10, <1>11, AccountChanged
<1>13. \A s \in Sids : session[s] = None => session'[s] = None
  BY <1>4 DEF RevokeSessions
<1>14. ASSUME NEW s \in Sids, session[s] # None PROVE SessionAdvances(s)
  <2>1. session[s] \in Session /\ session[s].user \in Users
    BY <1>14, RowTypes DEF IInv, Session
  <2>2. CASE session[s].user = u
    <3>1. session'[s] = [session[s] EXCEPT !.revoked = TRUE]
      BY <1>4, <1>14, <2>2 DEF RevokeSessions
    <3>2. session'[s] \in Session
      BY <2>1, <3>1 DEF Session
    <3> QED
      BY <2>1, <3>1, <3>2, AbsenceAssumption DEF SessionAdvances, Session
  <2>3. CASE session[s].user # u
    <3>1. session'[s] = session[s]
      BY <1>4, <2>3 DEF RevokeSessions
    <3>2. epoch'[session[s].user] = epoch[session[s].user]
      BY <1>6, <2>1, <2>3 DEF OnlyAccount
    <3> QED
      BY <1>14, <3>1, <3>2 DEF SessionAdvances
  <2> QED
    BY <2>2, <2>3
<1>15. Advance
  <2>1. \A v \in Users : ~Exists(v) => account'[v] = None
    BY <1>6 DEF OnlyAccount, Exists
  <2> QED
    BY <1>12, <1>14, <2>1 DEF Advance
<1>16. SessionsOK' /\ RequestsOK'
  <2>1. \A s \in Sids : session[s] # None \/ SessionOK(s)'
    BY <1>13 DEF SessionOK
  <2>2. \A w \in Workers : request'[w] = request[w] \/ RequestOK(request[w])'
    BY IdleOK
  <2> QED
    BY <1>5, <1>15, <2>1, <2>2, RestKept
<1>17. RotationsOK'
  <2>1. \A w \in Workers : request'[w].at = "issue" => request'[w] = request[w]
    BY DEF Idle
  <2> QED
    BY <1>13, <1>15, <2>1, RotationsKept DEF IInv
<1> QED
  BY <1>5, <1>12, <1>16, <1>17 DEF IInv

\* A worker whose request is over leaves the others as they are.
LEMMA DoneLeaves ==
  ASSUME IInv, NEW w \in Workers, Done(w)
  PROVE  /\ request' \in [Workers -> Request]
         /\ \A v \in Workers : request'[v] = request[v] \/ request'[v] = Idle
<1>1. Idle \in Request
  BY DEF Request
<1> QED
  BY <1>1, Forwarded DEF Done, IInv, TypeOK

\* The target of an administrator's request exists.
LEMMA TargetExists ==
  ASSUME IInv, NEW w \in Workers,
         request[w].at \in {"password", "grants", "totp", "role", "active"}
  PROVE  /\ request[w].user \in Users /\ Exists(request[w].user)
         /\ account[request[w].user] \in Account /\ AccountOK(request[w].user)
         /\ request[w].at = "role" => request[w].role \in Role
         /\ request[w].at = "active" => request[w].active \in BOOLEAN
<1>1. request[w] \in Request /\ RequestOK(request[w])
  BY DEF IInv, TypeOK, RequestsOK
<1>2. request[w].user \in Users /\ Exists(request[w].user)
  BY <1>1, RequestKinds DEF RequestOK
<1> QED
  BY <1>1, <1>2, RequestKinds DEF IInv, TypeOK, AccountsOK, Exists

\* The administrator's transactions that take sessions away.
LEMMA AdministrationSteps ==
  ASSUME IInv,
         NEW w \in Workers, ResetPassword(w) \/ UpdateRole(w) \/ SetActive(w) \/ ResetTotp(w)
  PROVE  IInv'
<1>1. PICK r : r = request[w]
  OBVIOUS
<1>2. PICK u : u = r.user
  OBVIOUS
<1>3. /\ r.at \in {"password", "totp", "role", "active"}
      /\ UNCHANGED <<process, consumed>> /\ Done(w)
  BY <1>1 DEF ResetPassword, UpdateRole, SetActive, ResetTotp
<1>4. /\ u \in Users /\ Exists(u) /\ account[u] \in Account /\ AccountOK(u)
      /\ r.at = "role" => r.role \in Role
      /\ r.at = "active" => r.active \in BOOLEAN
  BY <1>1, <1>2, <1>3, TargetExists
<1>5. /\ fresh \in Nat /\ fresh + 1 \in Nat /\ params \in Nat
      /\ fresh <= fresh + 1 /\ temporary \in [Users -> Nat]
  BY AccountsAssumption DEF IInv, TypeOK
<1>6. /\ request' \in [Workers -> Request]
      /\ \A v \in Workers : request'[v] = request[v] \/ request'[v] = Idle
  BY <1>3, DoneLeaves
<1>7. CASE ResetPassword(w)
  <2>1. PICK row : row = [account[u] EXCEPT !.pw = fresh + 1, !.hash = params, !.must = TRUE]
    OBVIOUS
  <2>2. /\ row \in Account /\ row.enabled = account[u].enabled /\ row.seed = account[u].seed
        /\ row.last = account[u].last /\ row.grant = account[u].grant
        /\ row.active = account[u].active /\ row.role = account[u].role
    BY <1>4, <1>5, <2>1 DEF Account
  <2>3. Invalidate(u, row) /\ fresh' = fresh + 1
        /\ temporary' = [temporary EXCEPT ![u] = fresh + 1]
    BY <1>1, <1>2, <1>7, <2>1 DEF ResetPassword
  <2>4. temporary' \in [Users -> Nat] /\ fresh' \in Nat /\ fresh <= fresh'
    BY <1>5, <2>3
  <2>5. /\ row.enabled => row.seed # 0
        /\ row.grant => row.active /\ row.role = "CONTRIBUTOR"
    BY <1>4, <2>2 DEF AccountOK
  <2>6. ~ManagesUsers(u) \/ (row.active /\ row.role = "ADMINISTRATOR")
    BY <2>2 DEF ManagesUsers
  <2> QED
    BY <1>3, <1>4, <1>6, <2>2, <2>3, <2>4, <2>5, <2>6, InvalidateStep
<1>8. CASE UpdateRole(w)
  <2>1. r.at = "role"
    BY <1>1, <1>8 DEF UpdateRole
  <2>2. PICK row : row = [account[u] EXCEPT !.role = r.role, !.grant = FALSE]
    OBVIOUS
  <2>3. /\ row \in Account /\ row.enabled = account[u].enabled /\ row.seed = account[u].seed
        /\ row.last = account[u].last /\ row.grant = FALSE
        /\ row.active = account[u].active /\ row.role = r.role
    BY <1>4, <2>1, <2>2 DEF Account
  <2>4. /\ Invalidate(u, row) /\ UNCHANGED <<fresh, temporary>>
        /\ ~ManagesUsers(u) \/ r.role = "ADMINISTRATOR" \/ OtherAdministrator(u)
    BY <1>1, <1>2, <1>8, <2>2 DEF UpdateRole
  <2>5. temporary' \in [Users -> Nat] /\ fresh' \in Nat /\ fresh <= fresh'
    BY <1>5, <2>4
  <2>6. row.enabled => row.seed # 0
    BY <1>4, <2>3 DEF AccountOK
  <2>7. \/ ~ManagesUsers(u) \/ (row.active /\ row.role = "ADMINISTRATOR")
        \/ OtherAdministrator(u)
    BY <2>3, <2>4 DEF ManagesUsers
  <2> QED
    BY <1>3, <1>4, <1>6, <2>3, <2>4, <2>5, <2>6, <2>7, InvalidateStep
<1>9. CASE SetActive(w)
  <2>1. r.at = "active"
    BY <1>1, <1>9 DEF SetActive
  <2>2. PICK row : row = WithActive(account[u], r.active)
    OBVIOUS
  <2>3. /\ row \in Account /\ row.enabled = account[u].enabled /\ row.seed = account[u].seed
        /\ row.last = account[u].last /\ row.grant = FALSE
        /\ row.active = r.active /\ row.role = account[u].role
    BY <1>4, <2>1, <2>2 DEF Account, WithActive
  <2>4. /\ Invalidate(u, row) /\ UNCHANGED <<fresh, temporary>>
        /\ r.active \/ ~ManagesUsers(u) \/ OtherAdministrator(u)
    BY <1>1, <1>2, <1>9, <2>2 DEF SetActive
  <2>5. temporary' \in [Users -> Nat] /\ fresh' \in Nat /\ fresh <= fresh'
    BY <1>5, <2>4
  <2>6. row.enabled => row.seed # 0
    BY <1>4, <2>3 DEF AccountOK
  <2>7. \/ ~ManagesUsers(u) \/ (row.active /\ row.role = "ADMINISTRATOR")
        \/ OtherAdministrator(u)
    BY <2>3, <2>4 DEF ManagesUsers
  <2> QED
    BY <1>3, <1>4, <1>6, <2>3, <2>4, <2>5, <2>6, <2>7, InvalidateStep
<1>10. CASE ResetTotp(w)
  <2>1. PICK row : row = [account[u] EXCEPT !.seed = 0, !.enabled = FALSE, !.last = 0]
    OBVIOUS
  <2>2. /\ row \in Account /\ row.enabled = FALSE /\ row.seed = 0
        /\ row.grant = account[u].grant
        /\ row.active = account[u].active /\ row.role = account[u].role
    BY <1>4, <2>1 DEF Account
  <2>3. Invalidate(u, row) /\ UNCHANGED <<fresh, temporary>>
    BY <1>1, <1>2, <1>10, <2>1 DEF ResetTotp
  <2>4. temporary' \in [Users -> Nat] /\ fresh' \in Nat /\ fresh <= fresh'
    BY <1>5, <2>3
  <2>5. row.grant => row.active /\ row.role = "CONTRIBUTOR"
    BY <1>4, <2>2 DEF AccountOK
  <2>6. ~ManagesUsers(u) \/ (row.active /\ row.role = "ADMINISTRATOR")
    BY <2>2 DEF ManagesUsers
  <2> QED
    BY <1>3, <1>4, <1>6, <2>2, <2>3, <2>4, <2>5, <2>6, InvalidateStep
<1> QED
  BY <1>7, <1>8, <1>9, <1>10
\* A grant or a withdrawal of App access.
LEMMA SetServiceAccessStep ==
  ASSUME IInv, NEW a \in Users, NEW u \in Users, NEW granted \in BOOLEAN,
         SetServiceAccess(a, u, granted)
  PROVE  IInv'
<1>1. /\ Exists(u) /\ account[u] \in Account /\ AccountOK(u)
      /\ account[u].active /\ account[u].role = "CONTRIBUTOR"
      /\ UNCHANGED <<request, process, fresh, temporary, consumed>>
  BY DEF SetServiceAccess, IInv, TypeOK, AccountsOK, Exists
<1>2. PICK row : row = [account[u] EXCEPT !.grant = granted]
  OBVIOUS
<1>3. /\ row \in Account /\ row.enabled = account[u].enabled /\ row.seed = account[u].seed
      /\ row.last = account[u].last
      /\ row.active = account[u].active /\ row.role = account[u].role
  BY <1>1, <1>2 DEF Account
<1>4. Invalidate(u, row)
  BY <1>2 DEF SetServiceAccess
<1>5. /\ temporary' \in [Users -> Nat] /\ fresh' \in Nat /\ fresh <= fresh'
      /\ request' \in [Workers -> Request]
      /\ \A w \in Workers : request'[w] = request[w] \/ request'[w] = Idle
  BY <1>1 DEF IInv, TypeOK
<1>6. row.enabled => row.seed # 0
  BY <1>1, <1>3 DEF AccountOK
<1>7. row.active /\ row.role = "CONTRIBUTOR"
  BY <1>1, <1>3
<1>8. ~ManagesUsers(u)
  BY <1>1 DEF ManagesUsers
<1>9. UNCHANGED <<process, consumed>>
  BY <1>1
<1> QED
  BY <1>1, <1>3, <1>4, <1>5, <1>6, <1>7, <1>8, <1>9, InvalidateStep

\* The bootstrap administrator, or an account an administrator creates, is one more.
LEMMA AddAccountStep ==
  ASSUME IInv, NEW u \in Users, NEW role \in Role, ~Exists(u), AddAccount(u, role),
         role = "ADMINISTRATOR" \/ \E v \in Users : ManagesUsers(v)
  PROVE  IInv'
<1>1. /\ fresh \in Nat /\ fresh + 1 \in Nat /\ fresh <= fresh + 1 /\ params \in Nat
      /\ account \in [Users -> Account \cup {None}]
  BY AccountsAssumption DEF IInv, TypeOK
<1>2. PICK row : row = NewAccount(role)
  OBVIOUS
<1>3. /\ row \in Account /\ row # None /\ row.seed = 0 /\ ~row.enabled /\ ~row.grant
      /\ row.active /\ row.role = role
  <2>1. row \in Account
    BY <1>1, <1>2 DEF NewAccount, Account
  <2> QED
    BY <1>2, <2>1, AbsenceAssumption DEF NewAccount
<1>4. /\ account' = [account EXCEPT ![u] = row] /\ fresh' = fresh + 1
      /\ UNCHANGED <<session, request, clock, params, epoch, consumed>>
      /\ temporary' = [temporary EXCEPT ![u] = fresh + 1]
  BY <1>2 DEF AddAccount, process
<1>5. /\ account'[u] = row
      /\ \A v \in Users \ {u} : account'[v] = account[v]
      /\ \A v \in Users : Exists(v) => account'[v] = account[v]
  BY <1>1, <1>4 DEF Exists
<1>6. TypeOK'
  <2>1. account' \in [Users -> Account \cup {None}]
    BY <1>1, <1>3, <1>4
  <2>2. temporary' \in [Users -> Nat]
    BY <1>1, <1>4 DEF IInv, TypeOK
  <2> QED
    BY <1>1, <1>4, <2>1, <2>2 DEF IInv, TypeOK
<1>7. Advance
  <2>1. ASSUME NEW v \in Users, Exists(v) PROVE AccountAdvances(v)
    <3>1. account[v] \in Account /\ account'[v] = account[v] /\ epoch'[v] = epoch[v]
      BY <1>1, <1>4, <1>5, <2>1 DEF Exists
    <3> QED
      BY <2>1, <3>1 DEF AccountAdvances, Exists, Account
  <2>2. ASSUME NEW s \in Sids, session[s] # None PROVE SessionAdvances(s)
    BY <1>4, <2>2 DEF SessionAdvances
  <2>3. \A v \in Users : ~Exists(v) /\ account'[v] # None => account'[v].seed = 0
    BY <1>3, <1>5 DEF Exists
  <2> QED
    BY <1>1, <1>4, <2>1, <2>2, <2>3 DEF Advance
<1>8. AccountsOK'
  <2>1. ASSUME NEW v \in Users PROVE AccountOK(v)'
    <3>1. CASE v = u
      BY <1>1, <1>3, <1>4, <1>5, <3>1 DEF AccountOK
    <3>2. CASE v # u
      BY <1>1, <1>4, <1>5, <3>2 DEF IInv, AccountsOK, AccountOK, Exists, Account
    <3> QED
      BY <3>1, <3>2
  <2>2. SeedsDistinct'
    BY <1>3, <1>5 DEF IInv, AccountsOK, SeedsDistinct, Exists
  <2>3. ConsumedOK'
    <3>1. \A c \in consumed : c[1] \in Nat
      BY DEF IInv, TypeOK
    <3> QED
      BY <1>1, <1>3, <1>4, <1>5, <3>1 DEF IInv, AccountsOK, ConsumedOK, Exists
  <2> QED
    BY <2>1, <2>2, <2>3 DEF AccountsOK
<1>9. AdministratorRemains'
  <2>1. CASE role = "ADMINISTRATOR"
    BY <1>3, <1>5, <2>1 DEF AdministratorRemains, ManagesUsers, Exists
  <2>2. CASE \E v \in Users : ManagesUsers(v)
    BY <1>5, <2>2 DEF AdministratorRemains, ManagesUsers, Exists
  <2> QED
    BY <2>1, <2>2
<1>10. SessionsOK' /\ RequestsOK'
  <2>1. \A s \in Sids : session[s] # None \/ SessionOK(s)'
    BY <1>4 DEF SessionOK
  <2>2. \A w \in Workers : request'[w] = request[w] \/ RequestOK(request[w])'
    BY <1>4
  <2> QED
    BY <1>6, <1>7, <2>1, <2>2, RestKept
<1>11. RotationsOK'
  BY <1>4, <1>7, RotationsKept DEF IInv
<1> QED
  BY <1>6, <1>8, <1>9, <1>10, <1>11 DEF IInv

\* Bootstrap and creation.
LEMMA NewAccountSteps ==
  ASSUME IInv, \/ BootstrapInitialAdmin
               \/ \E a, u \in Users, role \in AssignedRoles : CreateUser(a, u, role)
  PROVE  IInv'
<1>1. CASE BootstrapInitialAdmin
  <2>1. BootstrapAdmin \in Users /\ "ADMINISTRATOR" \in Role
    BY AccountsAssumption DEF Role
  <2> QED
    BY <1>1, <2>1, AddAccountStep DEF BootstrapInitialAdmin
<1>2. ASSUME NEW a \in Users, NEW u \in Users, NEW role \in AssignedRoles,
             CreateUser(a, u, role)
      PROVE  IInv'
  <2>1. role \in Role
    BY AccountsAssumption
  <2> QED
    BY <1>2, <2>1, AddAccountStep DEF CreateUser
<1> QED
  BY <1>1, <1>2

\* One row is rewritten under its epoch, and the sessions stay: all but the requests.
LEMMA RowStep ==
  ASSUME IInv, NEW u \in Users, Exists(u), NEW row \in Account,
         account' = [account EXCEPT ![u] = row],
         UNCHANGED <<session, process, epoch, temporary>>,
         row.role = account[u].role, row.active = account[u].active,
         row.enabled => row.seed # 0, row.grant => account[u].grant,
         AccountAdvances(u), CodesFollow(u),
         row.seed <= fresh', fresh' \in Nat, fresh <= fresh', consumed' \subseteq Nat \X Nat,
         request' \in [Workers -> Request]
  PROVE  /\ TypeOK' /\ Advance /\ AccountsOK' /\ SessionsOK' /\ AdministratorRemains'
         /\ account'[u] = row
<1>1. /\ account'[u] = row /\ OnlyAccount(u)
      /\ \A v \in Users \ {u} : account'[v] = account[v]
  BY DEF IInv, TypeOK, OnlyAccount
<1>2. TypeOK'
  BY DEF IInv, TypeOK, process
<1>3. AccountOK(u)'
  BY <1>1 DEF AccountOK, Exists, IInv, AccountsOK
<1>4. ~ManagesUsers(u) \/ ManagesUsers(u)'
  BY <1>1 DEF ManagesUsers, AccountAdvances, Exists
<1>5. AccountsOK' /\ AdministratorRemains' /\ \A v \in Users : Exists(v) => AccountAdvances(v)
  BY <1>1, <1>2, <1>3, <1>4, AccountChanged
<1>6. Advance
  <2>1. ASSUME NEW s \in Sids, session[s] # None PROVE SessionAdvances(s)
    BY <2>1 DEF SessionAdvances
  <2>2. \A v \in Users : ~Exists(v) => account'[v] = None
    BY <1>1 DEF Exists
  <2> QED
    BY <1>5, <2>1, <2>2 DEF Advance
<1>7. SessionsOK'
  <2>1. ASSUME NEW s \in Sids PROVE SessionOK(s)'
    <3>1. CASE session[s] = None
      BY <3>1 DEF SessionOK
    <3>2. CASE session[s] # None
      BY <1>2, <1>6, <3>2, SessionKept DEF IInv, SessionsOK
    <3> QED
      BY <3>1, <3>2
  <2> QED
    BY <2>1 DEF SessionsOK
<1> QED
  BY <1>1, <1>2, <1>5, <1>6, <1>7

\* ... and the requests, when the one that moves on is right and does not begin to issue.
LEMMA RowStepRequests ==
  ASSUME IInv, TypeOK', Advance, AccountsOK', SessionsOK', AdministratorRemains',
         session' = session, NEW w \in Workers, NEW r \in Request, Forward(w, r),
         r.at # "issue", RequestOK(request[w])'
  PROVE  IInv'
<1>1. /\ request'[w] = r
      /\ \A v \in Workers \ {w} : request'[v] = request[v]
  BY Forwarded DEF IInv, TypeOK
<1>2. \A v \in Workers : request'[v] = request[v] \/ RequestOK(request[v])'
  BY <1>1
<1>3. \A s \in Sids : session[s] # None \/ SessionOK(s)'
  BY DEF SessionsOK
<1>4. RequestsOK'
  BY <1>2, <1>3, RestKept
<1>5. RotationsOK'
  <2>1. \A v \in Workers : request'[v].at = "issue" => request'[v] = request[v]
    BY <1>1
  <2> QED
    BY <2>1, RotationsKept DEF IInv
<1> QED
  BY <1>4, <1>5 DEF IInv
\* Deactivating an inactive account again deletes its grants.
LEMMA DropGrantsStep ==
  ASSUME IInv, NEW w \in Workers, DropGrants(w)
  PROVE  IInv'
<1>1. PICK u : u = request[w].user
  OBVIOUS
<1>2. u \in Users /\ Exists(u) /\ account[u] \in Account /\ AccountOK(u)
  BY <1>1, TargetExists DEF DropGrants
<1>3. PICK row : row = [account[u] EXCEPT !.grant = FALSE]
  OBVIOUS
<1>4. /\ row \in Account /\ row.authv = account[u].authv /\ row.role = account[u].role
      /\ row.active = account[u].active /\ row.enabled = account[u].enabled
      /\ row.seed = account[u].seed /\ row.last = account[u].last /\ ~row.grant
      /\ row # None
  <2>1. row \in Account
    BY <1>2, <1>3 DEF Account
  <2> QED
    BY <1>2, <1>3, <2>1, AbsenceAssumption DEF Account
<1>5. /\ account' = [account EXCEPT ![u] = row]
      /\ UNCHANGED <<session, process, fresh, epoch, temporary, consumed>> /\ Done(w)
  BY <1>1, <1>3 DEF DropGrants, history
<1>6. account'[u] = row
  BY <1>2, <1>5 DEF IInv, TypeOK
<1>7. AccountAdvances(u)
  BY <1>2, <1>4, <1>5, <1>6 DEF AccountAdvances, Account
<1>8. CodesFollow(u)
  BY <1>2, <1>4, <1>5, <1>6 DEF CodesFollow, Account
<1>9. /\ fresh' \in Nat /\ fresh <= fresh' /\ consumed' \subseteq Nat \X Nat
      /\ Idle \in Request /\ row.seed <= fresh' /\ (row.enabled => row.seed # 0)
  BY <1>2, <1>4, <1>5 DEF IInv, TypeOK, Request, AccountOK
<1>10. request' \in [Workers -> Request] /\ request'[w] = Idle
  BY <1>5, <1>9, Forwarded DEF IInv, TypeOK, Done
<1>11. TypeOK' /\ Advance /\ AccountsOK' /\ SessionsOK' /\ AdministratorRemains'
  BY <1>2, <1>4, <1>5, <1>7, <1>8, <1>9, <1>10, RowStep
<1>12. RequestOK(request[w])' /\ Idle.at # "issue"
  BY <1>10, IdleOK DEF Idle
<1> QED
  BY <1>5, <1>9, <1>11, <1>12, RowStepRequests DEF Done

\* A sign-in that goes on keeps the row it read, which still describes the account or is
\* out of date.
LEMMA SignInKept ==
  ASSUME IInv, TypeOK', Advance, NEW w \in Workers, NEW stage \in {"upgrade", "pending", "create"},
         request[w].at \in {"upgrade", "pending", "create"},
         request'[w] = [request[w] EXCEPT !.at = stage]
  PROVE  RequestOK(request[w])'
<1>1. PICK r : r = request[w]
  OBVIOUS
<1>2. r \in SignInRequest /\ RequestOK(r)
  BY <1>1, RequestKinds DEF IInv, TypeOK, RequestsOK
<1>3. /\ r.user \in Users /\ r.row \in Account /\ RowOK(r.user, r.row)
      /\ r.row.authv = account[r.user].authv => r.epoch = epoch[r.user]
  BY <1>1, <1>2 DEF SignInRequest, RequestOK
<1>4. /\ request'[w].at = stage /\ request'[w].user = r.user /\ request'[w].row = r.row
      /\ request'[w].epoch = r.epoch
  BY <1>1, <1>2 DEF SignInRequest
<1>5. RowOK(r.user, r.row)'
  <2>1. \A u \in Users, row \in Account : RowOK(u, row) => RowOK(u, row)'
    BY RowKept DEF IInv
  <2> QED
    BY <1>1, <1>3, <1>4, <2>1 DEF RowOK, Exists
<1>6. r.row.authv = account'[r.user].authv => r.epoch = epoch'[r.user]
  <2>1. AccountAdvances(r.user) /\ account[r.user] \in Account /\ account'[r.user] \in Account
    BY <1>3 DEF RowOK, Advance, Exists, IInv, TypeOK, AccountAdvances
  <2>2. r.row.authv <= account[r.user].authv /\ r.row.authv \in Nat
    BY <1>3 DEF RowOK, Account
  <2> QED
    BY <1>3, <2>1, <2>2 DEF AccountAdvances, Account
<1>7. RowOK(request[w].user, request[w].row)'
  BY ONLY <1>4, <1>5 DEF RowOK, Exists
<1> QED
  BY <1>4, <1>6, <1>7 DEF RequestOK

\* What a sign-in in flight knows of its account.
LEMMA SignInFacts ==
  ASSUME IInv, NEW w \in Workers, request[w].at \in {"upgrade", "pending", "create"}
  PROVE  /\ request[w] \in SignInRequest
         /\ request[w].user \in Users /\ Exists(request[w].user)
         /\ account[request[w].user] \in Account /\ AccountOK(request[w].user)
         /\ RowOK(request[w].user, request[w].row)
<1>1. request[w] \in SignInRequest /\ RequestOK(request[w])
  BY RequestKinds DEF IInv, TypeOK, RequestsOK
<1> QED
  BY <1>1 DEF SignInRequest, RequestOK, RowOK, IInv, TypeOK, Exists, AccountsOK

\* The hash of the verified password is brought to the running parameters.
LEMMA UpgradePasswordStep ==
  ASSUME IInv, NEW w \in Workers, UpgradePassword(w)
  PROVE  IInv'
<1>1. PICK r : r = request[w]
  OBVIOUS
<1>2. PICK u : u = r.user
  OBVIOUS
<1>3. /\ r \in SignInRequest /\ u \in Users /\ Exists(u) /\ account[u] \in Account
      /\ AccountOK(u) /\ r.row \in Account /\ params \in Nat
  BY <1>1, <1>2, SignInFacts, AccountsAssumption
     DEF UpgradePassword, SignInRequest, IInv, TypeOK
<1>4. PICK row : row = [account[u] EXCEPT !.pw = r.row.pw, !.hash = params]
  OBVIOUS
<1>5. /\ row \in Account /\ row.authv = account[u].authv /\ row.role = account[u].role
      /\ row.active = account[u].active /\ row.enabled = account[u].enabled
      /\ row.seed = account[u].seed /\ row.last = account[u].last
      /\ row.grant = account[u].grant /\ row # None
  <2>1. row \in Account
    BY <1>3, <1>4 DEF Account
  <2> QED
    BY <1>3, <1>4, <2>1, AbsenceAssumption DEF Account
<1>6. /\ account' = [account EXCEPT ![u].pw = r.row.pw, ![u].hash = params]
      /\ UNCHANGED <<session, process, fresh, epoch, temporary, consumed>>
      /\ Forward(w, [r EXCEPT !.at = AfterPassword(r.row)])
  BY <1>1, <1>2 DEF UpgradePassword, history
<1>7. account' = [account EXCEPT ![u] = row]
  BY <1>3, <1>4, <1>6 DEF IInv, TypeOK
<1>8. account'[u] = row
  BY <1>3, <1>7 DEF IInv, TypeOK
<1>9. AccountAdvances(u)
  BY <1>3, <1>5, <1>6, <1>8 DEF AccountAdvances, Account
<1>10. CodesFollow(u)
  BY <1>3, <1>5, <1>6, <1>8 DEF CodesFollow, Account
<1>11. /\ fresh' \in Nat /\ fresh <= fresh' /\ consumed' \subseteq Nat \X Nat
       /\ row.seed <= fresh' /\ (row.enabled => row.seed # 0)
  BY <1>3, <1>5, <1>6 DEF IInv, TypeOK, AccountOK
<1>12. PICK q : q = [r EXCEPT !.at = AfterPassword(r.row)]
  OBVIOUS
<1>13. q \in Request /\ q.at # "issue" /\ AfterPassword(r.row) \in {"pending", "create"}
  BY <1>3, <1>12 DEF SignInRequest, Request, AfterPassword
<1>14. request' \in [Workers -> Request] /\ request'[w] = q
  BY <1>6, <1>12, <1>13, Forwarded DEF IInv, TypeOK
<1>15. TypeOK' /\ Advance /\ AccountsOK' /\ SessionsOK' /\ AdministratorRemains'
  BY <1>3, <1>5, <1>6, <1>7, <1>9, <1>10, <1>11, <1>14, RowStep
<1>16. RequestOK(request[w])'
  <2>1. request[w].at \in {"upgrade", "pending", "create"}
    BY DEF UpgradePassword
  <2>2. request'[w] = [request[w] EXCEPT !.at = AfterPassword(r.row)]
    BY <1>1, <1>12, <1>14
  <2> QED
    BY <1>13, <1>15, <2>1, <2>2, SignInKept
<1> QED
  BY <1>6, <1>12, <1>13, <1>15, <1>16, RowStepRequests

\* A first seed is a number nobody has.
LEMMA CreatePendingTotpStep ==
  ASSUME IInv, NEW w \in Workers, CreatePendingTotp(w)
  PROVE  IInv'
<1>1. PICK r : r = request[w]
  OBVIOUS
<1>2. PICK u : u = r.user
  OBVIOUS
<1>3. /\ r \in SignInRequest /\ u \in Users /\ Exists(u) /\ account[u] \in Account
      /\ AccountOK(u)
      /\ fresh \in Nat /\ fresh + 1 \in Nat /\ fresh + 1 > fresh /\ fresh + 1 # 0
  <2>1. fresh \in Nat
    BY DEF IInv, TypeOK
  <2> QED
    BY <1>1, <1>2, <2>1, SignInFacts DEF CreatePendingTotp
<1>4. PICK seed : seed = IF account[u].seed = 0 THEN fresh + 1 ELSE account[u].seed
  OBVIOUS
<1>5. /\ seed \in Nat /\ seed # 0 /\ seed <= fresh + 1
      /\ seed = account[u].seed \/ (account[u].seed = 0 /\ seed > fresh)
  BY <1>3, <1>4 DEF Account, AccountOK
<1>6. PICK row : row = [account[u] EXCEPT !.seed = seed]
  OBVIOUS
<1>7. /\ row \in Account /\ row.authv = account[u].authv /\ row.role = account[u].role
      /\ row.active = account[u].active /\ row.enabled = account[u].enabled
      /\ row.seed = seed /\ row.last = account[u].last
      /\ row.grant = account[u].grant /\ row # None
  <2>1. row \in Account
    BY <1>3, <1>5, <1>6 DEF Account
  <2> QED
    BY <1>3, <1>6, <2>1, AbsenceAssumption DEF Account
<1>8. /\ account' = [account EXCEPT ![u].seed = IF @ = 0 THEN fresh + 1 ELSE @]
      /\ UNCHANGED <<session, process, epoch, temporary, consumed>> /\ fresh' = fresh + 1
      /\ Forward(w, [r EXCEPT !.at = "create"])
  BY <1>1, <1>2 DEF CreatePendingTotp, history
<1>9. account' = [account EXCEPT ![u] = row]
  BY <1>3, <1>4, <1>6, <1>8 DEF IInv, TypeOK
<1>10. account'[u] = row
  BY <1>3, <1>9 DEF IInv, TypeOK
<1>11. AccountAdvances(u)
  BY <1>3, <1>5, <1>7, <1>8, <1>10 DEF AccountAdvances, Account
<1>12. CodesFollow(u)
  BY <1>3, <1>7, <1>8, <1>10 DEF CodesFollow, Account
<1>13. /\ fresh' \in Nat /\ fresh <= fresh' /\ consumed' \subseteq Nat \X Nat
       /\ row.seed <= fresh' /\ row.seed # 0
  BY <1>3, <1>5, <1>7, <1>8 DEF IInv, TypeOK
<1>14. PICK q : q = [r EXCEPT !.at = "create"]
  OBVIOUS
<1>15. q \in Request /\ q.at # "issue"
  BY <1>3, <1>14 DEF SignInRequest, Request
<1>16. request' \in [Workers -> Request] /\ request'[w] = q
  BY <1>8, <1>14, <1>15, Forwarded DEF IInv, TypeOK
<1>17. TypeOK' /\ Advance /\ AccountsOK' /\ SessionsOK' /\ AdministratorRemains'
  BY <1>3, <1>7, <1>8, <1>9, <1>11, <1>12, <1>13, <1>16, RowStep
<1>18. RequestOK(request[w])'
  <2>1. request[w].at \in {"upgrade", "pending", "create"}
    BY DEF CreatePendingTotp
  <2>2. request'[w] = [request[w] EXCEPT !.at = "create"]
    BY <1>1, <1>14, <1>16
  <2> QED
    BY <1>17, <2>1, <2>2, SignInKept
<1> QED
  BY <1>8, <1>14, <1>15, <1>17, <1>18, RowStepRequests
\* What a handler that has read the account of its session knows.
LEMMA RowReadFacts ==
  ASSUME IInv, NEW w \in Workers, request[w].at \in {"consume", "enable", "replace"},
         NEW u, u = session[request[w].sid].user
  PROVE  /\ request[w] \in RowRead /\ request[w].sid \in Sids /\ request[w].row \in Account
         /\ request[w].authv \in Nat
         /\ LoadedOK(request[w].sid) /\ session[request[w].sid] # None
         /\ u \in Users /\ Exists(u) /\ account[u] \in Account /\ AccountOK(u)
         /\ request[w].at \in {"consume", "enable"} => RowOK(u, request[w].row)
         /\ request[w].at = "consume" => request[w].authv = request[w].row.authv
         /\ request[w].at = "enable" =>
              request[w].authv = request[w].row.authv + 1 /\ request[w].row.seed # 0
<1>1. request[w] \in RowRead /\ RequestOK(request[w])
  BY RequestKinds DEF IInv, TypeOK, RequestsOK
<1>2. request[w].sid \in Sids /\ request[w].row \in Account /\ request[w].authv \in Nat
  BY <1>1 DEF RowRead
<1>3. LoadedOK(request[w].sid) /\ session[request[w].sid] # None /\ u \in Users /\ Exists(u)
  BY <1>1, <1>2 DEF RequestOK, LoadedOK, IInv, TypeOK, Session
<1> QED
  BY <1>1, <1>2, <1>3 DEF RequestOK, IInv, TypeOK, AccountsOK, Exists

\* The row of u after a code of step t is accepted: its factor is enabled, and unless it
\* was so before, under a new version.
AcceptingRow(u, row, t) ==
  /\ row.role = account[u].role /\ row.active = account[u].active
  /\ row.grant = account[u].grant /\ row.seed = account[u].seed /\ row.seed # 0
  /\ row.enabled /\ row.last = t
  /\ \/ account[u].enabled /\ account[u].last <= t /\ row.authv = account[u].authv
     \/ ~account[u].enabled /\ row.authv = account[u].authv + 1

\* A code that is accepted: the row remembers its step, and the handler goes on to claim
\* its session with the version and the seed it knows.
LEMMA VerifiedStep ==
  ASSUME IInv, NEW w \in Workers, NEW t \in Nat, Verified(w, t),
         NEW r, r = request[w], r.at \in {"consume", "enable"},
         NEW u, u = session[r.sid].user,
         NEW row \in Account, account' = [account EXCEPT ![u] = row],
         AcceptingRow(u, row, t), r.row.seed # 0,
         UNCHANGED <<session, process, fresh, epoch, temporary>>,
         IssuableOK(u, r.authv, r.row.seed)'
  PROVE  IInv'
<1>2. /\ r \in RowRead /\ r.sid \in Sids /\ r.row \in Account /\ r.authv \in Nat
      /\ LoadedOK(r.sid) /\ session[r.sid] # None
      /\ u \in Users /\ Exists(u) /\ account[u] \in Account /\ AccountOK(u)
      /\ RowOK(u, r.row) /\ r.row.seed # 0
  BY RowReadFacts
<1>3. /\ account'[u] = row /\ row # None
  BY <1>2, AbsenceAssumption DEF IInv, TypeOK
<1>4. AccountAdvances(u)
  <2>1. account[u].authv \in Nat /\ row.enabled \in BOOLEAN /\ account[u].enabled \in BOOLEAN
    BY <1>2 DEF Account
  <2>2. CASE account[u].enabled /\ row.authv = account[u].authv
    <3>1. row.enabled = account[u].enabled
      BY <2>1, <2>2 DEF AcceptingRow
    <3>2. account[u].authv <= account[u].authv
      BY ONLY <2>1
    <3>3. row.role = account[u].role /\ row.seed = account[u].seed /\ epoch'[u] = epoch[u]
      BY DEF AcceptingRow
    <3> QED
      BY ONLY <1>3, <2>2, <3>1, <3>2, <3>3 DEF AccountAdvances
  <2>3. CASE row.authv = account[u].authv + 1
    <3>1. account[u].authv <= row.authv /\ row.authv # account[u].authv
      BY ONLY <2>1, <2>3
    <3>2. row.seed = account[u].seed
      BY DEF AcceptingRow
    <3> QED
      BY ONLY <1>3, <3>1, <3>2 DEF AccountAdvances
  <2> QED
    BY <2>2, <2>3 DEF AcceptingRow
<1>5. CodesFollow(u)
  <2>1. ASSUME NEW c \in consumed' \ consumed
        PROVE  /\ c[1] <= fresh /\ c[1] # 0
               /\ account'[u].enabled /\ c[2] <= account'[u].last
               /\ \A v \in Users \ {u} : Exists(v) => account[v].seed # c[1]
    <3>1. c = <<r.row.seed, t>>
      BY DEF Verified
    <3>2. c[1] = r.row.seed /\ c[2] = t /\ t <= t
      BY <3>1
    <3>3. account'[u].enabled /\ account'[u].last = t
      BY <1>3 DEF AcceptingRow
    <3>4. /\ r.row.seed <= fresh
          /\ \A v \in Users \ {u} : Exists(v) => account[v].seed # r.row.seed
      BY ONLY <1>2 DEF RowOK
    <3> QED
      BY ONLY <1>2, <3>2, <3>3, <3>4
  <2> QED
    BY <1>3, <2>1 DEF CodesFollow, AcceptingRow
<1>6. PICK q : q = [at |-> "claim", sid |-> r.sid, authv |-> r.authv, proof |-> r.row.seed]
  OBVIOUS
<1>7. /\ q \in Request /\ q.at = "claim" /\ q.sid = r.sid /\ q.authv = r.authv
      /\ q.proof = r.row.seed /\ Forward(w, q)
  BY <1>2, <1>6 DEF Request, VerifiedRequest, Account, Verified
<1>8. request' \in [Workers -> Request] /\ request'[w] = q
  BY <1>7, Forwarded DEF IInv, TypeOK
<1>9. /\ fresh' \in Nat /\ fresh <= fresh' /\ row.seed <= fresh'
      /\ consumed' \subseteq Nat \X Nat
  <2>1. fresh' = fresh /\ fresh \in Nat /\ consumed \subseteq Nat \X Nat
    BY DEF IInv, TypeOK
  <2>2. row.seed <= fresh
    BY <1>2 DEF AccountOK, AcceptingRow
  <2>3. consumed' = consumed \cup {<<r.row.seed, t>>} /\ r.row.seed \in Nat
    BY <1>2 DEF Verified, Account
  <2> QED
    BY <2>1, <2>2, <2>3
<1>10. TypeOK' /\ Advance /\ AccountsOK' /\ SessionsOK' /\ AdministratorRemains'
  BY <1>2, <1>4, <1>5, <1>8, <1>9, RowStep DEF AcceptingRow
<1>11. RequestOK(request[w])'
  <2>1. session'[r.sid] = session[r.sid] /\ epoch' = epoch /\ session[r.sid].user = u
    OBVIOUS
  <2>2. LoadedOK(r.sid)'
    BY <1>2, <1>3, <2>1 DEF LoadedOK, Exists
  <2>3. IssuableOK(u, r.authv, r.row.seed)'
    OBVIOUS
  <2>4. request'[w].at = "claim" /\ request'[w].sid = r.sid /\ request'[w].authv = r.authv
        /\ request'[w].proof = r.row.seed /\ session'[r.sid].user = u
    BY <1>7, <1>8, <2>1
  <2> QED
    BY ONLY <2>2, <2>3, <2>4 DEF RequestOK, LoadedOK, IssuableOK, Proven, Exists
<1> QED
  BY <1>7, <1>10, <1>11, RowStepRequests

\* A code is consumed for the account as it was read.
LEMMA ConsumeCodeStep ==
  ASSUME IInv, NEW w \in Workers, NEW t \in Window, ConsumeCode(w, t)
  PROVE  IInv'
<1>1. PICK r : r = request[w]
  OBVIOUS
<1>2. PICK u : u = session[r.sid].user
  OBVIOUS
<1>3. r.at = "consume"
  BY <1>1 DEF ConsumeCode
<1>4. /\ r.row \in Account /\ r.authv \in Nat
      /\ u \in Users /\ Exists(u) /\ account[u] \in Account /\ AccountOK(u)
      /\ RowOK(u, r.row) /\ r.authv = r.row.authv
  BY <1>1, <1>2, <1>3, RowReadFacts
<1>5. /\ account[u].last < t /\ account[u].authv = r.row.authv /\ account[u].enabled
      /\ r.row.seed # 0 /\ account' = [account EXCEPT ![u].last = t] /\ Verified(w, t)
      /\ UNCHANGED <<session, process, fresh, epoch, temporary>>
  BY <1>1, <1>2 DEF ConsumeCode, Consumable
<1>6. t \in Nat
  BY DEF Window, IInv, TypeOK
<1>7. r.row.seed = account[u].seed
  BY <1>4, <1>5 DEF RowOK
<1>8. PICK row : row = [account[u] EXCEPT !.last = t]
  OBVIOUS
<1>9. /\ row \in Account /\ row.role = account[u].role /\ row.active = account[u].active
      /\ row.grant = account[u].grant /\ row.seed = account[u].seed /\ row.enabled
      /\ row.last = t /\ row.authv = account[u].authv
  BY <1>4, <1>5, <1>6, <1>8 DEF Account
<1>10. account' = [account EXCEPT ![u] = row]
  BY <1>4, <1>5, <1>8 DEF IInv, TypeOK
<1>11. account'[u] = row
  BY <1>4, <1>10 DEF IInv, TypeOK
<1>12. IssuableOK(u, r.authv, r.row.seed)'
  <2>1. r.authv <= account'[u].authv /\ account'[u].enabled /\ r.row.seed = account'[u].seed
    BY <1>4, <1>5, <1>7, <1>9, <1>11
  <2> QED
    BY <2>1 DEF IssuableOK, Proven
<1>13. AcceptingRow(u, row, t)
  <2>1. account[u].last <= t
    BY <1>4, <1>5, <1>6 DEF Account
  <2> QED
    BY <1>4, <1>5, <1>7, <1>9, <2>1 DEF AcceptingRow
<1>14. /\ r.at \in {"consume", "enable"} /\ r.row.seed # 0 /\ Verified(w, t)
       /\ UNCHANGED <<session, process, fresh, epoch, temporary>>
  BY <1>3, <1>5
<1> QED
  BY <1>1, <1>2, <1>6, <1>9, <1>10, <1>12, <1>13, <1>14, VerifiedStep


\* A first code enables the factor, under a new version; the seed it was verified with is
\* the account's, or the version it leads to is out of date.
LEMMA EnableTotpStep ==
  ASSUME IInv, NEW w \in Workers, NEW t \in Window, EnableTotp(w, t)
  PROVE  IInv'
<1>1. PICK r : r = request[w]
  OBVIOUS
<1>2. PICK u : u = session[r.sid].user
  OBVIOUS
<1>3. r.at = "enable"
  BY <1>1 DEF EnableTotp
<1>4. /\ r.row \in Account /\ r.authv \in Nat
      /\ u \in Users /\ Exists(u) /\ account[u] \in Account /\ AccountOK(u)
      /\ RowOK(u, r.row) /\ r.authv = r.row.authv + 1 /\ r.row.seed # 0
  BY <1>1, <1>2, <1>3, RowReadFacts
<1>5. /\ ~account[u].enabled /\ account[u].seed # 0
      /\ account' = [account EXCEPT ![u].enabled = TRUE, ![u].last = t, ![u].authv = @ + 1]
      /\ Verified(w, t)
      /\ UNCHANGED <<session, process, fresh, epoch, temporary>>
  BY <1>1, <1>2 DEF EnableTotp
<1>6. t \in Nat
  BY DEF Window, IInv, TypeOK
<1>7. PICK row : row = [account[u] EXCEPT !.enabled = TRUE, !.last = t,
                                          !.authv = account[u].authv + 1]
  OBVIOUS
<1>8. account[u].authv \in Nat /\ account[u].authv + 1 \in Nat \ {0} /\ r.row.authv \in Nat
  BY <1>4 DEF Account
<1>9. /\ row \in Account /\ row.role = account[u].role /\ row.active = account[u].active
      /\ row.grant = account[u].grant /\ row.seed = account[u].seed /\ row.enabled
      /\ row.last = t /\ row.authv = account[u].authv + 1
  BY <1>4, <1>6, <1>7, <1>8 DEF Account
<1>10. account' = [account EXCEPT ![u] = row]
  BY <1>4, <1>5, <1>7 DEF IInv, TypeOK
<1>11. account'[u] = row
  BY <1>4, <1>10 DEF IInv, TypeOK
<1>12. IssuableOK(u, r.authv, r.row.seed)'
  <2>1. r.row.authv <= account[u].authv
    BY <1>4 DEF RowOK
  <2>2. r.authv <= account'[u].authv
    BY <1>4, <1>8, <1>9, <1>11, <2>1
  <2>3. ASSUME r.authv = account'[u].authv PROVE r.row.seed = account'[u].seed
    <3>1. r.row.authv = account[u].authv
      BY <1>4, <1>8, <1>9, <1>11, <2>3
    <3> QED
      BY <1>4, <1>9, <1>11, <3>1 DEF RowOK
  <2> QED
    BY <1>9, <1>11, <2>2, <2>3 DEF IssuableOK, Proven
<1>13. AcceptingRow(u, row, t)
  BY <1>5, <1>9 DEF AcceptingRow
<1>14. /\ r.at \in {"consume", "enable"} /\ r.row.seed # 0 /\ Verified(w, t)
       /\ UNCHANGED <<session, process, fresh, epoch, temporary>>
  BY <1>3, <1>4, <1>5
<1> QED
  BY <1>1, <1>2, <1>6, <1>9, <1>10, <1>12, <1>13, <1>14, VerifiedStep

\* A password change takes the account's sessions away, the handler's own included.
LEMMA ReplacePasswordStep ==
  ASSUME IInv, NEW w \in Workers, ReplacePassword(w)
  PROVE  IInv'
<1>1. PICK r : r = request[w]
  OBVIOUS
<1>2. PICK u : u = session[r.sid].user
  OBVIOUS
<1>3. u \in Users /\ Exists(u) /\ account[u] \in Account /\ AccountOK(u)
  BY <1>1, <1>2, RowReadFacts DEF ReplacePassword
<1>4. fresh \in Nat /\ fresh + 1 \in Nat /\ fresh <= fresh + 1 /\ params \in Nat
  BY AccountsAssumption DEF IInv, TypeOK
<1>5. PICK row : row = [account[u] EXCEPT !.pw = fresh + 1, !.hash = params, !.must = FALSE]
  OBVIOUS
<1>6. /\ row \in Account /\ row.enabled = account[u].enabled /\ row.seed = account[u].seed
      /\ row.last = account[u].last /\ row.grant = account[u].grant
      /\ row.active = account[u].active /\ row.role = account[u].role
  BY <1>3, <1>4, <1>5 DEF Account
<1>7. /\ Invalidate(u, row) /\ fresh' = fresh + 1 /\ Done(w)
      /\ temporary' = [temporary EXCEPT ![u] = IF @ = r.row.pw THEN 0 ELSE @]
      /\ UNCHANGED <<process, consumed>>
  BY <1>1, <1>2, <1>5 DEF ReplacePassword
<1>8. temporary' \in [Users -> Nat] /\ fresh' \in Nat /\ fresh <= fresh'
  BY <1>3, <1>4, <1>7 DEF IInv, TypeOK
<1>9. /\ row.enabled => row.seed # 0
      /\ row.grant => row.active /\ row.role = "CONTRIBUTOR"
  BY <1>3, <1>6 DEF AccountOK
<1>10. ~ManagesUsers(u) \/ (row.active /\ row.role = "ADMINISTRATOR")
  BY <1>6 DEF ManagesUsers
<1>11. /\ request' \in [Workers -> Request]
       /\ \A v \in Workers : request'[v] = request[v] \/ request'[v] = Idle
  BY <1>7, DoneLeaves
<1>12. UNCHANGED <<process, consumed>>
  BY <1>7
<1> QED
  BY <1>3, <1>6, <1>7, <1>8, <1>9, <1>10, <1>11, <1>12, InvalidateStep

\* One session is revoked: all but the requests and the rotations.
LEMMA RevokeStep ==
  ASSUME IInv, NEW s \in Sids, session[s] # None,
         session' = [session EXCEPT ![s].revoked = TRUE],
         UNCHANGED <<account, process, fresh, history>>,
         request' \in [Workers -> Request]
  PROVE  /\ TypeOK' /\ Advance /\ AccountsOK' /\ SessionsOK' /\ AdministratorRemains'
         /\ session'[s].revoked /\ session'[s].user = session[s].user
         /\ session'[s].epoch = session[s].epoch
         /\ \A t \in Sids : session[t] = None => session'[t] = None
<1>1. session[s] \in Session
  BY DEF IInv, TypeOK
<1>2. PICK row : row = [session[s] EXCEPT !.revoked = TRUE]
  OBVIOUS
<1>3. /\ row \in Session /\ row # None /\ row.revoked = TRUE
      /\ row.user = session[s].user /\ row.authv = session[s].authv
      /\ row.epoch = session[s].epoch /\ row.state = session[s].state
      /\ row.proof = session[s].proof /\ row.from = session[s].from
  <2>1. row \in Session
    BY <1>1, <1>2 DEF Session
  <2> QED
    BY <1>1, <1>2, <2>1, AbsenceAssumption DEF Session
<1>4. /\ session'[s] = row /\ session' \in [Sids -> Session \cup {None}]
      /\ \A t \in Sids \ {s} : session'[t] = session[t]
  BY <1>2, <1>3 DEF IInv, TypeOK
<1>5. TypeOK'
  BY <1>4 DEF IInv, TypeOK, process, history
<1>6. UNCHANGED <<account, fresh, epoch, consumed>>
  BY DEF history
<1>7. AccountsOK' /\ AdministratorRemains' /\ \A u \in Users : Exists(u) => AccountAdvances(u)
  BY <1>6, AccountsUnchanged
<1>8. Advance
  <2>1. ASSUME NEW t \in Sids, session[t] # None PROVE SessionAdvances(t)
    BY <1>3, <1>4, <1>6, <2>1 DEF SessionAdvances
  <2>2. fresh <= fresh'
    BY <1>6 DEF IInv, TypeOK
  <2> QED
    BY <1>6, <1>7, <2>1, <2>2 DEF Advance, Exists
<1>9. SessionsOK'
  <2>1. ASSUME NEW t \in Sids PROVE SessionOK(t)'
    <3>1. CASE session[t] = None
      BY <1>4, <3>1 DEF SessionOK
    <3>2. CASE session[t] # None
      BY <1>5, <1>8, <3>2, SessionKept DEF IInv, SessionsOK
    <3> QED
      BY <3>1, <3>2
  <2> QED
    BY <2>1 DEF SessionsOK
<1> QED
  BY <1>3, <1>4, <1>5, <1>7, <1>8, <1>9

\* Logout, cancellation, expiry.
LEMMA EndSessionStep ==
  ASSUME IInv, NEW s \in Sids, EndSession(s)
  PROVE  IInv'
<1>1. /\ session[s] # None /\ session' = [session EXCEPT ![s].revoked = TRUE]
      /\ UNCHANGED <<account, process, fresh, history>> /\ request' = request
  BY DEF EndSession
<1>2. request' \in [Workers -> Request]
  BY <1>1 DEF IInv, TypeOK
<1>3. /\ TypeOK' /\ Advance /\ AccountsOK' /\ SessionsOK' /\ AdministratorRemains'
      /\ \A t \in Sids : session[t] = None => session'[t] = None
  BY <1>1, <1>2, RevokeStep
<1>4. RequestsOK'
  BY <1>1, <1>3, RequestKept DEF IInv, RequestsOK
<1>5. RotationsOK'
  BY <1>1, <1>3, RotationsKept DEF IInv
<1> QED
  BY <1>3, <1>4, <1>5 DEF IInv
\* A session that is claimed was neither replaced nor claimed before.
LEMMA ClaimStep ==
  ASSUME IInv, NEW w \in Workers, Claim(w)
  PROVE  IInv'
<1>1. PICK r : r = request[w]
  OBVIOUS
<1>2. PICK u : u = session[r.sid].user
  OBVIOUS
<1>3. /\ r.at = "claim" /\ ~session[r.sid].revoked
      /\ session' = [session EXCEPT ![r.sid].revoked = TRUE]
      /\ Forward(w, [r EXCEPT !.at = "issue"])
      /\ UNCHANGED <<account, process, fresh, history>>
  BY <1>1 DEF Claim, Claimable
<1>4. r \in VerifiedRequest /\ RequestOK(r) /\ r.sid \in Sids
  <2>1. r \in VerifiedRequest /\ RequestOK(r)
    BY <1>1, <1>3, RequestKinds DEF IInv, TypeOK, RequestsOK
  <2> QED
    BY <2>1 DEF VerifiedRequest
<1>5. /\ session[r.sid] # None /\ Exists(u) /\ session[r.sid].epoch = epoch[u]
      /\ IssuableOK(u, r.authv, r.proof)
  BY <1>2, <1>3, <1>4 DEF RequestOK, LoadedOK
<1>6. PICK q : q = [r EXCEPT !.at = "issue"]
  OBVIOUS
<1>7. /\ q \in Request /\ q.at = "issue" /\ q.sid = r.sid /\ q.authv = r.authv
      /\ q.proof = r.proof
  BY <1>4, <1>6 DEF VerifiedRequest, Request
<1>8. /\ request' \in [Workers -> Request] /\ request'[w] = q
      /\ \A v \in Workers \ {w} : request'[v] = request[v]
  BY <1>3, <1>6, <1>7, Forwarded DEF IInv, TypeOK
<1>9. /\ TypeOK' /\ Advance /\ AccountsOK' /\ SessionsOK' /\ AdministratorRemains'
      /\ session'[r.sid].revoked /\ session'[r.sid].user = u
      /\ session'[r.sid].epoch = session[r.sid].epoch
      /\ \A t \in Sids : session[t] = None => session'[t] = None
  BY <1>2, <1>3, <1>4, <1>5, <1>8, RevokeStep
<1>10. account' = account /\ epoch' = epoch
  BY <1>3 DEF history
<1>11. RequestOK(request[w])'
  <2>1. session'[r.sid] # None
    BY <1>4, <1>5, <1>9 DEF Advance, SessionAdvances
  <2>2. account'[u] # None /\ session'[r.sid].epoch = epoch'[u]
    BY <1>5, <1>9, <1>10 DEF Exists
  <2>3. IssuableOK(u, r.authv, r.proof)'
    BY <1>5, <1>10 DEF IssuableOK, Proven
  <2> QED
    BY <1>7, <1>8, <1>9, <2>1, <2>2, <2>3 DEF RequestOK, Exists, IssuableOK, Proven
<1>12. RequestsOK'
  <2>1. \A v \in Workers : request'[v] = request[v] \/ RequestOK(request[v])'
    BY <1>8, <1>11
  <2>2. \A s \in Sids : session[s] # None \/ SessionOK(s)'
    BY <1>9 DEF SessionsOK
  <2> QED
    BY <1>9, <2>1, <2>2, RestKept
<1>13. RotationsOK'
  <2>1. \A t, s \in Sids : HeirOf(t, s)' => HeirOf(t, s)
    BY <1>9 DEF HeirOf, Advance, SessionAdvances
  <2>2. ASSUME NEW s \in Sids, NEW v \in Workers, Issuing(v, s)'
        PROVE  Issuing(v, s) \/ (v = w /\ s = r.sid)
    BY <1>7, <1>8, <2>2 DEF Issuing
  <2>3. \A s \in Sids : session[s] # None /\ session[s].revoked =>
                          session'[s] # None /\ session'[s].revoked
    BY <1>9 DEF Advance, SessionAdvances
  <2>4. \A t \in Sids : ~HeirOf(t, r.sid)
    BY <1>3, <1>4 DEF IInv, RotationsOK
  <2>5. \A v \in Workers : ~Issuing(v, r.sid)
    BY <1>3 DEF IInv, RequestsOK, RequestOK, Issuing
  <2> QED
    BY <2>1, <2>2, <2>3, <2>4, <2>5 DEF IInv, RotationsOK
<1> QED
  BY <1>9, <1>12, <1>13 DEF IInv

\* Session s becomes row, and of the rest only the requests change.
SessionAdded(s, row) ==
  /\ session' = [session EXCEPT ![s] = row]
  /\ UNCHANGED <<account, process, fresh, history>>

\* A session is added: all but the rotations.
LEMMA AddSessionStep ==
  ASSUME IInv, NEW s \in Sids, session[s] = None, NEW row \in Session,
         SessionAdded(s, row), NEW w \in Workers, Done(w), SessionOK(s)'
  PROVE  /\ TypeOK' /\ Advance /\ AccountsOK' /\ SessionsOK' /\ RequestsOK'
         /\ AdministratorRemains'
         /\ session'[s] = row /\ \A t \in Sids \ {s} : session'[t] = session[t]
         /\ request'[w] = Idle /\ \A v \in Workers \ {w} : request'[v] = request[v]
<1>1. session'[s] = row /\ \A t \in Sids \ {s} : session'[t] = session[t]
  BY DEF SessionAdded, IInv, TypeOK
<1>2. /\ request' \in [Workers -> Request] /\ request'[w] = Idle
      /\ \A v \in Workers \ {w} : request'[v] = request[v]
  <2>1. Idle \in Request
    BY DEF Request
  <2> QED
    BY <2>1, Forwarded DEF Done, IInv, TypeOK
<1>3. TypeOK'
  <2>1. session' \in [Sids -> Session \cup {None}]
    BY DEF SessionAdded, IInv, TypeOK
  <2> QED
    BY <1>2, <2>1 DEF SessionAdded, IInv, TypeOK, process, history
<1>4. UNCHANGED <<account, fresh, epoch, consumed>>
  BY DEF SessionAdded, history
<1>5. AccountsOK' /\ AdministratorRemains' /\ \A u \in Users : Exists(u) => AccountAdvances(u)
  BY <1>4, AccountsUnchanged
<1>6. Advance
  <2>1. ASSUME NEW t \in Sids, session[t] # None PROVE SessionAdvances(t)
    BY <1>1, <1>4, <2>1 DEF SessionAdvances
  <2>2. fresh <= fresh'
    BY <1>4 DEF IInv, TypeOK
  <2> QED
    BY <1>4, <1>5, <2>1, <2>2 DEF Advance, Exists
<1>7. SessionsOK' /\ RequestsOK'
  <2>1. ASSUME NEW t \in Sids PROVE session[t] # None \/ SessionOK(t)'
    <3>1. CASE t = s
      BY <3>1
    <3>2. CASE t # s
      BY <1>1, <3>2 DEF SessionOK
    <3> QED
      BY <3>1, <3>2
  <2>2. ASSUME NEW v \in Workers PROVE request'[v] = request[v] \/ RequestOK(request[v])'
    BY <1>2, IdleOK
  <2> QED
    BY <1>3, <1>6, <2>1, <2>2, RestKept
<1> QED
  BY <1>1, <1>2, <1>3, <1>5, <1>6, <1>7

\* A sign-in issues a session of the version it read; it is full only where the row asked
\* for no second factor.
LEMMA CreateSessionStep ==
  ASSUME IInv, NEW w \in Workers, CreateSession(w)
  PROVE  IInv'
<1>1. PICK r : r = request[w]
  OBVIOUS
<1>2. /\ r.at = "create" /\ Done(w)
      /\ UNCHANGED <<account, process, fresh, history>>
  BY <1>1 DEF CreateSession
<1>3. PICK s \in Sids :
        /\ session[s] = None
        /\ session' = [session EXCEPT ![s] =
             [user |-> r.user, authv |-> r.row.authv, state |-> LoginState(r.row),
              revoked |-> FALSE, from |-> None, proof |-> 0, epoch |-> r.epoch]]
  BY <1>1 DEF CreateSession
<1>4. PICK row : row = [user |-> r.user, authv |-> r.row.authv, state |-> LoginState(r.row),
                        revoked |-> FALSE, from |-> None, proof |-> 0, epoch |-> r.epoch]
  OBVIOUS
<1>5. r \in SignInRequest /\ RequestOK(r)
  BY <1>1, <1>2, RequestKinds DEF IInv, TypeOK, RequestsOK
<1>6. /\ r.user \in Users /\ r.row \in Account /\ r.epoch \in Nat
      /\ RowOK(r.user, r.row)
      /\ r.row.authv = account[r.user].authv => r.epoch = epoch[r.user]
  BY <1>2, <1>5 DEF SignInRequest, RequestOK
<1>7. row \in Session
  <2>1. r.row.authv \in Nat
    BY <1>6 DEF Account
  <2> QED
    BY <1>4, <1>6, <2>1 DEF Session, LoginState
<1>8. session'[s] = row
  BY <1>3, <1>4 DEF IInv, TypeOK
<1>9. account' = account /\ epoch' = epoch
  BY <1>2 DEF history
<1>10. ASSUME r.row.authv = account[r.user].authv, LoginState(r.row) = "FULL"
       PROVE  Proven(r.user, 0)
  <2>1. ~RequiresTotp(r.row.role) /\ ~r.row.enabled
    BY <1>10 DEF LoginState, NeedsEnrolment
  <2> QED
    BY <1>6, <1>10, <2>1 DEF RowOK, Proven
<1>11. SessionOK(s)'
  <2>1. /\ session'[s].user = r.user /\ session'[s].authv = r.row.authv
        /\ session'[s].state = LoginState(r.row) /\ session'[s].proof = 0
        /\ session'[s].epoch = r.epoch
    BY <1>4, <1>8
  <2> QED
    BY <1>6, <1>9, <1>10, <2>1 DEF SessionOK, RowOK, Proven, Exists
<1>12. SessionAdded(s, row)
  BY <1>2, <1>3, <1>4 DEF SessionAdded
<1>13. /\ TypeOK' /\ Advance /\ AccountsOK' /\ SessionsOK' /\ RequestsOK'
       /\ AdministratorRemains'
       /\ \A t \in Sids \ {s} : session'[t] = session[t]
       /\ request'[w] = Idle /\ \A v \in Workers \ {w} : request'[v] = request[v]
  BY ONLY IInv, <1>2, <1>3, <1>7, <1>11, <1>12, AddSessionStep
<1>14. RotationsOK'
  <2>1. ASSUME NEW t \in Sids, NEW x \in Sids, HeirOf(t, x)' PROVE HeirOf(t, x)
    <3>1. t # s
      BY <1>4, <1>8, <2>1, AbsenceAssumption DEF HeirOf
    <3> QED
      BY <1>13, <2>1, <3>1 DEF HeirOf
  <2>2. \A v \in Workers, x \in Sids : Issuing(v, x)' => Issuing(v, x)
    BY <1>13 DEF Issuing, Idle
  <2>3. \A x \in Sids : session[x] # None => session'[x] = session[x]
    BY <1>3, <1>13
  <2> QED
    BY <2>1, <2>2, <2>3 DEF IInv, RotationsOK
<1> QED
  BY <1>13, <1>14 DEF IInv

\* The claimed session gets its one replacement.
LEMMA IssueSessionStep ==
  ASSUME IInv, NEW w \in Workers, IssueSession(w)
  PROVE  IInv'
<1>1. PICK r : r = request[w]
  OBVIOUS
<1>2. PICK old : old = session[r.sid]
  OBVIOUS
<1>3. /\ r.at = "issue" /\ Done(w)
      /\ UNCHANGED <<account, process, fresh, history>>
  BY <1>1 DEF IssueSession
<1>4. PICK s \in Sids :
        /\ session[s] = None
        /\ session' = [session EXCEPT ![s] =
             [old EXCEPT !.authv = r.authv, !.state = "FULL", !.revoked = FALSE,
                         !.from = r.sid, !.proof = r.proof]]
  BY <1>1, <1>2 DEF IssueSession
<1>5. PICK row : row = [old EXCEPT !.authv = r.authv, !.state = "FULL", !.revoked = FALSE,
                                   !.from = r.sid, !.proof = r.proof]
  OBVIOUS
<1>6. r \in VerifiedRequest /\ RequestOK(r)
  BY <1>1, <1>3, RequestKinds DEF IInv, TypeOK, RequestsOK
<1>7. /\ r.sid \in Sids /\ r.authv \in Nat /\ r.proof \in Nat
      /\ old # None /\ old.revoked /\ Exists(old.user)
      /\ r.authv = account[old.user].authv => old.epoch = epoch[old.user]
      /\ IssuableOK(old.user, r.authv, r.proof)
  BY <1>2, <1>3, <1>6 DEF VerifiedRequest, RequestOK
<1>8. old \in Session
  BY <1>2, <1>7 DEF IInv, TypeOK
<1>9. /\ row \in Session /\ row.user = old.user /\ row.authv = r.authv /\ row.from = r.sid
      /\ row.proof = r.proof /\ row.epoch = old.epoch /\ row.state = "FULL"
  BY <1>5, <1>7, <1>8 DEF Session
<1>10. session'[s] = row
  BY <1>4, <1>5 DEF IInv, TypeOK
<1>11. account' = account /\ epoch' = epoch
  BY <1>3 DEF history
<1>12. SessionOK(s)'
  BY <1>7, <1>9, <1>10, <1>11 DEF SessionOK, IssuableOK, Proven, Exists
<1>13. SessionAdded(s, row)
  BY <1>3, <1>4, <1>5 DEF SessionAdded
<1>14. /\ TypeOK' /\ Advance /\ AccountsOK' /\ SessionsOK' /\ RequestsOK'
       /\ AdministratorRemains'
       /\ \A t \in Sids \ {s} : session'[t] = session[t]
       /\ request'[w] = Idle /\ \A v \in Workers \ {w} : request'[v] = request[v]
  BY ONLY IInv, <1>3, <1>4, <1>9, <1>12, <1>13, AddSessionStep
<1>15. RotationsOK'
  <2>1. Issuing(w, r.sid) /\ r.sid # s
    BY <1>1, <1>2, <1>3, <1>4, <1>7 DEF Issuing
  <2>2. ASSUME NEW t \in Sids, NEW x \in Sids, HeirOf(t, x)'
        PROVE  HeirOf(t, x) \/ (t = s /\ x = r.sid)
    <3>1. CASE t = s
      BY <1>9, <1>10, <2>2, <3>1 DEF HeirOf
    <3>2. CASE t # s
      BY <1>14, <2>2, <3>2 DEF HeirOf
    <3> QED
      BY <3>1, <3>2
  <2>3. \A v \in Workers, x \in Sids : Issuing(v, x)' => Issuing(v, x) /\ v # w
    BY <1>14 DEF Issuing, Idle
  <2>4. \A x \in Sids : session[x] # None => session'[x] = session[x]
    BY <1>4, <1>14
  <2>5. /\ \A t \in Sids : ~HeirOf(t, r.sid)
        /\ \A v \in Workers : Issuing(v, r.sid) => v = w
    BY <1>7, <2>1 DEF IInv, RotationsOK
  <2>6. session'[r.sid] # None /\ session'[r.sid].revoked
    BY <1>2, <1>7, <2>4
  <2> QED
    BY <1>7, <2>2, <2>3, <2>4, <2>5, <2>6 DEF IInv, RotationsOK
<1> QED
  BY <1>14, <1>15 DEF IInv

--------------------------------------------------------------------------------
(* The invariant, and the properties it implies.                                *)

\* At the start there is nothing to be wrong.
LEMMA InitIInv == Init => IInv
<1> SUFFICES ASSUME Init PROVE IInv
  OBVIOUS
<1>1. TypeOK
  BY AccountsAssumption DEF Init, TypeOK, Request
<1>2. /\ \A u \in Users : ~Exists(u)
      /\ \A s \in Sids : session[s] = None
      /\ \A w \in Workers : request[w] = Idle
      /\ consumed = {}
  BY DEF Init, Exists
<1>3. AccountsOK /\ AdministratorRemains /\ SessionsOK
  BY <1>2 DEF AccountsOK, AccountOK, SeedsDistinct, ConsumedOK, AdministratorRemains,
              SessionsOK, SessionOK
<1>4. RequestsOK
  BY <1>2 DEF RequestsOK, RequestOK, Idle
<1>5. RotationsOK
  BY <1>2 DEF RotationsOK, HeirOf, Issuing, Idle
<1> QED
  BY <1>1, <1>3, <1>4, <1>5 DEF IInv

\* Every step keeps the invariant.
LEMMA NextIInv == IInv /\ [Next]_vars => IInv'
<1> SUFFICES ASSUME IInv, [Next]_vars PROVE IInv'
  OBVIOUS
<1>1. CASE UNCHANGED vars
  BY <1>1, EnvironmentSteps
<1>2. CASE BootstrapInitialAdmin
  BY <1>2, NewAccountSteps
<1>3. ASSUME NEW a \in Users, NEW u \in Users,
             \/ \E role \in AssignedRoles : CreateUser(a, u, role)
             \/ \E granted \in BOOLEAN : SetServiceAccess(a, u, granted)
      PROVE  IInv'
  BY <1>3, NewAccountSteps, SetServiceAccessStep
<1>4. ASSUME NEW w \in Workers, Administration(w) PROVE IInv'
  BY <1>4, ManagesStep, AdministrationSteps, DropGrantsStep DEF Administration
<1>5. ASSUME NEW w \in Workers, Authentication(w) PROVE IInv'
  BY <1>5, SignInStep, UpgradePasswordStep, CreatePendingTotpStep, CreateSessionStep,
     LoadSessionStep, ReadAccountStep, ConsumeCodeStep, EnableTotpStep, ClaimStep,
     IssueSessionStep, ReplacePasswordStep DEF Authentication
<1>6. ASSUME NEW w \in Workers, Abandon(w) PROVE IInv'
  BY <1>6, EnvironmentSteps
<1>7. ASSUME NEW s \in Sids, EndSession(s) PROVE IInv'
  BY <1>7, EndSessionStep
<1>8. CASE Tick \/ Redeploy
  BY <1>8, EnvironmentSteps
<1> QED
  BY <1>1, <1>2, <1>3, <1>4, <1>5, <1>6, <1>7, <1>8 DEF Next
\* Every behaviour keeps the invariant.
LEMMA AccountsInvariant == Spec => []IInv
BY InitIInv, NextIInv, PTL DEF Spec

\* Every variable has its type: the rows, the sessions and what every handler has read.
THEOREM AccountsTypes == Spec => []TypeOK
<1>1. IInv => TypeOK
  BY DEF IInv
<1> QED
  BY <1>1, AccountsInvariant, PTL

\* SessionsFollowAccount: a session that load accepts was signed in after the last
\* operation that took the account's sessions away, whatever was in flight across it.
THEOREM NoSessionOutlives == Spec => []SessionsFollowAccount
<1>1. IInv => SessionsFollowAccount
  BY DEF IInv, SessionsOK, SessionOK, SessionsFollowAccount, Usable
<1> QED
  BY <1>1, AccountsInvariant, PTL

\* SecondFactorProven: a usable full session of an account with or in need of a second
\* factor was obtained with a code of the seed the account has now.
THEOREM SecondFactorHolds == Spec => []SecondFactorProven
<1>1. IInv => SecondFactorProven
  BY DEF IInv, SessionsOK, SessionOK, SecondFactorProven, Usable, Proven
<1> QED
  BY <1>1, AccountsInvariant, PTL

\* At most one of two sets has a member, and that one no other.
LEMMA OneOfTwo ==
  ASSUME NEW S, NEW T, \A x, y \in S : x = y, \A x, y \in T : x = y, S = {} \/ T = {}
  PROVE  Cardinality(S) + Cardinality(T) <= 1
<1>1. Cardinality({}) = 0
  BY FS_EmptySet
<1>2. ASSUME NEW U, \A x, y \in U : x = y, U # {} PROVE Cardinality(U) = 1
  <2>1. PICK x \in U : U = {x}
    BY <1>2
  <2> QED
    BY <2>1, FS_Singleton
<1>3. CASE S = {} /\ T = {}
  BY <1>1, <1>3
<1>4. CASE S # {}
  BY <1>1, <1>2, <1>4
<1>5. CASE T # {}
  BY <1>1, <1>2, <1>5
<1> QED
  BY <1>3, <1>4, <1>5

\* RotatedOnce: a session is replaced at most once, counting the replacement that is
\* still to be issued, and is never usable beside its replacement.
THEOREM OneReplacement == Spec => []RotatedOnce
<1>1. ASSUME IInv PROVE RotatedOnce
  <2> SUFFICES ASSUME NEW s \in Sids,
                      NEW heirs, heirs = {t \in Sids : HeirOf(t, s)},
                      NEW issuing, issuing = {w \in Workers : Issuing(w, s)}
               PROVE  /\ Cardinality(heirs) + Cardinality(issuing) <= 1
                      /\ heirs # {} => ~Usable(s)
    BY DEF RotatedOnce, HeirOf, Issuing
  <2>1. /\ \A t, x \in heirs : t = x
        /\ \A w, v \in issuing : w = v
        /\ heirs = {} \/ issuing = {}
    BY <1>1 DEF IInv, RotationsOK
  <2>2. heirs # {} => ~Usable(s)
    BY <1>1 DEF IInv, RotationsOK, Usable
  <2> QED
    BY <2>1, <2>2, OneOfTwo
<1> QED
  BY <1>1, AccountsInvariant, PTL

\* AdministratorRemains: once there is an account there is an active administrator.
THEOREM LastAdministratorStays == Spec => []AdministratorRemains
<1>1. IInv => AdministratorRemains
  BY DEF IInv
<1> QED
  BY <1>1, AccountsInvariant, PTL

\* GrantsFollowAccount: App grants belong to active contributors only.
THEOREM GrantsOfContributors == Spec => []GrantsFollowAccount
<1>1. IInv => GrantsFollowAccount
  BY DEF IInv, AccountsOK, AccountOK, GrantsFollowAccount
<1> QED
  BY <1>1, AccountsInvariant, PTL

\* CodeUsedOnce: a code that takes a handler from its second factor to the claim of its
\* session was not accepted before, by any handler.
THEOREM CodeFresh == Spec => CodeUsedOnce
<1>1. ASSUME IInv, [Next]_vars, NEW w \in Workers,
             request[w].at = "consume", request'[w].at = "claim"
      PROVE  consumed' # consumed
  <2>1. ASSUME NEW v \in Workers, NEW t \in Window, ConsumeCode(v, t)
        PROVE  consumed' # consumed
    <3>1. PICK r : r = request[v]
      OBVIOUS
    <3>2. PICK u : u = session[r.sid].user
      OBVIOUS
    <3>3. /\ r.at = "consume" /\ account[u].last < t /\ account[u].authv = r.row.authv
          /\ r.row.seed # 0 /\ consumed' = consumed \cup {<<r.row.seed, t>>}
      BY <2>1, <3>1, <3>2 DEF ConsumeCode, Consumable, Verified
    <3>4. /\ u \in Users /\ Exists(u) /\ account[u] \in Account /\ RowOK(u, r.row)
      BY <1>1, <3>1, <3>2, <3>3, RowReadFacts
    <3>5. account[u].seed = r.row.seed
      BY <3>3, <3>4 DEF RowOK
    <3>6. <<r.row.seed, t>> \notin consumed
      <4> SUFFICES ASSUME <<r.row.seed, t>> \in consumed PROVE FALSE
        OBVIOUS
      <4>1. t <= account[u].last
        BY <1>1, <3>3, <3>4, <3>5 DEF IInv, AccountsOK, ConsumedOK
      <4>2. t \in Nat /\ account[u].last \in Nat
        BY <1>1, <3>4 DEF Account, IInv, TypeOK
      <4> QED
        BY <3>3, <4>1, <4>2
    <3> QED
      BY <3>3, <3>6
  <2>2. request \in [Workers -> Request]
    BY <1>1 DEF IInv, TypeOK
  <2>3. ASSUME NEW v \in Workers, NEW q, Forward(v, q), v = w => q.at # "claim" PROVE FALSE
    BY <1>1, <2>2, <2>3 DEF Forward
  <2>4. request' # request
    BY <1>1
  <2>5. ~UNCHANGED vars
    BY <2>4 DEF vars
  <2>6. ~BootstrapInitialAdmin /\ ~Tick /\ ~Redeploy
    BY <1>1, <2>4 DEF BootstrapInitialAdmin, AddAccount, Tick, Redeploy, Idle
  <2>7. ASSUME NEW a \in Users, NEW u \in Users
        PROVE  /\ \A role \in AssignedRoles : ~CreateUser(a, u, role)
               /\ \A granted \in BOOLEAN : ~SetServiceAccess(a, u, granted)
    BY <2>4 DEF CreateUser, AddAccount, SetServiceAccess
  <2>8. ASSUME NEW s \in Sids PROVE ~EndSession(s)
    BY <2>4 DEF EndSession
  <2>9. ASSUME NEW v \in Workers PROVE ~Administration(v) /\ ~Abandon(v)
    BY <2>3 DEF Administration, Abandon, ResetPasswordStart, UpdateRoleStart, SetActiveStart,
                ResetTotpStart, ResetPassword, UpdateRole, SetActive, DropGrants, ResetTotp,
                Done, Idle
  <2>10. ASSUME NEW v \in Workers, Authentication(v)
         PROVE  \E t \in Window : ConsumeCode(v, t)
    <3>1. \A u \in Users : ~SignIn(v, u)
      BY <2>3 DEF SignIn, AfterPassword
    <3>2. ~CreateSession(v) /\ ~IssueSession(v) /\ ~ReplacePassword(v)
      BY <2>3 DEF CreateSession, IssueSession, ReplacePassword, Done, Idle
    <3>3. \A s \in Sids, op \in SessionOp : ~LoadSession(v, s, op)
      BY <2>3 DEF LoadSession
    <3>4. ~UpgradePassword(v) /\ ~CreatePendingTotp(v) /\ ~ReadAccount(v) /\ ~Claim(v)
          /\ \A t \in Window : ~EnableTotp(v, t)
      <4>1. ASSUME v # w, NEW q, Forward(v, q) PROVE FALSE
        BY <2>3, <4>1
      <4>2. ASSUME v = w PROVE request[v].at = "consume"
        BY <1>1, <4>2
      <4> QED
        BY <4>1, <4>2 DEF UpgradePassword, CreatePendingTotp, ReadAccount, Claim, EnableTotp,
                          Verified
    <3> QED
      BY <2>10, <3>1, <3>2, <3>3, <3>4 DEF Authentication
  <2> QED
    BY <1>1, <2>1, <2>5, <2>6, <2>7, <2>8, <2>9, <2>10 DEF Next
<1>2. IInv /\ [Next]_vars =>
        [\A w \in Workers : request[w].at = "consume" /\ request'[w].at = "claim"
           => consumed' # consumed]_vars
  BY <1>1
<1> QED
  BY <1>2, AccountsInvariant, PTL DEF Spec, CodeUsedOnce

================================================================================
