------------------------------- MODULE Accounts --------------------------------
(***************************************************************************)
(* The user accounts of ConfigDeck: sign-in, TOTP, the sessions it issues  *)
(* and the administrator's operations on accounts, as concurrent request   *)
(* handlers over the tables users, sessions and user_service_access.       *)
(*                                                                         *)
(* A handler loads its session, reads the account row, hashes or verifies  *)
(* a password and only then writes, each through the connection pool; what *)
(* it has read stays in request[w].  A transaction, and a single UPDATE,   *)
(* is one action.  Abandon is every early return, error, dropped client    *)
(* and 15 s timeout; Redeploy is the restart that drops them all and may   *)
(* bring other Argon2 parameters.  Passwords and TOTP seeds are numbers    *)
(* from one counter; a TOTP code is the pair of a seed and a time step.    *)
(* The web login passes no code to authenticate, so sign-in ends with a    *)
(* password-only session and the code comes with complete_login_totp.      *)
(*                                                                         *)
(* Left out: the rate limiter (it only refuses), last_login_at, audit      *)
(* rows, and the administrator's own session, for which its account row    *)
(* stands when its request starts.                                         *)
(***************************************************************************)
EXTENDS Integers, FiniteSets

CONSTANTS
  Users,            \* accounts that may ever exist
  BootstrapAdmin,   \* the account of CONFIGDECK_ADMIN_EMAIL
  SignsIn,          \* the accounts whose sign-ins and sessions are followed
  Sids,             \* session ids that may ever be issued
  Workers,          \* handlers that may be in flight at the same time
  AdminOps,         \* the administrator operations that are exercised
  AssignedRoles,    \* the roles they assign
  MaxAuthVersion,   \* bound: no operation starts beyond this auth_version
  MaxStep,          \* bound: the last 30 s time step of the clock
  MaxParams,        \* bound: generations of Argon2 parameters
  None              \* SQL NULL, and the absence of a row

Role == {"CONTRIBUTOR", "OPERATOR", "ADMINISTRATOR"}

ASSUME AccountsAssumption ==
  /\ AssignedRoles \subseteq Role
  /\ BootstrapAdmin \in Users
  /\ SignsIn \subseteq Users
  /\ AdminOps \subseteq {"create", "access", "password", "role", "active", "totp"}
  /\ MaxAuthVersion \in Nat
  /\ MaxStep \in Nat \ {0}
  /\ MaxParams \in Nat \ {0}

VARIABLES
  account,    \* users and user_service_access, by user
  session,    \* sessions, by id
  request,    \* what each handler in flight has read
  clock,      \* the current TOTP time step
  params,     \* the Argon2 parameters of the running process
  fresh,      \* the last password or seed made up
  epoch,      \* history: operations that took an account's sessions away, by user
  temporary,  \* history: the password an administrator gave and nobody replaced
  consumed    \* history: the TOTP codes that were accepted, as <<seed, step>>

tables == <<account, session>>
process == <<clock, params>>
history == <<epoch, temporary, consumed>>
vars == <<tables, request, process, fresh, history>>

--------------------------------------------------------------------------------
(* Rows and messages.                                                           *)

RequiresTotp(role) == role \in {"OPERATOR", "ADMINISTRATOR"}

\* A row of users.  seed is NULL as 0; last is totp_last_used_step, NULL as 0;
\* grant tells whether user_service_access holds a row for the one App.
Account == [role : Role, active : BOOLEAN, authv : Nat \ {0}, pw : Nat, hash : Nat,
            must : BOOLEAN, seed : Nat, enabled : BOOLEAN, last : Nat, grant : BOOLEAN]

\* A row of sessions.  revoked also stands for a timeout that has passed, which every
\* check treats alike.  History: from is the session it replaced, proof the seed its
\* holder proved, epoch that of its sign-in.
Session == [user : Users, authv : Nat, state : {"PASSWORD_ONLY", "FULL"},
            revoked : BOOLEAN, from : Sids \cup {None},
            proof : Nat, epoch : Nat]

ASSUME AbsenceAssumption == None \notin Account /\ None \notin Session /\ None \notin Sids

SessionOp == {"challenge", "confirm", "recent", "change"}
Idle == [at |-> "idle"]
SignInRequest == [at : {"upgrade", "pending", "create"}, user : Users, row : Account,
                  epoch : Nat]
Loaded == [at : {"loaded"}, op : SessionOp, sid : Sids, authv : Nat]
RowRead == [at : {"consume", "enable", "replace"}, op : SessionOp, sid : Sids,
            authv : Nat, row : Account]
VerifiedRequest == [at : {"claim", "issue"}, sid : Sids, authv : Nat, proof : Nat]
AdminRequest == [at : {"password", "grants", "totp"}, user : Users]
                  \cup [at : {"role"}, user : Users, role : Role]
                  \cup [at : {"active"}, user : Users, active : BOOLEAN]
Request == {Idle} \cup SignInRequest \cup Loaded \cup RowRead \cup VerifiedRequest
             \cup AdminRequest

TypeOK ==
  /\ account \in [Users -> Account \cup {None}]
  /\ session \in [Sids -> Session \cup {None}]
  /\ request \in [Workers -> Request]
  /\ clock \in 1..MaxStep /\ params \in 1..MaxParams /\ fresh \in Nat
  /\ epoch \in [Users -> Nat]
  /\ temporary \in [Users -> Nat]
  /\ consumed \subseteq Nat \X Nat

Init ==
  /\ account = [u \in Users |-> None]
  /\ session = [s \in Sids |-> None]
  /\ request = [w \in Workers |-> Idle]
  /\ clock = 1 /\ params = 1 /\ fresh = 0
  /\ epoch = [u \in Users |-> 0]
  /\ temporary = [u \in Users |-> 0]
  /\ consumed = {}

Exists(u) == account[u] # None
Forward(w, r) == request' = [request EXCEPT ![w] = r]
Done(w) == Forward(w, Idle)

--------------------------------------------------------------------------------
(* Accounts: bootstrap, creation and the administrator's transactions.          *)

UnversionedAccount(role) ==
  [role |-> role, active |-> TRUE, authv |-> 0, pw |-> fresh + 1, hash |-> params,
   must |-> TRUE, seed |-> 0, enabled |-> FALSE, last |-> 0, grant |-> FALSE]
NewAccount(role) ==
  [role |-> role, active |-> TRUE, authv |-> 1, pw |-> fresh + 1, hash |-> params,
   must |-> TRUE, seed |-> 0, enabled |-> FALSE, last |-> 0, grant |-> FALSE]

AddAccount(u, role) ==
  /\ account' = [account EXCEPT ![u] = NewAccount(role)]
  /\ fresh' = fresh + 1
  /\ temporary' = [temporary EXCEPT ![u] = fresh + 1]
  /\ UNCHANGED <<session, request, process, epoch, consumed>>

\* bootstrap_initial_admin: only a database without users gets one.
BootstrapInitialAdmin ==
  /\ \A u \in Users : ~Exists(u)
  /\ AddAccount(BootstrapAdmin, "ADMINISTRATOR")

ManagesUsers(a) == Exists(a) /\ account[a].active /\ account[a].role = "ADMINISTRATOR"

CreateUser(a, u, role) ==
  /\ "create" \in AdminOps
  /\ ManagesUsers(a)
  /\ ~Exists(u)
  /\ AddAccount(u, role)

\* UPDATE users ... auth_version + 1, and the UPDATE that revokes every session of
\* the account, in one transaction.
RevokeSessions(u) ==
  [s \in Sids |-> IF session[s] # None /\ session[s].user = u
                  THEN [session[s] EXCEPT !.revoked = TRUE] ELSE session[s]]
Invalidate(u, row) ==
  /\ account[u].authv < MaxAuthVersion
  /\ account' = [account EXCEPT ![u] = [row EXCEPT !.authv = account[u].authv + 1]]
  /\ session' = RevokeSessions(u)
  /\ epoch' = [epoch EXCEPT ![u] = @ + 1]

\* set_service_access: one transaction; nothing changes when the grant is as asked.
SetServiceAccess(a, u, granted) ==
  /\ "access" \in AdminOps
  /\ ManagesUsers(a)
  /\ Exists(u) /\ account[u].active /\ account[u].role = "CONTRIBUTOR"
  /\ account[u].grant # granted
  /\ Invalidate(u, [account[u] EXCEPT !.grant = granted])
  /\ UNCHANGED <<request, process, fresh, temporary, consumed>>

\* reset_password, update_role, set_active and reset_totp read the target first.
\* An equal role or state ends the request, except that deactivating an inactive
\* account still deletes its grants, outside any transaction.
Manages(w, a, u) ==
  /\ request[w] = Idle
  /\ ManagesUsers(a) /\ a # u /\ Exists(u)
  /\ UNCHANGED <<tables, process, fresh, history>>

ResetPasswordStart(w, a, u) ==
  /\ "password" \in AdminOps
  /\ Manages(w, a, u)
  /\ Forward(w, [at |-> "password", user |-> u])

UpdateRoleStart(w, a, u, role) ==
  /\ "role" \in AdminOps
  /\ Manages(w, a, u)
  /\ account[u].role # role
  /\ Forward(w, [at |-> "role", user |-> u, role |-> role])

SetActiveStart(w, a, u, active) ==
  /\ "active" \in AdminOps
  /\ Manages(w, a, u)
  /\ \/ /\ account[u].active # active
        /\ Forward(w, [at |-> "active", user |-> u, active |-> active])
     \/ /\ ~account[u].active /\ ~active
        /\ Forward(w, [at |-> "grants", user |-> u])

ResetTotpStart(w, a, u) ==
  /\ "totp" \in AdminOps
  /\ Manages(w, a, u)
  /\ account[u].enabled
  /\ Forward(w, [at |-> "totp", user |-> u])

ResetPassword(w) ==
  LET u == request[w].user
  IN /\ request[w].at = "password"
     /\ Invalidate(u, [account[u] EXCEPT !.pw = fresh + 1, !.hash = params, !.must = TRUE])
     /\ fresh' = fresh + 1
     /\ temporary' = [temporary EXCEPT ![u] = fresh + 1]
     /\ Done(w)
     /\ UNCHANGED <<process, consumed>>

\* The EXISTS of update_role and set_active: another active administrator.
AnyAdministrator(u) == \E v \in Users : ManagesUsers(v)
OtherAdministrator(u) == \E v \in Users \ {u} : ManagesUsers(v)

UpdateRole(w) ==
  LET u == request[w].user
  IN /\ request[w].at = "role"
     /\ \/ ~ManagesUsers(u)
        \/ request[w].role = "ADMINISTRATOR"
        \/ OtherAdministrator(u)
     /\ Invalidate(u, [account[u] EXCEPT !.role = request[w].role, !.grant = FALSE])
     /\ Done(w)
     /\ UNCHANGED <<process, fresh, temporary, consumed>>

KeepGrants(row, active) == [row EXCEPT !.active = active]
WithActive(row, active) == [row EXCEPT !.active = active, !.grant = FALSE]
SetActive(w) ==
  LET u == request[w].user
  IN /\ request[w].at = "active"
     /\ \/ request[w].active
        \/ ~ManagesUsers(u)
        \/ OtherAdministrator(u)
     /\ Invalidate(u, WithActive(account[u], request[w].active))
     /\ Done(w)
     /\ UNCHANGED <<process, fresh, temporary, consumed>>

DropGrants(w) ==
  LET u == request[w].user
  IN /\ request[w].at = "grants"
     /\ account' = [account EXCEPT ![u].grant = FALSE]
     /\ Done(w)
     /\ UNCHANGED <<session, process, fresh, history>>

ResetTotp(w) ==
  LET u == request[w].user
  IN /\ request[w].at = "totp"
     /\ Invalidate(u, [account[u] EXCEPT !.seed = 0, !.enabled = FALSE, !.last = 0])
     /\ Done(w)
     /\ UNCHANGED <<process, fresh, temporary, consumed>>

--------------------------------------------------------------------------------
(* Sign-in: authenticate.                                                       *)

NeedsEnrolment(row) == RequiresTotp(row.role) /\ ~row.enabled
AfterPassword(row) == IF NeedsEnrolment(row) /\ row.seed = 0 THEN "pending" ELSE "create"

\* The row is read once; a password that does not match it ends the request.
SignIn(w, u) ==
  /\ request[w] = Idle
  /\ u \in SignsIn /\ Exists(u) /\ account[u].active
  /\ Forward(w, [at |-> IF account[u].hash # params THEN "upgrade"
                        ELSE AfterPassword(account[u]),
                 user |-> u, row |-> account[u], epoch |-> epoch[u]])
  /\ UNCHANGED <<tables, process, fresh, history>>

\* upgrade_password_if_needed writes the verified password WHERE id only.
UpgradePassword(w) ==
  LET r == request[w]
  IN /\ r.at = "upgrade"
     /\ account' = [account EXCEPT ![r.user].pw = r.row.pw, ![r.user].hash = params]
     /\ Forward(w, [r EXCEPT !.at = AfterPassword(r.row)])
     /\ UNCHANGED <<session, process, fresh, history>>

\* create_pending_totp: the seed is kept only where there is none yet.
CreatePendingTotp(w) ==
  LET r == request[w]
  IN /\ r.at = "pending"
     /\ account' = [account EXCEPT ![r.user].seed = IF @ = 0 THEN fresh + 1 ELSE @]
     /\ fresh' = fresh + 1
     /\ Forward(w, [r EXCEPT !.at = "create"])
     /\ UNCHANGED <<session, process, history>>

\* login_state and SessionManager::create, with the auth_version of the row read.
LoginStateByRole(row) == IF NeedsEnrolment(row) THEN "PASSWORD_ONLY" ELSE "FULL"
LoginState(row) == IF NeedsEnrolment(row) \/ row.enabled THEN "PASSWORD_ONLY" ELSE "FULL"
CreateSession(w) ==
  LET r == request[w]
  IN /\ r.at = "create"
     /\ \E s \in Sids :
          /\ session[s] = None
          /\ session' = [session EXCEPT ![s] =
               [user |-> r.user, authv |-> r.row.authv, state |-> LoginState(r.row),
                revoked |-> FALSE, from |-> None,
                proof |-> 0, epoch |-> r.epoch]]
     /\ Done(w)
     /\ UNCHANGED <<account, process, fresh, history>>

--------------------------------------------------------------------------------
(* Requests of a session: complete_login_totp, confirm_totp,                    *)
(* recent_authenticate and change_own_password.                                 *)

\* What SessionManager::load accepts.
UsableAnyVersion(s) ==
  /\ session[s] # None
  /\ ~session[s].revoked
  /\ account[session[s].user].active
Usable(s) ==
  /\ session[s] # None
  /\ ~session[s].revoked
  /\ account[session[s].user].active
  /\ session[s].authv = account[session[s].user].authv

\* The handler's first checks, on the session as loaded.
Accepts(op, state, row) ==
  CASE op = "challenge" -> state = "PASSWORD_ONLY" /\ row.enabled
    [] op = "confirm"   -> state = "PASSWORD_ONLY"
    [] op = "recent"    -> state = "FULL" /\ ~row.must
    [] op = "change"    -> state = "FULL"

LoadSession(w, s, op) ==
  /\ request[w] = Idle
  /\ Usable(s)
  /\ Accepts(op, session[s].state, account[session[s].user])
  /\ Forward(w, [at |-> "loaded", op |-> op, sid |-> s,
                 authv |-> account[session[s].user].authv])
  /\ UNCHANGED <<tables, process, fresh, history>>

\* load_user_auth (the SELECT of change_own_password) and the checks on its row.
\* confirm_totp does not compare the versions, and rotates with the row's plus one.
ReadAccount(w) ==
  LET r == request[w]
      row == account[session[r.sid].user]
      reading(at, authv) == [at |-> at, op |-> r.op, sid |-> r.sid, authv |-> authv,
                             row |-> row]
  IN /\ r.at = "loaded"
     /\ \/ /\ r.op = "challenge"
           /\ row.active /\ row.authv = r.authv /\ row.enabled
           /\ Forward(w, reading("consume", r.authv))
        \/ /\ r.op = "confirm"
           /\ ~row.enabled /\ row.seed # 0
           /\ Forward(w, reading("enable", row.authv + 1))
        \/ /\ r.op = "recent"
           /\ row.active /\ row.authv = r.authv
           /\ IF RequiresTotp(row.role) \/ row.enabled
              THEN Forward(w, reading("consume", r.authv))
              ELSE Forward(w, [at |-> "claim", sid |-> r.sid, authv |-> r.authv,
                               proof |-> session[r.sid].proof])
        \/ /\ r.op = "change"
           /\ row.active
           /\ Forward(w, reading("replace", r.authv))
     /\ UNCHANGED <<tables, process, fresh, history>>

\* totp::verify_at: the codes of the previous, this and the next time step.
Window == {t \in clock - 1 .. clock + 1 : t > 0}

Verified(w, t) ==
  LET r == request[w]
  IN /\ consumed' = consumed \cup {<<r.row.seed, t>>}
     /\ Forward(w, [at |-> "claim", sid |-> r.sid, authv |-> r.authv, proof |-> r.row.seed])

\* verify_and_consume_totp: verified against the row read, consumed by a conditional
\* UPDATE of the row as it is now.
ConsumableAsRead(row, now, t) == now.active /\ now.authv = row.authv /\ now.enabled
Consumable(row, now, t) ==
  now.last < t /\ now.active /\ now.authv = row.authv /\ now.enabled
ConsumeCode(w, t) ==
  LET r == request[w]
      u == session[r.sid].user
  IN /\ r.at = "consume"
     /\ t \in Window /\ r.row.seed # 0 /\ r.row.last < t
     /\ Consumable(r.row, account[u], t)
     /\ account' = [account EXCEPT ![u].last = t]
     /\ Verified(w, t)
     /\ UNCHANGED <<session, process, fresh, epoch, temporary>>

\* The transaction of confirm_totp; the schema refuses an enabled row without a seed.
EnableTotp(w, t) ==
  LET r == request[w]
      u == session[r.sid].user
  IN /\ r.at = "enable"
     /\ t \in Window
     /\ ~account[u].enabled /\ account[u].seed # 0
     /\ account[u].authv < MaxAuthVersion
     /\ account' = [account EXCEPT ![u].enabled = TRUE, ![u].last = t, ![u].authv = @ + 1]
     /\ Verified(w, t)
     /\ UNCHANGED <<session, process, fresh, epoch, temporary>>

\* SessionManager::rotate claims the old session with one conditional UPDATE ...
ClaimableTwice(s, authv) ==
  /\ account[session[s].user].active
  /\ authv = account[session[s].user].authv
Claimable(s, authv) ==
  /\ ~session[s].revoked
  /\ account[session[s].user].active
  /\ authv = account[session[s].user].authv
Claim(w) ==
  LET r == request[w]
  IN /\ r.at = "claim"
     /\ Claimable(r.sid, r.authv)
     /\ session' = [session EXCEPT ![r.sid].revoked = TRUE]
     /\ Forward(w, [r EXCEPT !.at = "issue"])
     /\ UNCHANGED <<account, process, fresh, history>>

\* ... and then issues its replacement.
IssueSession(w) ==
  LET r == request[w]
      old == session[r.sid]
  IN /\ r.at = "issue"
     /\ \E s \in Sids :
          /\ session[s] = None
          /\ session' = [session EXCEPT ![s] =
               [old EXCEPT !.authv = r.authv, !.state = "FULL", !.revoked = FALSE,
                           !.from = r.sid, !.proof = r.proof]]
     /\ Done(w)
     /\ UNCHANGED <<account, process, fresh, history>>

\* The transaction of change_own_password: UPDATE ... WHERE id only.
ReplacePassword(w) ==
  LET r == request[w]
      u == session[r.sid].user
  IN /\ r.at = "replace"
     /\ Invalidate(u, [account[u] EXCEPT !.pw = fresh + 1, !.hash = params, !.must = FALSE])
     /\ fresh' = fresh + 1
     /\ temporary' = [temporary EXCEPT ![u] = IF @ = r.row.pw THEN 0 ELSE @]
     /\ Done(w)
     /\ UNCHANGED <<process, consumed>>

\* logout, login_totp_cancel, a timeout, and load, which revokes a session that has
\* expired or whose account was invalidated.
EndSession(s) ==
  /\ session[s] # None /\ ~session[s].revoked
  /\ session' = [session EXCEPT ![s].revoked = TRUE]
  /\ UNCHANGED <<account, request, process, fresh, history>>

--------------------------------------------------------------------------------
(* Time, failures and the next-state relation.                                  *)

Tick ==
  /\ clock < MaxStep
  /\ clock' = clock + 1
  /\ UNCHANGED <<tables, request, params, fresh, history>>

Abandon(w) ==
  /\ request[w] # Idle
  /\ Done(w)
  /\ UNCHANGED <<tables, process, fresh, history>>

Redeploy ==
  /\ params < MaxParams
  /\ params' = params + 1
  /\ request' = [w \in Workers |-> Idle]
  /\ UNCHANGED <<tables, clock, fresh, history>>

Administration(w) ==
  \/ \E a, u \in Users :
       \/ ResetPasswordStart(w, a, u)
       \/ \E role \in AssignedRoles : UpdateRoleStart(w, a, u, role)
       \/ \E active \in BOOLEAN : SetActiveStart(w, a, u, active)
       \/ ResetTotpStart(w, a, u)
  \/ ResetPassword(w)
  \/ UpdateRole(w)
  \/ SetActive(w)
  \/ DropGrants(w)
  \/ ResetTotp(w)

Authentication(w) ==
  \/ \E u \in Users : SignIn(w, u)
  \/ UpgradePassword(w)
  \/ CreatePendingTotp(w)
  \/ CreateSession(w)
  \/ \E s \in Sids, op \in SessionOp : LoadSession(w, s, op)
  \/ ReadAccount(w)
  \/ \E t \in Window : ConsumeCode(w, t) \/ EnableTotp(w, t)
  \/ Claim(w)
  \/ IssueSession(w)
  \/ ReplacePassword(w)

Next ==
  \/ BootstrapInitialAdmin
  \/ \E a, u \in Users :
       \/ \E role \in AssignedRoles : CreateUser(a, u, role)
       \/ \E granted \in BOOLEAN : SetServiceAccess(a, u, granted)
  \/ \E w \in Workers : Administration(w) \/ Authentication(w) \/ Abandon(w)
  \/ \E s \in Sids : EndSession(s)
  \/ Tick
  \/ Redeploy

Spec == Init /\ [][Next]_vars

--------------------------------------------------------------------------------
(* Properties.                                                                  *)

\* A session that load accepts was signed in after the last operation that took
\* the account's sessions away (a password reset or change, a new role, a
\* (de)activation, a TOTP reset, a change of App access): a sign-in or a rotation
\* in flight across such an operation issues a session that is dead on arrival.
SessionsFollowAccount ==
  \A s \in Sids : Usable(s) => session[s].epoch = epoch[session[s].user]

\* A full session of an account that needs, or has, a second factor was obtained
\* with a code of the seed the account has now.
SecondFactorProven ==
  \A s \in Sids :
    LET row == account[session[s].user]
    IN Usable(s) /\ session[s].state = "FULL" /\ (RequiresTotp(row.role) \/ row.enabled)
         => row.enabled /\ session[s].proof = row.seed

\* No TOTP code signs in or confirms an identity twice, nor after it enabled the
\* factor, whatever handlers race.
CodeUsedOnce ==
  [][\A w \in Workers : request[w].at = "consume" /\ request'[w].at = "claim"
       => consumed' # consumed]_vars

\* A session is replaced at most once, counting a replacement still to be issued,
\* and is never usable beside its replacement.
RotatedOnce ==
  \A s \in Sids :
    LET heirs == {t \in Sids : session[t] # None /\ session[t].from = s}
        issuing == {w \in Workers : request[w].at = "issue" /\ request[w].sid = s}
    IN /\ Cardinality(heirs) + Cardinality(issuing) <= 1
       /\ heirs # {} => ~Usable(s)

\* Once there is an account there is an active administrator, whatever two
\* administrators do to each other (README, "The last active Administrator remains
\* protected").
AdministratorRemains == (\E u \in Users : Exists(u)) => \E u \in Users : ManagesUsers(u)

\* App grants belong to active contributors only: a deactivation or a change of role
\* takes them, and a reactivation does not bring them back.
GrantsFollowAccount ==
  \A u \in Users : Exists(u) /\ account[u].grant
    => account[u].active /\ account[u].role = "CONTRIBUTOR"

\* The README's "Password reset sets a temporary password ... and forces replacement
\* at next sign-in": until its holder replaces it, the temporary password is the
\* account's password and must be replaced.
ResetForcesReplacement ==
  \A u \in Users : temporary[u] # 0 => account[u].pw = temporary[u] /\ account[u].must

================================================================================
