------------------------------ MODULE Accounts ------------------------------
(***************************************************************************)
(* Dashboard accounts, sessions and single sign-on:                        *)
(* internal/server/store/users.go and oidc.go, the handlers of             *)
(* internal/server/httpapi/auth.go, users.go and oidc.go, and              *)
(* internal/server/oidcauth.                                               *)
(*                                                                         *)
(* Every request runs in a process of its own and talks to PostgreSQL at   *)
(* READ COMMITTED.  A transaction that takes one row lock and then commits *)
(* is one step whose guard is that lock; a transaction that takes several, *)
(* or that waits for a row while it holds the share lock of the settings   *)
(* row, is a step per wait.  The locks are not variables: which rows are   *)
(* locked follows from where each process stands.                          *)
(*                                                                         *)
(* User ids are numbers because the code orders lock acquisition by id.    *)
(* An id is never used again: a deleted federated user who signs in again  *)
(* is a new row.                                                           *)
(***************************************************************************)
EXTENDS Integers, FiniteSets, FiniteSetsExt

CONSTANTS
    Procs,        \* requests that can be under way at the same time
    Locals,       \* ids local accounts can have
    Feds,         \* ids federated accounts can have
    FirstAdmins,  \* the local admins there are, each signed in, at the start
    Providers,    \* identity providers: pairs of issuer and client_id
    Networks,
    ClaimSets,    \* the role claim values a provider may assert of its user
    Policies,     \* what may be stored first: [admins, rules, unmatched]
    Requests,     \* bodies of PUT /api/v1/settings/oidc
    MaxJobs       \* requests that write, over a behaviour

Users == Locals \cup Feds

ASSUME AccountsAssumption ==
    /\ Users \subseteq Nat /\ Locals \cap Feds = {}
    /\ FirstAdmins \subseteq Locals
    /\ MaxJobs \in Nat

VARIABLES
    users,     \* rows of users and user_networks, by id
    sessions,  \* rows of sessions; cred and late are history
    settings,  \* the oidc_settings row; rev stands for updated_at
    cached,    \* oidcauth.Manager: the provider built last and its key
    tx,        \* what each process is doing
    jobs,      \* requests started, to bound them
    revoked    \* history: credentials a rotation replaced, <<user, hash>>

accountVars == <<users, sessions, settings, cached, tx, jobs, revoked>>

ScopedRoles == {"network_admin", "network_viewer"}
NoSecret == "no_secret"

NoUser == [status |-> "never", role |-> "viewer", disabled |-> FALSE,
           hash |-> 0, nets |-> {}, prov |-> "none", claims |-> {}]
Idle == [job |-> "idle", pc |-> "idle"]
NoProvider == [rev |-> 0]

Exists(u) == users[u].status = "live"
EnabledAdmin(u) == Exists(u) /\ users[u].role = "admin" /\ ~users[u].disabled
EnabledAdmins == {u \in Users : EnabledAdmin(u)}

(* GetSessionByTokenHash: the row joined with an enabled user. *)
LiveSessions == {s \in sessions : ~users[s.user].disabled}

(* withSession, requireRole("admin") and userIDParam: the caller is a      *)
(* signed-in admin other than the account the request is about.            *)
AdminCalls(target) ==
    \E s \in LiveSessions : EnabledAdmin(s.user) /\ s.user # target

(* Rows held FOR UPDATE, and processes that hold the settings row FOR SHARE. *)
LockedRows(p) == IF tx[p].job \in {"disable", "enable", "delete"}
                 THEN tx[p].locked ELSE {}
Locked(u) == \E p \in Procs : u \in LockedRows(p)
Sharing == {p \in Procs : tx[p].pc \in {"upsert", "insert"}}

Start(p, job) == /\ tx[p] = Idle
                 /\ jobs < MaxJobs
                 /\ jobs' = jobs + 1
                 /\ tx' = [tx EXCEPT ![p] = job]
Goto(p, job) == tx' = [tx EXCEPT ![p] = job] /\ UNCHANGED jobs
At(p, job, pc) == tx[p].job = job /\ tx[p].pc = pc
End(p) == Goto(p, Idle)

-----------------------------------------------------------------------------
(* Claims to role: oidcauth.mapClaims.                                     *)

Granted(policy, values, role) ==
    UNION {r.nets : r \in {x \in policy.rules : x.role = role /\ x.value \in values}}

mapClaims(policy, values) ==
    CASE policy.admins \cap values # {} ->
           [role |-> "admin", nets |-> {}]
      [] policy.admins \cap values = {} /\ Granted(policy, values, "network_admin") # {} ->
           [role |-> "network_admin", nets |-> Granted(policy, values, "network_admin")]
      [] /\ policy.admins \cap values = {}
         /\ Granted(policy, values, "network_admin") = {}
         /\ Granted(policy, values, "network_viewer") # {} ->
           [role |-> "network_viewer", nets |-> Granted(policy, values, "network_viewer")]
      [] OTHER ->
           [role |-> IF policy.unmatched = "deny" THEN "denied" ELSE "viewer", nets |-> {}]

-----------------------------------------------------------------------------
(* Accounts: CreateUser, SetUserNetworks, SetUserDisabled, DeleteUser.     *)

AccountsInit ==
    /\ users = [u \in Users |->
                  IF u \in FirstAdmins
                  THEN [NoUser EXCEPT !.status = "live", !.role = "admin", !.hash = 1]
                  ELSE NoUser]
    /\ sessions = {[id |-> u, user |-> u, cred |-> 1, late |-> FALSE] : u \in FirstAdmins}
    /\ settings \in [enabled : {TRUE}, prov : Providers, secret : Providers,
                     policy : Policies, rev : {1}]
    /\ settings.secret = settings.prov
    /\ cached = NoProvider
    /\ tx = [p \in Procs |-> Idle]
    /\ jobs = 0
    /\ revoked = {}

(* A scoped role needs networks, a global one has none. *)
CreateUser(u, role, nets) ==
    /\ u \in Locals /\ users[u].status = "never"
    /\ (role \in ScopedRoles) <=> (nets # {})
    /\ jobs < MaxJobs /\ jobs' = jobs + 1
    /\ users' = [users EXCEPT ![u] =
                   [NoUser EXCEPT !.status = "live", !.role = role, !.nets = nets, !.hash = 1]]
    /\ UNCHANGED <<sessions, settings, cached, tx, revoked>>

handleUserPost(u, role, nets) == AdminCalls(u) /\ CreateUser(u, role, nets)

(* polarbeam-server user add: no session is asked for. *)
cmdUser(u, role, nets) == CreateUser(u, role, nets)

SetUserNetworks(u, nets) ==
    /\ Exists(u) /\ ~Locked(u)
    /\ nets # {}
    /\ users[u].role \in ScopedRoles /\ u \in Locals
    /\ jobs < MaxJobs /\ jobs' = jobs + 1
    /\ users' = [users EXCEPT ![u].nets = nets]
    /\ UNCHANGED <<sessions, settings, cached, tx, revoked>>

(* The statement of lockUserAndActiveAdmins begins: its snapshot fixes the *)
(* rows that will be locked, the target and every enabled admin.           *)
lockUserAndActiveAdmins(p, op, u) ==
    /\ users[u].status # "never"
    /\ Start(p, [job |-> op, pc |-> "lock", user |-> u, locked |-> {},
                 want |-> EnabledAdmins \cup {x \in {u} : Exists(x)}])
    /\ UNCHANGED <<users, sessions, settings, cached, revoked>>

(* PUT and DELETE of a user by another admin.  A PUT changes the networks, *)
(* the disabled flag, or one after the other.                              *)
handleUserPut(p, u) ==
    /\ AdminCalls(u)
    /\ \/ \E nets \in SUBSET Networks : SetUserNetworks(u, nets)
       \/ \E op \in {"disable", "enable"} : lockUserAndActiveAdmins(p, op, u)

handleUserDelete(p, u) == AdminCalls(u) /\ lockUserAndActiveAdmins(p, "delete", u)

(* Variant: the target's row first, then the others. *)
nextLockTargetFirst(want, u) == IF u \in want THEN u ELSE Min(want)

(* The row locked next, in the order of ORDER BY id. *)
nextLock(want, u) == Min(want)

(* One row of the statement: it waits for the row's lock, and a row that   *)
(* was deleted meanwhile is passed over.                                   *)
LockRow(p) ==
    /\ tx[p].pc = "lock" /\ tx[p].want # {}
    /\ LET r == nextLock(tx[p].want, tx[p].user) IN
         /\ ~Locked(r)
         /\ Goto(p, [tx[p] EXCEPT !.want = @ \ {r},
                                  !.locked = @ \cup {x \in {r} : Exists(x)}])
    /\ UNCHANGED <<users, sessions, settings, cached, revoked>>

(* Variant: a disabled admin counts too. *)
otherAdminsAny(p) == {r \in Users : r # tx[p].user /\ users[r].role = "admin"}

(* Other enabled admins among the rows returned: a row locked after it was *)
(* changed is checked again against the condition.                         *)
otherAdmins(p) == {r \in tx[p].locked : r # tx[p].user /\ EnabledAdmin(r)}

SetUserDisabled(p) ==
    /\ tx[p].job \in {"disable", "enable"} /\ tx[p].want = {}
    /\ LET u == tx[p].user
           disabled == tx[p].job = "disable" IN
         IF \/ u \notin tx[p].locked
            \/ users[u].disabled = disabled
            \/ disabled /\ users[u].role = "admin" /\ otherAdmins(p) = {}
         THEN UNCHANGED users
         ELSE users' = [users EXCEPT ![u].disabled = disabled]
    /\ End(p)
    /\ UNCHANGED <<sessions, settings, cached, revoked>>

DeleteUser(p) ==
    /\ tx[p].job = "delete" /\ tx[p].want = {}
    /\ LET u == tx[p].user IN
         IF u \notin tx[p].locked \/ (EnabledAdmin(u) /\ otherAdmins(p) = {})
         THEN UNCHANGED <<users, sessions>>
         ELSE /\ users' = [users EXCEPT ![u] = [NoUser EXCEPT !.status = "gone"]]
              /\ sessions' = {s \in sessions : s.user # u}
    /\ End(p)
    /\ UNCHANGED <<settings, cached, revoked>>

-----------------------------------------------------------------------------
(* Local credentials and sessions.                                         *)

Fresh(u) == 1 + Max({users[u].hash} \cup {c[2] : c \in {x \in revoked : x[1] = u}})

(* A rotation that commits while the insert of a login is waiting for its  *)
(* foreign key check: that login's statement was evaluated before.         *)
MarkLate(u, txs) ==
    [p \in Procs |-> IF txs[p].job = "login" /\ txs[p].pc = "fk" /\ txs[p].user = u
                     THEN [txs[p] EXCEPT !.late = TRUE] ELSE txs[p]]

ResetLocalUserPassword(u) ==
    /\ Exists(u) /\ ~Locked(u)
    /\ u \in Locals
    /\ jobs < MaxJobs /\ jobs' = jobs + 1
    /\ users' = [users EXCEPT ![u].hash = Fresh(u)]
    /\ sessions' = {s \in sessions : s.user # u}
    /\ revoked' = revoked \cup {<<u, users[u].hash>>}
    /\ tx' = MarkLate(u, tx)
    /\ UNCHANGED <<settings, cached>>

handleUserResetPassword(u) == AdminCalls(u) /\ ResetLocalUserPassword(u)

(* handlePasswordChange reads the hash and verifies the current password   *)
(* outside the transaction: argon2 must not run under the row lock.        *)
handlePasswordChange(p, s) ==
    /\ s \in LiveSessions /\ s.user \in Locals
    /\ Start(p, [job |-> "own", pc |-> "update", user |-> s.user, sess |-> s.id,
                 verified |-> users[s.user].hash])
    /\ UNCHANGED <<users, sessions, settings, cached, revoked>>

(* Variant: the row is not compared with the hash that was verified. *)
StillVerifiedUnchecked(u, verified) == Exists(u)

StillVerified(u, verified) == Exists(u) /\ users[u].hash = verified

UpdateOwnPassword(p) ==
    /\ At(p, "own", "update")
    /\ LET u == tx[p].user
           old == tx[p].verified
           new == Fresh(u) IN
         /\ ~Locked(u)
         /\ IF StillVerified(u, old)
            THEN /\ users' = [users EXCEPT ![u].hash = new]
                 /\ sessions' = {s \in sessions : s.user # u}
                      \cup {[s EXCEPT !.cred = new] :
                              s \in {x \in sessions : x.user = u /\ x.id = tx[p].sess}}
                 /\ revoked' = revoked \cup {<<u, old>>}
                      \cup (IF <<u, old>> \in revoked THEN {<<u, new>>} ELSE {})
                 /\ tx' = [MarkLate(u, tx) EXCEPT ![p] = Idle]
            ELSE /\ tx' = [tx EXCEPT ![p] = Idle]
                 /\ UNCHANGED <<users, sessions, revoked>>
    /\ UNCHANGED <<settings, cached, jobs>>

(* handleLogin: the row is read and the password verified against it. *)
handleLogin(p, u) ==
    /\ u \in Locals /\ Exists(u) /\ ~users[u].disabled
    /\ Start(p, [job |-> "login", pc |-> "create", user |-> u,
                 verified |-> users[u].hash, late |-> FALSE])
    /\ UNCHANGED <<users, sessions, settings, cached, revoked>>

(* The INSERT ... SELECT of CreateLocalSession is evaluated: no row when   *)
(* the hash or the account changed since.                                  *)
CreateLocalSession(p) ==
    /\ At(p, "login", "create")
    /\ IF StillVerified(tx[p].user, tx[p].verified) /\ ~users[tx[p].user].disabled
       THEN Goto(p, [tx[p] EXCEPT !.pc = "fk"])
       ELSE End(p)
    /\ UNCHANGED <<users, sessions, settings, cached, revoked>>

NewId == LET used == {s.id : s \in sessions}
                     \cup {tx[p].sess : p \in {q \in Procs : tx[q].job = "own"}}
         IN Min((1 .. Cardinality(used) + 1) \ used)

(* Both inserts end with the foreign key check on users, which waits for   *)
(* the row's lock and fails when the row is gone.                          *)
InsertSession(p, cred, late) ==
    /\ ~Locked(tx[p].user)
    /\ IF Exists(tx[p].user)
       THEN sessions' = sessions \cup
                {[id |-> NewId, user |-> tx[p].user, cred |-> cred, late |-> late]}
       ELSE UNCHANGED sessions
    /\ End(p)
    /\ UNCHANGED <<users, settings, cached, revoked>>

CommitLocalSession(p) ==
    /\ At(p, "login", "fk")
    /\ InsertSession(p, tx[p].verified, tx[p].late)

(* handleLogout, or the session's time to live passing: an expired row is  *)
(* never returned, and the next sign-in deletes it.                        *)
EndSession(s) ==
    /\ s \in sessions
    /\ sessions' = sessions \ {s}
    /\ UNCHANGED <<users, settings, cached, tx, jobs, revoked>>

-----------------------------------------------------------------------------
(* Single sign-on: Manager.Provider, handleOIDCCallback, UpsertOIDCUser    *)
(* and CreateOIDCSession.                                                  *)

(* handleOIDCCallback reads the settings row ... *)
CallbackReads(p) ==
    /\ settings.enabled
    /\ Start(p, [job |-> "sso", pc |-> "provider", cfg |-> settings])
    /\ UNCHANGED <<users, sessions, settings, cached, revoked>>

(* ... takes the provider cached for that revision, or builds it. *)
CacheHit(cfg) == cached.rev = cfg.rev

Provider(cfg) ==
    IF CacheHit(cfg) THEN cached
    ELSE [rev |-> cfg.rev, prov |-> cfg.prov, policy |-> cfg.policy]

(* Discovery and the code exchange take seconds.  The claims are mapped by *)
(* the policy the provider was built with.                                 *)
Exchange(p, values) ==
    /\ At(p, "sso", "provider")
    /\ LET pr == Provider(tx[p].cfg)
           c == mapClaims(pr.policy, values) IN
         /\ cached' = pr
         /\ IF c.role = "denied" THEN End(p)
            ELSE Goto(p, [job |-> "sso", pc |-> "share", cfg |-> tx[p].cfg, prov |-> pr.prov,
                          role |-> c.role, nets |-> c.nets, claims |-> values])
    /\ UNCHANGED <<users, sessions, settings, revoked>>

(* The provider cannot be reached: nothing is cached. *)
DiscoveryFails(p) ==
    /\ At(p, "sso", "provider")
    /\ ~CacheHit(tx[p].cfg)
    /\ End(p)
    /\ UNCHANGED <<users, sessions, settings, cached, revoked>>

(* The revision check of upsertOIDCUser, under FOR SHARE. *)
PolicyCurrent(cfg) == settings.rev = cfg.rev

UpsertShares(p) ==
    /\ At(p, "sso", "share")
    /\ IF PolicyCurrent(tx[p].cfg) THEN Goto(p, [tx[p] EXCEPT !.pc = "upsert"]) ELSE End(p)
    /\ UNCHANGED <<users, sessions, settings, cached, revoked>>

(* The upsert waits for the row of the identity, or inserts one.  disabled *)
(* is never touched, and refuses the sign-in after the row is committed.   *)
upsertOIDCUser(p) ==
    LET ids == {u \in Feds : Exists(u) /\ users[u].prov = tx[p].prov}
        unused == {u \in Feds : users[u].status = "never"} IN
    /\ At(p, "sso", "upsert")
    /\ \A u \in ids : ~Locked(u)
    /\ IF ids \cup unused = {}
       THEN End(p) /\ UNCHANGED users
       ELSE LET u == IF ids # {} THEN Min(ids) ELSE Min(unused) IN
              /\ users' = [users EXCEPT ![u] =
                             [@ EXCEPT !.status = "live", !.prov = tx[p].prov, !.role = tx[p].role,
                                       !.nets = tx[p].nets, !.claims = tx[p].claims]]
              /\ IF users[u].disabled THEN End(p)
                 ELSE Goto(p, [job |-> "sso", pc |-> "session", cfg |-> tx[p].cfg, user |-> u])
    /\ UNCHANGED <<sessions, settings, cached, revoked>>

CreateOIDCSession(p) ==
    /\ At(p, "sso", "session")
    /\ IF settings.enabled /\ settings.prov = tx[p].cfg.prov /\ PolicyCurrent(tx[p].cfg)
       THEN Goto(p, [tx[p] EXCEPT !.pc = "insert"])
       ELSE End(p)
    /\ UNCHANGED <<users, sessions, settings, cached, revoked>>

CommitOIDCSession(p) ==
    /\ At(p, "sso", "insert")
    /\ InsertSession(p, 0, FALSE)

-----------------------------------------------------------------------------
(* PUT /api/v1/settings/oidc.                                              *)

(* validateOIDCSettings against the row the handler read. *)
Valid(r) == /\ ~(~r.secret /\ settings.secret # NoSecret /\ r.prov # settings.prov)
            /\ r.enabled => r.secret \/ settings.secret # NoSecret

handleOIDCSettingsPut(p, r) ==
    /\ AdminCalls(0)
    /\ Valid(r)
    /\ Start(p, [job |-> "put", pc |-> "update", req |-> r])
    /\ UNCHANGED <<users, sessions, settings, cached, revoked>>

(* Variant: only the handler's validation, against the row it read, counts. *)
ConcurrentProviderChangeUnchecked(r) == FALSE

(* The rule that a provider switch needs a new secret, on the locked row. *)
ConcurrentProviderChange(r) ==
    r.prov # settings.prov /\ ~r.secret /\ settings.secret # NoSecret

(* UpdateOIDCSettings waits until no login holds the row FOR SHARE. *)
UpdateOIDCSettings(p) ==
    /\ At(p, "put", "update")
    /\ Sharing = {}
    /\ LET r == tx[p].req
           policy == [admins |-> r.admins,
                      rules |-> IF r.keepRules THEN settings.policy.rules ELSE r.rules,
                      unmatched |-> IF r.keepUnmatched THEN settings.policy.unmatched
                                    ELSE r.unmatched] IN
         IF ConcurrentProviderChange(r)
         THEN End(p) /\ UNCHANGED <<sessions, settings>>
         ELSE /\ settings' = [enabled |-> r.enabled, prov |-> r.prov, policy |-> policy,
                              secret |-> IF r.secret THEN r.prov ELSE settings.secret,
                              rev |-> settings.rev + 1]
              /\ sessions' = IF r.prov # settings.prov \/ policy # settings.policy
                             THEN {s \in sessions : s.user \notin Feds}
                             ELSE sessions
              /\ Goto(p, [job |-> "put", pc |-> "invalidate"])
    /\ UNCHANGED <<users, cached, revoked>>

(* Manager.Invalidate, after the commit. *)
Invalidate(p) ==
    /\ At(p, "put", "invalidate")
    /\ cached' = NoProvider
    /\ End(p)
    /\ UNCHANGED <<users, sessions, settings, revoked>>

-----------------------------------------------------------------------------
(* A request that is under way goes on, if it is not waiting for a lock. *)
Proceed(p) ==
    \/ LockRow(p) \/ SetUserDisabled(p) \/ DeleteUser(p)
    \/ UpdateOwnPassword(p)
    \/ CreateLocalSession(p) \/ CommitLocalSession(p)
    \/ \E v \in ClaimSets : Exchange(p, v)
    \/ DiscoveryFails(p)
    \/ UpsertShares(p) \/ upsertOIDCUser(p)
    \/ CreateOIDCSession(p) \/ CommitOIDCSession(p)
    \/ UpdateOIDCSettings(p) \/ Invalidate(p)

AccountsNext ==
    \/ \E u \in Locals, role \in {"viewer", "network_viewer"}, nets \in SUBSET Networks :
         handleUserPost(u, role, nets)
    \/ \E u \in Locals : cmdUser(u, "admin", {})
    \/ \E u \in Users : handleUserResetPassword(u)
    \/ \E s \in sessions : EndSession(s)
    \/ \E p \in Procs :
         \/ \E u \in Users : handleUserPut(p, u) \/ handleUserDelete(p, u)
         \/ \E s \in sessions : handlePasswordChange(p, s)
         \/ \E u \in Users : handleLogin(p, u)
         \/ CallbackReads(p)
         \/ \E r \in Requests : handleOIDCSettingsPut(p, r)
         \/ Proceed(p)

(* The server runs every request it accepted: each statement returns once  *)
(* the lock it waits for is released.                                      *)
AccountsFairSpec ==
    /\ AccountsInit /\ [][AccountsNext]_accountVars
    /\ \A p \in Procs : WF_accountVars(Proceed(p))

-----------------------------------------------------------------------------
(* Properties.                                                             *)

(* A step that ends such a request, if there is an enabled admin. *)
KeepsAnAdmin ==
    (\E p \in Procs : tx[p].job \in {"disable", "enable", "delete"} /\ tx'[p] = Idle)
      => EnabledAdmins = {} \/ EnabledAdmins' # {}

(* No interleaving of disables and deletes of admins, by admins, leaves a  *)
(* dashboard with enabled admins without one (the last-admin guard of      *)
(* SetUserDisabled and DeleteUser and the lock set it counts under).  A    *)
(* sign-in that demotes a federated admin is not under that guard.         *)
LastAdminKept == [][KeepsAnAdmin]_accountVars

(* A federated user with a session is who the configured provider says and *)
(* holds exactly the role and networks the stored policy maps the claims   *)
(* of the last sign-in to, whatever settings writes overlapped the sign-in *)
(* (share locks and revision checks of UpsertOIDCUser and                  *)
(* CreateOIDCSession, revocation in UpdateOIDCSettings).                   *)
FederatedFollowsPolicy ==
    \A s \in sessions : s.user \in Feds =>
        LET row == users[s.user] IN
        /\ row.prov = settings.prov
        /\ [role |-> row.role, nets |-> row.nets] = mapClaims(settings.policy, row.claims)

(* A credential a reset or a change replaced is dead: it is not the        *)
(* account's credential again, no later change was verified against it,    *)
(* and no session rests on it, except one whose insert was evaluated       *)
(* before the rotation and waited for its foreign key check.               *)
RevokedCredentialIsDead ==
    /\ \A u \in Locals : Exists(u) => <<u, users[u].hash>> \notin revoked
    /\ \A s \in sessions : <<s.user, s.cred>> \in revoked => s.late

(* The stored client secret is the one entered for the stored provider,    *)
(* also when two settings writes start from the same row.                  *)
SecretStaysWithProvider == settings.secret \in {NoSecret, settings.prov}

(* Every accepted request ends: the row locks taken in id order and the    *)
(* share lock held while waiting for a row cannot form a cycle.            *)
RequestsEnd == \A p \in Procs : tx[p] # Idle ~> tx[p] = Idle

(* A session grants nothing that was withdrawn: neither a rotated           *)
(* credential nor a policy that no longer maps to the role is behind it.    *)
AccessIsCurrent == FederatedFollowsPolicy /\ RevokedCredentialIsDead

=============================================================================
