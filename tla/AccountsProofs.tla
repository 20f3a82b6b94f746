--------------------------- MODULE AccountsProofs ---------------------------
(***************************************************************************)
(* Proofs about accounts, sessions and single sign-on, for every set of    *)
(* requests, accounts, providers and policies.                             *)
(*                                                                         *)
(* ShapeInv gives rows, sessions and requests their fields.  PolicyInv is  *)
(* about revisions: a snapshot of the settings row, the provider cached    *)
(* from one and the role mapped by it are good only while their revision   *)
(* is the row's, and the share lock keeps it so until the row of the user  *)
(* is written.  CredentialInv is about hashes: the current one is newer    *)
(* than every hash a rotation replaced.                                    *)
(***************************************************************************)
EXTENDS Accounts, WellFoundedInduction, TLAPS

RowFields == {"status", "role", "disabled", "hash", "nets", "prov", "claims"}

RequestOK(t) ==
    /\ t.job \in {"idle", "disable", "enable", "delete", "own", "login", "sso", "put"}
    /\ t.job = "idle" => t = Idle
    /\ t.job \in {"disable", "enable", "delete"} =>
         /\ DOMAIN t = {"job", "pc", "user", "locked", "want"}
         /\ t.pc = "lock" /\ t.user \in Users
         /\ t.locked \subseteq Users /\ t.want \subseteq Users
    /\ t.job = "own" =>
         /\ DOMAIN t = {"job", "pc", "user", "sess", "verified"}
         /\ t.pc = "update" /\ t.user \in Locals
    /\ t.job = "login" =>
         /\ DOMAIN t = {"job", "pc", "user", "verified", "late"}
         /\ t.pc \in {"create", "fk"} /\ t.user \in Locals
    /\ t.job = "sso" =>
         /\ t.pc \in {"provider", "share", "upsert", "session", "insert"}
         /\ t.pc = "provider" => DOMAIN t = {"job", "pc", "cfg"}
         /\ t.pc \in {"share", "upsert"} =>
              DOMAIN t = {"job", "pc", "cfg", "prov", "role", "nets", "claims"}
         /\ t.pc \in {"session", "insert"} =>
              DOMAIN t = {"job", "pc", "cfg", "user"} /\ t.user \in Feds
    /\ t.job = "put" => t.pc \in {"update", "invalidate"}

ShapeInv ==
    /\ DOMAIN users = Users
    /\ \A u \in Users : DOMAIN users[u] = RowFields
    /\ \A s \in sessions : DOMAIN s = {"id", "user", "cred", "late"} /\ s.user \in Users
    /\ DOMAIN tx = Procs
    /\ \A p \in Procs : RequestOK(tx[p])

\* The row of u says what the stored policy maps the claims of its last sign-in to.
Follows(u) ==
    /\ users[u].prov = settings.prov
    /\ [role |-> users[u].role, nets |-> users[u].nets]
         = mapClaims(settings.policy, users[u].claims)

\* A sign-in whose snapshot is current works on what the row says.
SignInOK(t) ==
    /\ t.cfg.rev \in Nat /\ t.cfg.rev <= settings.rev
    /\ t.pc \in {"upsert", "insert"} => t.cfg.rev = settings.rev
    /\ t.cfg.rev = settings.rev =>
         /\ t.cfg.prov = settings.prov /\ t.cfg.policy = settings.policy
         /\ t.pc \in {"share", "upsert"} =>
              /\ t.prov = settings.prov
              /\ [role |-> t.role, nets |-> t.nets] = mapClaims(settings.policy, t.claims)
         /\ t.pc \in {"session", "insert"} /\ Exists(t.user) => Follows(t.user)

PolicyInv ==
    /\ settings.rev \in Nat \ {0}
    /\ cached.rev \in Nat /\ cached.rev <= settings.rev
    /\ cached.rev = settings.rev =>
         cached.prov = settings.prov /\ cached.policy = settings.policy
    /\ \A p \in Procs : tx[p].job = "sso" => SignInOK(tx[p])
    /\ FederatedFollowsPolicy

CredentialInv ==
    /\ \A u \in Locals : users[u].hash \in Nat
    /\ revoked \subseteq Locals \X Nat
    /\ \A u \in Locals, h \in Nat : <<u, h>> \in revoked =>
         users[u].status # "never" /\ (Exists(u) => h < users[u].hash)
    /\ \A s \in sessions : <<s.user, s.cred>> \in revoked => s.late
    /\ \A p \in Procs : tx[p].job = "login" /\ tx[p].pc = "fk" =>
         (<<tx[p].user, tx[p].verified>> \in revoked => tx[p].late)

LEMMA LeastElement ==
    ASSUME NEW S \in SUBSET Nat, S # {}
    PROVE  Min(S) \in S /\ \A y \in S : Min(S) <= y
<1> DEFINE R == OpToRel(<, Nat)
<1>1. \E x \in S : \A y \in S : <<y, x>> \notin R
    <2> HIDE DEF R
    <2>1. IsWellFoundedOn(R, Nat)
        BY NatLessThanWellFounded DEF R
    <2> QED
        BY <2>1, WFMin
<1>2. \A x, y \in Nat : <<y, x>> \in R <=> y < x
    BY DEF OpToRel
<1>3. \E x \in S : \A y \in S : x <= y
    <2> HIDE DEF R
    <2>1. PICK x \in S : \A y \in S : <<y, x>> \notin R
        BY <1>1
    <2>2. \A y \in S : ~(y < x)
        BY <2>1, <1>2, Zenon
    <2>3. \A y \in S : x <= y
        BY <2>2
    <2> QED
        BY <2>3
<1> QED
    BY <1>3 DEF Min

\* The actions of a step, without the ways a request comes to take them.
Action ==
    \/ \E u \in Locals : \E role, nets : CreateUser(u, role, nets)
    \/ \E u \in Users : \E nets : SetUserNetworks(u, nets)
    \/ \E p \in Procs, op \in {"disable", "enable", "delete"}, u \in Users :
         lockUserAndActiveAdmins(p, op, u)
    \/ \E u \in Users : ResetLocalUserPassword(u)
    \/ \E s \in sessions : EndSession(s)
    \/ \E p \in Procs, s \in sessions : handlePasswordChange(p, s)
    \/ \E p \in Procs, u \in Users : handleLogin(p, u)
    \/ \E p \in Procs : CallbackReads(p)
    \/ \E p \in Procs, r \in Requests : handleOIDCSettingsPut(p, r)
    \/ \E p \in Procs : Proceed(p)

LEMMA StepIsAction == AccountsNext => Action
BY DEF AccountsNext, Action, handleUserPost, cmdUser, handleUserResetPassword,
       handleUserPut, handleUserDelete

LEMMA ShapeInvAlways == AccountsFairSpec => []ShapeInv
<1> USE AccountsAssumption
<1>1. AccountsInit => ShapeInv
    BY DEF AccountsInit, ShapeInv, RequestOK, NoUser, Idle, RowFields, Users
<1>2. ASSUME ShapeInv, [AccountsNext]_accountVars PROVE ShapeInv'
    <2> USE <1>2 DEF ShapeInv, RequestOK, Idle, RowFields, Users
    <2>1. ASSUME NEW u \in Locals, NEW role, NEW nets, CreateUser(u, role, nets)
          PROVE  ShapeInv'
        BY <2>1 DEF CreateUser, NoUser
    <2>2. ASSUME NEW u \in Users, NEW nets, SetUserNetworks(u, nets)
          PROVE  ShapeInv'
        BY <2>2 DEF SetUserNetworks
    <2>3. ASSUME NEW p \in Procs, NEW op \in {"disable", "enable", "delete"}, NEW u \in Users,
             lockUserAndActiveAdmins(p, op, u)
          PROVE  ShapeInv'
        BY <2>3 DEF lockUserAndActiveAdmins, Start, EnabledAdmins, Idle
    <2>4. ASSUME NEW u \in Users, ResetLocalUserPassword(u)
          PROVE  ShapeInv'
        BY <2>4 DEF ResetLocalUserPassword, MarkLate
    <2>5. ASSUME NEW s \in sessions, EndSession(s)
          PROVE  ShapeInv'
        BY <2>5 DEF EndSession, Idle
    <2>6. ASSUME NEW p \in Procs, NEW s \in sessions, handlePasswordChange(p, s)
          PROVE  ShapeInv'
        BY <2>6 DEF handlePasswordChange, Start, Idle
    <2>7. ASSUME NEW p \in Procs, NEW u \in Users, handleLogin(p, u)
          PROVE  ShapeInv'
        BY <2>7 DEF handleLogin, Start, Idle
    <2>8. ASSUME NEW p \in Procs, CallbackReads(p)
          PROVE  ShapeInv'
        BY <2>8 DEF CallbackReads, Start, Idle
    <2>9. ASSUME NEW p \in Procs, NEW r \in Requests, handleOIDCSettingsPut(p, r)
          PROVE  ShapeInv'
        BY <2>9 DEF handleOIDCSettingsPut, Start, Idle
    <2>10. ASSUME NEW p \in Procs, LockRow(p)
          PROVE  ShapeInv'
        <3> DEFINE r == nextLock(tx[p].want, tx[p].user)
                   t == [tx[p] EXCEPT !.want = @ \ {r},
                                      !.locked = @ \cup {x \in {r} : Exists(x)}]
        <3>1. tx[p].job \in {"disable", "enable", "delete"}
            BY <2>10 DEF LockRow
        <3>2. RequestOK(t)
            <4>1. r \in Users
                BY <2>10, <3>1, LeastElement DEF LockRow, nextLock
            <4> HIDE DEF r
            <4> QED
                BY <3>1, <4>1
        <3>3. tx' = [tx EXCEPT ![p] = t] /\ UNCHANGED <<users, sessions>>
            BY <2>10 DEF LockRow, Goto
        <3> HIDE DEF t, RequestOK
        <3> QED
            BY <3>2, <3>3
    <2>11. ASSUME NEW p \in Procs, SetUserDisabled(p)
          PROVE  ShapeInv'
        BY <2>11 DEF SetUserDisabled, End, Goto, Idle
    <2>12. ASSUME NEW p \in Procs, DeleteUser(p)
          PROVE  ShapeInv'
        BY <2>12 DEF DeleteUser, End, Goto, NoUser, Idle
    <2>13. ASSUME NEW p \in Procs, UpdateOwnPassword(p)
          PROVE  ShapeInv'
        <3>1. RequestOK(Idle)
            OBVIOUS
        <3>2. \A q \in Procs : RequestOK(MarkLate(tx[p].user, tx)[q])
            BY DEF MarkLate
        <3>3. /\ \A q \in Procs : RequestOK(tx'[q])
              /\ DOMAIN tx' = Procs
            <4> HIDE DEF RequestOK, Idle
            <4> QED
                BY <2>13, <3>1, <3>2 DEF UpdateOwnPassword, MarkLate
        <3>4. /\ \A s \in sessions' : DOMAIN s = {"id", "user", "cred", "late"} /\ s.user \in Users
            BY <2>13 DEF UpdateOwnPassword
        <3>5. DOMAIN users' = Users /\ \A u \in Users : DOMAIN users'[u] = RowFields
            BY <2>13 DEF UpdateOwnPassword
        <3> HIDE DEF RequestOK
        <3> QED
            BY <3>3, <3>4, <3>5
    <2>14. ASSUME NEW p \in Procs, CreateLocalSession(p)
          PROVE  ShapeInv'
        BY <2>14 DEF CreateLocalSession, At, Goto, End, StillVerified, Idle
    <2>15. ASSUME NEW p \in Procs, CommitLocalSession(p)
          PROVE  ShapeInv'
        BY <2>15 DEF CommitLocalSession, InsertSession, At, Goto, End, Idle
    <2>16. ASSUME NEW p \in Procs, NEW v \in ClaimSets, Exchange(p, v)
          PROVE  ShapeInv'
        BY <2>16 DEF Exchange, At, Goto, End, Provider, CacheHit, Idle
    <2>17. ASSUME NEW p \in Procs, DiscoveryFails(p)
          PROVE  ShapeInv'
        BY <2>17 DEF DiscoveryFails, At, Goto, End, Idle
    <2>18. ASSUME NEW p \in Procs, UpsertShares(p)
          PROVE  ShapeInv'
        BY <2>18 DEF UpsertShares, At, Goto, End, PolicyCurrent, Idle
    <2>19. ASSUME NEW p \in Procs, upsertOIDCUser(p)
          PROVE  ShapeInv'
        <3> DEFINE ids == {u \in Feds : Exists(u) /\ users[u].prov = tx[p].prov}
                   unused == {u \in Feds : users[u].status = "never"}
                   u == IF ids # {} THEN Min(ids) ELSE Min(unused)
        <3>1. CASE ids \cup unused = {}
            BY <2>19, <3>1 DEF upsertOIDCUser, Goto, End
        <3>2. CASE ids \cup unused # {}
            <4>1. u \in Feds
                BY <3>2, LeastElement
            <4>2. /\ users' = [users EXCEPT ![u] =
                       [@ EXCEPT !.status = "live", !.prov = tx[p].prov, !.role = tx[p].role,
                                 !.nets = tx[p].nets, !.claims = tx[p].claims]]
                  /\ \/ tx' = [tx EXCEPT ![p] = Idle]
                     \/ tx' = [tx EXCEPT ![p] = [job |-> "sso", pc |-> "session",
                                                 cfg |-> tx[p].cfg, user |-> u]]
                  /\ UNCHANGED sessions
                BY <2>19, <3>2 DEF upsertOIDCUser, Goto, End
            <4> HIDE DEF u
            <4> QED
                BY <4>1, <4>2
        <3> QED
            BY <3>1, <3>2
    <2>20. ASSUME NEW p \in Procs, CreateOIDCSession(p)
          PROVE  ShapeInv'
        BY <2>20 DEF CreateOIDCSession, At, Goto, End, PolicyCurrent, Idle
    <2>21. ASSUME NEW p \in Procs, CommitOIDCSession(p)
          PROVE  ShapeInv'
        BY <2>21 DEF CommitOIDCSession, InsertSession, At, Goto, End, Idle
    <2>22. ASSUME NEW p \in Procs, UpdateOIDCSettings(p)
          PROVE  ShapeInv'
        BY <2>22 DEF UpdateOIDCSettings, At, Goto, End, Sharing, Idle
    <2>23. ASSUME NEW p \in Procs, Invalidate(p)
          PROVE  ShapeInv'
        BY <2>23 DEF Invalidate, At, Goto, End, NoProvider, Idle
    <2>24. CASE UNCHANGED accountVars
        BY <2>24 DEF accountVars
    <2> HIDE DEF ShapeInv, RequestOK, Idle, RowFields, Users
    <2> QED
        BY <1>2, <2>1, <2>2, <2>3, <2>4, <2>5, <2>6, <2>7, <2>8, <2>9, <2>10, <2>11, <2>12,
           <2>13, <2>14, <2>15, <2>16, <2>17, <2>18, <2>19, <2>20, <2>21, <2>22, <2>23, <2>24,
           StepIsAction DEF Action, Proceed
<1> QED
    BY <1>1, <1>2, PTL DEF AccountsFairSpec

LEMMA PolicyInvAlways == AccountsFairSpec => []PolicyInv
<1> USE AccountsAssumption
<1>1. AccountsInit => PolicyInv
    BY DEF AccountsInit, PolicyInv, NoProvider, Idle, FederatedFollowsPolicy
<1>2. ASSUME ShapeInv, PolicyInv, [AccountsNext]_accountVars PROVE PolicyInv'
    <2> USE <1>2 DEF ShapeInv, RequestOK, RowFields, Users,
                     PolicyInv, SignInOK, Follows, FederatedFollowsPolicy, Exists
    \* A step that signs nobody in keeps what the federated rows say, or deletes one.
    <2>a. ASSUME UNCHANGED <<settings, cached>>,
                 \A p \in Procs : tx'[p].job = "sso" => tx'[p] = tx[p],
                 \A s \in sessions' : s.user \in Feds => \E z \in sessions : z.user = s.user,
                 \A f \in Feds :
                   \/ /\ users'[f].prov = users[f].prov /\ users'[f].role = users[f].role
                      /\ users'[f].nets = users[f].nets /\ users'[f].claims = users[f].claims
                      /\ users'[f].status = users[f].status
                   \/ users'[f].status # "live" /\ \A s \in sessions' : s.user # f
          PROVE  PolicyInv'
        <3>1. \A s \in sessions' : s.user \in Feds => Follows(s.user)'
            BY <2>a
        <3>2. \A p \in Procs : tx'[p].job = "sso" => SignInOK(tx[p])'
            <4> SUFFICES ASSUME NEW p \in Procs, tx'[p].job = "sso" PROVE SignInOK(tx[p])'
                OBVIOUS
            <4>1. tx'[p] = tx[p] /\ SignInOK(tx[p]) /\ RequestOK(tx[p])
                BY <2>a
            <4>2. tx[p].pc \in {"session", "insert"} /\ users'[tx[p].user].status = "live"
                    => users[tx[p].user].status = "live"
                       /\ (Follows(tx[p].user) => Follows(tx[p].user)')
                BY <2>a, <4>1
            <4> QED
                BY <2>a, <4>1, <4>2
        <3> QED
            BY <2>a, <3>1, <3>2
    \* A step of a sign-in that writes no row.
    <2>b. ASSUME NEW p \in Procs, NEW t, tx' = [tx EXCEPT ![p] = t],
                 UNCHANGED <<users, settings, cached>>,
                 \A s \in sessions' : s \in sessions \/ (s.user \in Feds => Follows(s.user)),
                 t.job = "sso" => SignInOK(t)
          PROVE  PolicyInv'
        <3>1. \A q \in Procs : tx'[q].job = "sso" => SignInOK(tx'[q])
            BY <2>b
        <3>2. \A q \in Procs : SignInOK(tx'[q]) <=> SignInOK(tx[q])'
            BY <2>b
        <3> QED
            BY <2>b, <3>1, <3>2
    <2>1. ASSUME NEW u \in Locals, NEW role, NEW nets, CreateUser(u, role, nets)
          PROVE  PolicyInv'
        <3> HIDE DEF PolicyInv, SignInOK
        <3> QED
            BY <2>a, <2>1 DEF CreateUser, NoUser
    <2>2. ASSUME NEW u \in Users, NEW nets, SetUserNetworks(u, nets)
          PROVE  PolicyInv'
        <3> HIDE DEF PolicyInv, SignInOK
        <3> QED
            BY <2>a, <2>2 DEF SetUserNetworks
    <2>3. ASSUME NEW p \in Procs, NEW op \in {"disable", "enable", "delete"}, NEW u \in Users,
             lockUserAndActiveAdmins(p, op, u)
          PROVE  PolicyInv'
        BY <2>3 DEF lockUserAndActiveAdmins, Start, EnabledAdmins, Idle
    <2>4. ASSUME NEW u \in Users, ResetLocalUserPassword(u)
          PROVE  PolicyInv'
        BY <2>4 DEF ResetLocalUserPassword, MarkLate
    <2>5. ASSUME NEW s \in sessions, EndSession(s)
          PROVE  PolicyInv'
        BY <2>5 DEF EndSession, Idle
    <2>6. ASSUME NEW p \in Procs, NEW s \in sessions, handlePasswordChange(p, s)
          PROVE  PolicyInv'
        BY <2>6 DEF handlePasswordChange, Start, Idle
    <2>7. ASSUME NEW p \in Procs, NEW u \in Users, handleLogin(p, u)
          PROVE  PolicyInv'
        BY <2>7 DEF handleLogin, Start, Idle
    <2>8. ASSUME NEW p \in Procs, CallbackReads(p)
          PROVE  PolicyInv'
        BY <2>8 DEF CallbackReads, Start, Idle
    <2>9. ASSUME NEW p \in Procs, NEW r \in Requests, handleOIDCSettingsPut(p, r)
          PROVE  PolicyInv'
        BY <2>9 DEF handleOIDCSettingsPut, Start, Idle
    <2>10. ASSUME NEW p \in Procs, LockRow(p)
          PROVE  PolicyInv'
        BY <2>10 DEF LockRow, Goto
    <2>11. ASSUME NEW p \in Procs, SetUserDisabled(p)
          PROVE  PolicyInv'
        <3>1. \A f \in Feds : /\ users'[f].prov = users[f].prov /\ users'[f].role = users[f].role
                              /\ users'[f].nets = users[f].nets /\ users'[f].claims = users[f].claims
                              /\ users'[f].status = users[f].status
            BY <2>11 DEF SetUserDisabled
        <3>2. UNCHANGED <<settings, cached, sessions>> /\ tx' = [tx EXCEPT ![p] = Idle]
            BY <2>11 DEF SetUserDisabled, End, Goto
        <3> HIDE DEF PolicyInv, SignInOK
        <3> QED
            BY <2>a, <3>1, <3>2 DEF Idle
    <2>12. ASSUME NEW p \in Procs, DeleteUser(p)
          PROVE  PolicyInv'
        <3> HIDE DEF PolicyInv, SignInOK
        <3> QED
            BY <2>a, <2>12 DEF DeleteUser, End, Goto, NoUser, Idle
    <2>13. ASSUME NEW p \in Procs, UpdateOwnPassword(p)
          PROVE  PolicyInv'
        <3>1. tx[p].user \in Locals
            BY <2>13 DEF UpdateOwnPassword, At
        <3>2. /\ \A f \in Feds : users'[f] = users[f]
              /\ \A s \in sessions' : s.user \in Feds => s \in sessions
              /\ UNCHANGED <<settings, cached>>
            BY <2>13, <3>1 DEF UpdateOwnPassword
        <3>3. \A q \in Procs : LET m == MarkLate(tx[p].user, tx)[q] IN
                m.job = "sso" => m = tx[q]
            BY DEF MarkLate
        <3>4. \A q \in Procs : \/ tx'[q] = tx[q]
                               \/ tx'[q] = MarkLate(tx[p].user, tx)[q]
                               \/ tx'[q] = Idle
            <4> DEFINE M == MarkLate(tx[p].user, tx)
            <4>1. /\ DOMAIN tx = Procs /\ M = [q \in Procs |-> M[q]]
                  /\ tx' \in {[tx EXCEPT ![p] = Idle], [M EXCEPT ![p] = Idle]}
                BY <2>13 DEF UpdateOwnPassword, MarkLate
            <4> HIDE <1>2
            <4> QED
                BY <4>1
        <3>5. \A q \in Procs : tx'[q].job = "sso" => tx'[q] = tx[q]
            BY <3>3, <3>4 DEF Idle
        <3> HIDE DEF PolicyInv, SignInOK
        <3> QED
            BY <2>a, <3>2, <3>5
    <2>14. ASSUME NEW p \in Procs, CreateLocalSession(p)
          PROVE  PolicyInv'
        BY <2>14 DEF CreateLocalSession, At, Goto, End, StillVerified, Idle
    <2>15. ASSUME NEW p \in Procs, CommitLocalSession(p)
          PROVE  PolicyInv'
        BY <2>15 DEF CommitLocalSession, InsertSession, At, Goto, End, Idle
    <2>16. ASSUME NEW p \in Procs, NEW v \in ClaimSets, Exchange(p, v)
          PROVE  PolicyInv'
        <3> DEFINE pr == Provider(tx[p].cfg)
                   c == mapClaims(pr.policy, v)
                   t == [job |-> "sso", pc |-> "share", cfg |-> tx[p].cfg, prov |-> pr.prov,
                         role |-> c.role, nets |-> c.nets, claims |-> v]
        <3>1. SignInOK(tx[p])
            BY <2>16 DEF Exchange, At
        <3>2. /\ pr.rev = tx[p].cfg.rev /\ pr.rev \in Nat /\ pr.rev <= settings.rev
              /\ pr.rev = settings.rev => pr.prov = settings.prov /\ pr.policy = settings.policy
            BY <3>1 DEF Provider, CacheHit
        <3>3. [role |-> c.role, nets |-> c.nets] = c
            BY DEF mapClaims
        <3> HIDE DEF pr, c
        <3>4. tx[p].cfg.rev = settings.rev => c = mapClaims(settings.policy, v)
            BY <3>2 DEF c
        <3>5. SignInOK(t)
            BY <3>1, <3>2, <3>3, <3>4
        <3>6. /\ cached' = pr /\ UNCHANGED <<users, sessions, settings>>
              /\ \/ tx' = [tx EXCEPT ![p] = Idle]
                 \/ tx' = [tx EXCEPT ![p] = t]
            BY <2>16 DEF Exchange, End, Goto, pr, c
        <3>7. \A q \in Procs : tx'[q].job = "sso" => SignInOK(tx'[q])
            <4> HIDE DEF SignInOK, t
            <4> QED
                BY <3>5, <3>6 DEF Idle
        <3>8. \A q \in Procs : SignInOK(tx'[q]) => SignInOK(tx[q])'
            BY <3>6
        <3> HIDE DEF SignInOK, t
        <3> QED
            BY <3>1, <3>2, <3>6, <3>7, <3>8
    <2>17. ASSUME NEW p \in Procs, DiscoveryFails(p)
          PROVE  PolicyInv'
        BY <2>17 DEF DiscoveryFails, At, Goto, End, Idle
    <2>18. ASSUME NEW p \in Procs, UpsertShares(p)
          PROVE  PolicyInv'
        <3> DEFINE t == [tx[p] EXCEPT !.pc = "upsert"]
        <3>1. /\ SignInOK(tx[p]) /\ tx[p].pc = "share"
              /\ DOMAIN tx[p] = {"job", "pc", "cfg", "prov", "role", "nets", "claims"}
            BY <2>18 DEF UpsertShares, At
        <3>2. /\ \/ tx' = [tx EXCEPT ![p] = Idle]
                 \/ tx' = [tx EXCEPT ![p] = t] /\ tx[p].cfg.rev = settings.rev
              /\ UNCHANGED <<users, sessions, settings, cached>>
            BY <2>18 DEF UpsertShares, End, Goto, PolicyCurrent
        <3>3. tx[p].cfg.rev = settings.rev => SignInOK(t)
            BY <3>1
        <3>4. Idle.job # "sso"
            BY DEF Idle
        <3> HIDE DEF PolicyInv, SignInOK, Follows, t
        <3> QED
            BY <2>b, <3>2, <3>3, <3>4
    <2>19. ASSUME NEW p \in Procs, upsertOIDCUser(p)
          PROVE  PolicyInv'
        <3> DEFINE ids == {u \in Feds : Exists(u) /\ users[u].prov = tx[p].prov}
                   unused == {u \in Feds : users[u].status = "never"}
                   u == IF ids # {} THEN Min(ids) ELSE Min(unused)
                   t == [job |-> "sso", pc |-> "session", cfg |-> tx[p].cfg, user |-> u]
        <3>1. /\ SignInOK(tx[p]) /\ tx[p].pc = "upsert" /\ UNCHANGED <<sessions, settings, cached>>
            BY <2>19 DEF upsertOIDCUser, At
        <3>2. CASE ids \cup unused = {}
            <4>1. tx' = [tx EXCEPT ![p] = Idle] /\ UNCHANGED users
                BY <2>19, <3>2 DEF upsertOIDCUser, Goto, End
            <4>2. Idle.job # "sso"
                BY DEF Idle
            <4> HIDE DEF PolicyInv, SignInOK, Follows
            <4> QED
                BY <2>b, <3>1, <4>1, <4>2
        <3>3. CASE ids \cup unused # {}
            <4>1. PICK f \in Feds : f = u
                BY <3>3, LeastElement
            <4>2. /\ users' = [users EXCEPT ![f] =
                       [@ EXCEPT !.status = "live", !.prov = tx[p].prov, !.role = tx[p].role,
                                 !.nets = tx[p].nets, !.claims = tx[p].claims]]
                  /\ (tx' = [tx EXCEPT ![p] = Idle] \/ tx' = [tx EXCEPT ![p] = t])
                BY <2>19, <3>3, <4>1 DEF upsertOIDCUser, Goto, End
            <4> HIDE DEF u, t
            <4>3. Follows(f)'
                BY <3>1, <4>1, <4>2
            <4>4. \A x \in Users \ {f} : users'[x] = users[x]
                BY <4>1, <4>2
            <4>5. \A x \in Feds : Exists(x)' /\ (Exists(x) => Follows(x)) => Follows(x)'
                BY <3>1, <4>3, <4>4
            <4>6. \A s \in sessions' : s.user \in Feds => Follows(s.user)'
                BY <3>1, <4>3, <4>4
            <4>7. ASSUME NEW q \in Procs, tx'[q].job = "sso" PROVE SignInOK(tx[q])'
                <5>1. CASE q # p
                    <6>1. tx'[q] = tx[q] /\ SignInOK(tx[q])
                        BY <5>1, <4>2, <4>7
                    <6>2. tx[q].pc \in {"session", "insert"} => tx[q].user \in Feds
                        BY <6>1, <4>7
                    <6> QED
                        BY <6>1, <6>2, <4>5, <3>1
                <5>2. CASE q = p
                    <6>1. tx'[q] = t
                        BY <5>2, <4>2, <4>7 DEF Idle
                    <6> QED
                        BY <6>1, <3>1, <4>1, <4>3 DEF t
                <5> QED
                    BY <5>1, <5>2
            <4> HIDE DEF SignInOK, Follows
            <4> QED
                BY <3>1, <4>6, <4>7 DEF Follows
        <3> QED
            BY <3>2, <3>3
    <2>20. ASSUME NEW p \in Procs, CreateOIDCSession(p)
          PROVE  PolicyInv'
        <3> DEFINE t == [tx[p] EXCEPT !.pc = "insert"]
        <3>1. /\ SignInOK(tx[p]) /\ tx[p].pc = "session"
              /\ DOMAIN tx[p] = {"job", "pc", "cfg", "user"}
            BY <2>20 DEF CreateOIDCSession, At
        <3>2. /\ \/ tx' = [tx EXCEPT ![p] = Idle]
                 \/ tx' = [tx EXCEPT ![p] = t] /\ tx[p].cfg.rev = settings.rev
              /\ UNCHANGED <<users, sessions, settings, cached>>
            BY <2>20 DEF CreateOIDCSession, End, Goto, PolicyCurrent
        <3>3. tx[p].cfg.rev = settings.rev => SignInOK(t)
            BY <3>1
        <3>4. Idle.job # "sso"
            BY DEF Idle
        <3> HIDE DEF PolicyInv, SignInOK, Follows, t
        <3> QED
            BY <2>b, <3>2, <3>3, <3>4
    <2>21. ASSUME NEW p \in Procs, CommitOIDCSession(p)
          PROVE  PolicyInv'
        <3>1. SignInOK(tx[p]) /\ tx[p].pc = "insert" /\ tx[p].user \in Feds
            BY <2>21 DEF CommitOIDCSession, At
        <3>2. \A s \in sessions' : s \in sessions \/ Follows(s.user)
            BY <2>21, <3>1 DEF CommitOIDCSession, InsertSession
        <3>3. tx' = [tx EXCEPT ![p] = Idle] /\ UNCHANGED <<users, settings, cached>>
            BY <2>21 DEF CommitOIDCSession, InsertSession, End, Goto
        <3>4. Idle.job # "sso"
            BY DEF Idle
        <3> HIDE DEF PolicyInv, SignInOK, Follows
        <3> QED
            BY <2>b, <3>2, <3>3, <3>4
    <2>22. ASSUME NEW p \in Procs, UpdateOIDCSettings(p)
          PROVE  PolicyInv'
        BY <2>22 DEF UpdateOIDCSettings, At, Goto, End, Sharing, Idle
    <2>23. ASSUME NEW p \in Procs, Invalidate(p)
          PROVE  PolicyInv'
        BY <2>23 DEF Invalidate, At, Goto, End, NoProvider, Idle
    <2>24. CASE UNCHANGED accountVars
        BY <2>24 DEF accountVars
    <2> HIDE DEF ShapeInv, RequestOK, RowFields, Users, PolicyInv, SignInOK, Follows,
                FederatedFollowsPolicy, Exists
    <2> QED
        BY <1>2, <2>1, <2>2, <2>3, <2>4, <2>5, <2>6, <2>7, <2>8, <2>9, <2>10, <2>11, <2>12,
           <2>13, <2>14, <2>15, <2>16, <2>17, <2>18, <2>19, <2>20, <2>21, <2>22, <2>23, <2>24,
           StepIsAction DEF Action, Proceed
<1> QED
    BY <1>1, <1>2, ShapeInvAlways, PTL DEF AccountsFairSpec

(* No session grants what was withdrawn: whatever settings writes, resets   *)
(* and password changes overlap a sign-in, a federated session has the role *)
(* the stored policy gives and no session rests on a replaced credential.   *)
THEOREM AccessIsCurrentAlways == AccountsFairSpec => []AccessIsCurrent
<1> USE AccountsAssumption
<1>1. AccountsInit => CredentialInv
    BY DEF AccountsInit, CredentialInv, Idle, NoUser, Exists, Users
<1>2. ASSUME ShapeInv, CredentialInv, [AccountsNext]_accountVars PROVE CredentialInv'
    <2> USE <1>2 DEF ShapeInv, RequestOK, RowFields, Users, CredentialInv, Exists
    \* The next hash is newer than the current one, and with it than every revoked one.
    <2>a. ASSUME NEW u \in Locals, Exists(u)
          PROVE  Fresh(u) \in Nat /\ Fresh(u) > users[u].hash
        <3> DEFINE S == {users[u].hash} \cup {c[2] : c \in {x \in revoked : x[1] = u}}
        <3>1. users[u].hash \in S /\ \A y \in S : y \in Nat /\ y <= users[u].hash
            BY <2>a
        <3>2. Max(S) = users[u].hash
            <4> HIDE DEF S
            <4> QED
                BY <3>1 DEF Max
        <3> QED
            BY <3>1, <3>2 DEF Fresh
    \* A rotation by which u gets a newer hash and loses its sessions, but for one.
    <2>b. ASSUME NEW u \in Locals, NEW new \in Nat, Exists(u), new > users[u].hash,
                 users' = [users EXCEPT ![u].hash = new],
                 revoked' = revoked \cup {<<u, users[u].hash>>},
                 \A s \in sessions' : \/ s.user = u /\ s.cred = new
                                      \/ s.user # u /\ s \in sessions,
                 \A q \in Procs : \/ tx'[q] = MarkLate(u, tx)[q]
                                  \/ tx'[q] = Idle
          PROVE  CredentialInv'
        <3>1. \A x \in Locals, h \in Nat : <<x, h>> \in revoked' =>
                users'[x].status # "never" /\ (users'[x].status = "live" => h < users'[x].hash)
            BY <2>b
        <3>2. \A s \in sessions' : <<s.user, s.cred>> \in revoked' => s.late
            BY <2>b, <3>1
        <3>3. ASSUME NEW q \in Procs, tx'[q].job = "login", tx'[q].pc = "fk",
                     <<tx'[q].user, tx'[q].verified>> \in revoked'
              PROVE  tx'[q].late
            <4>1. tx'[q] = MarkLate(u, tx)[q]
                BY <2>b, <3>3 DEF Idle
            <4>2. CASE tx[q].job = "login" /\ tx[q].pc = "fk" /\ tx[q].user = u
                BY <4>1, <4>2 DEF MarkLate
            <4>3. CASE ~(tx[q].job = "login" /\ tx[q].pc = "fk" /\ tx[q].user = u)
                BY <4>1, <4>3, <3>3, <2>b DEF MarkLate
            <4> QED
                BY <4>2, <4>3
        <3>4. (\A x \in Locals : users'[x].hash \in Nat) /\ revoked' \subseteq Locals \X Nat
            BY <2>b
        <3> QED
            BY <3>1, <3>2, <3>3, <3>4
    <2>1. ASSUME NEW u \in Locals, NEW role, NEW nets, CreateUser(u, role, nets)
          PROVE  CredentialInv'
        BY <2>1 DEF CreateUser, NoUser
    <2>2. ASSUME NEW u \in Users, NEW nets, SetUserNetworks(u, nets)
          PROVE  CredentialInv'
        BY <2>2 DEF SetUserNetworks
    <2>3. ASSUME NEW p \in Procs, NEW op \in {"disable", "enable", "delete"}, NEW u \in Users,
             lockUserAndActiveAdmins(p, op, u)
          PROVE  CredentialInv'
        BY <2>3 DEF lockUserAndActiveAdmins, Start, EnabledAdmins, Idle
    <2>4. ASSUME NEW u \in Users, ResetLocalUserPassword(u)
          PROVE  CredentialInv'
        <3>1. u \in Locals /\ Exists(u)
            BY <2>4 DEF ResetLocalUserPassword
        <3>2. PICK new \in Nat : new = Fresh(u) /\ new > users[u].hash
            BY <2>a, <3>1
        <3> HIDE <1>2 DEF CredentialInv, ShapeInv
        <3> QED
            BY <1>2, <2>b, <2>4, <3>1, <3>2 DEF ResetLocalUserPassword, ShapeInv
    <2>5. ASSUME NEW s \in sessions, EndSession(s)
          PROVE  CredentialInv'
        BY <2>5 DEF EndSession, Idle
    <2>6. ASSUME NEW p \in Procs, NEW s \in sessions, handlePasswordChange(p, s)
          PROVE  CredentialInv'
        BY <2>6 DEF handlePasswordChange, Start, Idle
    <2>7. ASSUME NEW p \in Procs, NEW u \in Users, handleLogin(p, u)
          PROVE  CredentialInv'
        BY <2>7 DEF handleLogin, Start, Idle
    <2>8. ASSUME NEW p \in Procs, CallbackReads(p)
          PROVE  CredentialInv'
        BY <2>8 DEF CallbackReads, Start, Idle
    <2>9. ASSUME NEW p \in Procs, NEW r \in Requests, handleOIDCSettingsPut(p, r)
          PROVE  CredentialInv'
        BY <2>9 DEF handleOIDCSettingsPut, Start, Idle
    <2>10. ASSUME NEW p \in Procs, LockRow(p)
          PROVE  CredentialInv'
        BY <2>10 DEF LockRow, Goto
    <2>11. ASSUME NEW p \in Procs, SetUserDisabled(p)
          PROVE  CredentialInv'
        BY <2>11 DEF SetUserDisabled, End, Goto, Idle
    <2>12. ASSUME NEW p \in Procs, DeleteUser(p)
          PROVE  CredentialInv'
        BY <2>12 DEF DeleteUser, End, Goto, NoUser, Idle
    <2>13. ASSUME NEW p \in Procs, UpdateOwnPassword(p)
          PROVE  CredentialInv'
        <3> DEFINE u == tx[p].user
        <3>1. u \in Locals /\ tx[p] # Idle
            BY <2>13 DEF UpdateOwnPassword, At, Idle
        <3>2. CASE ~StillVerified(u, tx[p].verified)
            <4>1. tx' = [tx EXCEPT ![p] = Idle] /\ UNCHANGED <<users, sessions, revoked>>
                BY <2>13, <3>2 DEF UpdateOwnPassword
            <4> QED
                BY <4>1 DEF Idle
        <3>3. CASE StillVerified(u, tx[p].verified)
            <4>1. Exists(u) /\ users[u].hash = tx[p].verified
                BY <3>3 DEF StillVerified
            <4>2. PICK new \in Nat : new = Fresh(u) /\ new > users[u].hash
                BY <2>a, <3>1, <4>1
            <4>3. <<u, tx[p].verified>> \notin revoked
                BY <3>1, <4>1
            <4>4. /\ users' = [users EXCEPT ![u].hash = new]
                  /\ revoked' = revoked \cup {<<u, users[u].hash>>}
                BY <2>13, <3>3, <4>1, <4>2, <4>3 DEF UpdateOwnPassword
            <4>5. sessions' = {s \in sessions : s.user # u}
                      \cup {[s EXCEPT !.cred = new] :
                              s \in {x \in sessions : x.user = u /\ x.id = tx[p].sess}}
                BY <2>13, <3>3, <4>2 DEF UpdateOwnPassword
            <4>6. \A s \in sessions' : \/ s.user = u /\ s.cred = new
                                       \/ s.user # u /\ s \in sessions
                BY <4>5
            <4>7. tx' = [MarkLate(u, tx) EXCEPT ![p] = Idle]
                BY <2>13, <3>3 DEF UpdateOwnPassword
            <4>8. \A q \in Procs : \/ tx'[q] = MarkLate(u, tx)[q]
                                   \/ tx'[q] = Idle
                BY <4>7 DEF MarkLate
            <4>9. PICK v \in Locals : v = u
                BY <3>1
            <4> HIDE <1>2 DEF CredentialInv, u
            <4> QED
                BY <2>b, <4>1, <4>2, <4>4, <4>6, <4>8, <4>9
        <3> QED
            BY <3>2, <3>3
    <2>14. ASSUME NEW p \in Procs, CreateLocalSession(p)
          PROVE  CredentialInv'
        BY <2>14 DEF CreateLocalSession, At, Goto, End, StillVerified, Idle
    <2>15. ASSUME NEW p \in Procs, CommitLocalSession(p)
          PROVE  CredentialInv'
        BY <2>15 DEF CommitLocalSession, InsertSession, At, Goto, End, Idle
    <2>16. ASSUME NEW p \in Procs, NEW v \in ClaimSets, Exchange(p, v)
          PROVE  CredentialInv'
        BY <2>16 DEF Exchange, At, Goto, End, Provider, CacheHit, Idle
    <2>17. ASSUME NEW p \in Procs, DiscoveryFails(p)
          PROVE  CredentialInv'
        BY <2>17 DEF DiscoveryFails, At, Goto, End, Idle
    <2>18. ASSUME NEW p \in Procs, UpsertShares(p)
          PROVE  CredentialInv'
        BY <2>18 DEF UpsertShares, At, Goto, End, PolicyCurrent, Idle
    <2>19. ASSUME NEW p \in Procs, upsertOIDCUser(p)
          PROVE  CredentialInv'
        <3> DEFINE ids == {u \in Feds : Exists(u) /\ users[u].prov = tx[p].prov}
                   unused == {u \in Feds : users[u].status = "never"}
                   u == IF ids # {} THEN Min(ids) ELSE Min(unused)
                   t == [job |-> "sso", pc |-> "session", cfg |-> tx[p].cfg, user |-> u]
        <3>1. ids \cup unused # {} => u \in Feds
            BY LeastElement
        <3>2. \A x \in Locals : users'[x] = users[x]
            BY <2>19, <3>1 DEF upsertOIDCUser
        <3>3. UNCHANGED <<sessions, revoked>>
            BY <2>19 DEF upsertOIDCUser
        <3>4. tx' = [tx EXCEPT ![p] = Idle] \/ tx' = [tx EXCEPT ![p] = t]
            BY <2>19 DEF upsertOIDCUser, End, Goto
        <3>5. \A q \in Procs : tx'[q].job = "login" => tx'[q] = tx[q]
            <4> HIDE DEF u, RequestOK
            <4> QED
                BY <3>4 DEF Idle
        <3> HIDE DEF u
        <3> QED
            BY <3>2, <3>3, <3>5
    <2>20. ASSUME NEW p \in Procs, CreateOIDCSession(p)
          PROVE  CredentialInv'
        BY <2>20 DEF CreateOIDCSession, At, Goto, End, PolicyCurrent, Idle
    <2>21. ASSUME NEW p \in Procs, CommitOIDCSession(p)
          PROVE  CredentialInv'
        BY <2>21 DEF CommitOIDCSession, InsertSession, At, Goto, End, Idle
    <2>22. ASSUME NEW p \in Procs, UpdateOIDCSettings(p)
          PROVE  CredentialInv'
        BY <2>22 DEF UpdateOIDCSettings, At, Goto, End, Sharing, Idle
    <2>23. ASSUME NEW p \in Procs, Invalidate(p)
          PROVE  CredentialInv'
        BY <2>23 DEF Invalidate, At, Goto, End, NoProvider, Idle
    <2>24. CASE UNCHANGED accountVars
        BY <2>24 DEF accountVars
    <2> HIDE DEF ShapeInv, RequestOK, RowFields, Users, CredentialInv, Exists
    <2> QED
        BY <1>2, <2>1, <2>2, <2>3, <2>4, <2>5, <2>6, <2>7, <2>8, <2>9, <2>10, <2>11, <2>12,
           <2>13, <2>14, <2>15, <2>16, <2>17, <2>18, <2>19, <2>20, <2>21, <2>22, <2>23, <2>24,
           StepIsAction DEF Action, Proceed
<1>3. ShapeInv /\ PolicyInv /\ CredentialInv => AccessIsCurrent
    BY AccountsAssumption
    DEF ShapeInv, PolicyInv, CredentialInv, AccessIsCurrent, RevokedCredentialIsDead
<1> QED
    BY <1>1, <1>2, <1>3, ShapeInvAlways, PolicyInvAlways, PTL DEF AccountsFairSpec

(* UpdateOIDCSettings never keeps a secret for another provider than the    *)
(* one it was entered for, also when two writes start from the same row.    *)
THEOREM SecretStaysWithProviderAlways == AccountsFairSpec => []SecretStaysWithProvider
<1>1. AccountsInit => SecretStaysWithProvider
    BY DEF AccountsInit, SecretStaysWithProvider
<1>2. ASSUME SecretStaysWithProvider, [AccountsNext]_accountVars
      PROVE  SecretStaysWithProvider'
    <2>1. ASSUME NEW p \in Procs, UpdateOIDCSettings(p) PROVE SecretStaysWithProvider'
        BY <1>2, <2>1 DEF SecretStaysWithProvider, UpdateOIDCSettings, ConcurrentProviderChange
    <2>2. CASE UNCHANGED settings
        BY <1>2, <2>2, SMTT(40) DEF SecretStaysWithProvider
    <2>3. Action => UNCHANGED settings \/ \E p \in Procs : UpdateOIDCSettings(p)
        BY DEF Action, Proceed, CreateUser, SetUserNetworks, lockUserAndActiveAdmins,
               ResetLocalUserPassword, EndSession, handlePasswordChange, handleLogin,
               CallbackReads, handleOIDCSettingsPut, LockRow, SetUserDisabled, DeleteUser,
               UpdateOwnPassword, CreateLocalSession, CommitLocalSession, InsertSession,
               Exchange, DiscoveryFails, UpsertShares, upsertOIDCUser, CreateOIDCSession,
               CommitOIDCSession, Invalidate
    <2> QED
        BY <1>2, <2>1, <2>2, <2>3, StepIsAction DEF accountVars
<1> QED
    BY <1>1, <1>2, PTL DEF AccountsFairSpec

(* The end of a disable, an enable or a delete never takes the last enabled *)
(* admin away: the guard counts the other admins among the rows the         *)
(* transaction locked, as they are then, so the one it counts on is enabled *)
(* when the write commits.                                                  *)
THEOREM LastAdminKeptAlways == AccountsFairSpec => LastAdminKept
<1> DEFINE Ends == \E p \in Procs : /\ tx[p].job \in {"disable", "enable", "delete"}
                                    /\ tx'[p] = Idle
           Kept == EnabledAdmins = {} \/ EnabledAdmins' # {}
<1>1. ASSUME ShapeInv, [AccountsNext]_accountVars PROVE KeepsAnAdmin
    <2> SUFFICES ASSUME Ends PROVE Kept
        BY DEF KeepsAnAdmin
    <2>1. PICK q \in Procs : tx[q].job \in {"disable", "enable", "delete"} /\ tx'[q] = Idle
        OBVIOUS
    <2>2. tx[q] # Idle /\ DOMAIN tx[q] = {"job", "pc", "user", "locked", "want"}
        BY <1>1, <2>1 DEF Idle, ShapeInv, RequestOK
    <2>3. CASE UNCHANGED users
        BY <2>3 DEF EnabledAdmins, EnabledAdmin, Exists
    \* An enabled admin other than the account the request is about.
    <2>4. ASSUME NEW r \in EnabledAdmins, users'[r] = users[r] PROVE Kept
        BY <2>4 DEF EnabledAdmins, EnabledAdmin, Exists
    <2>5. \A p \in Procs : tx[p].job \in {"disable", "enable", "delete"} =>
            otherAdmins(p) = {r \in EnabledAdmins \cap tx[p].locked : r # tx[p].user}
        BY <1>1 DEF otherAdmins, EnabledAdmins, ShapeInv, RequestOK
    <2>6. ASSUME NEW p \in Procs, SetUserDisabled(p) PROVE Kept
        <3> DEFINE u == tx[p].user
        <3>1. \A r \in Users \ {u} : users'[r] = users[r]
            BY <1>1, <2>6 DEF SetUserDisabled, ShapeInv
        <3>2. CASE EnabledAdmins \ {u} # {}
            BY <2>4, <3>1, <3>2 DEF EnabledAdmins
        <3>3. CASE EnabledAdmins \ {u} = {}
            <4>1. otherAdmins(p) = {}
                BY <2>5, <2>6, <3>3 DEF SetUserDisabled
            <4>2. CASE UNCHANGED users
                BY <2>3, <4>2
            <4>3. CASE users' = [users EXCEPT ![u].disabled = FALSE]
                BY <1>1, <4>3 DEF EnabledAdmins, EnabledAdmin, Exists, ShapeInv
            <4>4. CASE tx[p].job = "enable"
                BY <2>6, <4>2, <4>3, <4>4 DEF SetUserDisabled
            <4>5. CASE tx[p].job = "disable" /\ u \in EnabledAdmins
                BY <2>6, <4>1, <4>2, <4>5
                DEF SetUserDisabled, EnabledAdmins, EnabledAdmin
            <4> QED
                BY <2>6, <3>3, <4>4, <4>5 DEF SetUserDisabled
        <3> QED
            BY <3>2, <3>3
    <2>7. ASSUME NEW p \in Procs, DeleteUser(p) PROVE Kept
        <3> DEFINE u == tx[p].user
        <3>1. \A r \in Users \ {u} : users'[r] = users[r]
            BY <1>1, <2>7 DEF DeleteUser, ShapeInv
        <3>2. CASE EnabledAdmins \ {u} # {}
            BY <2>4, <3>1, <3>2 DEF EnabledAdmins
        <3>3. CASE EnabledAdmins = {u}
            <4>1. otherAdmins(p) = {}
                BY <2>5, <2>7, <3>3 DEF DeleteUser
            <4> QED
                BY <2>3, <2>7, <3>3, <4>1 DEF DeleteUser, EnabledAdmins
        <3> QED
            BY <3>2, <3>3
    \* The other writers of a row end no such request.
    <2>8. ASSUME UNCHANGED tx PROVE FALSE
        BY <2>1, <2>2, <2>8
    <2>9. ASSUME NEW u \in Users, ResetLocalUserPassword(u) PROVE FALSE
        BY <2>1, <2>2, <2>9 DEF ResetLocalUserPassword, MarkLate
    <2>10. ASSUME NEW p \in Procs, UpdateOwnPassword(p) PROVE FALSE
        BY <1>1, <2>1, <2>2, <2>10 DEF UpdateOwnPassword, MarkLate, At, ShapeInv
    <2>11. ASSUME NEW p \in Procs, upsertOIDCUser(p) PROVE FALSE
        <3>1. tx[p].job = "sso" /\ tx' = [tx EXCEPT ![p] = tx'[p]] /\ DOMAIN tx = Procs
            BY <1>1, <2>11 DEF upsertOIDCUser, At, End, Goto, ShapeInv
        <3> QED
            BY <2>1, <2>2, <3>1
    <2>12. Action => \/ UNCHANGED users \/ UNCHANGED tx
                     \/ \E p \in Procs : \/ SetUserDisabled(p) \/ DeleteUser(p)
                                         \/ UpdateOwnPassword(p) \/ upsertOIDCUser(p)
                     \/ \E u \in Users : ResetLocalUserPassword(u)
        BY DEF Action, Proceed, CreateUser, SetUserNetworks, lockUserAndActiveAdmins,
               EndSession, handlePasswordChange, handleLogin,
               CallbackReads, handleOIDCSettingsPut, LockRow, CreateLocalSession,
               CommitLocalSession, InsertSession, Exchange, DiscoveryFails, UpsertShares,
               CreateOIDCSession, CommitOIDCSession, UpdateOIDCSettings, Invalidate
    <2> QED
        BY <1>1, <2>3, <2>6, <2>7, <2>8, <2>9, <2>10, <2>11, <2>12, StepIsAction
        DEF accountVars
<1> QED
    BY <1>1, ShapeInvAlways, PTL DEF AccountsFairSpec, LastAdminKept

=============================================================================
