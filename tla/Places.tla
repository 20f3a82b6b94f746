------------------------------- MODULE Places -------------------------------
(***************************************************************************)
(* Sites, networks, external targets and join tokens, and what refers to   *)
(* them: internal/server/store/sites.go, networks.go, tokens.go, the       *)
(* targets and direct probes of probeconfig.go, and CreateJoinToken and    *)
(* EnrollAgent of enrollment.go, with their handlers and CLI commands.     *)
(*                                                                         *)
(* A site or a network is deleted only when nothing refers to it, and its  *)
(* unused tokens go with it.  A row is a name with a number: a name that   *)
(* is deleted can be created again and is then another row.  A statement   *)
(* that inserts a reference takes FOR KEY SHARE on the row it refers to    *)
(* and fails when that row is gone.  Locks last across steps only for the  *)
(* transactions that take more than one: the two deletions, enrollment.    *)
(***************************************************************************)
EXTENDS Integers, Sequences, FiniteSets

CONSTANTS
    Callers,   \* requests that can be under way at the same time
    SiteNames,
    NetNames,  \* networks besides the seeded 'default', which stays
    Tokens,    \* join tokens, pairs like the other rows
    MaxRow,    \* rows created under one name
    MaxCalls   \* requests started, over a behaviour

ASSUME PlacesAssumption ==
    /\ MaxRow \in Nat \ {0} /\ MaxCalls \in Nat
    /\ \A t \in Tokens : \* no token is a site or a network
          t[1] \notin SiteNames \cup NetNames \cup {"default", "global", "none"}

DefaultNet == <<"default", 1>>
Global == <<"global", 1>>

VARIABLES
    live,      \* rows of sites and networks: <<name, number>>
    born,      \* rows created under each name
    toks,      \* join_tokens by id: [state, site, net]
    agentRows, \* agents: [tok, site, net]
    meshRefs,  \* sites in some mesh_members row, networks of some mesh
    target,    \* the external target: the network that owns it, or none
    direct,    \* direct probes: [site, net], all of the external target
    call,      \* what each request is doing
    calls      \* requests started, to bound them

placeVars == <<live, born, toks, agentRows, meshRefs, target, direct, call, calls>>
tables == <<live, born, toks, agentRows, meshRefs, target, direct>>

Names == SiteNames \cup NetNames
Absent == <<"none", 0>>
Row(name) == IF \E r \in live : r[1] = name
             THEN CHOOSE r \in live : r[1] = name ELSE Absent
NoToken == [state |-> "none", site |-> Absent, net |-> Absent]
Resting == [op |-> "none", pc |-> "idle", site |-> Absent, net |-> Absent,
            tok |-> Absent, held |-> {}, shared |-> {}, swept |-> {}]

(* What refers to a row: the counts of DeleteSite and DeleteNetwork, the   *)
(* caller's own deletions of tokens not included.                          *)
TokensOf(r) == {t \in Tokens : toks[t].state \in {"unused", "used"}
                               /\ r \in {toks[t].site, toks[t].net}}
Referenced(r, swept) ==
    \/ \E a \in agentRows : r \in {a.site, a.net}
    \/ r \in meshRefs
    \/ \E d \in direct : r \in {d.site, d.net}
    \/ r = target
    \/ TokensOf(r) \ swept # {}

-----------------------------------------------------------------------------
(* Locks.  held: rows and tokens FOR UPDATE; shared: rows FOR KEY SHARE.   *)

(* Variant: the deletions lock FOR NO KEY UPDATE, which lets references in. *)
keepsOutNone(q, r) == FALSE

(* FOR UPDATE conflicts with the key share of a foreign key. *)
keepsOut(q, r) == r \in call[q].held

(* Variant: the row is locked before its tokens are swept. *)
deleteOrderRowFirst == <<"lock", "sweep", "count", "drop">>

(* DeleteSite and DeleteNetwork: tokens, then the row, in the order of     *)
(* EnrollAgent; then the counts.                                           *)
deleteOrder == <<"sweep", "lock", "count", "drop">>

AfterDelete(pc) ==
    LET i == CHOOSE j \in 1..Len(deleteOrder) : deleteOrder[j] = pc
    IN  deleteOrder[i + 1]

Doomed(p) == IF call[p].op = "deleteSite" THEN call[p].site ELSE call[p].net
Sweepable(r) == {t \in TokensOf(r) : toks[t].state = "unused"}

(* The rows an INSERT refers to. *)
Needs(c) == CASE c.op = "member" -> {c.site}
              [] c.op = "mesh" -> {c.net}
              [] OTHER -> {c.site, c.net}

(* Whom a request waits for. *)
HeldUp(p) ==
    LET c == call[p] IN
    {q \in Callers \ {p} :
        \/ c.pc = "sweep" /\ Sweepable(Doomed(p)) \cap call[q].held # {}
        \/ c.pc = "lock" /\ Doomed(p) \in call[q].held \cup call[q].shared
        \/ c.pc = "token" /\ c.tok \in call[q].held
        \/ c.pc = "insert" /\ \E r \in Needs(c) : keepsOut(q, r)}

Move(p, c) == call' = [call EXCEPT ![p] = c] /\ UNCHANGED calls
Leave(p) == Move(p, Resting)
Abandon(p) == Leave(p) /\ UNCHANGED tables

-----------------------------------------------------------------------------
PlacesInit ==
    /\ live = {<<n, 1>> : n \in Names} \cup {DefaultNet}
    /\ born = [n \in Names |-> 1]
    /\ toks = [t \in Tokens |-> NoToken]
    /\ agentRows = {} /\ meshRefs = {} /\ direct = {}
    /\ target \in {Absent, Global}
    /\ call = [p \in Callers |-> Resting]
    /\ calls = 0

(* Handlers and commands.  Those that refer to a site and a network        *)
(* resolve both names first; an empty network means 'default'.             *)
Inserts == {"token", "direct", "member", "mesh"}

Free(p) == call[p] = Resting /\ calls < MaxCalls

Arrive(p, c) ==
    /\ calls' = calls + 1
    /\ call' = [call EXCEPT ![p] = c]
    /\ UNCHANGED tables

Refer(p, op) ==
    \E s \in SiteNames, n \in NetNames \cup {"default"} :
        Arrive(p, [Resting EXCEPT !.op = op, !.pc = "insert", !.site = Row(s), !.net = Row(n)])

Single(p, op) == Arrive(p, [Resting EXCEPT !.op = op, !.pc = "one"])

handleTokenPost(p) == Refer(p, "token")
PostDirectProbe(p) == Refer(p, "direct")
PostMesh(p) == Refer(p, "member") \/ Refer(p, "mesh")

handleSiteConfigPost(p) == Single(p, "createSite")
handleNetworkPost(p) == Single(p, "createNet")
handleTargetPost(p) == Single(p, "target")
handleTargetDelete(p) == Single(p, "dropTarget")

handleSiteConfigDelete(p) ==
    \E s \in SiteNames :
        Arrive(p, [Resting EXCEPT !.op = "deleteSite", !.pc = deleteOrder[1], !.site = Row(s)])

handleNetworkDelete(p) ==
    \E n \in NetNames :
        Arrive(p, [Resting EXCEPT !.op = "deleteNet", !.pc = deleteOrder[1], !.net = Row(n)])

Present(p, op) ==
    \E t \in Tokens :
        /\ toks[t].state # "none"
        /\ Arrive(p, [Resting EXCEPT !.op = op, !.pc = "token", !.tok = t])

handleTokenDelete(p) == Present(p, "deleteToken")
PresentToken(p) == Present(p, "enroll")

(* token create adopts or creates its site; the network must be there. *)
cmdToken(p) ==
    \E n \in NetNames \cup {"default"} :
        /\ Row(n) # Absent
        /\ Arrive(p, [Resting EXCEPT !.op = "token", !.pc = "ensure", !.net = Row(n)])

(* These commands call what the handlers call. *)
cmdNetwork(p) == handleNetworkPost(p) \/ handleNetworkDelete(p)
cmdTarget(p) == handleTargetPost(p) \/ handleTargetDelete(p)

(* A name did not resolve: 404. *)
Unresolved(p) ==
    /\ \/ call[p].pc = "insert" /\ call[p].op # "enroll" /\ Absent \in Needs(call[p])
       \/ call[p].pc = deleteOrder[1] /\ call[p].op \in {"deleteSite", "deleteNet"}
          /\ Doomed(p) = Absent
    /\ Abandon(p)

(* CreateSite and CreateNetwork; a name that is taken is refused. *)
CreatePlace(p) ==
    /\ call[p].op \in {"createSite", "createNet"}
    /\ \E n \in IF call[p].op = "createSite" THEN SiteNames ELSE NetNames :
          IF Row(n) = Absent /\ born[n] < MaxRow
          THEN /\ born' = [born EXCEPT ![n] = @ + 1]
               /\ live' = live \cup {<<n, born[n] + 1>>}
               /\ Leave(p)
               /\ UNCHANGED <<toks, agentRows, meshRefs, target, direct>>
          ELSE Abandon(p)

(* EnsureSite, in the CLI's token create: adopts the site or creates it.   *)
EnsureSite(p) ==
    /\ call[p].pc = "ensure"
    /\ \E n \in SiteNames :
       /\ \A q \in Callers \ {p} : ~keepsOut(q, Row(n))
       /\ IF Row(n) # Absent
          THEN /\ Move(p, [call[p] EXCEPT !.pc = "insert", !.site = Row(n)])
               /\ UNCHANGED tables
          ELSE /\ born[n] < MaxRow
               /\ born' = [born EXCEPT ![n] = @ + 1]
               /\ live' = live \cup {<<n, born[n] + 1>>}
               /\ Move(p, [call[p] EXCEPT !.pc = "insert", !.site = <<n, born[n] + 1>>])
               /\ UNCHANGED <<toks, agentRows, meshRefs, target, direct>>

(* One INSERT that refers to a site and a network: CreateJoinToken,        *)
(* AddDirectProbe, AddMeshMember (the site only) and UpsertMeshGroup (the  *)
(* network only).  It waits for a deletion that has the row, and fails     *)
(* with a typed 404 when the row is gone.                                  *)
InsertReference(p) ==
    LET c == call[p] IN
    /\ c.pc = "insert" /\ c.op \in Inserts
    /\ Absent \notin Needs(c)
    /\ HeldUp(p) = {}
    /\ IF ~(Needs(c) \subseteq live)
       THEN Abandon(p)
       ELSE \/ /\ c.op = "token"
               /\ \E t \in Tokens :
                     /\ toks[t].state = "none"
                     /\ toks' = [toks EXCEPT ![t] =
                                   [state |-> "unused", site |-> c.site, net |-> c.net]]
               /\ Leave(p)
               /\ UNCHANGED <<live, born, agentRows, meshRefs, target, direct>>
            \/ /\ c.op \in {"member", "mesh"}
               /\ meshRefs' = meshRefs \cup Needs(c)
               /\ Leave(p)
               /\ UNCHANGED <<live, born, toks, agentRows, target, direct>>
            \/ /\ c.op = "direct" /\ target # Absent
               /\ direct' = direct \cup {[site |-> c.site, net |-> c.net]}
               /\ Leave(p)
               /\ UNCHANGED <<live, born, toks, agentRows, meshRefs, target>>
            \/ /\ \/ c.op = "direct" /\ target = Absent
                  \/ c.op = "token" /\ \A t \in Tokens : toks[t].state # "none"
               /\ Abandon(p)

(* UpsertExternalTarget: a new target is global or on a network that       *)
(* exists and that nobody is deleting; an existing one keeps its owner.    *)
UpsertExternalTarget(p) ==
    /\ call[p].op = "target"
    /\ \E n \in {Global} \cup {r \in live : r[1] \in NetNames} :
          /\ \A q \in Callers \ {p} : ~keepsOut(q, n)
          /\ target' = IF target = Absent THEN n ELSE target
    /\ Leave(p)
    /\ UNCHANGED <<live, born, toks, agentRows, meshRefs, direct>>

(* DeleteTarget: locked, counted and deleted. *)
DeleteTarget(p) ==
    /\ call[p].op = "dropTarget"
    /\ target' = IF direct = {} THEN Absent ELSE target
    /\ Leave(p)
    /\ UNCHANGED <<live, born, toks, agentRows, meshRefs, direct>>

(* DeleteJoinToken: locked, and deleted unless it was used. *)
DeleteJoinToken(p) ==
    /\ call[p].op = "deleteToken" /\ HeldUp(p) = {}
    /\ toks' = [toks EXCEPT ![call[p].tok].state = IF @ = "unused" THEN "gone" ELSE @]
    /\ Leave(p)
    /\ UNCHANGED <<live, born, agentRows, meshRefs, target, direct>>

(* EnrollAgent: the token's row is locked, *)
EnrollLocks(p) ==
    /\ call[p].op = "enroll" /\ call[p].pc = "token" /\ HeldUp(p) = {}
    /\ IF toks[call[p].tok].state = "unused"
       THEN /\ Move(p, [call[p] EXCEPT !.pc = "insert", !.held = {call[p].tok},
                          !.site = toks[call[p].tok].site, !.net = toks[call[p].tok].net])
            /\ UNCHANGED tables
       ELSE Abandon(p)

(* the agent is inserted, *)
EnrollInserts(p) ==
    /\ call[p].op = "enroll" /\ call[p].pc = "insert" /\ HeldUp(p) = {}
    /\ Move(p, [call[p] EXCEPT !.pc = "commit", !.shared = {call[p].site, call[p].net}])
    /\ UNCHANGED tables

(* and the token is marked used. *)
EnrollCommits(p) ==
    /\ call[p].op = "enroll" /\ call[p].pc = "commit"
    /\ toks' = [toks EXCEPT ![call[p].tok].state = "used"]
    /\ agentRows' = agentRows \cup
          {[tok |-> call[p].tok, site |-> call[p].site, net |-> call[p].net]}
    /\ Leave(p)
    /\ UNCHANGED <<live, born, meshRefs, target, direct>>

(* A failed issuance rolls the whole enrollment back. *)
EnrollFails(p) ==
    /\ call[p].op = "enroll" /\ call[p].pc = "commit"
    /\ Abandon(p)

(* DELETE FROM join_tokens ... AND used_at IS NULL. *)
SweepTokens(p) ==
    /\ call[p].pc = "sweep" /\ Doomed(p) # Absent /\ HeldUp(p) = {}
    /\ Move(p, [call[p] EXCEPT !.pc = AfterDelete("sweep"),
                  !.held = @ \cup Sweepable(Doomed(p)), !.swept = Sweepable(Doomed(p))])
    /\ UNCHANGED tables

(* SELECT 1 ... FOR UPDATE, which is content with a row that is gone. *)
LockPlace(p) ==
    /\ call[p].pc = "lock" /\ Doomed(p) # Absent /\ HeldUp(p) = {}
    /\ Move(p, [call[p] EXCEPT !.pc = AfterDelete("lock"), !.held = @ \cup {Doomed(p)}])
    /\ UNCHANGED tables

(* The counts; a refusal rolls back and the swept tokens are there again. *)
CountReferences(p) ==
    /\ call[p].pc = "count"
    /\ IF Referenced(Doomed(p), call[p].swept)
       THEN Abandon(p)
       ELSE Move(p, [call[p] EXCEPT !.pc = "drop"]) /\ UNCHANGED tables

DropPlace(p) ==
    /\ call[p].pc = "drop"
    /\ live' = live \ {Doomed(p)}
    /\ toks' = [t \in Tokens |-> IF t \in call[p].swept
                                 THEN [toks[t] EXCEPT !.state = "gone"] ELSE toks[t]]
    /\ Leave(p)
    /\ UNCHANGED <<born, agentRows, meshRefs, target, direct>>

PlacesNext ==
    \E p \in Callers :
        \/ /\ Free(p)
           /\ \/ handleTokenPost(p) \/ PostDirectProbe(p) \/ PostMesh(p)
              \/ handleTokenDelete(p) \/ PresentToken(p) \/ cmdToken(p)
              \/ handleSiteConfigPost(p) \/ handleSiteConfigDelete(p)
              \/ cmdNetwork(p) \/ cmdTarget(p)
        \/ Unresolved(p) \/ CreatePlace(p) \/ EnsureSite(p) \/ InsertReference(p)
        \/ UpsertExternalTarget(p) \/ DeleteTarget(p) \/ DeleteJoinToken(p)
        \/ EnrollLocks(p) \/ EnrollInserts(p) \/ EnrollCommits(p) \/ EnrollFails(p)
        \/ SweepTokens(p) \/ LockPlace(p) \/ CountReferences(p) \/ DropPlace(p)

PlacesSpec == PlacesInit /\ [][PlacesNext]_placeVars

-----------------------------------------------------------------------------
(* Safety.  No foreign key fails where the code has no answer for it: a    *)
(* site or a network about to be deleted has no reference left although    *)
(* tokens, members, probes and agents are inserted all the while, and the  *)
(* place an enrollment inserts its agent at is there (the recount and the  *)
(* FOR UPDATE lock of DeleteSite and DeleteNetwork; EnrollAgent).          *)
NoOpaqueFailure ==
    \A p \in Callers :
        /\ call[p].pc = "drop" => ~Referenced(Doomed(p), call[p].swept)
        /\ call[p].op = "enroll" /\ call[p].pc \in {"insert", "commit"}
              => {call[p].site, call[p].net} \subseteq live

(* Safety.  Enrollments and deletions of places never wait for each other  *)
(* in a circle: all of them take tokens before the row of the place (the   *)
(* statement order DeleteSite and DeleteNetwork call load-bearing).        *)
PlaceLockOrder == \A p, q \in Callers : ~(q \in HeldUp(p) /\ p \in HeldUp(q))
=============================================================================
