----------------------------- MODULE MeshAdmin -----------------------------
(***************************************************************************)
(* Administration of a mesh and of the probe templates on it:              *)
(* internal/server/store/probeconfig.go, the handlers of                   *)
(* internal/server/httpapi/probeconfig.go, the commands of                 *)
(* cmd/polarbeam-server/admin.go, the derivation of probe ids in probeid   *)
(* and meshexpand, and the in-process cache of the enabled probe ids       *)
(* (store.go, enabledProbeIDs in dashboard.go).                            *)
(*                                                                         *)
(* One mesh NAME is followed.  Its rows can be deleted and the name taken  *)
(* again, on another network, by a row with a new id.  Requests of the     *)
(* server and of the admin CLI, which is another process, interleave at    *)
(* every wait for a row lock; a field of tx says which locks a request     *)
(* holds.  A series is <<template, source site, destination site>>: each   *)
(* site has at most one agent per network, so the destination names the    *)
(* agent target of the UUIDv5 derivation.                                  *)
(***************************************************************************)
EXTENDS Integers, FiniteSets

CONSTANTS
    Admins,     \* requests that can be under way at the same time
    Sites,
    Planes,     \* networks
    Default,    \* the seeded network, where a mesh lands when none is named
    Templates,  \* ids of probe templates; never used twice
    FirstMembers, LateAgents,  \* members at the start; <<site, plane>> to enroll
    Bodies,     \* requests: [op, site, plane, tmpl, on, scope, cli]
    MaxMesh,    \* mesh rows created under the name
    MaxRequests \* requests started, over a behaviour

ASSUME MeshAssumption ==
    /\ Default \in Planes /\ FirstMembers \subseteq Sites
    /\ IsFiniteSet(FirstMembers) /\ Cardinality(FirstMembers) >= 2
    /\ \A b \in Bodies : \* the CLI has no scope and names a network or none
          b.cli => b.scope = Planes /\ (b.op = "upsertMesh" => b.plane \in Planes \cup {"none"})
    /\ \A b \in Bodies : b.scope \subseteq Planes
    /\ LateAgents \subseteq Sites \X Planes
    /\ MaxMesh \in Nat \ {0} /\ MaxRequests \in Nat

VARIABLES
    mesh,      \* the mesh_groups row of the name: [id, plane], id 0 if none
    created,   \* mesh rows created so far, for fresh ids
    members,   \* its mesh_members rows: sites
    tmpl,      \* its templates in probe_configs: "none", "on", "off" or "gone"
    agents,    \* agents enrolled: <<site, plane>>
    req,       \* what each request is doing
    started,   \* requests started, to bound them
    cache,     \* configCache of the enabled ids in the server process
    fill       \* a caller of enabledProbeIDs that missed the cache

meshVars == <<mesh, created, members, tmpl, agents, req, started, cache, fill>>
rows == <<mesh, created, members, tmpl, agents>>

NoBody == [op |-> "none"]
AtRest == [body |-> NoBody, pc |-> "idle", id |-> 0, mesh |-> FALSE,
           row |-> FALSE, locked |-> {}, ids |-> {}, seen |-> {}]
MinMeshMembers == 2

Existing == {t \in Templates : tmpl[t] \in {"on", "off"}}
Enabled == {t \in Templates : tmpl[t] = "on"}

(* expandMeshProbeIDs and meshMemberTargets: every ordered pair of         *)
(* distinct members whose destination has an agent on the mesh's network.  *)
expandMeshProbeIDs(ts) ==
    {x \in ts \X members \X members :
        x[2] # x[3] /\ <<x[3], mesh.plane>> \in agents}

(* The series agents are expected to run. *)
Running == expandMeshProbeIDs(Enabled)

-----------------------------------------------------------------------------
(* Row locks.  lockMesh takes the mesh row FOR NO KEY UPDATE, the probe    *)
(* configuration is read FOR UPDATE, and cleanupSeries locks the rows of   *)
(* the series it closes, taken here to exist for every series.             *)

HoldsMesh(q) == req[q].mesh
HoldsRow(q, t) == req[q].row /\ req[q].body.tmpl = t
HoldsSeries(q, ids) == req[q].locked \cap ids # {}

WaitsFor(p) ==
    LET r == req[p] IN
    {q \in Admins \ {p} :
        \/ r.pc \in {"lock", "upsert"} /\ HoldsMesh(q)
        \/ r.pc = "row" /\ HoldsRow(q, r.body.tmpl)
        \/ r.pc = "clean" /\ HoldsSeries(q, r.ids)
        \/ r.pc = "drop" /\ \E t \in Existing : HoldsRow(q, t)}

Step(p, r) == req' = [req EXCEPT ![p] = r] /\ UNCHANGED started
Quiet == UNCHANGED <<cache, fill>>

(* The transaction ends, committed or rolled back: its locks are released  *)
(* and noteConfigWrite, deferred before the rollback was, is what is left. *)
Ended(p) == [AtRest EXCEPT !.body = req[p].body, !.pc = "note"]

(* A commit of this process: whatever the cache holds or a fill is reading *)
(* may now be behind it.                                                   *)
Behind(p) ==
    /\ cache' = [cache EXCEPT !.behind =
                   IF cache.valid /\ ~req[p].body.cli THEN @ \cup {p} ELSE @]
    /\ fill' = [fill EXCEPT !.behind =
                  IF fill.pc # "idle" /\ ~req[p].body.cli THEN @ \cup {p} ELSE @]
Commit(p) == Step(p, Ended(p)) /\ Behind(p)
Refuse(p) == Step(p, Ended(p)) /\ UNCHANGED rows /\ Quiet

-----------------------------------------------------------------------------
MeshInit ==
    /\ mesh = [id |-> 1, plane |-> Default]
    /\ created = 1
    /\ members = FirstMembers
    /\ \E t \in Templates :
          tmpl = [x \in Templates |-> IF x = t THEN "on" ELSE "none"]
    /\ agents = (Sites \X Planes) \ LateAgents
    /\ req = [p \in Admins |-> AtRest]
    /\ started = 0
    /\ cache = [valid |-> FALSE, behind |-> {}]
    /\ fill = [pc |-> "idle", same |-> TRUE, behind |-> {}]

-----------------------------------------------------------------------------
(* Handlers and commands.  The CLI runs on the server host and has no      *)
(* scope; the HTTP handlers pass the caller's scope to the store.          *)

Ready(p) == req[p] = AtRest /\ started < MaxRequests

Arrives(p, b, pc) ==
    /\ started' = started + 1
    /\ req' = [req EXCEPT ![p] = [AtRest EXCEPT !.body = b, !.pc = pc]]
    /\ UNCHANGED rows /\ Quiet

Api(op) == {b \in Bodies : b.op = op /\ ~b.cli}
Cli(ops) == {b \in Bodies : b.op \in ops /\ b.cli}

(* The name is compared with the caller's networks, then resolved. *)
requireNetworkScopeName(b) == b.plane \in b.scope

(* A scoped caller names one of its networks. *)
handleMeshPost(p) ==
    \E b \in Api("upsertMesh") :
        /\ IF b.plane = "none" THEN b.scope = Planes ELSE requireNetworkScopeName(b)
        /\ Arrives(p, b, "upsert")

handleMeshDelete(p) == \E b \in Api("deleteMesh") : Arrives(p, b, "resolve")
handleMeshMemberPost(p) == \E b \in Api("addMember") : Arrives(p, b, "resolve")
handleMeshMemberDelete(p) == \E b \in Api("removeMember") : Arrives(p, b, "resolve")
handleProbePost(p) == \E b \in Api("addProbe") : Arrives(p, b, "resolve")

(* PUT and DELETE of a probe read it first, for its network. *)
handleProbePut(p) == \E b \in Api("updateProbe") : Arrives(p, b, "get")
handleProbeDelete(p) == \E b \in Api("deleteProbe") : Arrives(p, b, "get")

cmdMesh(p) ==
    \E b \in Cli({"upsertMesh", "deleteMesh", "addMember", "removeMember"}) :
        Arrives(p, b, IF b.op = "upsertMesh" THEN "upsert" ELSE "resolve")

cmdProbe(p) ==
    \E b \in Cli({"addProbe", "deleteProbe"}) :
        Arrives(p, b, IF b.op = "addProbe" THEN "resolve" ELSE "row")

Enroll(p) == \E b \in Api("enroll") : Arrives(p, b, "insert")

-----------------------------------------------------------------------------
(* The store. *)

(* UpsertMeshGroup: one statement, which waits for a holder of the row.    *)
(* Naming no network keeps whatever the row has; naming another refuses.   *)
UpsertMeshGroup(p) ==
    /\ req[p].pc = "upsert" /\ WaitsFor(p) = {}
    /\ IF mesh.id = 0 /\ created < MaxMesh
       THEN /\ created' = created + 1
            /\ mesh' = [id |-> created + 1,
                        plane |-> IF req[p].body.plane = "none"
                                  THEN Default ELSE req[p].body.plane]
            /\ Commit(p)
            /\ UNCHANGED <<members, tmpl, agents>>
       ELSE Refuse(p)

(* meshIDByName, outside the transaction. *)
meshIDByName(p) ==
    /\ req[p].pc = "resolve"
    /\ IF mesh.id = 0
       THEN Refuse(p)
       ELSE /\ Step(p, [req[p] EXCEPT !.pc = "lock", !.id = mesh.id])
            /\ UNCHANGED rows /\ Quiet

(* Variant: the lock is taken on the resolved row but its network is not    *)
(* compared with the caller's scope.                                       *)
lockMeshUnscoped(p) ==
    /\ req[p].pc = "lock" /\ WaitsFor(p) = {}
    /\ IF mesh.id = req[p].id
       THEN /\ Step(p, [req[p] EXCEPT !.pc = "body", !.mesh = TRUE])
            /\ UNCHANGED rows /\ Quiet
       ELSE Refuse(p)

(* lockMesh: the row of the id resolved, and its network in scope. *)
lockMesh(p) ==
    /\ req[p].pc = "lock" /\ WaitsFor(p) = {}
    /\ IF mesh.id = req[p].id /\ mesh.plane \in req[p].body.scope
       THEN /\ Step(p, [req[p] EXCEPT !.pc = "body", !.mesh = TRUE])
            /\ UNCHANGED rows /\ Quiet
       ELSE Refuse(p)

AddMeshMember(p) ==
    /\ req[p].pc = "body" /\ req[p].body.op = "addMember"
    /\ members' = members \cup {req[p].body.site}
    /\ Commit(p)
    /\ UNCHANGED <<mesh, created, tmpl, agents>>

(* Variant: the members are not counted. *)
AddMeshProbeUncounted(p) ==
    /\ req[p].pc = "body" /\ req[p].body.op = "addProbe"
    /\ \E t \in Templates :
          /\ tmpl[t] = "none"
          /\ tmpl' = [tmpl EXCEPT ![t] = IF req[p].body.on THEN "on" ELSE "off"]
    /\ Commit(p)
    /\ UNCHANGED <<mesh, created, members, agents>>

(* AddMeshProbe with ValidateMeshMembers. *)
AddMeshProbe(p) ==
    /\ req[p].pc = "body" /\ req[p].body.op = "addProbe"
    /\ IF Cardinality(members) < MinMeshMembers \/ \A t \in Templates : tmpl[t] # "none"
       THEN Refuse(p)
       ELSE /\ \E t \in Templates :
                  /\ tmpl[t] = "none"
                  /\ tmpl' = [tmpl EXCEPT ![t] = IF req[p].body.on THEN "on" ELSE "off"]
            /\ Commit(p)
            /\ UNCHANGED <<mesh, created, members, agents>>

(* The loops of RemoveMeshMember: the site as source, then as destination. *)
seriesOf(s) == {x \in expandMeshProbeIDs(Existing) : x[2] = s \/ x[3] = s}

Clean(p, ids) ==
    /\ Step(p, [req[p] EXCEPT !.pc = "clean", !.ids = ids, !.seen = Running,
                  !.row = req[p].row \/ req[p].pc = "row"])
    /\ UNCHANGED rows /\ Quiet

(* RemoveMeshMember up to cleanupSeries, with ValidateMeshMemberRemoval. *)
RemoveMeshMember(p) ==
    LET s == req[p].body.site IN
    /\ req[p].pc = "body" /\ req[p].body.op = "removeMember"
    /\ IF s \in members /\ (Existing # {} => Cardinality(members \ {s}) >= MinMeshMembers)
       THEN Clean(p, seriesOf(s))
       ELSE Refuse(p)

DeleteMeshGroup(p) ==
    /\ req[p].pc = "body" /\ req[p].body.op = "deleteMesh"
    /\ Clean(p, expandMeshProbeIDs(Existing))

(* GetProbeConfig and probeInScope, in the handlers of PUT and DELETE; the *)
(* CLI goes straight to the store.                                         *)
GetProbeConfig(p) ==
    /\ req[p].pc = "get"
    /\ IF req[p].body.tmpl \in Existing /\ mesh.plane \in req[p].body.scope
       THEN /\ Step(p, [req[p] EXCEPT !.pc = "row"])
            /\ UNCHANGED rows /\ Quiet
       ELSE /\ req' = [req EXCEPT ![p] = AtRest]
            /\ UNCHANGED <<rows, started, cache, fill>>

(* SELECT ... FOR UPDATE in UpdateProbeConfig and DeleteProbeConfig, then  *)
(* expandedProbeIDs; an update that does not disable the template cleans   *)
(* nothing.                                                                *)
LockTemplate(p) ==
    LET b == req[p].body IN
    /\ req[p].pc = "row" /\ WaitsFor(p) = {}
    /\ CASE b.tmpl \notin Existing -> Refuse(p)
         [] b.tmpl \in Existing /\ b.op = "updateProbe" /\ (b.on \/ tmpl[b.tmpl] = "off") ->
              Clean(p, {})
         [] OTHER -> Clean(p, expandMeshProbeIDs({b.tmpl}))

(* cleanupSeries: closes events and deletes or resets the series' rows. *)
cleanupSeries(p) ==
    /\ req[p].pc = "clean" /\ WaitsFor(p) = {}
    /\ Step(p, [req[p] EXCEPT !.locked = req[p].ids,
                  !.pc = IF req[p].body.op = "deleteMesh" THEN "drop" ELSE "commit"])
    /\ UNCHANGED rows /\ Quiet

CommitMember(p) ==
    /\ req[p].pc = "commit" /\ req[p].body.op = "removeMember"
    /\ members' = members \ {req[p].body.site}
    /\ Commit(p)
    /\ UNCHANGED <<mesh, created, tmpl, agents>>

CommitProbe(p) ==
    LET b == req[p].body IN
    /\ req[p].pc = "commit" /\ b.op \in {"updateProbe", "deleteProbe"}
    /\ tmpl' = [tmpl EXCEPT ![b.tmpl] = CASE b.op = "deleteProbe" -> "gone"
                                          [] b.op = "updateProbe" /\ b.on -> "on"
                                          [] OTHER -> "off"]
    /\ Commit(p)
    /\ UNCHANGED <<mesh, created, members, agents>>

(* DELETE FROM mesh_groups cascades to the members and the templates, and  *)
(* waits for whoever has the row of a template.                            *)
CommitMeshDelete(p) ==
    /\ req[p].pc = "drop" /\ WaitsFor(p) = {}
    /\ mesh' = [mesh EXCEPT !.id = 0]
    /\ members' = {}
    /\ tmpl' = [t \in Templates |-> IF tmpl[t] = "none" THEN "none" ELSE "gone"]
    /\ Commit(p)
    /\ UNCHANGED <<created, agents>>

(* EnrollAgent: a new agent is a new destination. *)
EnrollNewAgent(p) ==
    /\ req[p].pc = "insert"
    /\ \E a \in LateAgents \ agents : agents' = agents \cup {a}
    /\ Commit(p)
    /\ UNCHANGED <<mesh, created, members, tmpl>>

NothingToEnroll(p) ==
    /\ req[p].pc = "insert" /\ LateAgents \subseteq agents
    /\ Refuse(p)

(* PostgreSQL, after deadlock_timeout: one of the two is rolled back. *)
DeadlockDetected(p) ==
    /\ \E q \in WaitsFor(p) : p \in WaitsFor(q)
    /\ Refuse(p)

-----------------------------------------------------------------------------
(* The cache of the enabled ids.  A generation is compared only with the   *)
(* one a fill started from, so a flag stands for the comparison.           *)

(* Variant: invalidate drops the value and leaves the generation alone. *)
invalidateKeepsGeneration ==
    /\ cache' = [valid |-> FALSE, behind |-> {}]
    /\ UNCHANGED fill

invalidate ==
    /\ cache' = [valid |-> FALSE, behind |-> {}]
    /\ fill' = [fill EXCEPT !.same = FALSE]

(* noteConfigWrite; the CLI's caches are its own. *)
noteConfigWrite(p) ==
    /\ req[p].pc = "note"
    /\ Step(p, AtRest)
    /\ IF req[p].body.cli THEN Quiet ELSE invalidate
    /\ UNCHANGED rows

(* enabledProbeIDs: get misses, and generation() is read before the tables. *)
FillBegin ==
    /\ fill.pc = "idle" /\ ~cache.valid
    /\ fill' = [pc |-> "read", same |-> TRUE, behind |-> {}]
    /\ UNCHANGED <<rows, req, started, cache>>

setIfCurrent ==
    /\ fill.pc = "read"
    /\ cache' = IF fill.same THEN [valid |-> TRUE, behind |-> fill.behind] ELSE cache
    /\ fill' = [pc |-> "idle", same |-> TRUE, behind |-> {}]
    /\ UNCHANGED <<rows, req, started>>

(* configCacheTTL passes. *)
Expire ==
    /\ cache.valid
    /\ cache' = [valid |-> FALSE, behind |-> {}]
    /\ UNCHANGED <<rows, req, started, fill>>

MeshNext ==
    \/ \E p \in Admins :
          \/ /\ Ready(p)
             /\ \/ handleMeshPost(p) \/ handleMeshDelete(p) \/ handleMeshMemberPost(p)
                \/ handleMeshMemberDelete(p) \/ handleProbePost(p) \/ handleProbePut(p)
                \/ handleProbeDelete(p) \/ cmdMesh(p) \/ cmdProbe(p) \/ Enroll(p)
          \/ UpsertMeshGroup(p) \/ meshIDByName(p) \/ lockMesh(p)
          \/ AddMeshMember(p) \/ AddMeshProbe(p) \/ RemoveMeshMember(p)
          \/ DeleteMeshGroup(p) \/ GetProbeConfig(p) \/ LockTemplate(p)
          \/ cleanupSeries(p) \/ CommitMember(p) \/ CommitProbe(p)
          \/ CommitMeshDelete(p) \/ EnrollNewAgent(p) \/ NothingToEnroll(p)
          \/ DeadlockDetected(p) \/ noteConfigWrite(p)
    \/ FillBegin \/ setIfCurrent \/ Expire

MeshSpec == MeshInit /\ [][MeshNext]_meshVars

-----------------------------------------------------------------------------
MeshTypeOK ==
    /\ mesh \in [id : 0..MaxMesh, plane : Planes] /\ created \in 1..MaxMesh
    /\ members \subseteq Sites
    /\ tmpl \in [Templates -> {"none", "on", "off", "gone"}]
    /\ agents \subseteq Sites \X Planes
    /\ cache.behind \subseteq Admins /\ fill.behind \subseteq Admins

(* Safety.  A mesh with a template has two members or more, so that every  *)
(* template expands: probe creation counts the members and member removal  *)
(* the templates, each under the lock of the mesh row (AddMeshProbe,       *)
(* RemoveMeshMember).                                                      *)
NoStrandedTemplate == Existing # {} => Cardinality(members) >= MinMeshMembers

(* Of a step.  A change that makes agents stop running a series            *)
(* closes that series' incidents in the same transaction: whatever leaves  *)
(* the expansion at a commit was in the list its request cleaned, if it    *)
(* was expanded when the request read the members (expandedProbeIDs,       *)
(* cleanupSeries).  Members and agents that arrive later are the orphan    *)
(* sweep's.                                                                *)
LeavesCleaned ==
    \A p \in Admins :
        req[p].pc \in {"body", "commit", "drop", "upsert"} /\ req'[p] # req[p]
           => (Running \ Running') \cap req[p].seen \subseteq req[p].ids

(* Action property.  A caller limited to some networks changes nothing of  *)
(* a mesh on another one, even when the name was deleted and taken again   *)
(* on another network after its request began (lockMesh, probeInScope).    *)
ScopedWrite ==
    [][\A p \in Admins :
          req[p].pc # "idle" /\ req'[p] # req[p] /\ <<mesh, members, tmpl>>' # <<mesh, members, tmpl>>
             => (IF mesh.id = 0 THEN mesh'.plane ELSE mesh.plane) \in req[p].body.scope]_meshVars

(* Safety.  What the enabled-id cache holds was read after every change    *)
(* this process committed and announced: only a change whose request has   *)
(* committed and not yet run noteConfigWrite can be missing from it        *)
(* (configCache.setIfCurrent).                                             *)
CacheFresh == cache.valid => \A p \in cache.behind : req[p].pc = "note"

(* Safety.  Two requests wait for each other in one way only: the cascade  *)
(* of a mesh deletion waits for a template whose own deletion or disabling *)
(* waits for the series the mesh deletion has cleaned (lockMesh's order).  *)
MeshLockOrder ==
    \A p, q \in Admins :
        q \in WaitsFor(p) /\ p \in WaitsFor(q)
           => \/ req[p].pc = "drop" /\ req[q].pc = "clean" /\ req[q].row
              \/ req[q].pc = "drop" /\ req[p].pc = "clean" /\ req[p].row

(* Action property.  No write strands what it leaves behind: neither a     *)
(* template without peers, nor the incidents of a series that agents stop  *)
(* running (AddMeshProbe, RemoveMeshMember, cleanupSeries).                *)
NothingStranded == [][NoStrandedTemplate' /\ LeavesCleaned]_meshVars

=============================================================================
