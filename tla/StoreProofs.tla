---------------------------- MODULE StoreProofs ----------------------------
(***************************************************************************)
(* The writers of the store, for any number of concurrent requests of the  *)
(* server and the CLI, any sites, networks, templates and join tokens.     *)
(*                                                                         *)
(* Mesh administration.  A request checks before it writes, and between    *)
(* the two others commit: the scope and the number of members before a     *)
(* mesh is changed, the templates' existence before one is, the expansion  *)
(* before its series are cleaned.  RequestOK says for each point of a      *)
(* request which of its checks still stand there, and LocksExclude why:    *)
(* whoever could undo them needs the mesh row or the template row the      *)
(* request holds.                                                          *)
(*                                                                         *)
(* Places.  CallReads says what a deletion that has counted and an         *)
(* enrollment that has read its token rely on, CallLocks which rows they   *)
(* hold for it, CallsExclude that nobody else has them.                    *)
(***************************************************************************)
EXTENDS MCStore, FiniteSetTheorems, TLAPS

RequestFields == {"body", "pc", "id", "mesh", "row", "locked", "ids", "seen"}

TemplateOps == {"updateProbe", "deleteProbe"}
Cleaning == {"clean", "commit", "drop"}

\* The request holds the mesh row, or the row of its template, as its place says.
HoldsItsRow(r) ==
    /\ r.mesh => r.pc \in {"body"} \cup Cleaning
    /\ r.row => r.pc \in {"clean", "commit"} /\ r.body.tmpl \in Existing
    /\ r.pc = "body" => r.mesh /\ ~r.row
    /\ r.pc \in Cleaning => \/ r.mesh /\ ~r.row /\ r.body.op \in {"removeMember", "deleteMesh"}
                            \/ r.row /\ ~r.mesh /\ r.body.op \in TemplateOps
    /\ r.pc = "drop" => r.mesh /\ r.body.op = "deleteMesh"

\* What it may write is in its caller's scope.
InScope(r) ==
    /\ r.pc = "upsert" => IF r.body.plane = "none" THEN r.body.scope = Planes
                                                   ELSE r.body.plane \in r.body.scope
    /\ r.pc = "lock" => r.id # 0
    /\ r.mesh => r.id # 0 /\ mesh.id = r.id /\ mesh.plane \in r.body.scope
    /\ r.pc \in {"get", "row"} => r.body.op \in TemplateOps
    /\ r.pc = "row" /\ ~r.body.cli => r.body.tmpl \in Templates /\ tmpl[r.body.tmpl] # "none"
    /\ r.pc = "row" \/ r.row => (r.body.tmpl \in Existing => mesh.plane \in r.body.scope)

\* The members it counted and the series it listed.
Counted(r) ==
    /\ r.pc \in Cleaning /\ r.body.op = "removeMember" /\ Existing # {}
          => Cardinality(members \ {r.body.site}) >= MinMeshMembers
    /\ r.pc \notin Cleaning => r.seen = {}
    /\ r.pc \notin {"commit", "drop"} => r.locked = {}
    /\ r.body.op = "removeMember" =>
          \A x \in r.seen : x[2] = r.body.site \/ x[3] = r.body.site => x \in r.ids
    /\ r.body.op = "deleteMesh" => r.seen \subseteq r.ids
    /\ r.body.op \in TemplateOps /\ ~(r.body.op = "updateProbe" /\ r.body.on) =>
          \A x \in r.seen : x[1] = r.body.tmpl => x \in r.ids

RequestOK(r) ==
    /\ DOMAIN r = RequestFields
    /\ r.pc # "idle" => r.body \in Bodies
    /\ HoldsItsRow(r) /\ InScope(r) /\ Counted(r)

RowsOK ==
    /\ created \in Nat
    /\ DOMAIN mesh = {"id", "plane"} /\ mesh.plane \in Planes
    /\ DOMAIN tmpl = Templates
    /\ IsFiniteSet(members)
    /\ mesh.id = 0 => members = {} /\ Existing = {}
    /\ NoStrandedTemplate

LocksExclude ==
    \A p, q \in Admins : p # q =>
        /\ ~(req[p].mesh /\ req[q].mesh)
        /\ ~(req[p].row /\ req[q].row /\ req[p].body.tmpl = req[q].body.tmpl)

MeshInv ==
    /\ DOMAIN req = Admins /\ RowsOK /\ LocksExclude
    /\ \A p \in Admins : RequestOK(req[p])

-----------------------------------------------------------------------------
LEMMA MeshInvAlways == MeshSpec => []MeshInv
<1> USE MeshAssumption
<1>0. MinMeshMembers = 2
    BY DEF MinMeshMembers
<1>r. /\ AtRest.pc = "idle" /\ ~AtRest.mesh /\ ~AtRest.row
      /\ AtRest.seen = {} /\ AtRest.locked = {}
      /\ DOMAIN AtRest = RequestFields /\ AtRest.body = NoBody /\ NoBody.op = "none"
    BY DEF AtRest, NoBody, RequestFields
<1>1. MeshInit => MeshInv
    <2> SUFFICES ASSUME MeshInit PROVE MeshInv
        OBVIOUS
    <2>1. RequestOK(AtRest)
        BY <1>r DEF RequestOK, HoldsItsRow, InScope, Counted, Cleaning, TemplateOps
    <2>2. DOMAIN req = Admins /\ \A p \in Admins : req[p] = AtRest
        BY DEF MeshInit
    <2>3. RowsOK
        <3>1. members = FirstMembers /\ IsFiniteSet(members) /\ Cardinality(members) >= 2
            BY DEF MeshInit
        <3> QED
            BY <1>0, <3>1 DEF MeshInit, RowsOK, NoStrandedTemplate
    <2> QED
        BY <1>r, <2>1, <2>2, <2>3 DEF MeshInv, LocksExclude
\* A step of one request that changes no row of the administration.
<1>2. ASSUME MeshInv, NEW p \in Admins, NEW r, RequestOK(r),
             req' = [req EXCEPT ![p] = r], UNCHANGED rows,
             r.mesh => \A q \in Admins \ {p} : ~req[q].mesh,
             r.row => \A q \in Admins \ {p} : ~(req[q].row /\ req[q].body.tmpl = r.body.tmpl)
      PROVE  MeshInv'
    <2>1. /\ DOMAIN req' = Admins /\ req'[p] = r
          /\ \A q \in Admins \ {p} : req'[q] = req[q]
        BY <1>2 DEF MeshInv
    <2>2. /\ mesh' = mesh /\ created' = created /\ members' = members /\ tmpl' = tmpl
          /\ Existing' = Existing
        BY <1>2 DEF rows, Existing
    <2>3. RowsOK'
        BY <1>2, <2>2 DEF MeshInv, RowsOK, NoStrandedTemplate
    <2>4. LocksExclude'
        BY <1>2, <2>1 DEF MeshInv, LocksExclude
    <2>5. \A q \in Admins : RequestOK(req'[q])
        BY <1>2, <2>1 DEF MeshInv
    <2>6. ASSUME NEW q \in Admins PROVE RequestOK(req[q])'
        <3>1. HoldsItsRow(req[q])' /\ Counted(req[q])'
            BY <2>2, <2>5 DEF RequestOK, HoldsItsRow, Counted
        <3> QED
            BY <2>2, <2>5, <3>1 DEF RequestOK, InScope
    <2> QED
        BY <2>1, <2>3, <2>4, <2>6 DEF MeshInv
\* The end of a transaction, with the change q's request may meet.
<1>3. ASSUME NEW p \in Admins, MeshInv, req[p].pc # "idle"
      PROVE  /\ DOMAIN Ended(p) = RequestFields /\ Ended(p).pc = "note" /\ Ended(p).seen = {}
             /\ Ended(p).body = req[p].body /\ Ended(p).body \in Bodies
             /\ ~Ended(p).mesh /\ ~Ended(p).row /\ Ended(p).locked = {}
    <2>1. req[p].body \in Bodies
        BY <1>3 DEF MeshInv, RequestOK
    <2> QED
        BY <2>1 DEF Ended, AtRest, RequestFields
<1>4. ASSUME MeshInv, NEW p \in Admins, req[p].pc # "idle",
             req' = [req EXCEPT ![p] = Ended(p)], RowsOK',
             \A q \in Admins \ {p} : RequestOK(req[q])'
      PROVE  MeshInv'
    <2>1. /\ DOMAIN req' = Admins /\ req'[p] = Ended(p)
          /\ \A q \in Admins \ {p} : req'[q] = req[q]
        BY <1>4 DEF MeshInv
    <2>2. LocksExclude'
        BY <1>3, <1>4, <2>1 DEF MeshInv, LocksExclude
    <2>3. RequestOK(req[p])'
        BY <1>3, <1>4, <2>1 DEF RequestOK, HoldsItsRow, InScope, Counted, Cleaning
    <2> QED
        BY <1>4, <2>1, <2>2, <2>3 DEF MeshInv
<1>5. ASSUME MeshInv, NEW p \in Admins, req[p].pc # "idle", Refuse(p) PROVE MeshInv'
    <2>1. req' = [req EXCEPT ![p] = Ended(p)] /\ UNCHANGED rows
        BY <1>5 DEF Refuse, Step
    <2>2. RequestOK(Ended(p))
        BY <1>3, <1>5 DEF RequestOK, HoldsItsRow, InScope, Counted, Cleaning
    <2> QED
        BY <1>2, <1>3, <1>5, <2>1, <2>2
\* Requests arrive.
<1>6. ASSUME MeshInv, NEW p \in Admins, NEW b \in Bodies,
             NEW pc \in {"upsert", "resolve", "get", "row", "insert"}, Arrives(p, b, pc),
             pc = "upsert" => IF b.plane = "none" THEN b.scope = Planes ELSE b.plane \in b.scope,
             pc \in {"get", "row"} => b.op \in TemplateOps,
             pc = "row" => b.cli
      PROVE  MeshInv'
    <2> DEFINE r == [AtRest EXCEPT !.body = b, !.pc = pc]
    <2>1. /\ DOMAIN r = RequestFields /\ r.pc = pc /\ r.body = b /\ r.seen = {}
          /\ ~r.mesh /\ ~r.row /\ r.locked = {}
        BY DEF AtRest, RequestFields
    <2>2. req' = [req EXCEPT ![p] = r] /\ UNCHANGED rows
        BY <1>6 DEF Arrives
    <2> HIDE DEF r
    <2>3. mesh.plane \in Planes /\ (b.cli => b.scope = Planes)
        BY <1>6 DEF MeshInv, RowsOK
    <2>4. RequestOK(r)
        BY <1>6, <2>1, <2>3 DEF RequestOK, HoldsItsRow, InScope, Counted, Cleaning
    <2> QED
        BY <1>2, <1>6, <2>1, <2>2, <2>4
<1>7. ASSUME MeshInv, NEW p \in Admins,
             \/ handleMeshPost(p) \/ handleMeshDelete(p) \/ handleMeshMemberPost(p)
             \/ handleMeshMemberDelete(p) \/ handleProbePost(p) \/ handleProbePut(p)
             \/ handleProbeDelete(p) \/ cmdMesh(p) \/ cmdProbe(p) \/ Enroll(p)
      PROVE  MeshInv'
    <2>1. CASE handleMeshPost(p)
        BY <1>6, <1>7, <2>1 DEF handleMeshPost, Api, requireNetworkScopeName
    <2>2. CASE handleMeshDelete(p) \/ handleMeshMemberPost(p) \/ handleMeshMemberDelete(p)
               \/ handleProbePost(p) \/ Enroll(p)
        BY <1>6, <1>7, <2>2 DEF handleMeshDelete, handleMeshMemberPost, handleMeshMemberDelete,
                                handleProbePost, Enroll, Api
    <2>3. CASE handleProbePut(p) \/ handleProbeDelete(p)
        BY <1>6, <1>7, <2>3 DEF handleProbePut, handleProbeDelete, Api, TemplateOps
    <2>4. CASE cmdMesh(p)
        <3>1. PICK b \in Bodies :
                 /\ b.op \in {"upsertMesh", "deleteMesh", "addMember", "removeMember"} /\ b.cli
                 /\ Arrives(p, b, IF b.op = "upsertMesh" THEN "upsert" ELSE "resolve")
            BY <2>4 DEF cmdMesh, Cli
        <3>2. CASE b.op = "upsertMesh"
            BY <1>6, <1>7, <3>1, <3>2
        <3>3. CASE b.op # "upsertMesh"
            BY <1>6, <1>7, <3>1, <3>3
        <3> QED
            BY <3>2, <3>3
    <2>5. CASE cmdProbe(p)
        <3>1. PICK b \in Bodies :
                 /\ b.op \in {"addProbe", "deleteProbe"} /\ b.cli
                 /\ Arrives(p, b, IF b.op = "addProbe" THEN "resolve" ELSE "row")
            BY <2>5 DEF cmdProbe, Cli
        <3>2. CASE b.op = "addProbe"
            BY <1>6, <1>7, <3>1, <3>2
        <3>3. CASE b.op = "deleteProbe"
            BY <1>6, <1>7, <3>1, <3>3 DEF TemplateOps
        <3> QED
            BY <3>1, <3>2, <3>3
    <2> QED
        BY <1>7, <2>1, <2>2, <2>3, <2>4, <2>5
\* Reads, locks and the first halves of the writing requests.
<1>8. ASSUME MeshInv, NEW p \in Admins, meshIDByName(p) PROVE MeshInv'
    <2>1. RequestOK(req[p]) /\ req[p].pc = "resolve"
        BY <1>8 DEF MeshInv, meshIDByName
    <2>2. CASE mesh.id = 0
        BY <1>5, <1>8, <2>1, <2>2 DEF meshIDByName
    <2>3. CASE mesh.id # 0
        <3> DEFINE r == [req[p] EXCEPT !.pc = "lock", !.id = mesh.id]
        <3>1. /\ DOMAIN r = RequestFields /\ r.pc = "lock" /\ r.body = req[p].body
              /\ r.seen = req[p].seen /\ r.mesh = req[p].mesh /\ r.row = req[p].row
              /\ r.id = mesh.id /\ r.locked = req[p].locked
            BY <2>1 DEF RequestOK, RequestFields
        <3>2. req' = [req EXCEPT ![p] = r] /\ UNCHANGED rows
            BY <1>8, <2>3 DEF meshIDByName, Step
        <3> HIDE DEF r
        <3>3. RequestOK(r) /\ ~r.mesh /\ ~r.row
            BY <2>1, <2>3, <3>1 DEF RequestOK, HoldsItsRow, InScope, Counted, Cleaning
        <3> QED
            BY <1>2, <1>8, <3>2, <3>3
    <2> QED
        BY <2>2, <2>3
<1>9. ASSUME MeshInv, NEW p \in Admins, lockMesh(p) PROVE MeshInv'
    <2>1. RequestOK(req[p]) /\ req[p].pc = "lock" /\ WaitsFor(p) = {}
        BY <1>9 DEF MeshInv, lockMesh
    <2>2. CASE ~(mesh.id = req[p].id /\ mesh.plane \in req[p].body.scope)
        BY <1>5, <1>9, <2>1, <2>2 DEF lockMesh
    <2>3. CASE mesh.id = req[p].id /\ mesh.plane \in req[p].body.scope
        <3> DEFINE r == [req[p] EXCEPT !.pc = "body", !.mesh = TRUE]
        <3>1. /\ DOMAIN r = RequestFields /\ r.pc = "body" /\ r.body = req[p].body
              /\ r.seen = req[p].seen /\ r.mesh /\ r.row = req[p].row
              /\ r.id = req[p].id /\ r.locked = req[p].locked
            BY <2>1 DEF RequestOK, RequestFields
        <3>2. req' = [req EXCEPT ![p] = r] /\ UNCHANGED rows
            BY <1>9, <2>3 DEF lockMesh, Step
        <3> HIDE DEF r
        <3>3. RequestOK(r) /\ ~r.row
            BY <2>1, <2>3, <3>1 DEF RequestOK, HoldsItsRow, InScope, Counted, Cleaning
        <3>4. \A q \in Admins \ {p} : ~req[q].mesh
            BY <2>1 DEF WaitsFor, HoldsMesh
        <3> QED
            BY <1>2, <1>9, <3>2, <3>3, <3>4
    <2> QED
        BY <2>2, <2>3
<1>10. ASSUME MeshInv, NEW p \in Admins, GetProbeConfig(p) PROVE MeshInv'
    <2>1. RequestOK(req[p]) /\ req[p].pc = "get"
        BY <1>10 DEF MeshInv, GetProbeConfig
    <2>2. CASE ~(req[p].body.tmpl \in Existing /\ mesh.plane \in req[p].body.scope)
        <3>1. req' = [req EXCEPT ![p] = AtRest] /\ UNCHANGED rows
            BY <1>10, <2>2 DEF GetProbeConfig, rows
        <3>2. RequestOK(AtRest)
            BY <1>r DEF RequestOK, HoldsItsRow, InScope, Counted, Cleaning, TemplateOps
        <3> QED
            BY <1>r, <1>2, <1>10, <3>1, <3>2
    <2>3. CASE req[p].body.tmpl \in Existing /\ mesh.plane \in req[p].body.scope
        <3> DEFINE r == [req[p] EXCEPT !.pc = "row"]
        <3>1. /\ DOMAIN r = RequestFields /\ r.pc = "row" /\ r.body = req[p].body
              /\ r.seen = req[p].seen /\ r.mesh = req[p].mesh /\ r.row = req[p].row
              /\ r.locked = req[p].locked
            BY <2>1 DEF RequestOK, RequestFields
        <3>2. req' = [req EXCEPT ![p] = r] /\ UNCHANGED rows
            BY <1>10, <2>3 DEF GetProbeConfig, Step
        <3>3. req[p].body.tmpl \in Templates /\ tmpl[req[p].body.tmpl] # "none"
            BY <2>3 DEF Existing
        <3> HIDE DEF r
        <3>4. RequestOK(r) /\ ~r.mesh /\ ~r.row
            BY <2>1, <2>3, <3>1, <3>3 DEF RequestOK, HoldsItsRow, InScope, Counted, Cleaning
        <3> QED
            BY <1>2, <1>10, <3>2, <3>4
    <2> QED
        BY <2>2, <2>3
<1>11. ASSUME MeshInv, NEW p \in Admins, noteConfigWrite(p) PROVE MeshInv'
    <2>1. req' = [req EXCEPT ![p] = AtRest] /\ UNCHANGED rows
        BY <1>11 DEF noteConfigWrite, Step
    <2>2. RequestOK(AtRest)
        BY <1>r DEF RequestOK, HoldsItsRow, InScope, Counted, Cleaning, TemplateOps
    <2> QED
        BY <1>r, <1>2, <1>11, <2>1, <2>2
\* The list of the series to clean, and what was running when it was made.
<1>12. ASSUME MeshInv, NEW p \in Admins, NEW ids, Clean(p, ids),
              \/ /\ req[p].pc = "body"
                 /\ \/ req[p].body.op = "deleteMesh" /\ Running \subseteq ids
                    \/ /\ req[p].body.op = "removeMember"
                       /\ \A x \in Running : x[2] = req[p].body.site \/ x[3] = req[p].body.site
                                                => x \in ids
                       /\ Existing # {} => Cardinality(members \ {req[p].body.site}) >= MinMeshMembers
              \/ /\ req[p].pc = "row" /\ req[p].body.tmpl \in Existing /\ WaitsFor(p) = {}
                 /\ ~(req[p].body.op = "updateProbe" /\ req[p].body.on) =>
                       \A x \in Running : x[1] = req[p].body.tmpl => x \in ids
       PROVE  MeshInv'
    <2>1. RequestOK(req[p])
        BY <1>12 DEF MeshInv
    <2> DEFINE r == [req[p] EXCEPT !.pc = "clean", !.ids = ids, !.seen = Running,
                       !.row = req[p].row \/ req[p].pc = "row"]
    <2>2. /\ DOMAIN r = RequestFields /\ r.pc = "clean" /\ r.body = req[p].body
          /\ r.seen = Running /\ r.ids = ids /\ r.mesh = req[p].mesh
          /\ r.id = req[p].id /\ r.locked = {}
        BY <1>12, <2>1 DEF RequestOK, RequestFields, Counted
    <2>3. r.row = (req[p].row \/ req[p].pc = "row")
        BY <2>1, Zenon DEF RequestOK, RequestFields
    <2>4. req' = [req EXCEPT ![p] = r] /\ UNCHANGED rows
        BY <1>12 DEF Clean, Step
    <2> HIDE DEF r
    <2>5. CASE req[p].pc = "body"
        <3>1. r.mesh /\ ~r.row /\ req[p].mesh
            BY <2>1, <2>2, <2>3, <2>5 DEF RequestOK, HoldsItsRow
        <3>2. RequestOK(r)
            <4>1. HoldsItsRow(r)
                BY <1>12, <2>5, <2>2, <3>1 DEF HoldsItsRow, Cleaning
            <4>2. InScope(r)
                BY <2>1, <2>2, <3>1 DEF RequestOK, InScope
            <4>3. Counted(r)
                BY <1>12, <2>5, <2>2 DEF Counted, Cleaning, TemplateOps
            <4> QED
                BY <2>1, <2>2, <2>5, <4>1, <4>2, <4>3 DEF RequestOK
        <3>3. \A q \in Admins \ {p} : ~req[q].mesh
            BY <1>12, <3>1 DEF MeshInv, LocksExclude
        <3> QED
            BY <1>2, <1>12, <2>4, <3>1, <3>2, <3>3
    <2>6. CASE req[p].pc = "row"
        <3>1. ~r.mesh /\ r.row /\ req[p].body.op \in TemplateOps /\ req[p].body \in Bodies
            BY <2>1, <2>2, <2>3, <2>6 DEF RequestOK, HoldsItsRow, InScope, Cleaning
        <3>2. RequestOK(r)
            <4>1. HoldsItsRow(r)
                BY <1>12, <2>6, <2>2, <3>1 DEF HoldsItsRow, Cleaning
            <4>2. InScope(r)
                BY <1>12, <2>6, <2>1, <2>2, <3>1 DEF RequestOK, InScope
            <4>3. Counted(r)
                BY <1>12, <2>6, <2>2, <3>1 DEF Counted, Cleaning, TemplateOps
            <4> QED
                BY <2>2, <3>1, <4>1, <4>2, <4>3 DEF RequestOK
        <3>3. \A q \in Admins \ {p} : ~(req[q].row /\ req[q].body.tmpl = r.body.tmpl)
            BY <1>12, <2>2, <2>6 DEF WaitsFor, HoldsRow
        <3> QED
            BY <1>2, <1>12, <2>4, <3>1, <3>2, <3>3
    <2> QED
        BY <1>12, <2>5, <2>6
<1>13. ASSUME NEW ts, NEW x \in Running, x[1] \in Enabled => x[1] \in ts
       PROVE  x \in expandMeshProbeIDs(ts)
    BY <1>13 DEF Running, expandMeshProbeIDs
<1>14. Enabled \subseteq Existing /\ \A x \in Running : x[1] \in Enabled
    BY DEF Enabled, Existing, Running, expandMeshProbeIDs
<1>15. ASSUME MeshInv, NEW p \in Admins, RemoveMeshMember(p) \/ DeleteMeshGroup(p) PROVE MeshInv'
    <2>1. req[p].pc = "body" /\ req[p].pc # "idle"
        BY <1>15 DEF RemoveMeshMember, DeleteMeshGroup
    <2>2. CASE DeleteMeshGroup(p)
        <3>1. Running \subseteq expandMeshProbeIDs(Existing)
            BY <1>13, <1>14
        <3> QED
            BY <1>12, <1>15, <2>1, <2>2, <3>1 DEF DeleteMeshGroup
    <2>3. CASE RemoveMeshMember(p)
        <3> DEFINE s == req[p].body.site
                   free == s \in members /\ (Existing # {} => Cardinality(members \ {s}) >= MinMeshMembers)
        <3>1. \A x \in Running : x[2] = s \/ x[3] = s => x \in seriesOf(s)
            BY <1>13, <1>14 DEF seriesOf
        <3>2. CASE free
            BY <1>12, <1>15, <2>1, <2>3, <3>1, <3>2 DEF RemoveMeshMember
        <3>3. CASE ~free
            BY <1>5, <1>15, <2>1, <2>3, <3>3 DEF RemoveMeshMember
        <3> QED
            BY <3>2, <3>3
    <2> QED
        BY <1>15, <2>2, <2>3
<1>16. ASSUME MeshInv, NEW p \in Admins, LockTemplate(p) PROVE MeshInv'
    <2> DEFINE b == req[p].body
    <2>1. req[p].pc = "row" /\ req[p].pc # "idle" /\ WaitsFor(p) = {}
        BY <1>16 DEF LockTemplate
    <2>2. CASE b.tmpl \notin Existing
        BY <1>5, <1>16, <2>1, <2>2 DEF LockTemplate
    <2>3. CASE b.tmpl \in Existing /\ b.op = "updateProbe" /\ (b.on \/ tmpl[b.tmpl] = "off")
        <3>1. Clean(p, {})
            BY <1>16, <2>3 DEF LockTemplate
        <3>2. ~(b.op = "updateProbe" /\ b.on) => \A x \in Running : x[1] = b.tmpl => x \in {}
            BY <2>3, <1>14 DEF Enabled
        <3> QED
            BY <1>12, <1>16, <2>1, <2>3, <3>1, <3>2
    <2>4. CASE b.tmpl \in Existing /\ ~(b.op = "updateProbe" /\ (b.on \/ tmpl[b.tmpl] = "off"))
        <3>1. Clean(p, expandMeshProbeIDs({b.tmpl}))
            BY <1>16, <2>4 DEF LockTemplate
        <3>2. \A x \in Running : x[1] = b.tmpl => x \in expandMeshProbeIDs({b.tmpl})
            BY <1>13
        <3> QED
            BY <1>12, <1>16, <2>1, <2>4, <3>1, <3>2
    <2> QED
        BY <2>2, <2>3, <2>4
<1>17. ASSUME MeshInv, NEW p \in Admins, cleanupSeries(p) PROVE MeshInv'
    <2>1. RequestOK(req[p]) /\ req[p].pc = "clean"
        BY <1>17 DEF MeshInv, cleanupSeries
    <2> DEFINE r == [req[p] EXCEPT !.locked = req[p].ids,
                       !.pc = IF req[p].body.op = "deleteMesh" THEN "drop" ELSE "commit"]
    <2>2. /\ DOMAIN r = RequestFields /\ r.body = req[p].body
          /\ r.pc = IF req[p].body.op = "deleteMesh" THEN "drop" ELSE "commit"
          /\ r.seen = req[p].seen /\ r.ids = req[p].ids /\ r.id = req[p].id
          /\ r.mesh = req[p].mesh /\ r.row = req[p].row
        BY <2>1 DEF RequestOK, RequestFields
    <2>3. req' = [req EXCEPT ![p] = r] /\ UNCHANGED rows
        BY <1>17 DEF cleanupSeries, Step
    <2> HIDE DEF r
    <2>4. RequestOK(r)
        BY <2>1, <2>2 DEF RequestOK, HoldsItsRow, InScope, Counted, Cleaning, TemplateOps
    <2>5. /\ r.mesh => \A q \in Admins \ {p} : ~req[q].mesh
          /\ r.row => \A q \in Admins \ {p} : ~(req[q].row /\ req[q].body.tmpl = r.body.tmpl)
        BY <1>17, <2>2 DEF MeshInv, LocksExclude
    <2> QED
        BY <1>2, <1>17, <2>3, <2>4, <2>5
\* Commits under the mesh row: nobody else counts its members or has it in scope.
<1>18. ASSUME MeshInv, NEW p \in Admins, req[p].mesh, NEW q \in Admins \ {p}
       PROVE  ~req[q].mesh /\ RequestOK(req[q])
    BY <1>18 DEF MeshInv, LocksExclude
<1>19. ASSUME MeshInv, NEW p \in Admins, req[p].mesh,
              req' = [req EXCEPT ![p] = Ended(p)], UNCHANGED <<mesh, created>>, RowsOK',
              \A q \in Admins \ {p} : req[q].row => req[q].body.tmpl \in Existing',
              \A t \in Templates : tmpl[t] # "none" => tmpl'[t] # "none",
              \A t \in Existing' : t \in Existing \/ tmpl[t] = "none"
       PROVE  MeshInv'
    <2>1. req[p].pc # "idle" /\ RequestOK(req[p])
        BY <1>19 DEF MeshInv, RequestOK, HoldsItsRow, Cleaning
    <2>2. ASSUME NEW q \in Admins \ {p} PROVE RequestOK(req[q])'
        <3>1. req'[q] = req[q] /\ ~req[q].mesh /\ RequestOK(req[q]) /\ mesh' = mesh
            BY <1>18, <1>19 DEF MeshInv
        <3>2. HoldsItsRow(req[q])'
            BY <1>19, <2>2, <3>1 DEF RequestOK, HoldsItsRow
        <3>3. Counted(req[q])'
            BY <3>1 DEF RequestOK, HoldsItsRow, Counted, TemplateOps
        <3>4. mesh.plane \in Planes /\ (req[q].pc # "idle" => req[q].body \in Bodies)
            BY <1>19, <3>1 DEF MeshInv, RowsOK, RequestOK
        <3>5. req[q].pc = "row" \/ req[q].row =>
                 (req[q].body.tmpl \in Existing' => mesh.plane \in req[q].body.scope)
            <4> SUFFICES ASSUME req[q].pc = "row" \/ req[q].row, req[q].body.tmpl \in Existing'
                         PROVE  mesh.plane \in req[q].body.scope
                OBVIOUS
            <4>1. CASE req[q].body.tmpl \in Existing
                BY <3>1, <4>1 DEF RequestOK, InScope
            <4>2. CASE req[q].body.tmpl \notin Existing
                <5>1. req[q].pc = "row" /\ req[q].body.cli
                    BY <1>19, <3>1, <4>2 DEF RequestOK, HoldsItsRow, InScope
                <5> QED
                    BY <3>4, <5>1
            <4> QED
                BY <4>1, <4>2
        <3> QED
            BY <1>19, <3>1, <3>2, <3>3, <3>5 DEF RequestOK, InScope
    <2> QED
        BY <1>4, <1>19, <2>1, <2>2
<1>20. ASSUME MeshInv, NEW p \in Admins, AddMeshMember(p) PROVE MeshInv'
    <2>1. /\ req[p].mesh /\ req[p].pc = "body" /\ mesh.id # 0
          /\ req' = [req EXCEPT ![p] = Ended(p)] /\ UNCHANGED <<mesh, created, tmpl>>
          /\ members' = members \cup {req[p].body.site} /\ Existing' = Existing
        BY <1>20 DEF MeshInv, RequestOK, HoldsItsRow, InScope, AddMeshMember, Commit, Step, Existing
    <2>2. IsFiniteSet(members) /\ members \subseteq members'
        BY <1>20, <2>1 DEF MeshInv, RowsOK
    <2>3. IsFiniteSet(members')
        BY <2>1, <2>2, FS_AddElement
    <2>4. /\ Cardinality(members) <= Cardinality(members')
          /\ Cardinality(members) \in Nat /\ Cardinality(members') \in Nat
        BY <2>2, <2>3, FS_Subset, FS_CardinalityType
    <2>5. RowsOK'
        BY <1>0, <1>20, <2>1, <2>3, <2>4 DEF MeshInv, RowsOK, NoStrandedTemplate
    <2>6. \A q \in Admins \ {p} : req[q].row => req[q].body.tmpl \in Existing'
        BY <1>20, <2>1 DEF MeshInv, RequestOK, HoldsItsRow
    <2> QED
        BY <1>19, <1>20, <2>1, <2>5, <2>6
<1>21. ASSUME MeshInv, NEW p \in Admins, AddMeshProbe(p) PROVE MeshInv'
    <2>1. req[p].mesh /\ req[p].pc = "body" /\ req[p].pc # "idle" /\ mesh.id # 0
        BY <1>21 DEF MeshInv, RequestOK, HoldsItsRow, InScope, AddMeshProbe
    <2> DEFINE full == Cardinality(members) < MinMeshMembers \/ \A t \in Templates : tmpl[t] # "none"
    <2>2. CASE full
        BY <1>5, <1>21, <2>1, <2>2 DEF AddMeshProbe
    <2>3. CASE ~full
        <3>1. /\ req' = [req EXCEPT ![p] = Ended(p)] /\ UNCHANGED <<mesh, created, members>>
              /\ Cardinality(members) >= MinMeshMembers
            <4>1. Cardinality(members) \in Nat
                BY <1>21, FS_CardinalityType DEF MeshInv, RowsOK
            <4> QED
                BY <1>0, <1>21, <2>3, <4>1 DEF AddMeshProbe, Commit, Step
        <3>2. PICK t \in Templates :
                 /\ tmpl[t] = "none"
                 /\ tmpl' = [tmpl EXCEPT ![t] = IF req[p].body.on THEN "on" ELSE "off"]
            BY <1>21, <2>3 DEF AddMeshProbe
        <3>3. DOMAIN tmpl = Templates
            BY <1>21 DEF MeshInv, RowsOK
        <3>4. /\ DOMAIN tmpl' = Templates /\ \A u \in Templates \ {t} : tmpl'[u] = tmpl[u]
              /\ tmpl'[t] \in {"on", "off"}
            BY <3>2, <3>3
        <3>5. Existing' = Existing \cup {t}
            BY <3>2, <3>4 DEF Existing
        <3>6. RowsOK'
            BY <1>21, <2>1, <3>1, <3>4 DEF MeshInv, RowsOK, NoStrandedTemplate
        <3>7. \A q \in Admins \ {p} : req[q].row => req[q].body.tmpl \in Existing'
            BY <1>21, <3>5 DEF MeshInv, RequestOK, HoldsItsRow
        <3> QED
            BY <1>19, <1>21, <2>1, <3>1, <3>2, <3>4, <3>5, <3>6, <3>7
    <2> QED
        BY <2>2, <2>3
<1>22. ASSUME MeshInv, NEW p \in Admins, CommitMember(p) PROVE MeshInv'
    <2>1. /\ req[p].pc = "commit" /\ req[p].body.op = "removeMember" /\ RequestOK(req[p])
          /\ req' = [req EXCEPT ![p] = Ended(p)] /\ UNCHANGED <<mesh, created, tmpl>>
          /\ members' = members \ {req[p].body.site} /\ Existing' = Existing
        BY <1>22 DEF MeshInv, CommitMember, Commit, Step, Existing
    <2>2. /\ req[p].mesh /\ mesh.id # 0
          /\ Existing # {} => Cardinality(members \ {req[p].body.site}) >= MinMeshMembers
        BY <2>1 DEF RequestOK, HoldsItsRow, InScope, Counted, Cleaning, TemplateOps
    <2>3. IsFiniteSet(members')
        BY <1>22, <2>1, FS_RemoveElement DEF MeshInv, RowsOK
    <2>4. RowsOK'
        BY <1>22, <2>1, <2>2, <2>3 DEF MeshInv, RowsOK, NoStrandedTemplate
    <2>5. \A q \in Admins \ {p} : req[q].row => req[q].body.tmpl \in Existing'
        BY <1>22, <2>1 DEF MeshInv, RequestOK, HoldsItsRow
    <2> QED
        BY <1>19, <1>22, <2>1, <2>2, <2>4, <2>5
\* The other commits.
<1>23. ASSUME MeshInv, NEW p \in Admins, UpsertMeshGroup(p) PROVE MeshInv'
    <2>1. RequestOK(req[p]) /\ req[p].pc = "upsert" /\ req[p].pc # "idle" /\ created \in Nat
        BY <1>23 DEF MeshInv, RowsOK, UpsertMeshGroup
    <2>2. CASE ~(mesh.id = 0 /\ created < MaxMesh)
        BY <1>5, <1>23, <2>1, <2>2 DEF UpsertMeshGroup
    <2>3. CASE mesh.id = 0 /\ created < MaxMesh
        <3>1. /\ created' = created + 1 /\ UNCHANGED <<members, tmpl>> /\ Existing' = Existing
              /\ mesh' = [id |-> created + 1,
                          plane |-> IF req[p].body.plane = "none"
                                    THEN Default ELSE req[p].body.plane]
              /\ req' = [req EXCEPT ![p] = Ended(p)]
            BY <1>23, <2>3 DEF UpsertMeshGroup, Commit, Step, Existing
        <3>2. mesh'.plane \in Planes
            BY <2>1, <3>1 DEF RequestOK, InScope
        <3>3. members = {} /\ Existing = {}
            BY <1>23, <2>3 DEF MeshInv, RowsOK
        <3>4. RowsOK'
            BY <1>23, <2>1, <3>1, <3>2, <3>3 DEF MeshInv, RowsOK, NoStrandedTemplate
        <3>5. ASSUME NEW q \in Admins \ {p} PROVE RequestOK(req[q])'
            <4>1. req'[q] = req[q] /\ RequestOK(req[q]) /\ tmpl' = tmpl /\ members' = members
                BY <1>23, <3>1 DEF MeshInv
            <4>2. ~req[q].mesh /\ ~req[q].row
                BY <2>3, <3>3, <4>1 DEF RequestOK, HoldsItsRow, InScope
            <4> QED
                BY <3>1, <3>3, <4>1, <4>2 DEF RequestOK, HoldsItsRow, InScope, Counted
        <3> QED
            BY <1>4, <1>23, <2>1, <3>1, <3>4, <3>5
    <2> QED
        BY <2>2, <2>3
<1>24. ASSUME MeshInv, NEW p \in Admins, CommitProbe(p) PROVE MeshInv'
    <2> DEFINE t == req[p].body.tmpl
    <2>1. /\ RequestOK(req[p]) /\ req[p].pc = "commit" /\ req[p].pc # "idle"
          /\ req[p].body.op \in TemplateOps /\ DOMAIN tmpl = Templates
        BY <1>24 DEF MeshInv, RowsOK, CommitProbe, TemplateOps
    <2>2. req[p].row /\ t \in Existing /\ t \in Templates
        BY <2>1 DEF RequestOK, HoldsItsRow, Cleaning, TemplateOps, Existing
    <2>3. /\ req' = [req EXCEPT ![p] = Ended(p)] /\ UNCHANGED <<mesh, created, members>>
          /\ tmpl' = [tmpl EXCEPT ![t] = CASE req[p].body.op = "deleteProbe" -> "gone"
                                          [] req[p].body.op = "updateProbe" /\ req[p].body.on -> "on"
                                          [] OTHER -> "off"]
        BY <1>24 DEF CommitProbe, Commit, Step
    <2>4. /\ DOMAIN tmpl' = Templates /\ \A u \in Templates \ {t} : tmpl'[u] = tmpl[u]
          /\ tmpl'[t] \in {"on", "off", "gone"}
        BY <2>1, <2>2, <2>3
    <2>5. Existing' \subseteq Existing /\ Existing \ {t} \subseteq Existing'
        BY <2>2, <2>4 DEF Existing
    <2>6. RowsOK'
        BY <1>24, <2>3, <2>4, <2>5 DEF MeshInv, RowsOK, NoStrandedTemplate
    <2>7. ASSUME NEW q \in Admins \ {p} PROVE RequestOK(req[q])'
        <3>1. /\ req'[q] = req[q] /\ RequestOK(req[q]) /\ mesh' = mesh /\ members' = members
              /\ req[q].row => req[q].body.tmpl # t
            BY <1>24, <2>2, <2>3 DEF MeshInv, LocksExclude
        <3>2. HoldsItsRow(req[q])'
            BY <2>5, <3>1 DEF RequestOK, HoldsItsRow
        <3>3. InScope(req[q])'
            BY <2>4, <2>5, <3>1 DEF RequestOK, InScope
        <3>4. Counted(req[q])'
            BY <2>5, <3>1 DEF RequestOK, Counted
        <3> QED
            BY <3>1, <3>2, <3>3, <3>4 DEF RequestOK
    <2> QED
        BY <1>4, <1>24, <2>1, <2>3, <2>6, <2>7
<1>25. ASSUME MeshInv, NEW p \in Admins, CommitMeshDelete(p) PROVE MeshInv'
    <2>1. /\ RequestOK(req[p]) /\ req[p].pc = "drop" /\ req[p].pc # "idle" /\ req[p].mesh
          /\ WaitsFor(p) = {} /\ DOMAIN mesh = {"id", "plane"} /\ mesh.plane \in Planes
        BY <1>25 DEF MeshInv, RowsOK, CommitMeshDelete, RequestOK, HoldsItsRow
    <2>2. /\ req' = [req EXCEPT ![p] = Ended(p)] /\ created' = created
          /\ mesh' = [mesh EXCEPT !.id = 0] /\ members' = {}
          /\ tmpl' = [t \in Templates |-> IF tmpl[t] = "none" THEN "none" ELSE "gone"]
        BY <1>25 DEF CommitMeshDelete, Commit, Step
    <2>3. DOMAIN mesh' = {"id", "plane"} /\ mesh'.plane = mesh.plane
        BY <2>1, <2>2
    <2>4. Existing' = {}
        BY <2>2 DEF Existing
    <2>5. IsFiniteSet(members')
        BY <2>2, FS_EmptySet
    <2>6. RowsOK'
        BY <1>25, <2>1, <2>2, <2>3, <2>4, <2>5 DEF MeshInv, RowsOK, NoStrandedTemplate
    <2>7. ASSUME NEW q \in Admins \ {p} PROVE RequestOK(req[q])'
        <3>1. req'[q] = req[q] /\ RequestOK(req[q]) /\ ~req[q].mesh
            BY <1>18, <1>25, <2>1, <2>2 DEF MeshInv
        <3>2. ~req[q].row
            BY <2>1, <2>7, <3>1 DEF RequestOK, HoldsItsRow, WaitsFor, HoldsRow
        <3>3. \A t \in Templates : tmpl[t] # "none" => tmpl'[t] # "none"
            BY <2>2
        <3> QED
            BY <2>4, <3>1, <3>2, <3>3 DEF RequestOK, HoldsItsRow, InScope, Counted
    <2> QED
        BY <1>4, <1>25, <2>1, <2>2, <2>6, <2>7
<1>26. ASSUME MeshInv, NEW p \in Admins, EnrollNewAgent(p) PROVE MeshInv'
    <2>1. /\ req[p].pc = "insert" /\ req[p].pc # "idle" /\ req' = [req EXCEPT ![p] = Ended(p)]
          /\ UNCHANGED <<mesh, created, members, tmpl>> /\ Existing' = Existing
        BY <1>26 DEF EnrollNewAgent, Commit, Step, Existing
    <2>2. RowsOK'
        BY <1>26, <2>1 DEF MeshInv, RowsOK, NoStrandedTemplate
    <2>3. ASSUME NEW q \in Admins \ {p} PROVE RequestOK(req[q])'
        <3>1. req'[q] = req[q] /\ RequestOK(req[q])
            BY <1>26, <2>1 DEF MeshInv
        <3> QED
            BY <2>1, <3>1 DEF RequestOK, HoldsItsRow, InScope, Counted
    <2> QED
        BY <1>4, <1>26, <2>1, <2>2, <2>3
<1>27. ASSUME MeshInv, NEW p \in Admins, NothingToEnroll(p) \/ DeadlockDetected(p) PROVE MeshInv'
    <2>1. Refuse(p)
        BY <1>27 DEF NothingToEnroll, DeadlockDetected
    <2>2. req[p].pc # "idle"
        BY <1>27 DEF NothingToEnroll, DeadlockDetected, WaitsFor
    <2> QED
        BY <1>5, <1>27, <2>1, <2>2
<1>28. ASSUME MeshInv, UNCHANGED <<rows, req>> PROVE MeshInv'
    <2>1. /\ UNCHANGED <<mesh, created, members, tmpl, req>> /\ Existing' = Existing
        BY <1>28 DEF rows, Existing
    <2>2. RowsOK' /\ LocksExclude' /\ DOMAIN req' = Admins
        BY <1>28, <2>1 DEF MeshInv, RowsOK, LocksExclude, NoStrandedTemplate
    <2>3. ASSUME NEW q \in Admins PROVE RequestOK(req[q])'
        <3>1. req'[q] = req[q] /\ RequestOK(req[q])
            BY <1>28, <2>1 DEF MeshInv
        <3> QED
            BY <2>1, <3>1 DEF RequestOK, HoldsItsRow, InScope, Counted
    <2> QED
        BY <2>2, <2>3 DEF MeshInv
<1>29. MeshInv /\ [MeshNext]_meshVars => MeshInv'
    <2> SUFFICES ASSUME MeshInv, [MeshNext]_meshVars PROVE MeshInv'
        OBVIOUS
    <2>1. ASSUME FillBegin \/ setIfCurrent \/ Expire \/ UNCHANGED meshVars
          PROVE  UNCHANGED <<rows, req>>
        BY <2>1 DEF FillBegin, setIfCurrent, Expire, meshVars, rows
    <2> QED
        BY <1>7, <1>8, <1>9, <1>10, <1>11, <1>15, <1>16, <1>17, <1>20, <1>21, <1>22, <1>23,
           <1>24, <1>25, <1>26, <1>27, <1>28, <2>1 DEF MeshNext
<1> QED
    BY <1>1, <1>29, PTL DEF MeshSpec

-----------------------------------------------------------------------------
(* The steps that write a row of the administration, each a commit. *)
Writes(p) ==
    \/ AddMeshMember(p) \/ AddMeshProbe(p) \/ CommitMember(p) \/ CommitProbe(p)
    \/ CommitMeshDelete(p) \/ UpsertMeshGroup(p) \/ EnrollNewAgent(p)

(* A request moves without writing. *)
Moves(p) == (\E r : req' = [req EXCEPT ![p] = r]) /\ UNCHANGED rows /\ Quiet

\* What a step of the administration is.
LEMMA StepKinds ==
    ASSUME MeshNext
    PROVE  \/ FillBegin \/ setIfCurrent \/ Expire
           \/ \E p \in Admins : \/ noteConfigWrite(p)
                                \/ req[p].pc # "note" /\ Moves(p)
                                \/ req[p].pc # "note" /\ Writes(p) /\ Commit(p)
<1> DEFINE Kind(p) == \/ noteConfigWrite(p)
                      \/ req[p].pc # "note" /\ Moves(p)
                      \/ req[p].pc # "note" /\ Writes(p) /\ Commit(p)
<1>1. ASSUME NEW p \in Admins, Refuse(p) PROVE Moves(p)
    BY <1>1 DEF Refuse, Step, Moves
<1>2. ASSUME NEW p \in Admins, NEW ids, Clean(p, ids) PROVE Moves(p)
    BY <1>2 DEF Clean, Step, Moves
<1>3. ASSUME NEW p \in Admins, Ready(p),
             \/ handleMeshPost(p) \/ handleMeshDelete(p) \/ handleMeshMemberPost(p)
             \/ handleMeshMemberDelete(p) \/ handleProbePost(p) \/ handleProbePut(p)
             \/ handleProbeDelete(p) \/ cmdMesh(p) \/ cmdProbe(p) \/ Enroll(p)
      PROVE  Kind(p)
    <2>1. req[p].pc # "note"
        BY <1>3 DEF Ready, AtRest
    <2>2. \E b, pc : Arrives(p, b, pc)
        BY <1>3 DEF handleMeshPost, handleMeshDelete, handleMeshMemberPost, handleMeshMemberDelete,
                    handleProbePost, handleProbePut, handleProbeDelete, cmdMesh, cmdProbe, Enroll
    <2> QED
        BY <2>1, <2>2 DEF Arrives, Moves
<1>4. ASSUME NEW p \in Admins, meshIDByName(p) \/ lockMesh(p) PROVE Kind(p)
    BY <1>1, <1>4 DEF meshIDByName, lockMesh, Step, Moves
<1>5. ASSUME NEW p \in Admins, GetProbeConfig(p) PROVE Kind(p)
    BY <1>5 DEF GetProbeConfig, Step, Moves, Quiet
<1>6. ASSUME NEW p \in Admins, RemoveMeshMember(p) \/ DeleteMeshGroup(p) PROVE Kind(p)
    BY <1>1, <1>2, <1>6 DEF RemoveMeshMember, DeleteMeshGroup
<1>7. ASSUME NEW p \in Admins, LockTemplate(p) PROVE Kind(p)
    <2>1. req[p].pc # "note" /\ (Refuse(p) \/ \E ids : Clean(p, ids))
        BY <1>7 DEF LockTemplate
    <2> QED
        BY <1>1, <1>2, <2>1
<1>8. ASSUME NEW p \in Admins, cleanupSeries(p) PROVE Kind(p)
    BY <1>8 DEF cleanupSeries, Step, Moves
<1>9. ASSUME NEW p \in Admins, NothingToEnroll(p) \/ DeadlockDetected(p) PROVE Kind(p)
    <2>1. Refuse(p)
        BY <1>9 DEF NothingToEnroll, DeadlockDetected
    <2>2. req[p].pc # "note"
        BY <1>9 DEF NothingToEnroll, DeadlockDetected, WaitsFor
    <2> QED
        BY <1>1, <2>1, <2>2
<1>10. ASSUME NEW p \in Admins, UpsertMeshGroup(p) \/ AddMeshProbe(p) PROVE Kind(p)
    <2>1. req[p].pc # "note" /\ (Refuse(p) \/ Commit(p)) /\ Writes(p)
        BY <1>10 DEF UpsertMeshGroup, AddMeshProbe, Writes
    <2> QED
        BY <1>1, <2>1
<1>11. ASSUME NEW p \in Admins,
              \/ AddMeshMember(p) \/ CommitMember(p) \/ CommitProbe(p)
              \/ CommitMeshDelete(p) \/ EnrollNewAgent(p)
       PROVE  Kind(p)
    BY <1>11 DEF AddMeshMember, CommitMember, CommitProbe, CommitMeshDelete, EnrollNewAgent, Writes
<1> HIDE DEF Kind
<1>12. FillBegin \/ setIfCurrent \/ Expire \/ \E p \in Admins : Kind(p) \/ noteConfigWrite(p)
    BY <1>3, <1>4, <1>5, <1>6, <1>7, <1>8, <1>9, <1>10, <1>11 DEF MeshNext
<1> QED
    BY <1>12 DEF Kind

-----------------------------------------------------------------------------
Announcing == {p \in Admins : req[p].pc = "note" /\ ~req[p].body.cli}

CacheInv ==
    /\ DOMAIN req = Admins
    /\ DOMAIN cache = {"valid", "behind"} /\ DOMAIN fill = {"pc", "same", "behind"}
    /\ cache.valid => cache.behind \subseteq Announcing
    /\ fill.pc # "idle" /\ fill.same => fill.behind \subseteq Announcing

(* Whatever fills, commits and invalidations overlap, the cache of the      *)
(* enabled probe ids lacks only changes whose request is about to           *)
(* invalidate it (configCache.setIfCurrent, noteConfigWrite).               *)
THEOREM CacheFreshAlways == MeshSpec => []CacheFresh
<1>1. MeshInit => CacheInv
    BY DEF MeshInit, CacheInv
<1>2. ASSUME CacheInv, FillBegin \/ setIfCurrent \/ Expire PROVE CacheInv'
    <2>1. UNCHANGED req /\ Announcing' = Announcing
        BY <1>2 DEF FillBegin, setIfCurrent, Expire, Announcing
    <2>2. CASE FillBegin
        BY <1>2, <2>1, <2>2 DEF FillBegin, CacheInv
    <2>3. CASE setIfCurrent
        BY <1>2, <2>1, <2>3 DEF setIfCurrent, CacheInv
    <2>4. CASE Expire
        BY <1>2, <2>1, <2>4 DEF Expire, CacheInv
    <2> QED
        BY <1>2, <2>2, <2>3, <2>4
<1>3. ASSUME CacheInv, NEW p \in Admins, noteConfigWrite(p) PROVE CacheInv'
    <2>1. req' = [req EXCEPT ![p] = AtRest] /\ DOMAIN req' = Admins
        BY <1>3 DEF noteConfigWrite, Step, CacheInv
    <2>2. CASE req[p].body.cli
        <3>1. Announcing \subseteq Announcing'
            BY <1>3, <2>1, <2>2 DEF Announcing, CacheInv
        <3> QED
            BY <1>3, <2>1, <2>2, <3>1 DEF noteConfigWrite, Quiet, CacheInv
    <2>3. CASE ~req[p].body.cli
        BY <1>3, <2>1, <2>3 DEF noteConfigWrite, invalidate, CacheInv
    <2> QED
        BY <2>2, <2>3
<1>4. ASSUME CacheInv, NEW p \in Admins, req[p].pc # "note", NEW r, req' = [req EXCEPT ![p] = r]
      PROVE  Announcing \subseteq Announcing' /\ DOMAIN req' = Admins
    BY <1>4 DEF Announcing, CacheInv
<1>5. ASSUME CacheInv, NEW p \in Admins, req[p].pc # "note", Moves(p) PROVE CacheInv'
    BY <1>4, <1>5 DEF Moves, Quiet, CacheInv
<1>6. ASSUME CacheInv, NEW p \in Admins, req[p].pc # "note", Commit(p) PROVE CacheInv'
    <2>1. req' = [req EXCEPT ![p] = Ended(p)] /\ Behind(p)
        BY <1>6 DEF Commit, Step
    <2>2. Announcing \subseteq Announcing' /\ DOMAIN req' = Admins
        BY <1>4, <1>6, <2>1
    <2>3. ~req[p].body.cli => p \in Announcing'
        <3>1. Ended(p).pc = "note" /\ Ended(p).body = req[p].body
            BY DEF Ended, AtRest
        <3>2. req'[p] = Ended(p)
            BY <1>6, <2>1 DEF CacheInv
        <3> QED
            BY <3>1, <3>2 DEF Announcing
    <2>4. /\ DOMAIN cache' = DOMAIN cache /\ cache'.valid = cache.valid
          /\ cache'.behind = IF cache.valid /\ ~req[p].body.cli
                             THEN cache.behind \cup {p} ELSE cache.behind
        BY <1>6, <2>1 DEF Behind, CacheInv
    <2>5. /\ DOMAIN fill' = DOMAIN fill /\ fill'.pc = fill.pc /\ fill'.same = fill.same
          /\ fill'.behind = IF fill.pc # "idle" /\ ~req[p].body.cli
                            THEN fill.behind \cup {p} ELSE fill.behind
        BY <1>6, <2>1 DEF Behind, CacheInv
    <2> QED
        BY <1>6, <2>2, <2>3, <2>4, <2>5 DEF CacheInv
<1>7. ASSUME CacheInv, UNCHANGED meshVars PROVE CacheInv'
    BY <1>7 DEF meshVars, CacheInv, Announcing
<1>8. CacheInv /\ [MeshNext]_meshVars => CacheInv'
    BY <1>2, <1>3, <1>5, <1>6, <1>7, StepKinds
<1>9. CacheInv => CacheFresh
    BY DEF CacheInv, CacheFresh, Announcing
<1> QED
    BY <1>1, <1>8, <1>9, PTL DEF MeshSpec

(* A request writes only a mesh in its caller's scope, also when the mesh   *)
(* was deleted and its name taken again on another network after the scope  *)
(* was first compared (lockMesh, requireNetworkScopeName, probeInScope).    *)
THEOREM ScopedWriteAlways == MeshSpec => ScopedWrite
<1> DEFINE InItsScope(p) == (IF mesh.id = 0 THEN mesh'.plane ELSE mesh.plane) \in req[p].body.scope
           Scoped == \A p \in Admins :
                        req[p].pc # "idle" /\ req'[p] # req[p]
                           /\ <<mesh, members, tmpl>>' # <<mesh, members, tmpl>> => InItsScope(p)
<1> USE MeshAssumption
<1>1. ASSUME MeshInv, NEW p \in Admins, Writes(p),
             <<mesh, members, tmpl>>' # <<mesh, members, tmpl>>
      PROVE  InItsScope(p)
    <2>1. RequestOK(req[p])
        BY <1>1 DEF MeshInv
    <2>2. ASSUME req[p].mesh PROVE InItsScope(p)
        BY <2>1, <2>2 DEF RequestOK, InScope
    <2>3. CASE AddMeshMember(p) \/ AddMeshProbe(p)
        BY <2>1, <2>2, <2>3 DEF AddMeshMember, AddMeshProbe, RequestOK, HoldsItsRow
    <2>4. CASE CommitMember(p) \/ CommitMeshDelete(p)
        BY <2>1, <2>2, <2>4 DEF CommitMember, CommitMeshDelete, RequestOK, HoldsItsRow,
                                Cleaning, TemplateOps
    <2>5. CASE CommitProbe(p)
        <3>1. req[p].row /\ req[p].body.tmpl \in Existing
            BY <2>1, <2>5 DEF CommitProbe, RequestOK, HoldsItsRow, Cleaning, TemplateOps
        <3>2. mesh.id # 0
            BY <1>1, <3>1 DEF MeshInv, RowsOK
        <3> QED
            BY <2>1, <3>1, <3>2 DEF RequestOK, InScope
    <2>6. CASE UpsertMeshGroup(p)
        <3>1. /\ mesh.id = 0
              /\ mesh' = [id |-> created + 1,
                          plane |-> IF req[p].body.plane = "none"
                                    THEN Default ELSE req[p].body.plane]
            BY <1>1, <2>6 DEF UpsertMeshGroup, Refuse, rows
        <3> QED
            BY <2>1, <2>6, <3>1 DEF UpsertMeshGroup, RequestOK, InScope
    <2>7. CASE EnrollNewAgent(p)
        BY <1>1, <2>7 DEF EnrollNewAgent
    <2> QED
        BY <1>1, <2>3, <2>4, <2>5, <2>6, <2>7 DEF Writes
<1>2. ASSUME MeshInv, MeshNext PROVE Scoped
    <2> SUFFICES ASSUME NEW p \in Admins, req'[p] # req[p],
                        <<mesh, members, tmpl>>' # <<mesh, members, tmpl>>
                 PROVE  InItsScope(p)
        OBVIOUS
    <2>1. PICK q \in Admins : Writes(q) /\ Commit(q)
        BY <1>2, StepKinds DEF FillBegin, setIfCurrent, Expire, noteConfigWrite, Moves, rows
    <2>2. p = q
        BY <1>2, <2>1 DEF Commit, Step, MeshInv
    <2> QED
        BY <1>1, <1>2, <2>1, <2>2
<1>3. MeshInv /\ [MeshNext]_meshVars => [Scoped]_meshVars
    BY <1>2
<1> QED
    BY <1>3, MeshInvAlways, PTL DEF MeshSpec, ScopedWrite

(* No write leaves a template on a mesh of fewer than two members, and      *)
(* every series that a commit takes out of what agents run, and that was    *)
(* running when its request listed them, was in the list it cleaned         *)
(* (AddMeshProbe, RemoveMeshMember, cleanupSeries).                         *)
THEOREM NothingStrandedAlways == MeshSpec => NothingStranded
<1>1. ASSUME NEW x \in Running, x \notin Running', mesh' = mesh, agents' = agents
      PROVE  x[1] \notin Enabled' \/ x[2] \notin members' \/ x[3] \notin members'
    BY <1>1 DEF Running, expandMeshProbeIDs
<1>2. ASSUME NEW x \in Running PROVE x[1] \in Enabled /\ x[2] \in members /\ x[3] \in members
    BY DEF Running, expandMeshProbeIDs
<1>3. ASSUME MeshInv, NEW p \in Admins, Writes(p), Commit(p),
             NEW x \in (Running \ Running') \cap req[p].seen
      PROVE  x \in req[p].ids
    <2>1. RequestOK(req[p]) /\ req[p].pc \in Cleaning
        BY <1>3 DEF MeshInv, RequestOK, Counted
    <2>2. CASE CommitMember(p)
        <3>1. /\ req[p].body.op = "removeMember" /\ members' = members \ {req[p].body.site}
              /\ UNCHANGED <<mesh, tmpl, agents>> /\ Enabled' = Enabled
            BY <2>2 DEF CommitMember, Enabled
        <3>2. x[2] = req[p].body.site \/ x[3] = req[p].body.site
            BY <1>1, <1>2, <3>1
        <3> QED
            BY <2>1, <3>1, <3>2 DEF RequestOK, Counted
    <2>3. CASE CommitProbe(p)
        <3> DEFINE b == req[p].body
        <3>1. /\ b.op \in TemplateOps /\ UNCHANGED <<mesh, members, agents>>
              /\ tmpl' = [tmpl EXCEPT ![b.tmpl] = CASE b.op = "deleteProbe" -> "gone"
                                                    [] b.op = "updateProbe" /\ b.on -> "on"
                                                    [] OTHER -> "off"]
            BY <2>3 DEF CommitProbe, TemplateOps
        <3>2. DOMAIN tmpl = Templates /\ x[1] \in Enabled /\ x[1] \notin Enabled'
            BY <1>1, <1>2, <1>3, <3>1 DEF MeshInv, RowsOK
        <3>3. x[1] = b.tmpl /\ ~(b.op = "updateProbe" /\ b.on)
            BY <3>1, <3>2 DEF Enabled, TemplateOps
        <3> QED
            BY <2>1, <3>1, <3>3 DEF RequestOK, Counted
    <2>4. CASE CommitMeshDelete(p)
        BY <2>1, <2>4 DEF CommitMeshDelete, RequestOK, HoldsItsRow, Counted
    <2>5. CASE AddMeshMember(p) \/ AddMeshProbe(p) \/ UpsertMeshGroup(p) \/ EnrollNewAgent(p)
        BY <2>1, <2>5 DEF AddMeshMember, AddMeshProbe, UpsertMeshGroup, EnrollNewAgent, Cleaning
    <2> QED
        BY <1>3, <2>2, <2>3, <2>4, <2>5 DEF Writes
<1>4. ASSUME MeshInv, MeshNext PROVE LeavesCleaned
    <2> SUFFICES ASSUME NEW p \in Admins, req'[p] # req[p],
                        NEW x \in (Running \ Running') \cap req[p].seen
                 PROVE  x \in req[p].ids
        BY DEF LeavesCleaned
    <2>1. ~UNCHANGED rows
        BY DEF rows, Running, expandMeshProbeIDs, Enabled
    <2>2. PICK q \in Admins : Writes(q) /\ Commit(q)
        BY <1>4, <2>1, StepKinds DEF FillBegin, setIfCurrent, Expire, noteConfigWrite, Moves
    <2>3. p = q
        BY <1>4, <2>2 DEF Commit, Step, MeshInv
    <2> QED
        BY <1>3, <1>4, <2>2, <2>3
<1>5. MeshInv' => NoStrandedTemplate'
    BY DEF MeshInv, RowsOK
<1>6. MeshInv /\ MeshInv' /\ [MeshNext]_meshVars => [NoStrandedTemplate' /\ LeavesCleaned]_meshVars
    BY <1>4, <1>5
<1> QED
    BY <1>6, MeshInvAlways, PTL DEF MeshSpec, NothingStranded
-----------------------------------------------------------------------------
(* Places. *)

CallFields == {"op", "pc", "site", "net", "tok", "held", "shared", "swept"}
Deletes == {"deleteSite", "deleteNet"}
DoomedOf(c) == IF c.op = "deleteSite" THEN c.site ELSE c.net

\* Where a request is, and what it refers to: never a token.
CallPlace(c) ==
    /\ DOMAIN c = CallFields
    /\ c.site \notin Tokens /\ c.net \notin Tokens
    /\ c.pc \in {"sweep", "lock", "count", "drop"} => c.op \in Deletes
    /\ c.pc = "commit" => c.op = "enroll"
    /\ c.pc = "ensure" => c.op = "token"
    /\ c.op = "deleteToken" => c.pc = "token"
    /\ c.op = "enroll" => c.pc \in {"token", "insert", "commit"} /\ c.tok \in Tokens

\* The locks it has there.
CallLocks(c) ==
    /\ c.pc \in {"idle", "one", "ensure", "sweep", "token"} => c.held = {}
    /\ c.pc = "insert" => c.held = IF c.op = "enroll" THEN {c.tok} ELSE {}
    /\ c.pc = "commit" => c.held = {c.tok}
    /\ c.shared = IF c.pc = "commit" THEN {c.site, c.net} ELSE {}
    /\ c.pc = "lock" => c.held = c.swept
    /\ c.pc \in {"lock", "count", "drop"} => c.swept \subseteq Tokens /\ c.swept \subseteq c.held
    /\ c.pc \in {"count", "drop"} => DoomedOf(c) \in c.held /\ DoomedOf(c) # Absent

\* What it read and still relies on.
CallReads(c) ==
    /\ c.op = "enroll" /\ c.pc \in {"insert", "commit"} =>
          /\ toks[c.tok].state = "unused"
          /\ toks[c.tok].site = c.site /\ toks[c.tok].net = c.net
    /\ c.pc = "drop" => ~Referenced(DoomedOf(c), c.swept)

\* Places are no tokens, and a token that is there names two of them.
PlaceRowsOK ==
    /\ live \cap Tokens = {}
    /\ DOMAIN toks = Tokens
    /\ \A t \in Tokens :
          /\ DOMAIN toks[t] = {"state", "site", "net"}
          /\ toks[t].state \in {"unused", "used"} =>
                toks[t].site \in live /\ toks[t].net \in live

CallsExclude ==
    \A p, q \in Callers : p # q => call[p].held \cap (call[q].held \cup call[q].shared) = {}

PlacesInv ==
    /\ DOMAIN call = Callers /\ PlaceRowsOK /\ CallsExclude
    /\ \A p \in Callers : CallPlace(call[p]) /\ CallLocks(call[p]) /\ CallReads(call[p])

(* Two things at once, for any requests that overlap.  A deletion that has  *)
(* counted finds nothing that refers to its place when it drops it, and an  *)
(* enrollment finds its place there; and no two requests wait for each      *)
(* other (DeleteSite, DeleteNetwork, EnrollAgent, DeleteJoinToken).         *)
THEOREM PlacesSafe == PlacesSpec => [](NoOpaqueFailure /\ PlaceLockOrder)
<1> USE PlacesAssumption
<1>d. /\ deleteOrder[1] = "sweep" /\ AfterDelete("sweep") = "lock"
      /\ AfterDelete("lock") = "count"
    BY DEF deleteOrder, AfterDelete
<1>r. /\ DOMAIN Resting = CallFields /\ Resting.op = "none" /\ Resting.pc = "idle"
      /\ Resting.held = {} /\ Resting.shared = {} /\ Resting.swept = {}
      /\ Resting.site = Absent /\ Resting.net = Absent /\ Resting.tok = Absent
    BY DEF Resting, CallFields
<1>n. /\ Absent \notin Tokens
      /\ \A n \in Names \cup {"default"} : \A i : <<n, i>> \notin Tokens
    BY DEF Absent, Names
<1>w. ASSUME PlacesInv, NEW n \in Names \cup {"default"} PROVE Row(n) \notin Tokens
    <2>1. CASE \E r \in live : r[1] = n
        <3>1. Row(n) \in live
            BY <2>1 DEF Row
        <3> QED
            BY <1>w, <3>1 DEF PlacesInv, PlaceRowsOK
    <2>2. CASE ~\E r \in live : r[1] = n
        BY <1>n, <2>2 DEF Row
    <2> QED
        BY <2>1, <2>2
<1>o. CallPlace(Resting) /\ CallLocks(Resting) /\ CallReads(Resting)
    BY <1>r, <1>n DEF CallPlace, CallLocks, CallReads, Deletes
<1>1. PlacesInit => PlacesInv
    <2> SUFFICES ASSUME PlacesInit PROVE PlacesInv
        OBVIOUS
    <2>1. DOMAIN call = Callers /\ \A p \in Callers : call[p] = Resting
        BY DEF PlacesInit
    <2>2. live \cap Tokens = {}
        BY <1>n DEF PlacesInit, DefaultNet
    <2>3. PlaceRowsOK
        BY <2>2 DEF PlacesInit, PlaceRowsOK, NoToken
    <2> QED
        BY <1>r, <1>o, <2>1, <2>3 DEF PlacesInv, CallsExclude
\* A step of one request, with what it writes.
<1>2. ASSUME PlacesInv, NEW p \in Callers, NEW c, call' = [call EXCEPT ![p] = c],
             CallPlace(c), CallLocks(c),
             \A q \in Callers \ {p} : /\ c.held \cap (call[q].held \cup call[q].shared) = {}
                                      /\ call[q].held \cap c.shared = {},
             PlaceRowsOK', \A q \in Callers : CallReads(call[q])'
      PROVE  PlacesInv'
    <2>1. /\ DOMAIN call' = Callers /\ call'[p] = c
          /\ \A q \in Callers \ {p} : call'[q] = call[q]
        BY <1>2 DEF PlacesInv
    <2>2. CallsExclude'
        BY <1>2, <2>1 DEF PlacesInv, CallsExclude
    <2>3. ASSUME NEW q \in Callers PROVE CallPlace(call'[q]) /\ CallLocks(call'[q])
        BY <1>2, <2>1 DEF PlacesInv
    <2>4. \A q \in Callers : CallPlace(call[q])' /\ CallLocks(call[q])'
        BY <2>3 DEF CallPlace, CallLocks
    <2> QED
        BY <1>2, <2>1, <2>2, <2>4 DEF PlacesInv
\* A step that writes nothing.
<1>3. ASSUME PlacesInv, UNCHANGED tables
      PROVE  PlaceRowsOK'
    BY <1>3 DEF tables, PlacesInv, PlaceRowsOK
<1>4. ASSUME PlacesInv, NEW p \in Callers, NEW c, call' = [call EXCEPT ![p] = c],
             CallPlace(c), CallLocks(c), CallReads(c), UNCHANGED tables,
             \A q \in Callers \ {p} : /\ c.held \cap (call[q].held \cup call[q].shared) = {}
                                      /\ call[q].held \cap c.shared = {}
      PROVE  PlacesInv'
    <2>1. ASSUME NEW q \in Callers PROVE CallReads(call[q])'
        <3>1. CallReads(call'[q])
            BY <1>4 DEF PlacesInv
        <3>2. UNCHANGED <<live, toks, agentRows, meshRefs, target, direct>>
            BY <1>4 DEF tables
        <3> QED
            BY <3>1, <3>2 DEF CallReads, Referenced, TokensOf
    <2> QED
        BY <1>2, <1>3, <1>4, <2>1
<1>5. ASSUME PlacesInv, NEW p \in Callers, Abandon(p) PROVE PlacesInv'
    BY <1>4, <1>5, <1>o, <1>r DEF Abandon, Leave, Move
\* The end of a request that wrote.
<1>6. ASSUME PlacesInv, NEW p \in Callers, Leave(p), PlaceRowsOK',
             \A q \in Callers \ {p} : CallReads(call[q])'
      PROVE  PlacesInv'
    <2>1. call' = [call EXCEPT ![p] = Resting] /\ call'[p] = Resting
        BY <1>6 DEF Leave, Move, PlacesInv
    <2>2. CallReads(call[p])'
        BY <1>r, <2>1 DEF CallReads
    <2> QED
        BY <1>2, <1>6, <1>o, <1>r, <2>1, <2>2
<1>7. ASSUME PlacesInv, NEW p \in Callers, NEW c, Arrive(p, c), CallPlace(c),
             c.pc \in {"insert", "one", "sweep", "token", "ensure"}, c.held = {}, c.shared = {},
             c.pc = "insert" => c.op # "enroll"
      PROVE  PlacesInv'
    <2>1. CallLocks(c) /\ CallReads(c)
        BY <1>7 DEF CallLocks, CallReads
    <2> QED
        BY <1>4, <1>7, <2>1 DEF Arrive
<1>8. ASSUME PlacesInv, NEW p \in Callers, NEW op \in Inserts, Refer(p, op) PROVE PlacesInv'
    <2>1. PICK s \in SiteNames, n \in NetNames \cup {"default"} :
             Arrive(p, [Resting EXCEPT !.op = op, !.pc = "insert", !.site = Row(s), !.net = Row(n)])
        BY <1>8 DEF Refer
    <2> DEFINE c == [Resting EXCEPT !.op = op, !.pc = "insert", !.site = Row(s), !.net = Row(n)]
    <2>2. /\ DOMAIN c = CallFields /\ c.op = op /\ c.pc = "insert" /\ c.site = Row(s)
          /\ c.net = Row(n) /\ c.held = {} /\ c.shared = {}
        BY DEF Resting, CallFields
    <2>3. Row(s) \notin Tokens /\ Row(n) \notin Tokens
        BY <1>8, <1>w DEF Names
    <2> HIDE DEF c
    <2>4. op # "enroll" /\ op # "deleteToken"
        BY DEF Inserts
    <2>5. CallPlace(c)
        BY <2>2, <2>3, <2>4 DEF CallPlace
    <2> QED
        BY <1>7, <1>8, <2>1, <2>2, <2>4, <2>5 DEF c
<1>9. ASSUME PlacesInv, NEW p \in Callers,
             NEW op \in {"createSite", "createNet", "target", "dropTarget"}, Single(p, op)
      PROVE  PlacesInv'
    <2> DEFINE c == [Resting EXCEPT !.op = op, !.pc = "one"]
    <2>1. /\ DOMAIN c = CallFields /\ c.op = op /\ c.pc = "one" /\ c.site = Absent
          /\ c.net = Absent /\ c.held = {} /\ c.shared = {}
        BY DEF Resting, CallFields
    <2>2. Arrive(p, c)
        BY <1>9 DEF Single
    <2> HIDE DEF c
    <2>3. CallPlace(c)
        BY <1>n, <2>1 DEF CallPlace
    <2> QED
        BY <1>7, <1>9, <2>1, <2>2, <2>3
<1>10. ASSUME PlacesInv, NEW p \in Callers, NEW op \in {"deleteToken", "enroll"}, Present(p, op)
       PROVE  PlacesInv'
    <2>1. PICK t \in Tokens : Arrive(p, [Resting EXCEPT !.op = op, !.pc = "token", !.tok = t])
        BY <1>10 DEF Present
    <2> DEFINE c == [Resting EXCEPT !.op = op, !.pc = "token", !.tok = t]
    <2>2. /\ DOMAIN c = CallFields /\ c.op = op /\ c.pc = "token" /\ c.site = Absent
          /\ c.net = Absent /\ c.tok = t /\ c.held = {} /\ c.shared = {}
        BY DEF Resting, CallFields
    <2> HIDE DEF c
    <2>3. CallPlace(c)
        BY <1>n, <2>2 DEF CallPlace
    <2> QED
        BY <1>7, <1>10, <2>1, <2>2, <2>3 DEF c
<1>11. ASSUME PlacesInv, NEW p \in Callers, handleSiteConfigDelete(p) \/ handleNetworkDelete(p)
       PROVE  PlacesInv'
    <2>1. PICK c :
             /\ Arrive(p, c) /\ DOMAIN c = CallFields /\ c.op \in Deletes /\ c.pc = "sweep"
             /\ \E n \in Names : c.site \in {Row(n), Absent} /\ c.net \in {Row(n), Absent}
             /\ c.held = {} /\ c.shared = {}
        <3>1. CASE handleSiteConfigDelete(p)
            <4>1. PICK s \in SiteNames :
                     Arrive(p, [Resting EXCEPT !.op = "deleteSite", !.pc = "sweep", !.site = Row(s)])
                BY <1>d, <3>1 DEF handleSiteConfigDelete
            <4> DEFINE c == [Resting EXCEPT !.op = "deleteSite", !.pc = "sweep", !.site = Row(s)]
            <4>2. /\ DOMAIN c = CallFields /\ c.op = "deleteSite" /\ c.pc = "sweep"
                  /\ c.site = Row(s) /\ c.net = Absent /\ c.held = {} /\ c.shared = {}
                BY DEF Resting, CallFields
            <4> QED
                BY <4>1, <4>2 DEF Names, Deletes
        <3>2. CASE handleNetworkDelete(p)
            <4>1. PICK s \in NetNames :
                     Arrive(p, [Resting EXCEPT !.op = "deleteNet", !.pc = "sweep", !.net = Row(s)])
                BY <1>d, <3>2 DEF handleNetworkDelete
            <4> DEFINE c == [Resting EXCEPT !.op = "deleteNet", !.pc = "sweep", !.net = Row(s)]
            <4>2. /\ DOMAIN c = CallFields /\ c.op = "deleteNet" /\ c.pc = "sweep"
                  /\ c.site = Absent /\ c.net = Row(s) /\ c.held = {} /\ c.shared = {}
                BY DEF Resting, CallFields
            <4> QED
                BY <4>1, <4>2 DEF Names, Deletes
        <3> QED
            BY <1>11, <3>1, <3>2
    <2>2. CallPlace(c)
        BY <1>11, <1>n, <1>w, <2>1 DEF CallPlace, Deletes
    <2> QED
        BY <1>7, <1>11, <2>1, <2>2
<1>12. ASSUME PlacesInv, NEW p \in Callers, cmdToken(p) PROVE PlacesInv'
    <2>1. PICK n \in NetNames \cup {"default"} :
             Arrive(p, [Resting EXCEPT !.op = "token", !.pc = "ensure", !.net = Row(n)])
        BY <1>12 DEF cmdToken
    <2> DEFINE c == [Resting EXCEPT !.op = "token", !.pc = "ensure", !.net = Row(n)]
    <2>2. /\ DOMAIN c = CallFields /\ c.op = "token" /\ c.pc = "ensure" /\ c.site = Absent
          /\ c.net = Row(n) /\ c.held = {} /\ c.shared = {}
        BY DEF Resting, CallFields
    <2> HIDE DEF c
    <2>3. CallPlace(c)
        BY <1>12, <1>n, <1>w, <2>2 DEF CallPlace, Names
    <2> QED
        BY <1>7, <1>12, <2>1, <2>2, <2>3 DEF c
\* Places come.
<1>13. ASSUME PlacesInv, NEW n \in Names, live' = live \cup {<<n, born[n] + 1>>},
              UNCHANGED <<toks, agentRows, meshRefs, target, direct>>
       PROVE  PlaceRowsOK'
    BY <1>13, <1>n DEF PlacesInv, PlaceRowsOK
<1>14. ASSUME PlacesInv, NEW p \in Callers, CreatePlace(p) PROVE PlacesInv'
    <2>1. CASE Abandon(p)
        BY <1>5, <1>14, <2>1
    <2>2. CASE ~Abandon(p)
        <3>1. PICK n \in Names : /\ live' = live \cup {<<n, born[n] + 1>>} /\ Leave(p)
                                 /\ UNCHANGED <<toks, agentRows, meshRefs, target, direct>>
            BY <1>14, <2>2 DEF CreatePlace, Names
        <3>2. PlaceRowsOK'
            BY <1>13, <1>14, <3>1
        <3>3. ASSUME NEW q \in Callers \ {p} PROVE CallReads(call[q])'
            <4>1. call'[q] = call[q] /\ CallReads(call[q])
                BY <1>14, <3>1 DEF PlacesInv, Leave, Move
            <4> QED
                BY <3>1, <4>1 DEF CallReads, Referenced, TokensOf
        <3> QED
            BY <1>6, <1>14, <3>1, <3>2, <3>3
    <2> QED
        BY <2>1, <2>2
<1>15. ASSUME PlacesInv, NEW p \in Callers, EnsureSite(p) PROVE PlacesInv'
    <2>0. /\ call[p].pc = "ensure" /\ call[p].op = "token" /\ DOMAIN call[p] = CallFields
          /\ call[p].held = {} /\ call[p].shared = {} /\ call[p].net \notin Tokens
        BY <1>15 DEF EnsureSite, PlacesInv, CallPlace, CallLocks
    <2>1. PICK n \in SiteNames :
             \/ Move(p, [call[p] EXCEPT !.pc = "insert", !.site = Row(n)]) /\ UNCHANGED tables
             \/ /\ live' = live \cup {<<n, born[n] + 1>>}
                /\ Move(p, [call[p] EXCEPT !.pc = "insert", !.site = <<n, born[n] + 1>>])
                /\ UNCHANGED <<toks, agentRows, meshRefs, target, direct>>
        BY <1>15 DEF EnsureSite
    <2>2. ASSUME NEW s, s \notin Tokens
          PROVE  LET c == [call[p] EXCEPT !.pc = "insert", !.site = s]
                 IN  /\ CallPlace(c) /\ CallLocks(c) /\ CallReads(c)
                     /\ c.pc = "insert" /\ c.op = "token" /\ c.held = {} /\ c.shared = {}
        <3> DEFINE c == [call[p] EXCEPT !.pc = "insert", !.site = s]
        <3>1. /\ DOMAIN c = CallFields /\ c.pc = "insert" /\ c.op = "token" /\ c.site = s
              /\ c.net = call[p].net /\ c.held = {} /\ c.shared = {}
            BY <2>0 DEF CallFields
        <3> HIDE DEF c
        <3>2. /\ CallPlace(c) /\ CallLocks(c) /\ CallReads(c)
              /\ c.held = {} /\ c.shared = {}
            BY <2>0, <2>2, <3>1 DEF CallPlace, CallLocks, CallReads
        <3> QED
            BY <3>1, <3>2 DEF c
    <2>3. CASE Move(p, [call[p] EXCEPT !.pc = "insert", !.site = Row(n)]) /\ UNCHANGED tables
        <3>1. Row(n) \notin Tokens
            BY <1>15, <1>w DEF Names
        <3> DEFINE c == [call[p] EXCEPT !.pc = "insert", !.site = Row(n)]
        <3>2. CallPlace(c) /\ CallLocks(c) /\ CallReads(c) /\ c.held = {} /\ c.shared = {}
            BY <2>2, <3>1
        <3>3. call' = [call EXCEPT ![p] = c] /\ UNCHANGED tables
            BY <2>3 DEF Move
        <3> HIDE DEF c
        <3> QED
            BY <1>4, <1>15, <3>2, <3>3
    <2>4. CASE /\ live' = live \cup {<<n, born[n] + 1>>}
               /\ Move(p, [call[p] EXCEPT !.pc = "insert", !.site = <<n, born[n] + 1>>])
               /\ UNCHANGED <<toks, agentRows, meshRefs, target, direct>>
        <3> DEFINE s == <<n, born[n] + 1>>
                   c == [call[p] EXCEPT !.pc = "insert", !.site = s]
        <3>1. s \notin Tokens /\ n \in Names
            BY <1>n DEF Names
        <3> HIDE DEF s
        <3>2. CallPlace(c) /\ CallLocks(c) /\ CallReads(c) /\ c.held = {} /\ c.shared = {}
            BY <2>2, <3>1
        <3>3. call' = [call EXCEPT ![p] = c]
            BY <2>4 DEF Move, s
        <3> HIDE DEF c
        <3>4. PlaceRowsOK'
            BY <1>13, <1>15, <2>4, <3>1
        <3>5. ASSUME NEW q \in Callers PROVE CallReads(call[q])'
            <4>1. CallReads(call'[q])
                BY <1>15, <3>2, <3>3 DEF PlacesInv
            <4> QED
                BY <2>4, <4>1 DEF CallReads, Referenced, TokensOf
        <3> QED
            BY <1>2, <1>15, <3>2, <3>3, <3>4, <3>5
    <2> QED
        BY <2>1, <2>3, <2>4
\* References come and go.
<1>16. ASSUME PlacesInv, NEW p \in Callers, InsertReference(p) PROVE PlacesInv'
    <2> DEFINE c == call[p]
    <2>1. CASE Abandon(p)
        BY <1>5, <1>16, <2>1
    <2>2. CASE ~Abandon(p)
        <3>1. /\ c.pc = "insert" /\ c.op \in Inserts /\ HeldUp(p) = {}
              /\ Needs(c) \subseteq live /\ Leave(p)
            BY <1>16, <2>2 DEF InsertReference
        <3>2. \A q \in Callers \ {p}, r \in Needs(c) : r \notin call[q].held
            BY <3>1 DEF HeldUp, keepsOut
        <3>3. ASSUME NEW q \in Callers \ {p}
              PROVE  /\ call'[q] = call[q] /\ CallPlace(call[q]) /\ CallReads(call[q])
                     /\ call[q].pc = "drop" => DoomedOf(call[q]) \notin Needs(c)
            BY <1>16, <3>1, <3>2 DEF PlacesInv, CallLocks, Leave, Move
        <3>4. CASE c.op = "token"
            <4>1. Needs(c) = {c.site, c.net}
                BY <3>4 DEF Needs
            <4>2. PICK t \in Tokens :
                     /\ toks[t].state = "none"
                     /\ toks' = [toks EXCEPT ![t] = [state |-> "unused", site |-> c.site, net |-> c.net]]
                     /\ UNCHANGED <<live, agentRows, meshRefs, target, direct>>
                BY <1>16, <2>2, <3>4 DEF InsertReference
            <4>3. /\ DOMAIN toks' = Tokens
                  /\ toks'[t] = [state |-> "unused", site |-> c.site, net |-> c.net]
                  /\ \A u \in Tokens \ {t} : toks'[u] = toks[u]
                BY <1>16, <4>2 DEF PlacesInv, PlaceRowsOK
            <4>4. PlaceRowsOK'
                BY <1>16, <3>1, <4>1, <4>2, <4>3 DEF PlacesInv, PlaceRowsOK
            <4>5. ASSUME NEW q \in Callers \ {p} PROVE CallReads(call[q])'
                <5>1. \A r : r \notin Needs(c) => TokensOf(r)' \subseteq TokensOf(r)
                    BY <4>1, <4>2, <4>3 DEF TokensOf
                <5> QED
                    BY <3>3, <4>2, <4>3, <5>1 DEF CallReads, CallPlace, Referenced
            <4> QED
                BY <1>6, <1>16, <3>1, <4>4, <4>5
        <3>5. CASE c.op \in {"member", "mesh"}
            <4>1. /\ meshRefs' = meshRefs \cup Needs(c)
                  /\ UNCHANGED <<live, toks, agentRows, target, direct>>
                BY <1>16, <2>2, <3>5 DEF InsertReference
            <4>2. PlaceRowsOK'
                BY <1>16, <4>1 DEF PlacesInv, PlaceRowsOK
            <4>3. ASSUME NEW q \in Callers \ {p} PROVE CallReads(call[q])'
                BY <3>3, <4>1 DEF CallReads, Referenced, TokensOf
            <4> QED
                BY <1>6, <1>16, <3>1, <4>2, <4>3
        <3>6. CASE c.op = "direct"
            <4>1. /\ direct' = direct \cup {[site |-> c.site, net |-> c.net]}
                  /\ UNCHANGED <<live, toks, agentRows, meshRefs, target>>
                BY <1>16, <2>2, <3>6 DEF InsertReference
            <4>2. PlaceRowsOK'
                BY <1>16, <4>1 DEF PlacesInv, PlaceRowsOK
            <4>3. ASSUME NEW q \in Callers \ {p} PROVE CallReads(call[q])'
                <5>1. Needs(c) = {c.site, c.net}
                    BY <3>6 DEF Needs
                <5>2. \A d \in direct' : d \in direct \/ {d.site, d.net} = Needs(c)
                    BY <4>1, <5>1
                <5> QED
                    BY <3>3, <4>1, <5>2 DEF CallReads, Referenced, TokensOf
            <4> QED
                BY <1>6, <1>16, <3>1, <4>2, <4>3
        <3> QED
            BY <3>1, <3>4, <3>5, <3>6 DEF Inserts
    <2> QED
        BY <2>1, <2>2
<1>17. ASSUME PlacesInv, NEW p \in Callers, UpsertExternalTarget(p) \/ DeleteTarget(p)
       PROVE  PlacesInv'
    <2>1. Leave(p) /\ UNCHANGED <<live, toks, agentRows, meshRefs, direct>>
        BY <1>17 DEF UpsertExternalTarget, DeleteTarget
    <2>2. \/ target' \in {target, Absent}
          \/ \A q \in Callers \ {p} : target' \notin call[q].held
        BY <1>17 DEF UpsertExternalTarget, DeleteTarget, keepsOut
    <2>3. PlaceRowsOK'
        BY <1>17, <2>1 DEF PlacesInv, PlaceRowsOK
    <2>4. ASSUME NEW q \in Callers \ {p} PROVE CallReads(call[q])'
        <3>1. /\ call'[q] = call[q] /\ CallReads(call[q])
              /\ call[q].pc = "drop" => DoomedOf(call[q]) \in call[q].held /\ DoomedOf(call[q]) # Absent
            BY <1>17, <2>1 DEF PlacesInv, CallLocks, Leave, Move
        <3> QED
            BY <2>1, <2>2, <3>1 DEF CallReads, Referenced, TokensOf
    <2> QED
        BY <1>6, <1>17, <2>1, <2>3, <2>4
\* Tokens change state, or are locked.
<1>18. ASSUME PlacesInv, NEW q \in Callers PROVE call[q].shared \cap Tokens = {}
    <2>1. CallPlace(call[q]) /\ CallLocks(call[q])
        BY <1>18 DEF PlacesInv
    <2>2. CASE call[q].pc = "commit"
        BY <2>1, <2>2 DEF CallPlace, CallLocks
    <2>3. CASE call[q].pc # "commit"
        BY <2>1, <2>3 DEF CallLocks
    <2> QED
        BY <2>2, <2>3
<1>19. ASSUME PlacesInv, NEW p \in Callers, DeleteJoinToken(p) PROVE PlacesInv'
    <2> DEFINE t == call[p].tok
    <2>1. /\ HeldUp(p) = {} /\ call[p].pc = "token" /\ Leave(p)
          /\ toks' = [toks EXCEPT ![t].state = IF @ = "unused" THEN "gone" ELSE @]
          /\ UNCHANGED <<live, agentRows, meshRefs, target, direct>>
        BY <1>19 DEF DeleteJoinToken, PlacesInv, CallPlace
    <2>2. \A x \in Callers \ {p} : t \notin call[x].held
        BY <2>1 DEF HeldUp
    <2>3. DOMAIN toks = Tokens /\ \A u \in Tokens : DOMAIN toks[u] = {"state", "site", "net"}
        BY <1>19 DEF PlacesInv, PlaceRowsOK
    <2>4. /\ DOMAIN toks' = Tokens
          /\ \A u \in Tokens : /\ u # t => toks'[u] = toks[u]
                               /\ DOMAIN toks'[u] = {"state", "site", "net"}
                               /\ toks'[u].site = toks[u].site /\ toks'[u].net = toks[u].net
                               /\ toks'[u].state \in {"unused", "used"} => toks'[u].state = toks[u].state
        BY <2>1, <2>3
    <2>5. PlaceRowsOK'
        BY <1>19, <2>1, <2>4 DEF PlacesInv, PlaceRowsOK
    <2>6. ASSUME NEW q \in Callers \ {p} PROVE CallReads(call[q])'
        <3>1. call'[q] = call[q] /\ CallReads(call[q]) /\ CallPlace(call[q])
            BY <1>19, <2>1 DEF PlacesInv, Leave, Move
        <3>2. call[q].op = "enroll" /\ call[q].pc \in {"insert", "commit"} => call[q].tok # t
            BY <1>19, <2>2, <3>1 DEF PlacesInv, CallLocks
        <3>3. \A r : TokensOf(r)' \subseteq TokensOf(r)
            BY <2>4 DEF TokensOf
        <3> QED
            BY <2>1, <2>4, <3>1, <3>2, <3>3 DEF CallReads, CallPlace, Referenced
    <2> QED
        BY <1>6, <1>19, <2>1, <2>5, <2>6
\* Enrollment.
<1>20. ASSUME PlacesInv, NEW p \in Callers, EnrollLocks(p) PROVE PlacesInv'
    <2> DEFINE t == call[p].tok
    <2>1. /\ call[p].op = "enroll" /\ call[p].pc = "token" /\ HeldUp(p) = {}
          /\ DOMAIN call[p] = CallFields /\ t \in Tokens /\ call[p].shared = {}
        BY <1>20 DEF EnrollLocks, PlacesInv, CallPlace, CallLocks
    <2>2. CASE toks[t].state = "unused"
        <3> DEFINE c == [call[p] EXCEPT !.pc = "insert", !.held = {t},
                           !.site = toks[t].site, !.net = toks[t].net]
        <3>1. /\ DOMAIN c = CallFields /\ c.op = "enroll" /\ c.pc = "insert" /\ c.tok = t
              /\ c.held = {t} /\ c.shared = {} /\ c.site = toks[t].site /\ c.net = toks[t].net
            BY <2>1 DEF CallFields
        <3>2. call' = [call EXCEPT ![p] = c] /\ UNCHANGED tables
            BY <1>20, <2>2 DEF EnrollLocks, Move
        <3> HIDE DEF c
        <3>3. toks[t].site \notin Tokens /\ toks[t].net \notin Tokens
            BY <1>20, <2>1, <2>2 DEF PlacesInv, PlaceRowsOK
        <3>4. CallPlace(c) /\ CallLocks(c) /\ CallReads(c)
            BY <2>1, <2>2, <3>1, <3>3 DEF CallPlace, CallLocks, CallReads
        <3>5. \A q \in Callers \ {p} : t \notin call[q].held
            BY <2>1 DEF HeldUp
        <3>6. \A q \in Callers : t \notin call[q].shared
            BY <1>18, <1>20, <2>1
        <3>7. \A q \in Callers \ {p} : /\ c.held \cap (call[q].held \cup call[q].shared) = {}
                                       /\ call[q].held \cap c.shared = {}
            BY <3>1, <3>5, <3>6
        <3> QED
            BY <1>4, <1>20, <3>2, <3>4, <3>7
    <2>3. CASE toks[t].state # "unused"
        BY <1>5, <1>20, <2>3 DEF EnrollLocks
    <2> QED
        BY <2>2, <2>3
<1>21. ASSUME PlacesInv, NEW p \in Callers, EnrollInserts(p) PROVE PlacesInv'
    <2>1. /\ call[p].op = "enroll" /\ call[p].pc = "insert" /\ HeldUp(p) = {}
          /\ CallPlace(call[p]) /\ CallLocks(call[p]) /\ CallReads(call[p])
        BY <1>21 DEF EnrollInserts, PlacesInv
    <2> DEFINE c == [call[p] EXCEPT !.pc = "commit", !.shared = {call[p].site, call[p].net}]
    <2>2. /\ DOMAIN c = CallFields /\ c.op = "enroll" /\ c.pc = "commit" /\ c.tok = call[p].tok
          /\ c.held = call[p].held /\ c.shared = {c.site, c.net}
          /\ c.site = call[p].site /\ c.net = call[p].net
        BY <2>1 DEF CallFields, CallPlace
    <2>3. call' = [call EXCEPT ![p] = c] /\ UNCHANGED tables
        BY <1>21 DEF EnrollInserts, Move
    <2> HIDE DEF c
    <2>4. CallPlace(c) /\ CallLocks(c) /\ CallReads(c)
        BY <2>1, <2>2 DEF CallPlace, CallLocks, CallReads
    <2>5. \A q \in Callers \ {p} : call[q].held \cap c.shared = {}
        <3>1. Needs(call[p]) = c.shared
            BY <2>1, <2>2 DEF Needs
        <3> QED
            BY <2>1, <3>1 DEF HeldUp, keepsOut
    <2>6. \A q \in Callers \ {p} : c.held \cap (call[q].held \cup call[q].shared) = {}
        BY <1>21, <2>2 DEF PlacesInv, CallsExclude
    <2> QED
        BY <1>4, <1>21, <2>3, <2>4, <2>5, <2>6
<1>22. ASSUME PlacesInv, NEW p \in Callers, EnrollCommits(p) PROVE PlacesInv'
    <2> DEFINE t == call[p].tok
               a == [tok |-> t, site |-> call[p].site, net |-> call[p].net]
    <2>1. /\ CallPlace(call[p]) /\ CallLocks(call[p]) /\ CallReads(call[p])
          /\ call[p].op = "enroll" /\ call[p].pc = "commit" /\ Leave(p)
          /\ toks' = [toks EXCEPT ![t].state = "used"] /\ agentRows' = agentRows \cup {a}
          /\ UNCHANGED <<live, meshRefs, target, direct>>
        BY <1>22 DEF EnrollCommits, PlacesInv
    <2>2. DOMAIN toks = Tokens /\ \A u \in Tokens : DOMAIN toks[u] = {"state", "site", "net"}
        BY <1>22 DEF PlacesInv, PlaceRowsOK
    <2>3. /\ DOMAIN toks' = Tokens /\ t \in Tokens /\ toks[t].state = "unused"
          /\ \A u \in Tokens : /\ u # t => toks'[u] = toks[u]
                               /\ DOMAIN toks'[u] = {"state", "site", "net"}
                               /\ toks'[u].site = toks[u].site /\ toks'[u].net = toks[u].net
        BY <2>1, <2>2 DEF CallReads, CallPlace
    <2>4. PlaceRowsOK'
        BY <1>22, <2>1, <2>3 DEF PlacesInv, PlaceRowsOK
    <2>5. ASSUME NEW q \in Callers \ {p} PROVE CallReads(call[q])'
        <3>1. /\ call'[q] = call[q] /\ CallReads(call[q]) /\ CallPlace(call[q]) /\ CallLocks(call[q])
              /\ call[q].held \cap {t, call[p].site, call[p].net} = {}
            BY <1>22, <2>1 DEF PlacesInv, CallsExclude, CallLocks, Leave, Move
        <3>2. call[q].op = "enroll" /\ call[q].pc \in {"insert", "commit"} => call[q].tok # t
            BY <3>1 DEF CallLocks
        <3>3. \A r : TokensOf(r)' \subseteq TokensOf(r)
            BY <2>3 DEF TokensOf
        <3>4. call[q].pc = "drop" =>
                 \A b \in agentRows' : DoomedOf(call[q]) \in {b.site, b.net} => b \in agentRows
            BY <2>1, <3>1 DEF CallLocks
        <3> QED
            BY <2>1, <2>3, <3>1, <3>2, <3>3, <3>4 DEF CallReads, CallPlace, Referenced
    <2> QED
        BY <1>6, <1>22, <2>1, <2>4, <2>5
\* The deletions.
<1>23. ASSUME PlacesInv, NEW p \in Callers, SweepTokens(p) PROVE PlacesInv'
    <2> DEFINE S == Sweepable(Doomed(p))
               c == [call[p] EXCEPT !.pc = "lock", !.held = @ \cup S, !.swept = S]
    <2>1. /\ call[p].pc = "sweep" /\ HeldUp(p) = {} /\ S \subseteq Tokens
          /\ CallPlace(call[p]) /\ CallLocks(call[p])
        BY <1>23 DEF SweepTokens, PlacesInv, Sweepable, TokensOf
    <2>2. call' = [call EXCEPT ![p] = c] /\ UNCHANGED tables
        BY <1>23, <1>d DEF SweepTokens, Move
    <2>3. \A q \in Callers \ {p} : S \cap call[q].held = {}
        BY <2>1 DEF HeldUp
    <2>4. \A q \in Callers \ {p} : S \cap call[q].shared = {}
        BY <1>18, <1>23, <2>1
    <2> HIDE DEF S
    <2>5. /\ DOMAIN c = CallFields /\ c.op = call[p].op /\ c.pc = "lock" /\ c.swept = S
          /\ c.held = S /\ c.shared = {} /\ c.site = call[p].site /\ c.net = call[p].net
        BY <2>1 DEF CallFields, CallPlace, CallLocks
    <2> HIDE DEF c
    <2>6. CallPlace(c) /\ CallLocks(c) /\ CallReads(c)
        BY <2>1, <2>5 DEF CallPlace, CallLocks, CallReads, Deletes
    <2> QED
        BY <1>4, <1>23, <2>2, <2>3, <2>4, <2>5, <2>6
<1>24. ASSUME NEW p \in Callers PROVE Doomed(p) = DoomedOf(call[p])
    BY DEF Doomed, DoomedOf
<1>25. ASSUME PlacesInv, NEW p \in Callers, LockPlace(p) PROVE PlacesInv'
    <2> DEFINE r == DoomedOf(call[p])
               c == [call[p] EXCEPT !.pc = "count", !.held = @ \cup {r}]
    <2>1. /\ call[p].pc = "lock" /\ HeldUp(p) = {} /\ r # Absent
          /\ CallPlace(call[p]) /\ CallLocks(call[p])
        BY <1>24, <1>25 DEF LockPlace, PlacesInv
    <2>2. call' = [call EXCEPT ![p] = c] /\ UNCHANGED tables
        BY <1>24, <1>25, <1>d DEF LockPlace, Move
    <2>3. \A q \in Callers \ {p} : r \notin call[q].held \cup call[q].shared
        BY <1>24, <2>1 DEF HeldUp
    <2>4. /\ DOMAIN c = CallFields /\ c.op = call[p].op /\ c.pc = "count"
          /\ c.swept = call[p].swept /\ c.held = call[p].held \cup {r} /\ c.shared = {}
          /\ c.site = call[p].site /\ c.net = call[p].net
        BY <2>1 DEF CallFields, CallPlace, CallLocks
    <2>5. DoomedOf(c) = r
        BY <2>4 DEF DoomedOf
    <2> HIDE DEF c, r
    <2>6. CallPlace(c) /\ CallLocks(c) /\ CallReads(c)
        BY <2>1, <2>4, <2>5 DEF CallPlace, CallLocks, CallReads, Deletes
    <2>7. \A q \in Callers \ {p} : c.held \cap (call[q].held \cup call[q].shared) = {}
        BY <1>25, <2>3, <2>4 DEF PlacesInv, CallsExclude
    <2> QED
        BY <1>4, <1>25, <2>2, <2>4, <2>6, <2>7
<1>26. ASSUME PlacesInv, NEW p \in Callers, CountReferences(p) PROVE PlacesInv'
    <2>1. CASE Referenced(Doomed(p), call[p].swept)
        BY <1>5, <1>26, <2>1 DEF CountReferences
    <2>2. CASE ~Referenced(Doomed(p), call[p].swept)
        <3> DEFINE c == [call[p] EXCEPT !.pc = "drop"]
        <3>1. call[p].pc = "count" /\ CallPlace(call[p]) /\ CallLocks(call[p])
            BY <1>26 DEF CountReferences, PlacesInv
        <3>2. /\ DOMAIN c = CallFields /\ c.op = call[p].op /\ c.pc = "drop"
              /\ c.swept = call[p].swept /\ c.held = call[p].held /\ c.shared = {}
              /\ c.site = call[p].site /\ c.net = call[p].net
            BY <3>1 DEF CallFields, CallPlace, CallLocks
        <3>3. call' = [call EXCEPT ![p] = c] /\ UNCHANGED tables
            BY <1>26, <2>2 DEF CountReferences, Move
        <3> HIDE DEF c
        <3>4. DoomedOf(c) = DoomedOf(call[p]) /\ DoomedOf(c) = Doomed(p)
            BY <1>24, <3>2 DEF DoomedOf
        <3>5. CallPlace(c) /\ CallLocks(c) /\ CallReads(c)
            BY <2>2, <3>1, <3>2, <3>4 DEF CallPlace, CallLocks, CallReads, Deletes
        <3>6. \A q \in Callers \ {p} : c.held \cap (call[q].held \cup call[q].shared) = {}
            BY <1>26, <3>2 DEF PlacesInv, CallsExclude
        <3> QED
            BY <1>4, <1>26, <3>2, <3>3, <3>5, <3>6
    <2> QED
        BY <2>1, <2>2
<1>27. ASSUME PlacesInv, NEW p \in Callers, DropPlace(p) PROVE PlacesInv'
    <2> DEFINE r == DoomedOf(call[p])
               S == call[p].swept
    <2>1. /\ call[p].pc = "drop" /\ Leave(p) /\ live' = live \ {r}
          /\ toks' = [t \in Tokens |-> IF t \in S THEN [toks[t] EXCEPT !.state = "gone"] ELSE toks[t]]
          /\ UNCHANGED <<agentRows, meshRefs, target, direct>>
        BY <1>24, <1>27 DEF DropPlace
    <2>2. /\ ~Referenced(r, S) /\ S \subseteq call[p].held
        BY <1>27, <2>1 DEF PlacesInv, CallReads, CallLocks
    <2> HIDE DEF r, S
    <2>3. /\ DOMAIN toks = Tokens /\ \A u \in Tokens : DOMAIN toks[u] = {"state", "site", "net"}
        BY <1>27 DEF PlacesInv, PlaceRowsOK
    <2>4. /\ DOMAIN toks' = Tokens
          /\ \A u \in Tokens : /\ u \notin S => toks'[u] = toks[u]
                               /\ u \in S => toks'[u].state = "gone"
                               /\ DOMAIN toks'[u] = {"state", "site", "net"}
                               /\ toks'[u].site = toks[u].site /\ toks'[u].net = toks[u].net
        BY <2>1, <2>3
    <2>5. \A u \in Tokens : toks'[u].state \in {"unused", "used"} =>
                               u \notin S /\ r # toks[u].site /\ r # toks[u].net
        BY <2>2, <2>4 DEF Referenced, TokensOf
    <2>6. PlaceRowsOK'
        BY <1>27, <2>1, <2>4, <2>5 DEF PlacesInv, PlaceRowsOK
    <2>7. ASSUME NEW q \in Callers \ {p} PROVE CallReads(call[q])'
        <3>1. /\ call'[q] = call[q] /\ CallReads(call[q]) /\ CallPlace(call[q]) /\ CallLocks(call[q])
              /\ call[q].held \cap S = {}
            BY <1>27, <2>1, <2>2 DEF PlacesInv, CallsExclude, Leave, Move
        <3>2. call[q].op = "enroll" /\ call[q].pc \in {"insert", "commit"} => call[q].tok \notin S
            BY <3>1 DEF CallLocks
        <3>3. \A x : TokensOf(x)' \subseteq TokensOf(x)
            BY <2>4 DEF TokensOf
        <3> QED
            BY <2>1, <2>4, <3>1, <3>2, <3>3 DEF CallReads, CallPlace, Referenced
    <2> QED
        BY <1>6, <1>27, <2>1, <2>6, <2>7
<1>28. PlacesInv /\ [PlacesNext]_placeVars => PlacesInv'
    <2> SUFFICES ASSUME PlacesInv, [PlacesNext]_placeVars PROVE PlacesInv'
        OBVIOUS
    <2>1. ASSUME UNCHANGED placeVars PROVE PlacesInv'
        <3>1. UNCHANGED <<live, toks, agentRows, meshRefs, target, direct, call>>
            BY <2>1 DEF placeVars
        <3>2. PlaceRowsOK' /\ CallsExclude' /\ DOMAIN call' = Callers
            BY <3>1 DEF PlacesInv, PlaceRowsOK, CallsExclude
        <3>3. ASSUME NEW p \in Callers
              PROVE  CallPlace(call[p])' /\ CallLocks(call[p])' /\ CallReads(call[p])'
            <4>1. CallPlace(call[p]) /\ CallLocks(call[p]) /\ CallReads(call[p])
                BY DEF PlacesInv
            <4> QED
                BY <3>1, <4>1 DEF CallPlace, CallLocks, CallReads, Referenced, TokensOf
        <3> QED
            BY <3>2, <3>3 DEF PlacesInv
    <2>2. ASSUME NEW p \in Callers,
                 \/ handleTokenPost(p) \/ PostDirectProbe(p) \/ PostMesh(p)
                 \/ handleTokenDelete(p) \/ PresentToken(p) \/ cmdToken(p)
                 \/ handleSiteConfigPost(p) \/ handleSiteConfigDelete(p)
                 \/ cmdNetwork(p) \/ cmdTarget(p)
          PROVE  PlacesInv'
        BY <1>8, <1>9, <1>10, <1>11, <1>12, <2>2
           DEF handleTokenPost, PostDirectProbe, PostMesh, handleTokenDelete, PresentToken,
               handleSiteConfigPost, cmdNetwork, cmdTarget, handleNetworkPost, handleTargetPost,
               handleTargetDelete, Inserts
    <2>3. ASSUME NEW p \in Callers, Unresolved(p) \/ EnrollFails(p) PROVE PlacesInv'
        BY <1>5, <2>3 DEF Unresolved, EnrollFails
    <2> QED
        BY <1>14, <1>15, <1>16, <1>17, <1>19, <1>20, <1>21, <1>22, <1>23, <1>25, <1>26, <1>27,
           <2>1, <2>2, <2>3 DEF PlacesNext
<1>29. PlacesInv => NoOpaqueFailure
    <2> SUFFICES ASSUME PlacesInv, NEW p \in Callers
                 PROVE  /\ call[p].pc = "drop" => ~Referenced(Doomed(p), call[p].swept)
                        /\ call[p].op = "enroll" /\ call[p].pc \in {"insert", "commit"}
                              => {call[p].site, call[p].net} \subseteq live
        BY DEF NoOpaqueFailure
    <2> QED
        BY <1>24 DEF PlacesInv, CallReads, CallPlace, PlaceRowsOK
\* Of two that wait for each other both have locks, one tokens only, and the other wants a place.
<1>30. PlacesInv => PlaceLockOrder
    <2> SUFFICES ASSUME PlacesInv, NEW p \in Callers, NEW q \in Callers,
                        q \in HeldUp(p), p \in HeldUp(q)
                 PROVE  FALSE
        BY DEF PlaceLockOrder
    <2>1. ASSUME NEW x \in Callers, NEW y \in HeldUp(x)
          PROVE  /\ call[x].pc \in {"sweep", "lock", "token", "insert"}
                 /\ call[x].pc \in {"lock", "insert"} =>
                       (call[y].held \cup call[y].shared) \ Tokens # {}
                 /\ call[y].held \cup call[y].shared # {}
        <3>1. CallPlace(call[x]) /\ y \in Callers
            BY DEF PlacesInv, HeldUp
        <3> QED
            BY <1>24, <3>1 DEF HeldUp, keepsOut, Needs, CallPlace, DoomedOf
    <2>2. ASSUME NEW x \in Callers, call[x].pc \in {"sweep", "lock", "token", "insert"},
                 call[x].held \cup call[x].shared # {}
          PROVE  /\ call[x].pc \in {"lock", "insert"}
                 /\ call[x].held \cup call[x].shared \subseteq Tokens
        <3>1. CallPlace(call[x]) /\ CallLocks(call[x])
            BY DEF PlacesInv
        <3> QED
            BY <2>2, <3>1 DEF CallPlace, CallLocks
    <2> QED
        BY <2>1, <2>2
<1> QED
    BY <1>1, <1>28, <1>29, <1>30, PTL DEF PlacesSpec
-----------------------------------------------------------------------------
(* The lock orders together. *)

TxFields == {"phase", "batch", "new", "seeded", "row", "pending"}
Folding == {"locked", "seeded", "folded"}

\* What a push has inserted and locked at each phase, and that one folds at a time.
WatchInv ==
    /\ DOMAIN tx = Txs
    /\ \A x \in Txs :
          /\ DOMAIN tx[x] = TxFields
          /\ tx[x].phase \in {"idle", "accepted"} => tx[x].new = {}
          /\ tx[x].phase \in Folding => tx[x].new # {}
          /\ tx[x].phase = "seeded" /\ current # NoRow => ~tx[x].seeded
    /\ \A x, y \in Txs : x # y /\ tx[x].phase \in Folding => ~holdsState(y)

(* Requests of the mesh's administrators wait for each other in one way     *)
(* only, requests about places in none, and pushes and the removal of a     *)
(* probe in no ring of any length (the orders of lockMesh, DeleteSite,      *)
(* DeleteNetwork, EnrollAgent, and of cleanupSeries against Apply).         *)
THEOREM LockOrderAlways == MCSpec => []LockOrder
<1> USE WatchAssumption
<1>1. MeshInv => MeshLockOrder
    <2> SUFFICES ASSUME MeshInv, NEW p \in Admins, NEW q \in Admins,
                        q \in WaitsFor(p), p \in WaitsFor(q)
                 PROVE  \/ req[p].pc = "drop" /\ req[q].pc = "clean" /\ req[q].row
                        \/ req[q].pc = "drop" /\ req[p].pc = "clean" /\ req[p].row
        BY DEF MeshLockOrder
    <2>1. p # q /\ ~(req[p].mesh /\ req[q].mesh)
        BY DEF WaitsFor, MeshInv, LocksExclude
    <2>2. ASSUME NEW x \in Admins, NEW y \in Admins, y \in WaitsFor(x)
          PROVE  /\ req[x].pc \in {"lock", "upsert", "row", "clean", "drop"}
                 /\ req[x].pc = "clean" => req[y].locked # {}
                 /\ req[x].pc = "drop" => req[y].row
                 /\ req[y].mesh \/ req[y].row \/ req[y].locked # {}
        BY <2>2 DEF WaitsFor, HoldsMesh, HoldsRow, HoldsSeries
    <2>3. ASSUME NEW x \in Admins, req[x].mesh \/ req[x].row \/ req[x].locked # {},
                 req[x].pc \in {"lock", "upsert", "row", "clean", "drop"}
          PROVE  /\ req[x].pc \in {"clean", "drop"}
                 /\ req[x].pc = "clean" => req[x].locked = {}
                 /\ req[x].pc = "drop" => req[x].mesh
        BY <2>3 DEF MeshInv, RequestOK, HoldsItsRow, Counted, Cleaning
    <2> QED
        BY <2>1, <2>2, <2>3
<1>2. WatchInit => WatchInv
    BY DEF WatchInit, WatchInv, IdleTx, TxFields, Folding, holdsState
\* A step of one push that changes no row.
<1>3. ASSUME WatchInv, NEW x \in Txs, NEW r, tx' = [tx EXCEPT ![x] = r], current' = current,
             DOMAIN r = TxFields, r.phase \in {"idle", "accepted"} => r.new = {},
             r.phase \in Folding => r.new # {},
             r.phase = "seeded" /\ current # NoRow => ~r.seeded,
             r.phase \in Folding \cup {"done"} /\ r.new # {} =>
                 tx[x].phase \in Folding \/ \A y \in Txs \ {x} : ~holdsState(y)
      PROVE  WatchInv'
    <2>1. DOMAIN tx' = Txs /\ tx'[x] = r /\ \A y \in Txs \ {x} : tx'[y] = tx[y]
        BY <1>3 DEF WatchInv
    <2>2. ASSUME NEW y \in Txs
          PROVE  /\ DOMAIN tx'[y] = TxFields
                 /\ tx'[y].phase \in {"idle", "accepted"} => tx'[y].new = {}
                 /\ tx'[y].phase \in Folding => tx'[y].new # {}
                 /\ tx'[y].phase = "seeded" /\ current' # NoRow => ~tx'[y].seeded
        BY <1>3, <2>1 DEF WatchInv
    <2>3. ASSUME NEW y \in Txs, NEW z \in Txs, y # z, tx'[y].phase \in Folding,
                 tx'[z].phase \in Folding \cup {"done"}, tx'[z].new # {}
          PROVE  FALSE
        <3>1. \A u \in Txs : holdsState(u) <=> tx[u].phase \in Folding \cup {"done"} /\ tx[u].new # {}
            BY DEF holdsState, Folding
        <3>2. CASE y = x
            BY <1>3, <2>1, <2>3, <3>1, <3>2 DEF WatchInv
        <3>3. CASE z = x
            BY <1>3, <2>1, <2>3, <3>1, <3>3 DEF WatchInv
        <3>4. CASE y # x /\ z # x
            BY <1>3, <2>1, <2>3, <3>1, <3>4 DEF WatchInv
        <3> QED
            BY <3>2, <3>3, <3>4
    <2> QED
        BY <2>1, <2>2, <2>3 DEF WatchInv, holdsState, Folding
<1>4. ASSUME WatchInv, NEW x \in Txs, tx' = [tx EXCEPT ![x] = IdleTx], current' = current
      PROVE  WatchInv'
    <2>1. DOMAIN IdleTx = TxFields /\ IdleTx.phase = "idle" /\ IdleTx.new = {}
        BY DEF IdleTx, TxFields
    <2> QED
        BY <1>3, <1>4, <2>1 DEF Folding
<1>5. ASSUME WatchInv, NEW x \in Txs, NEW B, Accept(x, B) PROVE WatchInv'
    <2> DEFINE r == [IdleTx EXCEPT !.phase = "accepted", !.batch = B]
    <2>1. DOMAIN r = TxFields /\ r.phase = "accepted" /\ r.new = {}
        BY DEF IdleTx, TxFields
    <2>2. current' = current /\ (tx' = tx \/ tx' = [tx EXCEPT ![x] = r])
        BY <1>5 DEF Accept, db
    <2> HIDE DEF r
    <2>3. CASE tx' = tx
        BY <1>5, <2>2, <2>3 DEF WatchInv, holdsState
    <2>4. CASE tx' = [tx EXCEPT ![x] = r]
        BY <1>3, <1>5, <2>1, <2>2, <2>4 DEF Folding
    <2> QED
        BY <2>2, <2>3, <2>4
<1>6. ASSUME WatchInv, NEW x \in Txs, InsertResults(x) PROVE WatchInv'
    <2> DEFINE new == tx[x].batch \ inserted
               r == [tx[x] EXCEPT !.phase = IF new = {} THEN "done" ELSE "inserted", !.new = new]
    <2>1. DOMAIN tx[x] = TxFields
        BY <1>6 DEF WatchInv
    <2>2. /\ DOMAIN r = TxFields /\ r.phase = (IF new = {} THEN "done" ELSE "inserted")
          /\ r.new = new
        BY <2>1 DEF TxFields
    <2>3. current' = current /\ tx' = [tx EXCEPT ![x] = r]
        BY <1>6, <2>1 DEF InsertResults, db, WatchInv, TxFields
    <2> HIDE DEF r
    <2> QED
        BY <1>3, <1>6, <2>2, <2>3 DEF Folding
<1>7. ASSUME WatchInv, NEW x \in Txs, LockState(x) PROVE WatchInv'
    <2> DEFINE r == [tx[x] EXCEPT !.phase = IF runs(x) = {} THEN "done" ELSE "locked"]
    <2>1. DOMAIN tx[x] = TxFields /\ \A y \in Txs \ {x} : ~holdsState(y)
        BY <1>7 DEF WatchInv, LockState, stateHolders
    <2>2. /\ DOMAIN r = TxFields /\ r.phase = (IF runs(x) = {} THEN "done" ELSE "locked")
          /\ r.new = tx[x].new
        BY <2>1 DEF TxFields
    <2>3. current' = current /\ tx' = [tx EXCEPT ![x] = r]
        BY <1>7, <2>1 DEF LockState, db, WatchInv, TxFields
    <2>4. runs(x) # {} => tx[x].new # {}
        BY DEF runs
    <2> HIDE DEF r
    <2> QED
        BY <1>3, <1>7, <2>1, <2>2, <2>3, <2>4 DEF Folding
<1>8. ASSUME WatchInv, NEW x \in Txs, EnsureCurrent(x) PROVE WatchInv'
    <2> DEFINE r == [tx[x] EXCEPT !.phase = "seeded", !.seeded = (current = NoRow)]
    <2>1. DOMAIN tx[x] = TxFields /\ tx[x].phase = "locked" /\ tx[x].new # {}
        BY <1>8 DEF WatchInv, EnsureCurrent, Folding
    <2>2. DOMAIN r = TxFields /\ r.phase = "seeded" /\ r.new = tx[x].new
        BY <2>1 DEF TxFields
    <2>3. r.seeded = (current = NoRow)
        BY <2>1, Zenon DEF TxFields
    <2>4. current' = current /\ tx' = [tx EXCEPT ![x] = r]
        BY <1>8 DEF EnsureCurrent, db
    <2> HIDE DEF r
    <2> QED
        BY <1>3, <1>8, <2>1, <2>2, <2>3, <2>4 DEF Folding
<1>9. ASSUME WatchInv, NEW x \in Txs, LockAndFold(x) PROVE WatchInv'
    <2> DEFINE f == fold(priorPath(x), runs(x))
               r == [tx[x] EXCEPT !.phase = "folded", !.row = f.cur, !.pending = f.pending]
    <2>1. DOMAIN tx[x] = TxFields /\ tx[x].phase = "seeded" /\ tx[x].new # {}
        BY <1>9 DEF WatchInv, LockAndFold, Folding
    <2>2. current' = current /\ tx' = [tx EXCEPT ![x] = r]
        BY <1>9 DEF LockAndFold, db
    <2> HIDE DEF f
    <2>3. DOMAIN r = TxFields /\ r.phase = "folded" /\ r.new = tx[x].new
        BY <2>1 DEF TxFields
    <2> HIDE DEF r
    <2> QED
        BY <1>3, <1>9, <2>1, <2>2, <2>3 DEF Folding
\* The current row changes: no push is between its seed and its fold.
<1>10. ASSUME WatchInv, NEW x \in Txs, CommitFolded(x) PROVE WatchInv'
    <2>1. /\ tx[x].phase = "folded" /\ tx' = [tx EXCEPT ![x] = IdleTx]
          /\ DOMAIN IdleTx = TxFields /\ IdleTx.phase = "idle" /\ IdleTx.new = {}
        BY <1>10 DEF CommitFolded, IdleTx, TxFields
    <2>2. DOMAIN tx' = Txs /\ tx'[x] = IdleTx /\ \A y \in Txs \ {x} : tx'[y] = tx[y]
        BY <1>10, <2>1 DEF WatchInv
    <2>3. \A y \in Txs \ {x} : tx[y].phase \notin Folding
        BY <1>10, <2>1 DEF WatchInv, holdsState, Folding
    <2> QED
        BY <1>10, <2>1, <2>2, <2>3 DEF WatchInv, holdsState, Folding
<1>11. ASSUME WatchInv, tx' = tx, current' \in {current, NoRow} PROVE WatchInv'
    BY <1>11 DEF WatchInv, holdsState
<1>12. WatchInv /\ [WatchNext]_watchVars => WatchInv'
    <2> SUFFICES ASSUME WatchInv, [WatchNext]_watchVars PROVE WatchInv'
        OBVIOUS
    <2>1. ASSUME NEW x \in Txs, CommitPlain(x) \/ Rollback(x) PROVE WatchInv'
        BY <1>4, <2>1 DEF CommitPlain, Rollback, db
    <2>2. CASE ExpireAssignment \/ DeleteRows \/ CommitDelete \/ AbortDelete \/ Recreate
               \/ UNCHANGED watchVars
        BY <1>11, <2>2 DEF ExpireAssignment, DeleteRows, CommitDelete, AbortDelete, Recreate,
                           watchVars, db
    <2> QED
        BY <1>5, <1>6, <1>7, <1>8, <1>9, <1>10, <2>1, <2>2 DEF WatchNext, PushNext
\* In every set of transactions the one furthest on waits for none of the others.
<1>13. WatchInv => NoWaitCycle
    <2> SUFFICES ASSUME WatchInv, NEW S \in SUBSET (Txs \cup {"cfg"}), S # {}
                 PROVE  \E a \in S : awaits(a) \cap S = {}
        BY DEF NoWaitCycle
    <2>1. \A x \in Txs : holdsCurrent(x) => tx[x].phase \in {"seeded", "folded"}
        BY DEF holdsCurrent
    <2>2. \A x \in Txs : holdsCurrent(x) /\ current # NoRow => tx[x].phase = "folded"
        BY DEF holdsCurrent, WatchInv
    <2>3. ASSUME NEW x \in S \cap Txs, tx[x].phase \notin {"accepted", "inserted", "locked", "seeded"}
          PROVE  awaits(x) = {}
        BY <2>3 DEF awaits
    <2>4. CASE \E x \in S \cap Txs : tx[x].phase \notin {"accepted", "inserted", "locked", "seeded"}
        BY <2>3, <2>4
    <2>5. CASE /\ \A x \in S \cap Txs : tx[x].phase \in {"accepted", "inserted", "locked", "seeded"}
               /\ "cfg" \in S
        <3>1. cfg.phase = "first" => table = "current"
            BY DEF table, cleanupOrder
        <3>2. \A x \in awaits("cfg") : x \in Txs /\ tx[x].phase = "folded"
            BY <2>2, <3>1 DEF awaits, deleteAwaits, committedRow
        <3> QED
            BY <2>5, <3>2
    <2>6. CASE /\ \A x \in S \cap Txs : tx[x].phase \in {"accepted", "inserted", "locked", "seeded"}
               /\ "cfg" \notin S /\ \E x \in S : tx[x].phase \in {"locked", "seeded"}
        <3>1. PICK a \in S : tx[a].phase \in {"locked", "seeded"}
            BY <2>6
        <3>2. a \in Txs /\ a # "cfg"
            BY <2>6
        <3>3. \A y \in Txs \ {a} : tx[y].phase \notin Folding
            BY <3>1, <3>2 DEF WatchInv, holdsState, Folding
        <3>4. awaits(a) = currentHolders(a)
            BY <3>1, <3>2 DEF awaits
        <3>5. awaits(a) \subseteq {"cfg"}
            BY <2>1, <3>3, <3>4 DEF currentHolders, Folding
        <3> QED
            BY <2>6, <3>5
    <2>7. CASE /\ \A x \in S \cap Txs : tx[x].phase \in {"accepted", "inserted"}
               /\ "cfg" \notin S /\ \E x \in S : tx[x].phase = "inserted"
        <3>1. PICK a \in S : tx[a].phase = "inserted"
            BY <2>7
        <3>2. a \in Txs /\ a # "cfg"
            BY <2>7
        <3>3. awaits(a) = stateHolders(a)
            BY <3>1, <3>2 DEF awaits
        <3>4. \A y \in awaits(a) : y = "cfg" \/ tx[y].phase \in {"locked", "seeded", "folded", "done"}
            BY <3>3 DEF stateHolders, holdsState
        <3> QED
            BY <2>7, <3>4
    <2>8. CASE (\A x \in S \cap Txs : tx[x].phase = "accepted") /\ "cfg" \notin S
        <3>1. PICK a \in S : TRUE
            OBVIOUS
        <3>2. a \in Txs /\ a # "cfg" /\ tx[a].phase = "accepted"
            BY <2>8
        <3>3. awaits(a) = insertHolders(a)
            BY <3>2 DEF awaits
        <3>4. \A y \in S : y \in Txs /\ tx[y].new = {}
            BY <2>8 DEF WatchInv
        <3>5. \A y \in S : y \notin insertHolders(a)
            BY <3>4 DEF insertHolders
        <3> QED
            BY <3>3, <3>5
    <2> QED
        BY <2>4, <2>5, <2>6, <2>7, <2>8
\* A behaviour of the composition is one of each part.
<1>14. MCSpec => MeshSpec /\ PlacesSpec /\ WatchSpec
    <2>1. MCInit => MeshInit /\ PlacesInit /\ WatchInit
        BY DEF MCInit
    <2>2. [MCNext]_<<part, meshVars, placeVars, row, watchVars>> =>
             [MeshNext]_meshVars /\ [PlacesNext]_placeVars /\ [WatchNext]_watchVars
        BY DEF MCNext
    <2> QED
        BY <2>1, <2>2, PTL DEF MCSpec, MeshSpec, PlacesSpec, WatchSpec
<1>15. WatchSpec => []NoWaitCycle
    BY <1>2, <1>12, <1>13, PTL DEF WatchSpec
<1>16. MeshLockOrder /\ PlaceLockOrder /\ NoWaitCycle => LockOrder
    BY DEF LockOrder
<1> QED
    BY <1>1, <1>14, <1>15, <1>16, MeshInvAlways, PlacesSafe, PTL

-----------------------------------------------------------------------------
(* The row of the probe validation is the settings of a request that the   *)
(* shared rules accepted for its type and its place.                       *)
RowAccepted ==
    row # <<>> => \E in \in Requests : \E type : \E m \in BOOLEAN :
        row = settings(in, type, m) /\ validateProbeRequest(in, type, m)

(* Whatever sequence of posts, puts and deletes the operator sends, a row  *)
(* that validateProbeRequest accepted is one the agent's prober can run,   *)
(* the signed port and the overflowing train apart: the port is not zero,  *)
(* the whole echo train leaves before the timeout, the parameters of dns,  *)
(* http and path_mtu pass the prober's own checks, every key is read and   *)
(* no spacing is replaced.                                                 *)
THEOREM AcceptedProbeRunsAlways == ValidationSpec => []AcceptedProbeRuns
<1> USE ValidationAssumption
\* The tables hold integers, and Sscanf reads what Atoi reads unless there is a sign.
<1>1. \A t : IsAtoi(t) => Atoi(t) \in Int
    BY DEF IsAtoi, Atoi, Unsigned, Signed
<1>2. \A t \in Unsigned : Sscanf(t) = Atoi(t)
    BY DEF Sscanf
<1>3. \A n \in Nat : n < DurationLimit => Wrap(n) = n
    <2>1. \A a \in Nat, b \in Nat \ {0} : a < b => a % b = a
        OBVIOUS
    <2> SUFFICES ASSUME NEW n \in Nat, n < DurationLimit PROVE Wrap(n) = n
        OBVIOUS
    <2>2. /\ n + DurationLimit \in Nat /\ 2 * DurationLimit \in Nat \ {0}
          /\ n + DurationLimit < 2 * DurationLimit
        OBVIOUS
    <2>3. (n + DurationLimit) % (2 * DurationLimit) = n + DurationLimit
        BY <2>1, <2>2
    <2> QED
        BY <2>3 DEF Wrap
\* A train that fits is sent whole.
<1>4. ASSUME NEW c \in Nat, NEW sp \in Nat, NEW t \in Int, c * sp < t
      PROVE  Cardinality({n \in 1..c : (n - 1) * sp < t}) = c
    <2>1. ASSUME NEW n \in 1..c PROVE (n - 1) * sp < t
        <3>1. PICK m \in Nat : m = n - 1 /\ m <= c
            OBVIOUS
        <3>2. PICK k \in Nat : c = m + k
            BY <3>1
        <3>3. c * sp = m * sp + k * sp /\ k * sp \in Nat /\ m * sp \in Nat
            BY <3>2
        <3> QED
            BY <1>4, <3>1, <3>3
    <2>2. {n \in 1..c : (n - 1) * sp < t} = 1..c
        BY <2>1
    <2>3. Cardinality(1..c) = c
        BY FS_Interval
    <2> QED
        BY <2>2, <2>3
\* Run's own checks, type by type.
<1>5. ASSUME NEW z, z.interval > 0
      PROVE  /\ z.type \in {"tcp", "tls"} /\ z.port # 0 => Runs(z)
             /\ z.type = "icmp" /\ IcmpSent(z) = effCount(z) => Runs(z)
             /\ z.type = "dns" /\ DnsParamsOK(z.params) => Runs(z)
             /\ z.type = "http" /\ HttpParamsOK(z) => Runs(z)
             /\ z.type = "path_mtu" /\ pmtuParamsOK(z.params) => Runs(z)
             /\ z.type \notin {"tcp", "tls", "icmp", "dns", "http", "path_mtu"} => Runs(z)
    <2>1. z.type \in {"tcp", "tls"} /\ z.port # 0 => Runs(z)
        BY <1>5 DEF Runs
    <2>2. z.type = "icmp" /\ IcmpSent(z) = effCount(z) => Runs(z)
        BY <1>5 DEF Runs
    <2>3. z.type = "dns" /\ DnsParamsOK(z.params) => Runs(z)
        BY <1>5 DEF Runs
    <2>4. z.type = "http" /\ HttpParamsOK(z) => Runs(z)
        BY <1>5 DEF Runs
    <2>5. z.type = "path_mtu" /\ pmtuParamsOK(z.params) => Runs(z)
        BY <1>5 DEF Runs
    <2>6. z.type \notin {"tcp", "tls", "icmp", "dns", "http", "path_mtu"} => Runs(z)
        BY <1>5 DEF Runs
    <2> QED
        BY <2>1, <2>2, <2>3, <2>4, <2>5, <2>6
\* What the validator of a key says of its text.
<1>6. /\ \A t : validateValue("port", t) => IntegerWithin(t, 1, 65535)
      /\ \A t : validateValue("mtu.min", t) => IntegerWithin(t, MTUFloor, MTUCeil)
      /\ \A t : validateValue("mtu.max", t) => IntegerWithin(t, MTUFloor, MTUCeil)
      /\ \A t : validateValue("mtu.family", t) => ToUpper(t) \in {"4", "6"}
      /\ \A t : validateValue("dns.qtype", t) => ToUpper(t) \in dnsQTypes
      /\ \A t : validateValue("dns.expect_rcode", t) => ToUpper(t) \in dnsRcodes
      /\ \A t : validateValue("http.expect_status", t) => t \in {"200", "2xx"}
      /\ \A t : validateValue("http.method", t) => ~Spaced(t)
    BY DEF validateValue
<1>7. ToUpper("") = "" /\ ~Spaced("")
    BY DEF ToUpper, Spaced
<1>8. ASSUME NEW in \in Requests, NEW type, NEW m \in BOOLEAN,
             validateProbeRequest(in, type, m),
             ~SignedPort(settings(in, type, m)), ~HugeTrain(settings(in, type, m))
      PROVE  LET ps == settings(in, type, m)
             IN  /\ Runs(spec(ps))
                 /\ DOMAIN ps.params \subseteq Reads(ps.type, ps.mesh)
                 /\ ps.spacing > 0 => effSpacing(spec(ps)) = ps.spacing
    <2> DEFINE ps == settings(in, type, m)
               s == spec(ps)
               pm == in.params
    <2>1. /\ ps.type = type /\ ps.mesh = m /\ ps.interval = in.interval /\ ps.timeout = in.timeout
          /\ ps.count = in.count /\ ps.spacing = in.spacing /\ ps.params = pm
        BY DEF settings
    <2>2. /\ s.type = type /\ s.interval = in.interval /\ s.timeout = in.timeout /\ s.params = pm
          /\ s.url = ~m /\ s.port = IF m THEN meshPort(pm) ELSE 443
          /\ s.count = IF in.count > 0 THEN in.count ELSE 0
          /\ s.spacing = IF in.count > 0 THEN in.spacing ELSE 0
        BY <2>1 DEF spec
    <2>3. ~SignedPort(ps) /\ ~HugeTrain(ps)
        BY <1>8
    <2> HIDE DEF ps, s
    <2>4. in.interval \in Int /\ in.timeout \in Int /\ in.count \in Int /\ in.spacing \in Int
        OBVIOUS
    <2>5. ValidateSettings(type, in) /\ ValidateParams(type, m, pm)
        BY <1>8 DEF validateProbeRequest
    <2>6. /\ s.interval > 0 /\ in.count \in Nat /\ in.spacing \in Nat
          /\ in.spacing > 0 => in.count > 0
        BY <2>2, <2>4, <2>5 DEF ValidateSettings
    <2>7. \A k : Param(pm, k) = "" \/ validateValue(k, Param(pm, k))
        BY <2>5 DEF ValidateParams, Param
    <2> HIDE DEF pm
    <2>8. ASSUME type \in {"tcp", "tls"} PROVE Runs(s)
        <3>1. ASSUME m PROVE s.port # 0
            <4>1. "port" \in required(type, m)
                BY <2>8, <3>1 DEF required, registry
            <4>2. Param(pm, "port") # ""
                BY <2>5, <4>1 DEF ValidateParams
            <4>3. IntegerWithin(Param(pm, "port"), 1, 65535)
                <5>1. validateValue("port", Param(pm, "port"))
                    BY <2>7, <4>2
                <5> QED
                    BY <1>6, <5>1
            <4>4. Param(pm, "port") \in Unsigned
                BY <2>1, <2>3, <4>3 DEF SignedPort, IntegerWithin, IsAtoi
            <4>5. meshPort(pm) # 0
                BY <1>1, <1>2, <4>3, <4>4 DEF IntegerWithin, meshPort
            <4> QED
                BY <2>2, <3>1, <4>5
        <3>2. s.port # 0
            BY <2>2, <3>1
        <3> QED
            BY <1>5, <2>2, <2>6, <2>8, <3>2
    <2>9. ASSUME type = "icmp" PROVE Runs(s)
        <3> DEFINE c == effCount(s)
                   sp == effSpacing(s)
        <3>1. c \in Nat /\ sp \in Nat /\ c * sp \in Nat
            BY <2>2, <2>6 DEF effCount, effSpacing, DefaultTrainCount, DefaultTrainSpacing
        <3>2. c = effCount(ps) /\ sp = effSpacing(ps)
            BY <2>1, <2>2, <2>6 DEF effCount, effSpacing
        <3> HIDE DEF c, sp
        <3>3. c * sp < DurationLimit
            BY <2>3, <3>1, <3>2 DEF HugeTrain
        <3>4. Wrap(c * sp) = c * sp
            BY <1>3, <3>1, <3>3
        <3>5. c * sp < s.timeout
            <4>1. CASE in.count > 0
                <5>1. /\ c = in.count
                      /\ sp = IF in.spacing = 0 THEN DefaultTrainSpacing ELSE in.spacing
                    BY <2>2, <2>6, <4>1 DEF c, sp, effCount, effSpacing
                <5>2. Wrap(c * sp) < in.timeout
                    BY <2>5, <4>1, <5>1 DEF ValidateSettings
                <5> QED
                    BY <2>2, <3>4, <5>2
            <4>2. CASE ~(in.count > 0)
                <5>1. in.count = 0
                    BY <2>6, <4>2
                <5>2. DefaultTrainCount * DefaultTrainSpacing < in.timeout
                    BY <2>5, <2>9, <5>1 DEF ValidateSettings, trainType
                <5>3. c = DefaultTrainCount /\ sp = DefaultTrainSpacing
                    BY <2>2, <2>6, <4>2 DEF c, sp, effCount, effSpacing
                <5> QED
                    BY <2>2, <5>2, <5>3
            <4> QED
                BY <4>1, <4>2
        <3>6. s.timeout \in Int
            BY <2>2, <2>4
        <3>7. Cardinality({n \in 1..c : (n - 1) * sp < s.timeout}) = c
            BY <1>4, <3>1, <3>5, <3>6
        <3>8. IcmpSent(s) = effCount(s)
            BY <3>7 DEF IcmpSent, c, sp
        <3> QED
            BY <1>5, <2>2, <2>6, <2>9, <3>8
    <2>10. ASSUME type = "dns" PROVE Runs(s)
        <3>1. "dns.qname" \in required(type, m)
            BY <2>10 DEF required, registry
        <3>2. Param(pm, "dns.qname") # ""
            BY <2>5, <3>1 DEF ValidateParams
        <3>3. LET q == ToUpper(Param(pm, "dns.qtype")) IN q # "" => q \in dnsQTypes
            <4>1. Param(pm, "dns.qtype") = "" \/ validateValue("dns.qtype", Param(pm, "dns.qtype"))
                BY <2>7
            <4>2. ASSUME NEW t, validateValue("dns.qtype", t) PROVE ToUpper(t) \in dnsQTypes
                BY <1>6, <4>2
            <4> QED
                BY <1>7, <4>1, <4>2
        <3>4. LET r == ToUpper(Param(pm, "dns.expect_rcode")) IN r # "" => r \in dnsRcodes
            <4>1. \/ Param(pm, "dns.expect_rcode") = ""
                  \/ validateValue("dns.expect_rcode", Param(pm, "dns.expect_rcode"))
                BY <2>7
            <4>2. ASSUME NEW t, validateValue("dns.expect_rcode", t) PROVE ToUpper(t) \in dnsRcodes
                BY <1>6, <4>2
            <4> QED
                BY <1>7, <4>1, <4>2
        <3>5. DnsParamsOK(pm)
            BY <3>2, <3>3, <3>4 DEF DnsParamsOK
        <3> QED
            BY <1>5, <2>2, <2>6, <2>10, <3>5
    <2>11. ASSUME type = "http" PROVE Runs(s)
        <3>1. ~m
            BY <2>5, <2>11 DEF ValidateParams, DirectOnly
        <3>2. ~Spaced(Param(pm, "http.method"))
            <4>1. Param(pm, "http.method") = "" \/ validateValue("http.method", Param(pm, "http.method"))
                BY <2>7
            <4>2. ASSUME NEW t, validateValue("http.method", t) PROVE ~Spaced(t)
                BY <1>6, <4>2
            <4> QED
                BY <1>7, <4>1, <4>2
        <3>3. LET t == Param(pm, "http.expect_status") IN t # "" => t \in {"200", "2xx"}
            <4>1. \/ Param(pm, "http.expect_status") = ""
                  \/ validateValue("http.expect_status", Param(pm, "http.expect_status"))
                BY <2>7
            <4>2. ASSUME NEW t, validateValue("http.expect_status", t) PROVE t \in {"200", "2xx"}
                BY <1>6, <4>2
            <4> QED
                BY <4>1, <4>2
        <3>4. HttpParamsOK(s)
            BY <2>2, <3>1, <3>2, <3>3 DEF HttpParamsOK
        <3> QED
            BY <1>5, <2>2, <2>6, <2>11, <3>4
    <2>12. ASSUME type = "path_mtu" PROVE Runs(s)
        <3> DEFINE lo == Effective(pm, "mtu.min", DefaultMTUMin)
                   hi == Effective(pm, "mtu.max", DefaultMTUMax)
        <3>1. ASSUME NEW k, NEW d \in MTUFloor..MTUCeil,
                     Param(pm, k) = "" \/ IntegerWithin(Param(pm, k), MTUFloor, MTUCeil)
              PROVE  Effective(pm, k, d) \in MTUFloor..MTUCeil
            <4> DEFINE t == Param(pm, k)
            <4>1. Effective(pm, k, d) = IF t # "" /\ IsAtoi(t) THEN Atoi(t) ELSE d
                BY DEF Effective
            <4>2. ASSUME t # "" PROVE Atoi(t) \in MTUFloor..MTUCeil
                <5>1. IsAtoi(t) /\ Atoi(t) >= MTUFloor /\ Atoi(t) <= MTUCeil
                    BY <3>1, <4>2 DEF IntegerWithin
                <5>2. Atoi(t) \in Int
                    BY <1>1, <5>1
                <5>3. PICK n \in Int : n = Atoi(t)
                    BY <5>2
                <5>4. MTUFloor \in Int /\ MTUCeil \in Int
                    BY DEF MTUFloor, MTUCeil
                <5>5. n >= MTUFloor /\ n <= MTUCeil
                    BY <5>1, <5>3
                <5>6. n \in MTUFloor..MTUCeil
                    BY <5>4, <5>5
                <5> QED
                    BY <5>3, <5>6
            <4> HIDE DEF t
            <4> QED
                BY <4>1, <4>2
        <3>2. lo < hi
            BY <2>5, <2>12 DEF ValidateParams
        <3>3. /\ Param(pm, "mtu.min") = "" \/ IntegerWithin(Param(pm, "mtu.min"), MTUFloor, MTUCeil)
              /\ Param(pm, "mtu.max") = "" \/ IntegerWithin(Param(pm, "mtu.max"), MTUFloor, MTUCeil)
              /\ Param(pm, "mtu.family") \in {"", "4", "6"}
            <4>1. /\ Param(pm, "mtu.min") = "" \/ validateValue("mtu.min", Param(pm, "mtu.min"))
                  /\ Param(pm, "mtu.max") = "" \/ validateValue("mtu.max", Param(pm, "mtu.max"))
                  /\ Param(pm, "mtu.family") = "" \/ validateValue("mtu.family", Param(pm, "mtu.family"))
                BY <2>7
            <4>2. ASSUME NEW t, validateValue("mtu.min", t) PROVE IntegerWithin(t, MTUFloor, MTUCeil)
                BY <1>6, <4>2
            <4>3. ASSUME NEW t, validateValue("mtu.max", t) PROVE IntegerWithin(t, MTUFloor, MTUCeil)
                BY <1>6, <4>3
            <4>4. ASSUME NEW t, validateValue("mtu.family", t) PROVE t \in {"4", "6"}
                <5>1. ToUpper(t) \in {"4", "6"}
                    BY <1>6, <4>4
                <5> QED
                    BY <5>1 DEF ToUpper
            <4> QED
                BY <4>1, <4>2, <4>3, <4>4
        <3>4. /\ "mtu.min" \in DOMAIN pm => IsAtoi(pm["mtu.min"])
              /\ "mtu.max" \in DOMAIN pm => IsAtoi(pm["mtu.max"])
            <4>1. /\ "mtu.min" \in DOMAIN pm => validateValue("mtu.min", pm["mtu.min"])
                  /\ "mtu.max" \in DOMAIN pm => validateValue("mtu.max", pm["mtu.max"])
                BY <2>5 DEF ValidateParams
            <4> QED
                BY <1>6, <4>1 DEF IntegerWithin
        <3>5. lo \in MTUFloor..MTUCeil /\ hi \in MTUFloor..MTUCeil
            <4>1. DefaultMTUMin \in MTUFloor..MTUCeil /\ DefaultMTUMax \in MTUFloor..MTUCeil
                BY DEF DefaultMTUMin, DefaultMTUMax, MTUFloor, MTUCeil
            <4> QED
                BY <3>1, <3>3, <4>1
        <3> HIDE DEF lo, hi
        <3>6. pmtuParamsOK(pm)
            BY <3>2, <3>3, <3>4, <3>5 DEF pmtuParamsOK, lo, hi
        <3> QED
            BY <1>5, <2>2, <2>6, <2>12, <3>6
    <2>13. ASSUME type \notin {"tcp", "tls", "icmp", "dns", "http", "path_mtu"} PROVE Runs(s)
        BY <1>5, <2>2, <2>6, <2>13
    <2>14. DOMAIN pm \subseteq Reads(type, m)
        <3>1. DOMAIN pm \subseteq registry(type) /\ (~m => "port" \notin DOMAIN pm)
            BY <2>5 DEF ValidateParams, meshOnly
        <3>2. registry(type) \subseteq {"port"} \cup Reads(type, m)
            BY DEF registry, Reads
        <3>3. m => "port" \in Reads(type, m)
            BY DEF Reads
        <3> QED
            BY <3>1, <3>2, <3>3
    <2>15. in.spacing > 0 => effSpacing(s) = in.spacing
        BY <2>2, <2>6 DEF effSpacing
    <2> QED
        BY <2>1, <2>8, <2>9, <2>10, <2>11, <2>12, <2>13, <2>14, <2>15 DEF ps, s
<1>9. RowAccepted => AcceptedProbeRuns
    BY <1>8 DEF RowAccepted, AcceptedProbeRuns
<1>10. ValidationInit => RowAccepted
    BY DEF ValidationInit, RowAccepted
<1>11. RowAccepted /\ [ValidationNext]_row => RowAccepted'
    <2> SUFFICES ASSUME RowAccepted, [ValidationNext]_row, row' # <<>>
                 PROVE  \E in \in Requests : \E type : \E m \in BOOLEAN :
                            row' = settings(in, type, m) /\ validateProbeRequest(in, type, m)
        BY DEF RowAccepted
    <2>1. ASSUME NEW in \in Requests, PostProbe(in)
          PROVE  row' = settings(in, in.type, "mesh" \in in.place)
                 /\ validateProbeRequest(in, in.type, "mesh" \in in.place)
        BY <2>1 DEF PostProbe
    <2>2. ASSUME NEW in \in Requests, PutProbe(in)
          PROVE  /\ row.mesh \in BOOLEAN
                 /\ row' = settings(in, row.type, row.mesh)
                 /\ validateProbeRequest(in, row.type, row.mesh)
        <3>1. row # <<>>
            BY <2>2 DEF PutProbe
        <3>2. PICK q \in Requests : \E type : \E m \in BOOLEAN : row = settings(q, type, m)
            BY <3>1 DEF RowAccepted
        <3>3. row.mesh \in BOOLEAN
            BY <3>2 DEF settings
        <3> QED
            BY <2>2, <3>3 DEF PutProbe
    <2>3. CASE UNCHANGED row
        BY <2>3 DEF RowAccepted
    <2>4. CASE \E in \in Requests : PostProbe(in)
        <3>1. PICK in \in Requests : PostProbe(in)
            BY <2>4
        <3>2. ("mesh" \in in.place) \in BOOLEAN
            OBVIOUS
        <3> QED
            BY <2>1, <3>1, <3>2, Zenon
    <2>5. CASE \E in \in Requests : PutProbe(in)
        BY <2>2, <2>5
    <2> QED
        BY <2>3, <2>4, <2>5 DEF ValidationNext, DeleteProbe
<1> QED
    BY <1>9, <1>10, <1>11, PTL DEF ValidationSpec

=============================================================================
