------------------------------ MODULE MCStore ------------------------------
(***************************************************************************)
(* The writers of the server's store, checked in one run.  The halves of   *)
(* configuration administration (meshes with their probes, places), the    *)
(* rules a probe passes and the path change detection share no row that    *)
(* two of them write, so a behaviour is one of theirs, chosen at the start.*)
(***************************************************************************)
EXTENDS MeshAdmin, Places, ProbeValidation, ChangeWatch

VARIABLE part

Body(op, s, n, t, on, sc, cli) ==
    [op |-> op, site |-> s, plane |-> n, tmpl |-> t, on |-> on, scope |-> sc, cli |-> cli]

MCBodies ==
    {Body("upsertMesh", "-", n, "-", TRUE, Planes, FALSE) : n \in {"none", "n1"}}
    \cup {Body("upsertMesh", "-", "n2", "-", TRUE, {"n2"}, FALSE)}
    \cup {Body("addMember", s, "-", "-", TRUE, sc, FALSE) :
            s \in {"s2", "s3"}, sc \in {Planes, {"n2"}}}
    \cup {Body("removeMember", s, "-", "-", TRUE, Planes, cli) :
            s \in {"s1", "s3"}, cli \in BOOLEAN}
    \cup {Body("removeMember", "s1", "-", "-", TRUE, {"n2"}, FALSE)}
    \cup {Body("deleteMesh", "-", "-", "-", TRUE, sc, FALSE) : sc \in {Planes, {"n2"}}}
    \cup {Body("addProbe", "-", "-", "-", on, Planes, FALSE) : on \in BOOLEAN}
    \cup {Body("updateProbe", "-", "-", "t1", on, Planes, FALSE) : on \in BOOLEAN}
    \cup {Body("deleteProbe", "-", "-", t, TRUE, Planes, cli) :
            t \in {"t1", "t2"}, cli \in BOOLEAN}
    \cup {Body("deleteProbe", "-", "-", "t2", TRUE, {"n2"}, FALSE),
          Body("enroll", "-", "-", "-", TRUE, Planes, FALSE)}

MCLateAgents == {<<"s3", "n1">>}
MCTokens == {<<"t", 1>>, <<"t", 2>>}
\* Admins, Callers and Txs are the same two processes.
MCSymmetry == Permutations(Admins) \cup Permutations(Readings)

(* The request bodies of ProbeValidation. *)

Base == [type |-> "icmp", place |-> {"mesh"}, interval |-> 30, timeout |-> 25,
         count |-> 0, spacing |-> 0, params |-> <<>>]

Timings ==
    {[Base EXCEPT !.type = t, !.params = IF t = "tcp" THEN ("port" :> "80") ELSE <<>>,
                  !.interval = i, !.timeout = o, !.count = c, !.spacing = s] :
        t \in {"icmp", "tcp"}, i \in {0, 20, 30}, o \in {-1, 0, 1, 5, 20, 21, 30},
        c \in {-1, 0, 1, 3, 10, 128}, s \in {-1, 0, 1, 2}}

\* Texts worth trying for a key.
Texts(key) ==
    CASE key = "port"                   -> {"", "0", "80", "+80", "-1", "65536", "x"}
      [] key \in {"mtu.min", "mtu.max"} -> {"", "67", "1400", "+1400", "1500", "9216", "9217", "x"}
      [] key = "mtu.family"             -> {"", "4", "5"}
      [] key = "dns.qtype"              -> {"", "a", "A", "x"}
      [] key = "dns.expect_rcode"       -> {"", "nxdomain", "x"}
      [] key = "http.method"            -> {"", " ", "GET", "GET /"}
      [] key = "http.expect_status"     -> {"", "200", "2xx", "2XX", "x"}
      [] key \in {"tls.insecure_skip_verify", "http.insecure_skip_verify"} -> {"", "true", "x"}
      [] OTHER                          -> {"", " ", "x"}

Types == {"icmp", "tcp", "tls", "http", "dns", "ntp", "traceroute", "path_mtu"}

\* At most two keys, a stray one among them; a dns probe also names its query.
ParamChoices(type) ==
    LET keys == registry(type) \cup {"port", "stray"}
    IN  UNION {{[x \in {k, l} |-> IF x = k THEN v ELSE w] :
                   v \in Texts(k), w \in Texts(l)} : k \in keys, l \in keys}
        \cup {<<>>}

MCRequests ==
    Timings
    \cup UNION {{[Base EXCEPT !.type = t, !.params = ps] : ps \in ParamChoices(t)}
                : t \in Types}
    \cup UNION {{[Base EXCEPT !.type = t, !.place = {"site", "target"}, !.params = ps] :
                   ps \in ParamChoices(t)} : t \in Types}
    \cup {[Base EXCEPT !.place = p, !.type = t] :
            p \in SUBSET {"mesh", "site", "target", "network"}, t \in {"", "icmp"}}

MCInit ==
    /\ part \in {"mesh", "places", "probe", "watch"}
    /\ MeshInit /\ PlacesInit /\ ValidationInit /\ WatchInit
    /\ part # "mesh" => tmpl["t1"] = "on"
    /\ part # "places" => target = Global
    /\ part # "watch" => log = [t \in Times |-> Incomplete]

MCNext ==
    /\ UNCHANGED part
    /\ \/ part = "mesh" /\ MeshNext /\ UNCHANGED <<placeVars, row, watchVars>>
       \/ part = "places" /\ PlacesNext /\ UNCHANGED <<meshVars, row, watchVars>>
       \/ part = "probe" /\ ValidationNext /\ UNCHANGED <<meshVars, placeVars, watchVars>>
       \/ part = "watch" /\ WatchNext /\ UNCHANGED <<meshVars, placeVars, row>>

MCSpec == MCInit /\ [][MCNext]_<<part, meshVars, placeVars, row, watchVars>>

\* Transactions wait for each other in no ring but the one between the template
\* and mesh deletions: neither the admins' among themselves nor a deletion's
\* and the pushes' (the lock orders of probeconfig.go, sites.go and networks.go).
LockOrder == MeshLockOrder /\ PlaceLockOrder /\ NoWaitCycle
=============================================================================
