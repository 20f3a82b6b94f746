---------------------------- MODULE ConfigStream ----------------------------
(***************************************************************************)
(* How a configuration edit reaches one agent: the writers of the          *)
(* configuration tables (internal/server/store), the agent's config stream *)
(* (internal/server/grpcapi/server.go), and the agent with its on-disk     *)
(* snapshot cache (internal/agent/uplink, internal/agent/confcache,        *)
(* cmd/polarbeam-agent).                                                   *)
(*                                                                         *)
(* A writer commits and only then bumps config_version; the stream reads   *)
(* the version and only then the tables, with several statements that each *)
(* see their own snapshot, so a build may be torn by a concurrent commit.  *)
(* config is the pair of table contents two such statements read: equal    *)
(* in every committed configuration.  A snapshot's hash is its content.    *)
(***************************************************************************)
EXTENDS Naturals, Sequences

CONSTANTS Values,        \* contents of the configuration tables
          RebuildEvery,  \* forcedRebuildTicks
          MaxWrites,     \* bound: configuration writes
          MaxFaults      \* bound: failures of any kind

None == <<>>             \* no snapshot: the empty hash, no cache file

Snapshots == Values \X Values

ASSUME ConfigAssumption ==
    /\ RebuildEvery \in Nat \ {0}
    /\ MaxWrites \in Nat
    /\ MaxFaults \in Nat

VARIABLES config,     \* the committed configuration tables
          version,    \* config_version.version
          unbumped,   \* writes committed whose noteConfigWrite has not run
          hidden,     \* history: an edit no later bump has announced
          writes,     \* writes so far
          stream,     \* streamConfig's local variables on the server
          wire,       \* snapshots sent and not yet received
          running,    \* agent: the schedule it runs
          advertised, \* agent: uplink's configHash
          cache,      \* agent: the cache file
          agent,      \* agent: "down", "recv" or "persist"
          stale,      \* history: a cache write AND its clean-up failed
          faults      \* failures so far

tables  == <<config, version, unbumped, hidden, writes>>
memory  == <<running, advertised, agent>>
configVars    == <<tables, stream, wire, memory, cache, stale, faults>>

Phases == {"down", "hello", "build", "build rest", "idle", "rebuild", "rebuild rest"}

StreamType ==
    [phase : Phases, hello : Snapshots \cup {None}, lastVer : Nat, ver : Nat, verOK : BOOLEAN,
     part : Snapshots \cup {None}, snapshot : Snapshots \cup {None}, sinceRebuild : 0..RebuildEvery]

Down == [phase |-> "down", hello |-> None, lastVer |-> 0, ver |-> 0, verOK |-> FALSE,
         part |-> None, snapshot |-> None, sinceRebuild |-> 0]

ConfigInit ==
    /\ \E c \in Values : config = <<c, c>>
    /\ version = 0
    /\ unbumped = 0
    /\ hidden = FALSE
    /\ writes = 0
    /\ stream = Down
    /\ wire = <<>>
    /\ running = None
    /\ advertised = None
    /\ cache = None
    /\ agent = "down"
    /\ stale = FALSE
    /\ faults = 0

Fault == faults < MaxFaults /\ faults' = faults + 1

-----------------------------------------------------------------------------
(* Writers. *)

(* A configuration transaction commits, or fails; noteConfigWrite is
   deferred either way. *)
Write ==
    /\ writes < MaxWrites
    /\ writes' = writes + 1
    /\ \E c \in Values : config' \in {<<c, c>>, config}
    /\ unbumped' = unbumped + 1
    /\ UNCHANGED <<version, hidden, stream, wire, memory, cache, stale, faults>>

(* noteConfigWrite. *)
BumpVersion ==
    /\ unbumped > 0
    /\ unbumped' = unbumped - 1
    /\ version' = version + 1
    /\ hidden' = FALSE
    /\ UNCHANGED <<config, writes, stream, wire, memory, cache, stale, faults>>

(* The bump fails (it is only logged), or its process dies first. *)
LoseBump ==
    /\ unbumped > 0
    /\ unbumped' = unbumped - 1
    /\ hidden' = TRUE
    /\ UNCHANGED <<config, version, writes, stream, wire, memory, cache, stale, faults>>

(* Manual SQL, behind the store's back. *)
ManualEdit ==
    /\ writes < MaxWrites
    /\ writes' = writes + 1
    /\ \E c \in Values : config' = <<c, c>>
    /\ hidden' = TRUE
    /\ UNCHANGED <<version, unbumped, stream, wire, memory, cache, stale, faults>>

-----------------------------------------------------------------------------
(* The server's side of the stream: streamConfig. *)

(* streamOnce opens the stream; AgentHello carries the agent's hash. *)
Connect ==
    /\ agent = "recv" /\ stream.phase = "down"
    /\ stream' = [Down EXCEPT !.phase = "hello", !.hello = advertised]
    /\ UNCHANGED <<tables, wire, memory, cache, stale, faults>>

(* The version is read BEFORE the build. *)
ReadVersion ==
    /\ stream.phase = "hello"
    /\ stream' = [stream EXCEPT !.phase = "build", !.lastVer = version]
    /\ UNCHANGED <<tables, wire, memory, cache, stale, faults>>

(* LoadAgentConfigInputs: an earlier statement of the batch. *)
LoadFirst ==
    /\ stream.phase \in {"build", "rebuild"}
    /\ stream' = [stream EXCEPT !.phase = IF stream.phase = "build" THEN "build rest" ELSE "rebuild rest",
                                !.part = config]
    /\ UNCHANGED <<tables, wire, memory, cache, stale, faults>>

(* ... and a later one: what the build yields. *)
built == <<stream.part[1], config[2]>>

(* The first snapshot is sent unless the agent already runs it.  (Variant:
   unless the agent runs anything.) *)
sendFirstIfNone(hello, snap) == hello = None

sendFirst(hello, snap) == hello # snap

InitialSnapshot ==
    /\ stream.phase = "build rest"
    /\ wire' = IF sendFirst(stream.hello, built) THEN Append(wire, built) ELSE wire
    /\ stream' = [stream EXCEPT !.phase = "idle", !.snapshot = built]
    /\ UNCHANGED <<tables, memory, cache, stale, faults>>

(* Whether a tick rebuilds.  (Variant: never without a new version.) *)
rebuildOnBump(verOK, ver, since) == verOK /\ ver # stream.lastVer

rebuildDue(verOK, ver, since) == (verOK /\ ver # stream.lastVer) \/ since >= RebuildEvery

(* The liveness tick: the version is read (or its read fails), then either
   a rebuild starts or the stream waits for the next tick.  sinceRebuild
   stops counting at RebuildEvery, where it is only compared. *)
Tick ==
    /\ stream.phase = "idle"
    /\ \E verOK \in BOOLEAN :
          /\ IF verOK THEN UNCHANGED faults ELSE Fault
          /\ LET since == IF stream.sinceRebuild < RebuildEvery THEN stream.sinceRebuild + 1
                          ELSE RebuildEvery
             IN  stream' = [stream EXCEPT !.phase = IF rebuildDue(verOK, version, since)
                                                    THEN "rebuild" ELSE "idle",
                                          !.ver = IF verOK THEN version ELSE 0,
                                          !.verOK = verOK,
                                          !.sinceRebuild = since]
    /\ UNCHANGED <<tables, wire, memory, cache, stale>>

(* A failed rebuild keeps the snapshot, lastVer and sinceRebuild. *)
RebuildFails ==
    /\ stream.phase \in {"rebuild", "rebuild rest"}
    /\ Fault
    /\ stream' = [stream EXCEPT !.phase = "idle"]
    /\ UNCHANGED <<tables, wire, memory, cache, stale>>

(* The version a rebuild is credited with: the one read before it.
   (Variant: the one current when it ends.) *)
creditedAfter == IF stream.verOK THEN version ELSE stream.lastVer

credited == IF stream.verOK THEN stream.ver ELSE stream.lastVer

Rebuilt ==
    /\ stream.phase = "rebuild rest"
    /\ wire' = IF built # stream.snapshot THEN Append(wire, built) ELSE wire
    /\ stream' = [stream EXCEPT !.phase = "idle", !.snapshot = built,
                                !.lastVer = credited, !.sinceRebuild = 0]
    /\ UNCHANGED <<tables, memory, cache, stale, faults>>

(* The stream ends: the network, a failed send, version read or first
   build, a certificate that cannot be confirmed, a recycled connection, a
   server restart.  What was sent and not received is lost. *)
StreamEnds ==
    /\ stream.phase # "down"
    /\ Fault
    /\ stream' = Down
    /\ wire' = <<>>
    /\ UNCHANGED <<tables, memory, cache, stale>>

-----------------------------------------------------------------------------
(* The agent. *)

(* cmdRun: the cached snapshot is applied and its hash primed. *)
AgentStart ==
    /\ agent = "down"
    /\ running' = cache
    /\ advertised' = cache
    /\ agent' = "recv"
    /\ UNCHANGED <<tables, stream, wire, cache, stale, faults>>

(* The cache is unreadable: the agent waits for the server. *)
AgentStartUncached ==
    /\ agent = "down"
    /\ Fault
    /\ agent' = "recv"
    /\ UNCHANGED <<tables, stream, wire, running, advertised, cache, stale>>

(* streamOnce: the hash is taken over, then OnSnapshot applies the snapshot
   and goes on to persist it. *)
Recv ==
    /\ agent = "recv" /\ wire # <<>>
    /\ advertised' = Head(wire)
    /\ running' = Head(wire)
    /\ wire' = Tail(wire)
    /\ agent' = "persist"
    /\ UNCHANGED <<tables, stream, cache, stale, faults>>

(* confcache.Store: temporary file and rename. *)
StoreCache ==
    /\ agent = "persist"
    /\ cache' = running
    /\ stale' = FALSE
    /\ agent' = "recv"
    /\ UNCHANGED <<tables, stream, wire, running, advertised, faults>>

(* Store fails, and the cache is cleared.  (Variant: it is not.) *)
keptCache == cache

clearedCache == None

StoreCacheFails ==
    /\ agent = "persist"
    /\ Fault
    /\ cache' = clearedCache
    /\ stale' = FALSE
    /\ agent' = "recv"
    /\ UNCHANGED <<tables, stream, wire, running, advertised>>

(* Store fails and so does Clear: both are only logged. *)
ClearCacheFails ==
    /\ agent = "persist"
    /\ Fault
    /\ stale' = TRUE
    /\ agent' = "recv"
    /\ UNCHANGED <<tables, stream, wire, running, advertised, cache>>

AgentCrash ==
    /\ agent # "down"
    /\ Fault
    /\ agent' = "down"
    /\ running' = None
    /\ advertised' = None
    /\ stream' = Down
    /\ wire' = <<>>
    /\ UNCHANGED <<tables, cache, stale>>

-----------------------------------------------------------------------------

WriterNext == Write \/ BumpVersion \/ LoseBump \/ ManualEdit
StreamNext == Connect \/ ReadVersion \/ LoadFirst \/ InitialSnapshot \/ Tick \/ RebuildFails \/ Rebuilt \/ StreamEnds
AgentNext  == AgentStart \/ AgentStartUncached \/ Recv \/ StoreCache \/ StoreCacheFails
                 \/ ClearCacheFails \/ AgentCrash

ConfigNext == WriterNext \/ StreamNext \/ AgentNext

ConfigSpec == ConfigInit /\ [][ConfigNext]_configVars

(* The agent reconnects and its stream goroutine keeps running; a stream
   that is up keeps ticking and finishes its builds.  Nothing is assumed of
   the writers (a bump may never come) or of the failures. *)
ConfigFairness ==
    /\ WF_configVars(Connect) /\ WF_configVars(ReadVersion) /\ WF_configVars(LoadFirst)
    /\ WF_configVars(InitialSnapshot) /\ WF_configVars(Tick) /\ WF_configVars(Rebuilt)
    /\ WF_configVars(AgentStart) /\ WF_configVars(Recv) /\ WF_configVars(StoreCache)

ConfigFairSpec == ConfigSpec /\ ConfigFairness

-----------------------------------------------------------------------------

(* The variables keep their types; the version a stream remembers is one
   the database had. *)
ConfigTypeOK ==
    /\ config \in Snapshots
    /\ version \in Nat /\ unbumped \in Nat /\ writes \in Nat /\ faults \in Nat
    /\ hidden \in BOOLEAN /\ stale \in BOOLEAN
    /\ stream \in StreamType
    /\ stream.lastVer <= version /\ stream.ver <= version
    /\ wire \in Seq(Snapshots)
    /\ running \in Snapshots \cup {None}
    /\ advertised \in Snapshots \cup {None}
    /\ cache \in Snapshots \cup {None}
    /\ agent \in {"down", "recv", "persist"}

(***************************************************************************)
(* A build never masks the write it raced: while an idle stream holds the  *)
(* current version, and every write has been announced, the snapshot it    *)
(* holds is the configuration, never an older or a torn one.  (The version *)
(* is read before the build, the bump comes after the commit.)             *)
(***************************************************************************)
VersionCoversBuild ==
    stream.phase = "idle" /\ stream.lastVer = version /\ unbumped = 0 /\ ~hidden
        => stream.snapshot = config

(* What the agent advertises once it has received all that was sent. *)
announced == IF wire = <<>> THEN advertised ELSE wire[Len(wire)]

(***************************************************************************)
(* The server is right about the agent: the snapshot an idle stream        *)
(* compares the next build with is the one the agent runs, or will run     *)
(* when it has received what was sent.  Otherwise a changed configuration  *)
(* would look unchanged and never be sent.  (Hash in AgentHello, `snapshot *)
(* = fresh` after the send.)                                               *)
(***************************************************************************)
ServerKnowsAgent ==
    stream.phase \in {"idle", "rebuild", "rebuild rest"} => announced = stream.snapshot

(***************************************************************************)
(* A restart never resurrects an older schedule: outside the handling of a *)
(* snapshot the cache is the running schedule or empty, unless Store and   *)
(* Clear both failed.  (confcache.Clear after a failed Store.)             *)
(***************************************************************************)
CacheNotStale == agent = "recv" /\ running # None /\ ~stale => cache \in {None, running}

(***************************************************************************)
(* When edits and failures have ended the agent comes to run the current   *)
(* configuration for good, even if the last edit was never announced by a  *)
(* version bump.  (Rebuild on a new version, forced rebuild every          *)
(* RebuildEvery ticks, reconnection with the hash in hand.)                *)
(***************************************************************************)
ConfigConverges == <>[](running = config)

=============================================================================
