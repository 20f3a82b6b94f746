------------------------- MODULE ConfigStreamProofs -------------------------
(***************************************************************************)
(* A build never masks the write it raced, the server is right about what  *)
(* the agent runs, and a restart never resurrects an older schedule: for   *)
(* any configuration contents, any number of writes and failures.          *)
(*                                                                         *)
(* VersionCoversBuild is not inductive: it is about an idle stream, and    *)
(* what makes it true happens between the version read and the end of the  *)
(* build.  BuildInv says what a half-finished build may rely on.  AgentInv *)
(* does the same for the hash the agent advertised while its stream was    *)
(* being set up.                                                           *)
(***************************************************************************)
EXTENDS ConfigStream, TLAPS

Up == {"idle", "rebuild", "rebuild rest"}

(* Every committed write has been announced by a bump. *)
AllAnnounced == unbumped = 0 /\ ~hidden

BuildInv ==
    /\ stream.phase \in {"build rest", "rebuild rest"} => stream.part \in Snapshots
    /\ stream.phase \in {"build rest", "rebuild rest"} /\ stream.lastVer = version /\ AllAnnounced
          => stream.part = config
    /\ stream.phase = "rebuild rest" /\ stream.verOK /\ stream.ver = version /\ AllAnnounced
          => stream.part = config
    /\ stream.phase \in Up /\ stream.lastVer = version /\ AllAnnounced
          => stream.snapshot = config

AgentInv ==
    /\ agent = "down" => stream.phase = "down" /\ running = None
    /\ stream.phase \notin Up => wire = <<>>
    /\ stream.phase \in {"hello", "build", "build rest"} => stream.hello = advertised
    /\ stream.phase \in Up => announced = stream.snapshot
    /\ CacheNotStale

ConfigInv == ConfigTypeOK /\ BuildInv /\ AgentInv

-----------------------------------------------------------------------------

(* The fields of a stream, what a stream that is down holds, and what a
   build yields. *)
LEMMA ConfigInvAlways == ConfigSpec => []ConfigInv
<1>facts. /\ \A s \in StreamType :
                /\ s.phase \in Phases /\ s.lastVer \in Nat /\ s.ver \in Nat /\ s.verOK \in BOOLEAN
                /\ s.hello \in Snapshots \cup {None} /\ s.part \in Snapshots \cup {None}
                /\ s.snapshot \in Snapshots \cup {None} /\ s.sinceRebuild \in 0..RebuildEvery
          /\ Down \in StreamType /\ Down.phase = "down" /\ Down.lastVer = 0 /\ Down.ver = 0
          /\ config \in Snapshots /\ stream.part \in Snapshots =>
                built \in Snapshots /\ (stream.part = config => built = config)
    <2>1. ASSUME NEW s \in StreamType
          PROVE  /\ s.phase \in Phases /\ s.lastVer \in Nat /\ s.ver \in Nat /\ s.verOK \in BOOLEAN
                 /\ s.hello \in Snapshots \cup {None} /\ s.part \in Snapshots \cup {None}
                 /\ s.snapshot \in Snapshots \cup {None} /\ s.sinceRebuild \in 0..RebuildEvery
      BY DEF StreamType
    <2>2. Down \in StreamType /\ Down.phase = "down" /\ Down.lastVer = 0 /\ Down.ver = 0
      BY ConfigAssumption DEF Down, StreamType, Phases, None
    <2>3. ASSUME config \in Snapshots, stream.part \in Snapshots
          PROVE  built \in Snapshots /\ (stream.part = config => built = config)
      BY <2>3 DEF built, Snapshots
    <2> QED
      BY <2>1, <2>2, <2>3
<1>1. ConfigInit => ConfigInv
  <2> SUFFICES ASSUME ConfigInit PROVE ConfigInv
    OBVIOUS
  <2>1. config \in Snapshots
    BY DEF ConfigInit, Snapshots
  <2>2. ConfigTypeOK
    <3>1. stream \in StreamType /\ stream.lastVer <= version /\ stream.ver <= version
      BY <1>facts DEF ConfigInit
    <3>2. wire \in Seq(Snapshots)
      BY DEF ConfigInit
    <3> QED
      BY <2>1, <3>1, <3>2 DEF ConfigInit, ConfigTypeOK
  <2>3. BuildInv
    BY <1>facts DEF ConfigInit, BuildInv, Up
  <2>4. AgentInv
    BY <1>facts DEF ConfigInit, AgentInv, CacheNotStale, Up
  <2> QED
    BY <2>2, <2>3, <2>4 DEF ConfigInv
<1>2. ConfigInv /\ UNCHANGED configVars => ConfigInv'
  <2> SUFFICES ASSUME ConfigInv, UNCHANGED configVars PROVE ConfigInv'
    OBVIOUS
  <2>1. ConfigTypeOK'
    BY DEF configVars, tables, memory, ConfigInv, ConfigTypeOK
  <2>2. BuildInv'
    BY DEF configVars, tables, memory, ConfigInv, BuildInv, AllAnnounced
  <2>3. AgentInv'
    BY DEF configVars, tables, memory, ConfigInv, AgentInv, CacheNotStale, announced
  <2> QED
    BY <2>1, <2>2, <2>3 DEF ConfigInv
\* The writers touch the tables only.
<1>writer. ConfigInv /\ WriterNext => ConfigInv'
  <2> SUFFICES ASSUME ConfigInv, WriterNext PROVE ConfigInv'
    OBVIOUS
  <2>1. UNCHANGED <<stream, wire, running, advertised, agent, cache, stale, faults>>
    BY DEF WriterNext, Write, BumpVersion, LoseBump, ManualEdit, memory
  <2>2. AgentInv'
    BY <2>1 DEF ConfigInv, AgentInv, announced, CacheNotStale
  <2>3. CASE Write
    <3>1. \A c \in Values : <<c, c>> \in Snapshots
      BY DEF Snapshots
    <3>2. ConfigTypeOK'
      BY <2>1, <2>3, <3>1 DEF ConfigInv, ConfigTypeOK, Write
    <3>3. ~AllAnnounced'
      <4>1. unbumped \in Nat
        BY DEF ConfigInv, ConfigTypeOK
      <4> QED
        BY <2>3, <4>1 DEF Write, AllAnnounced
    <3>4. BuildInv'
      BY <2>1, <3>3 DEF ConfigInv, BuildInv
    <3> QED
      BY <2>2, <3>2, <3>4 DEF ConfigInv
  <2>4. CASE BumpVersion
    <3>1. version' = version + 1 /\ unbumped' = unbumped - 1 /\ unbumped > 0
          /\ hidden' = FALSE /\ config' = config /\ writes' = writes
      BY <2>4 DEF BumpVersion
    <3>t. version \in Nat /\ stream.lastVer \in Nat /\ stream.ver \in Nat
      BY <1>facts DEF ConfigInv, ConfigTypeOK
    <3>2. ConfigTypeOK'
      <4>1. version' \in Nat /\ unbumped' \in Nat /\ hidden' \in BOOLEAN
        <5>1. version \in Nat /\ unbumped \in Nat
          BY DEF ConfigInv, ConfigTypeOK
        <5>2. version' = version + 1 /\ unbumped' = unbumped - 1 /\ unbumped > 0
          BY <3>1
        <5>3. version' \in Nat /\ unbumped' \in Nat
          BY <5>1, <5>2
        <5> QED
          BY <3>1, <5>3
      <4>2. stream.lastVer <= version' /\ stream.ver <= version'
        BY <3>1, <3>t DEF ConfigInv, ConfigTypeOK
      <4> QED
        BY <2>1, <3>1, <4>1, <4>2 DEF ConfigInv, ConfigTypeOK
    <3>3. stream'.lastVer # version' /\ stream'.ver # version'
      BY <2>1, <3>1, <3>t DEF ConfigInv, ConfigTypeOK
    <3>4. BuildInv'
      BY <2>1, <3>3 DEF ConfigInv, BuildInv
    <3> QED
      BY <2>2, <3>2, <3>4 DEF ConfigInv
  <2>5. CASE LoseBump
    <3>1. ConfigTypeOK'
      BY <2>1, <2>5 DEF ConfigInv, ConfigTypeOK, LoseBump
    <3>2. ~AllAnnounced'
      BY <2>5 DEF LoseBump, AllAnnounced
    <3>3. BuildInv'
      BY <2>1, <3>2 DEF ConfigInv, BuildInv
    <3> QED
      BY <2>2, <3>1, <3>3 DEF ConfigInv
  <2>6. CASE ManualEdit
    <3>1. \A c \in Values : <<c, c>> \in Snapshots
      BY DEF Snapshots
    <3>2. ConfigTypeOK'
      BY <2>1, <2>6, <3>1 DEF ConfigInv, ConfigTypeOK, ManualEdit
    <3>3. ~AllAnnounced'
      BY <2>6 DEF ManualEdit, AllAnnounced
    <3>4. BuildInv'
      BY <2>1, <3>3 DEF ConfigInv, BuildInv
    <3> QED
      BY <2>2, <3>2, <3>4 DEF ConfigInv
  <2> QED
    BY <2>3, <2>4, <2>5, <2>6 DEF WriterNext
\* The agent's own steps leave the tables alone.
<1>agent. ConfigInv /\ AgentNext => ConfigInv'
  <2> SUFFICES ASSUME ConfigInv, AgentNext PROVE ConfigInv'
    OBVIOUS
  <2>1. CASE AgentStart
    <3>1. /\ agent = "down" /\ running' = cache /\ advertised' = cache /\ agent' = "recv"
          /\ UNCHANGED <<config, version, unbumped, hidden, writes, stream, wire, cache, stale, faults>>
      BY <2>1 DEF AgentStart, tables
    <3>2. ConfigTypeOK'
      BY <3>1 DEF ConfigInv, ConfigTypeOK
    <3>3. BuildInv'
      BY <3>1 DEF ConfigInv, BuildInv, AllAnnounced
    <3>4. AgentInv'
      BY <3>1 DEF ConfigInv, AgentInv, CacheNotStale, Up
    <3> QED
      BY <3>2, <3>3, <3>4 DEF ConfigInv
  <2>2. CASE AgentStartUncached
    <3>1. /\ agent = "down" /\ agent' = "recv" /\ faults' = faults + 1
          /\ UNCHANGED <<config, version, unbumped, hidden, writes, stream, wire, running, advertised, cache, stale>>
      BY <2>2 DEF AgentStartUncached, tables, Fault
    <3>2. ConfigTypeOK'
      BY <3>1 DEF ConfigInv, ConfigTypeOK
    <3>3. BuildInv'
      BY <3>1 DEF ConfigInv, BuildInv, AllAnnounced
    <3>4. AgentInv'
      BY <3>1 DEF ConfigInv, AgentInv, CacheNotStale, Up
    <3> QED
      BY <3>2, <3>3, <3>4 DEF ConfigInv
  <2>3. CASE Recv
    <3>1. /\ agent = "recv" /\ wire # <<>> /\ advertised' = Head(wire) /\ running' = Head(wire)
          /\ wire' = Tail(wire) /\ agent' = "persist"
          /\ UNCHANGED <<config, version, unbumped, hidden, writes, stream, cache, stale, faults>>
      BY <2>3 DEF Recv, tables
    <3>2. wire \in Seq(Snapshots)
      BY DEF ConfigInv, ConfigTypeOK
    <3>3. Head(wire) \in Snapshots /\ Tail(wire) \in Seq(Snapshots)
      BY <3>1, <3>2
    <3>4. ConfigTypeOK'
      BY <3>1, <3>3 DEF ConfigInv, ConfigTypeOK
    <3>5. BuildInv'
      BY <3>1 DEF ConfigInv, BuildInv, AllAnnounced
    <3>6. stream.phase \in Up
      BY <3>1 DEF ConfigInv, AgentInv
    <3>7. announced' = announced
      <4>1. CASE Tail(wire) = <<>>
        <5>1. Len(wire) = 1
          <6>1. Len(Tail(wire)) = Len(wire) - 1 /\ Len(wire) \in Nat
            BY <3>1, <3>2
          <6>2. Len(Tail(wire)) = 0
            BY <4>1
          <6> QED
            BY <6>1, <6>2
        <5> QED
          BY <3>1, <4>1, <5>1 DEF announced
      <4>2. CASE Tail(wire) # <<>>
        <5>1. Len(Tail(wire)) = Len(wire) - 1 /\ Len(wire) > 1
          BY <3>1, <3>2, <4>2
        <5>2. Tail(wire)[Len(wire) - 1] = wire[Len(wire)]
          BY <3>2, <5>1
        <5> QED
          BY <3>1, <4>2, <5>1, <5>2 DEF announced
      <4> QED
        BY <4>1, <4>2
    <3>8. AgentInv'
      BY <3>1, <3>6, <3>7 DEF ConfigInv, AgentInv, CacheNotStale, Up
    <3> QED
      BY <3>4, <3>5, <3>8 DEF ConfigInv
  <2>4. ASSUME StoreCache \/ StoreCacheFails \/ ClearCacheFails PROVE ConfigInv'
    <3>1. /\ agent = "persist" /\ agent' = "recv" /\ faults' \in Nat
          /\ UNCHANGED <<config, version, unbumped, hidden, writes, stream, wire, running, advertised>>
      BY <2>4 DEF StoreCache, StoreCacheFails, ClearCacheFails, tables, Fault, ConfigInv, ConfigTypeOK
    <3>2. \/ cache' \in {running, None} /\ stale' = FALSE
          \/ stale' = TRUE /\ cache' = cache
      <4>1. CASE StoreCache
        BY <4>1 DEF StoreCache
      <4>2. CASE StoreCacheFails
        BY <4>2 DEF StoreCacheFails, clearedCache
      <4>3. CASE ClearCacheFails
        BY <4>3 DEF ClearCacheFails
      <4> QED
        BY <2>4, <4>1, <4>2, <4>3
    <3>3. ConfigTypeOK'
      BY <3>1, <3>2 DEF ConfigInv, ConfigTypeOK
    <3>4. BuildInv'
      BY <3>1 DEF ConfigInv, BuildInv, AllAnnounced
    <3>5. AgentInv'
      BY <3>1, <3>2 DEF ConfigInv, AgentInv, CacheNotStale, announced
    <3> QED
      BY <3>3, <3>4, <3>5 DEF ConfigInv
  <2>5. CASE AgentCrash
    <3>1. /\ agent' = "down" /\ running' = None /\ advertised' = None /\ stream' = Down /\ wire' = <<>>
          /\ faults' = faults + 1 /\ UNCHANGED <<config, version, unbumped, hidden, writes, cache, stale>>
      BY <2>5 DEF AgentCrash, tables, Fault
    <3>2. ConfigTypeOK'
      BY <3>1, <1>facts DEF ConfigInv, ConfigTypeOK
    <3>3. BuildInv'
      BY <3>1, <1>facts DEF BuildInv, Up
    <3>4. AgentInv'
      BY <3>1, <1>facts DEF AgentInv, CacheNotStale, Up
    <3> QED
      BY <3>2, <3>3, <3>4 DEF ConfigInv
  <2> QED
    BY <2>1, <2>2, <2>3, <2>4, <2>5 DEF AgentNext
\* The stream's own steps.
<1>stream. ConfigInv /\ StreamNext => ConfigInv'
  <2> SUFFICES ASSUME ConfigInv, StreamNext PROVE ConfigInv'
    OBVIOUS
  <2>t. /\ ConfigTypeOK /\ stream \in StreamType /\ stream.lastVer \in Nat /\ stream.ver \in Nat
        /\ version \in Nat /\ faults \in Nat /\ config \in Snapshots /\ wire \in Seq(Snapshots)
        /\ stream.lastVer <= version /\ stream.ver <= version
    BY <1>facts DEF ConfigInv, ConfigTypeOK
  <2>1. CASE Connect
    <3>1. /\ stream.phase = "down" /\ stream' = [Down EXCEPT !.phase = "hello", !.hello = advertised]
          /\ agent = "recv"
          /\ UNCHANGED <<config, version, unbumped, hidden, writes, wire, running, advertised, agent, cache, stale, faults>>
      BY <2>1 DEF Connect, tables, memory
    <3>2. /\ stream' \in StreamType /\ stream'.phase = "hello" /\ stream'.hello = advertised
          /\ stream'.lastVer = 0 /\ stream'.ver = 0
      <4>1. advertised \in Snapshots \cup {None}
        BY <2>t DEF ConfigTypeOK
      <4>2. stream' = [phase |-> "hello", hello |-> advertised, lastVer |-> 0, ver |-> 0, verOK |-> FALSE,
                       part |-> None, snapshot |-> None, sinceRebuild |-> 0]
        BY <3>1 DEF Down
      <4> QED
        BY <4>1, <4>2, ConfigAssumption DEF StreamType, Phases
    <3>3. ConfigTypeOK'
      BY <2>t, <3>1, <3>2 DEF ConfigTypeOK
    <3>4. BuildInv'
      BY <3>2 DEF BuildInv, Up
    <3>5. AgentInv'
      BY <3>1, <3>2 DEF ConfigInv, AgentInv, CacheNotStale, Up
    <3> QED
      BY <3>3, <3>4, <3>5 DEF ConfigInv
  <2>2. CASE ReadVersion
    <3>1. /\ stream.phase = "hello" /\ stream' = [stream EXCEPT !.phase = "build", !.lastVer = version]
          /\ UNCHANGED <<config, version, unbumped, hidden, writes, wire, running, advertised, agent, cache, stale, faults>>
      BY <2>2 DEF ReadVersion, tables, memory
    <3>2. /\ stream' \in StreamType /\ stream'.phase = "build" /\ stream'.hello = stream.hello
          /\ stream'.lastVer = version /\ stream'.ver = stream.ver
      BY <2>t, <3>1 DEF StreamType, Phases
    <3>3. ConfigTypeOK'
      BY <2>t, <3>1, <3>2 DEF ConfigTypeOK
    <3>4. BuildInv'
      BY <3>2 DEF BuildInv, Up
    <3>5. AgentInv'
      BY <3>1, <3>2 DEF ConfigInv, AgentInv, CacheNotStale, Up
    <3> QED
      BY <3>3, <3>4, <3>5 DEF ConfigInv
  <2>3. CASE LoadFirst
    <3>0. PICK ph : ph = IF stream.phase = "build" THEN "build rest" ELSE "rebuild rest"
      OBVIOUS
    <3>1. /\ stream.phase \in {"build", "rebuild"} /\ stream' = [stream EXCEPT !.phase = ph, !.part = config]
          /\ UNCHANGED <<config, version, unbumped, hidden, writes, wire, running, advertised, agent, cache, stale, faults>>
      BY <2>3, <3>0 DEF LoadFirst, tables, memory
    <3>a. \/ stream.phase = "build" /\ ph = "build rest"
          \/ stream.phase = "rebuild" /\ ph = "rebuild rest"
      BY <3>0, <3>1
    <3>2. /\ stream' \in StreamType /\ stream'.phase = ph /\ stream'.part = config
          /\ stream'.hello = stream.hello /\ stream'.lastVer = stream.lastVer /\ stream'.ver = stream.ver
          /\ stream'.snapshot = stream.snapshot
      BY <2>t, <3>1, <3>a DEF StreamType, Phases
    <3>3. ConfigTypeOK'
      BY <2>t, <3>1, <3>2 DEF ConfigTypeOK
    <3>4. BuildInv'
      BY <2>t, <3>1, <3>2, <3>a DEF ConfigInv, BuildInv, AllAnnounced, Up
    <3>5. AgentInv'
      BY <3>1, <3>2, <3>a DEF ConfigInv, AgentInv, CacheNotStale, announced, Up
    <3> QED
      BY <3>3, <3>4, <3>5 DEF ConfigInv
  <2>4. CASE InitialSnapshot
    <3>1. /\ stream.phase = "build rest" /\ stream' = [stream EXCEPT !.phase = "idle", !.snapshot = built]
          /\ wire' = IF stream.hello # built THEN Append(wire, built) ELSE wire
          /\ UNCHANGED <<config, version, unbumped, hidden, writes, running, advertised, agent, cache, stale, faults>>
      BY <2>4 DEF InitialSnapshot, sendFirst, tables, memory
    <3>2. built \in Snapshots /\ (stream.part = config => built = config)
      BY <2>t, <3>1, <1>facts DEF ConfigInv, BuildInv
    <3>3. /\ stream' \in StreamType /\ stream'.phase = "idle" /\ stream'.snapshot = built
          /\ stream'.lastVer = stream.lastVer /\ stream'.ver = stream.ver
      BY <2>t, <3>1, <3>2 DEF StreamType, Phases
    <3>4. wire = <<>> /\ stream.hello = advertised
      BY <3>1 DEF ConfigInv, AgentInv, Up
    <3>5. wire' \in Seq(Snapshots) /\ announced' = built
      <4>1. CASE stream.hello # built
        <5>1. wire' = <<built>>
          <6>1. wire' = Append(wire, built)
            BY <3>1, <4>1
          <6> QED
            BY <3>2, <3>4, <6>1
        <5> QED
          BY <3>2, <5>1 DEF announced
      <4>2. CASE stream.hello = built
        <5>1. wire' = wire /\ advertised' = advertised
          BY <3>1, <4>2
        <5> QED
          BY <2>t, <3>4, <4>2, <5>1 DEF announced
      <4> QED
        BY <4>1, <4>2
    <3>6. ConfigTypeOK'
      BY <2>t, <3>1, <3>3, <3>5 DEF ConfigTypeOK
    <3>7. BuildInv'
      BY <3>1, <3>2, <3>3 DEF ConfigInv, BuildInv, AllAnnounced, Up
    <3>8. AgentInv'
      BY <3>1, <3>3, <3>5 DEF ConfigInv, AgentInv, CacheNotStale, Up
    <3> QED
      BY <3>6, <3>7, <3>8 DEF ConfigInv
  <2>5. CASE Tick
    <3>1. /\ stream.phase = "idle"
          /\ UNCHANGED <<config, version, unbumped, hidden, writes, wire, running, advertised, agent, cache, stale>>
          /\ faults' \in Nat
      BY <2>5, <2>t DEF Tick, tables, memory, Fault
    <3>2. PICK verOK \in BOOLEAN, ph \in {"rebuild", "idle"}, v \in {version, 0}, n \in 0..RebuildEvery :
            stream' = [stream EXCEPT !.phase = ph, !.ver = v, !.verOK = verOK, !.sinceRebuild = n]
      <4>1. PICK verOK \in BOOLEAN :
              LET since == IF stream.sinceRebuild < RebuildEvery THEN stream.sinceRebuild + 1 ELSE RebuildEvery
              IN  stream' = [stream EXCEPT !.phase = IF rebuildDue(verOK, version, since) THEN "rebuild" ELSE "idle",
                                           !.ver = IF verOK THEN version ELSE 0,
                                           !.verOK = verOK,
                                           !.sinceRebuild = since]
        BY <2>5 DEF Tick
      <4>2. PICK n : n = IF stream.sinceRebuild < RebuildEvery THEN stream.sinceRebuild + 1 ELSE RebuildEvery
        OBVIOUS
      <4>3. n \in 0..RebuildEvery
        BY <2>t, <4>2, <1>facts, ConfigAssumption
      <4>4. PICK ph \in {"rebuild", "idle"} : ph = IF rebuildDue(verOK, version, n) THEN "rebuild" ELSE "idle"
        OBVIOUS
      <4>5. PICK v \in {version, 0} : v = IF verOK THEN version ELSE 0
        OBVIOUS
      <4>6. stream' = [stream EXCEPT !.phase = ph, !.ver = v, !.verOK = verOK, !.sinceRebuild = n]
        BY <4>1, <4>2, <4>4, <4>5
      <4> QED
        BY <4>3, <4>6
    <3>3. /\ stream' \in StreamType /\ stream'.phase = ph /\ stream'.snapshot = stream.snapshot
          /\ stream'.lastVer = stream.lastVer /\ stream'.ver = v
      <4>1. v \in Nat /\ ph \in Phases
        <5>1. version \in Nat
          BY <2>t
        <5>2. v = version \/ v = 0
          BY <3>2
        <5>3. v \in Nat
          BY <5>1, <5>2
        <5>4. ph \in Phases
          BY <3>2 DEF Phases
        <5> QED
          BY <5>3, <5>4
      <4>2. stream' = [stream EXCEPT !.phase = ph, !.ver = v, !.verOK = verOK, !.sinceRebuild = n]
        BY <3>2
      <4>3. stream' \in StreamType
        BY <2>t, <4>1, <4>2 DEF StreamType
      <4> QED
        BY <2>t, <4>2, <4>3 DEF StreamType
    <3>4. ConfigTypeOK'
      BY <2>t, <3>1, <3>3 DEF ConfigTypeOK
    <3>5. BuildInv'
      BY <3>1, <3>2, <3>3 DEF ConfigInv, BuildInv, AllAnnounced, Up
    <3>6. AgentInv'
      BY <3>1, <3>2, <3>3 DEF ConfigInv, AgentInv, CacheNotStale, announced, Up
    <3> QED
      BY <3>4, <3>5, <3>6 DEF ConfigInv
  <2>6. CASE RebuildFails
    <3>1. /\ stream.phase \in {"rebuild", "rebuild rest"} /\ stream' = [stream EXCEPT !.phase = "idle"]
          /\ faults' = faults + 1
          /\ UNCHANGED <<config, version, unbumped, hidden, writes, wire, running, advertised, agent, cache, stale>>
      BY <2>6 DEF RebuildFails, tables, memory, Fault
    <3>2. /\ stream' \in StreamType /\ stream'.phase = "idle" /\ stream'.snapshot = stream.snapshot
          /\ stream'.lastVer = stream.lastVer /\ stream'.ver = stream.ver
      BY <2>t, <3>1 DEF StreamType, Phases
    <3>3. ConfigTypeOK'
      <4>1. faults' \in Nat
        <5>1. faults \in Nat
          BY <2>t
        <5>2. faults' = faults + 1
          BY <3>1
        <5> QED
          BY <5>1, <5>2
      <4> QED
        BY <2>t, <3>1, <3>2, <4>1 DEF ConfigTypeOK
    <3>4. BuildInv'
      BY <3>1, <3>2 DEF ConfigInv, BuildInv, AllAnnounced, Up
    <3>5. AgentInv'
      BY <3>1, <3>2 DEF ConfigInv, AgentInv, CacheNotStale, announced, Up
    <3> QED
      BY <3>3, <3>4, <3>5 DEF ConfigInv
  <2>7. CASE Rebuilt
    <3>0. PICK lv : lv = credited
      OBVIOUS
    <3>1. /\ stream.phase = "rebuild rest"
          /\ stream' = [stream EXCEPT !.phase = "idle", !.snapshot = built, !.lastVer = lv, !.sinceRebuild = 0]
          /\ wire' = IF built # stream.snapshot THEN Append(wire, built) ELSE wire
          /\ UNCHANGED <<config, version, unbumped, hidden, writes, running, advertised, agent, cache, stale, faults>>
      BY <2>7, <3>0 DEF Rebuilt, tables, memory
    <3>a. \/ stream.verOK /\ lv = stream.ver
          \/ lv = stream.lastVer
      BY <3>0 DEF credited
    <3>2. built \in Snapshots /\ (stream.part = config => built = config)
      BY <2>t, <3>1, <1>facts DEF ConfigInv, BuildInv
    <3>b. lv \in Nat /\ lv <= version
      BY <2>t, <3>a
    <3>3. /\ stream' \in StreamType /\ stream'.phase = "idle" /\ stream'.snapshot = built
          /\ stream'.lastVer = lv /\ stream'.ver = stream.ver
      <4>1. 0 \in 0..RebuildEvery /\ "idle" \in Phases
        BY ConfigAssumption DEF Phases
      <4>2. stream' \in StreamType
        BY <2>t, <3>1, <3>2, <3>b, <4>1 DEF StreamType
      <4> QED
        BY <2>t, <3>1, <4>2 DEF StreamType
    <3>4. announced = stream.snapshot
      BY <3>1 DEF ConfigInv, AgentInv, Up
    <3>5. wire' \in Seq(Snapshots) /\ announced' = built
      <4>1. CASE built # stream.snapshot
        <5>1. wire' = Append(wire, built)
          BY <3>1, <4>1
        <5>2. wire' \in Seq(Snapshots) /\ Len(wire') = Len(wire) + 1 /\ wire'[Len(wire) + 1] = built
          BY <2>t, <3>2, <5>1
        <5>3. wire' # <<>>
          BY <2>t, <5>2
        <5> QED
          BY <5>2, <5>3 DEF announced
      <4>2. CASE built = stream.snapshot
        BY <2>t, <3>1, <3>4, <4>2 DEF announced
      <4> QED
        BY <4>1, <4>2
    <3>6. ConfigTypeOK'
      BY <2>t, <3>1, <3>3, <3>5, <3>b DEF ConfigTypeOK
    <3>7. BuildInv'
      BY <3>1, <3>2, <3>3, <3>a DEF ConfigInv, BuildInv, AllAnnounced, Up
    <3>8. AgentInv'
      BY <3>1, <3>3, <3>5 DEF ConfigInv, AgentInv, CacheNotStale, Up
    <3> QED
      BY <3>6, <3>7, <3>8 DEF ConfigInv
  <2>8. CASE StreamEnds
    <3>1. /\ stream' = Down /\ wire' = <<>> /\ faults' = faults + 1
          /\ UNCHANGED <<config, version, unbumped, hidden, writes, running, advertised, agent, cache, stale>>
      BY <2>8 DEF StreamEnds, tables, memory, Fault
    <3>2. ConfigTypeOK'
      BY <2>t, <3>1, <1>facts DEF ConfigTypeOK
    <3>3. BuildInv'
      BY <3>1, <1>facts DEF BuildInv, Up
    <3>4. AgentInv'
      BY <3>1, <1>facts DEF ConfigInv, AgentInv, CacheNotStale, Up
    <3> QED
      BY <3>2, <3>3, <3>4 DEF ConfigInv
  <2> QED
    BY <2>1, <2>2, <2>3, <2>4, <2>5, <2>6, <2>7, <2>8 DEF StreamNext
<1>3. ConfigInv /\ [ConfigNext]_configVars => ConfigInv'
  BY <1>2, <1>writer, <1>stream, <1>agent DEF ConfigNext
<1> QED
  BY <1>1, <1>3, PTL DEF ConfigSpec

(* The stream's variables keep their types and its versions are ones the
   database had. *)
THEOREM ConfigTypeCorrect == ConfigSpec => []ConfigTypeOK
<1>1. ConfigInv => ConfigTypeOK
  BY DEF ConfigInv
<1> QED
  BY <1>1, ConfigInvAlways, PTL

(* "A build can never mask the write it raced": whatever commits between
   the version read and the end of a build, an idle stream that holds the
   current version holds the current configuration. *)
THEOREM VersionCoversBuildAlways == ConfigSpec => []VersionCoversBuild
<1>1. ConfigInv => VersionCoversBuild
  BY DEF ConfigInv, BuildInv, AllAnnounced, Up, VersionCoversBuild
<1> QED
  BY <1>1, ConfigInvAlways, PTL

(* Whatever is lost, restarted or torn down, the snapshot an open stream
   compares with is the one the agent runs or is about to receive. *)
THEOREM ServerKnowsAgentAlways == ConfigSpec => []ServerKnowsAgent
<1>1. ConfigInv => ServerKnowsAgent
  BY DEF ConfigInv, AgentInv, Up, ServerKnowsAgent
<1> QED
  BY <1>1, ConfigInvAlways, PTL

(* Outside the handling of a snapshot the cache file is the running
   schedule or absent, unless Store and Clear both failed. *)
THEOREM CacheNotStaleAlways == ConfigSpec => []CacheNotStale
<1>1. ConfigInv => CacheNotStale
  BY DEF ConfigInv, AgentInv
<1> QED
  BY <1>1, ConfigInvAlways, PTL

=============================================================================
