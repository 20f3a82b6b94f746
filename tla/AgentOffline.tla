---------------------------- MODULE AgentOffline ----------------------------
(***************************************************************************)
(* The agent_offline events of one agent: the silence sweep of             *)
(* internal/server/outage/sweep.go against the two signs of life it reads, *)
(* agents.last_seen_at (TouchAgent, while a config stream is up) and the   *)
(* newest series_state.last_time (ingest, in the agent's own clock).       *)
(*                                                                         *)
(* Every server process sweeps.  A sweep takes its time first, then reads, *)
(* then writes, and anything may happen in between; only the partial       *)
(* unique index on open agent_offline rows stands between two of them.     *)
(* Times are kept as ages, cut off where they stop to matter.              *)
(***************************************************************************)
EXTENDS Integers, FiniteSets

CONSTANTS
    Sweepers,       \* server processes
    TouchEvery,     \* the config stream's touch
    SeenGrace,      \* offlineSeenGrace
    Cadences,       \* the agent's fastest probe interval, 0 = no probe
    ClockSkew,     \* how far an agent's clock may run ahead (maxFutureSkew)
    MaxLag          \* bound: how long a sweep takes

ASSUME OfflineAssumption ==
    /\ TouchEvery \in Nat /\ SeenGrace \in Nat /\ TouchEvery <= SeenGrace
    /\ Cadences \subseteq Nat /\ ClockSkew \in Nat /\ MaxLag \in Nat

VARIABLES
    life,       \* which signs of life the agent gives: stream, results
    minInterval,\* fastest enabled probe of the agent
    seen,       \* age of last_seen_at
    result,     \* age of the newest result time
    open,       \* ids of the open agent_offline rows
    sweeper     \* per process: where it is, age of its now, what it decided

offlineVars == <<life, minInterval, seen, result, open, sweeper>>

\* Ages from here on are all the same to every sweep.
Horizon == MaxLag + 1 +
    (CHOOSE h \in {SeenGrace} \cup {3 * c : c \in Cadences} :
        \A c \in Cadences : h >= 3 * c /\ h >= SeenGrace)
Older(age) == IF age < Horizon THEN age + 1 ELSE Horizon

Resting == [pc |-> "rest", lag |-> 0, write |-> "none", event |-> 0]

\* An id that no open row has and no sweep is about to close.
newId ==
    CHOOSE i \in 1..(2 * Cardinality(Sweepers) + 1) :
        i \notin open \cup {sweeper[s].event : s \in Sweepers}

OfflineInit ==
    /\ life = {"stream", "results"}
    /\ minInterval \in Cadences
    /\ seen = 0 /\ result = Horizon /\ open = {}
    /\ sweeper = [s \in Sweepers |-> Resting]

-----------------------------------------------------------------------------
(* The agent, and time.                                                    *)

\* TouchAgent, on a stream that is up.
TouchAgent ==
    /\ "stream" \in life
    /\ seen' = 0
    /\ UNCHANGED <<life, minInterval, result, open, sweeper>>

\* A result enters series_state: a fresh one, one dated ahead by a fast clock,
\* or a spooled one that is older than what is there and changes nothing.
Ingest(age) ==
    /\ "results" \in life
    /\ result' = IF age < result THEN age ELSE result
    /\ UNCHANGED <<life, minInterval, seen, open, sweeper>>

\* The agent, its network or its probing goes away or comes back.
ChangeLife ==
    /\ life' \in SUBSET {"stream", "results"}
    /\ UNCHANGED <<minInterval, seen, result, open, sweeper>>

\* An operator changes the agent's probes.
Reconfigure ==
    /\ minInterval' \in Cadences
    /\ UNCHANGED <<life, seen, result, open, sweeper>>

\* A stream that is up touches in time, an agent that delivers results misses
\* at most one beat, a sweep takes at most MaxLag.
OfflineTick ==
    /\ "stream" \in life => seen < TouchEvery
    /\ ("results" \in life /\ minInterval > 0) => result < 2 * minInterval
    /\ \A s \in Sweepers : sweeper[s].pc # "rest" => sweeper[s].lag < MaxLag
    /\ seen' = Older(seen) /\ result' = Older(result)
    /\ sweeper' = [s \in Sweepers |->
                     IF sweeper[s].pc = "rest" THEN sweeper[s]
                     ELSE [sweeper[s] EXCEPT !.lag = @ + 1]]
    /\ UNCHANGED <<life, minInterval, open>>

-----------------------------------------------------------------------------
(* Sweep.                                                                  *)

\* Variant: a fresh result alone does not end an outage.
decideOfflineSeenOnly(lag) ==
    LET silent == seen - lag > SeenGrace
    IN  IF open = {} THEN IF silent THEN "open" ELSE "none"
        ELSE IF silent THEN "none" ELSE "close"

\* decideOffline: open when both signals are silent, close when either is not.
decideOffline(lag) ==
    LET resultSilent == minInterval = 0 \/ result - lag > 3 * minInterval
        seenSilent   == seen - lag > SeenGrace
        silent       == resultSilent /\ seenSilent
    IN  IF open = {} THEN IF silent THEN "open" ELSE "none"
        ELSE IF silent THEN "none" ELSE "close"

\* The ticker fires: now is taken.
Sweep(s) ==
    /\ sweeper[s].pc = "rest"
    /\ sweeper' = [sweeper EXCEPT ![s] = [Resting EXCEPT !.pc = "query"]]
    /\ UNCHANGED <<life, minInterval, seen, result, open>>

\* sweepOnce, the query: one snapshot of all signals and of the open event.
Query(s) ==
    /\ sweeper[s].pc = "query"
    /\ \E e \in IF open = {} THEN {0} ELSE open :
         sweeper' = [sweeper EXCEPT ![s] = [@ EXCEPT !.pc = "write", !.event = e,
                                            !.write = decideOffline(sweeper[s].lag)]]
    /\ UNCHANGED <<life, minInterval, seen, result, open>>

\* INSERT ... ON CONFLICT (agent_id) WHERE ... closed_at IS NULL DO NOTHING.
insertEvent == IF open = {} THEN {newId} ELSE open

\* sweepOnce, the write.  The row a close names may be closed already.
Write(s) ==
    /\ sweeper[s].pc = "write"
    /\ open' = CASE sweeper[s].write = "open"  -> insertEvent
                 [] sweeper[s].write = "close" -> open \ {sweeper[s].event}
                 [] OTHER                      -> open
    /\ sweeper' = [sweeper EXCEPT ![s] = Resting]
    /\ UNCHANGED <<life, minInterval, seen, result>>

\* A statement that fails ends this sweep.  (A query that fails does, too, and
\* no other process can tell.)
SweepStops(s) ==
    /\ sweeper[s].pc = "write"
    /\ sweeper' = [sweeper EXCEPT ![s] = Resting]
    /\ UNCHANGED <<life, minInterval, seen, result, open>>

OfflineNext ==
    \/ TouchAgent \/ ChangeLife \/ Reconfigure \/ OfflineTick
    \/ \E age \in {-ClockSkew, 0, SeenGrace} : Ingest(age)
    \/ \E s \in Sweepers : Sweep(s) \/ Query(s) \/ Write(s) \/ SweepStops(s)

OfflineSpec == OfflineInit /\ [][OfflineNext]_offlineVars

\* The agent's own cadences, the ticker of every process, and a database that
\* does not fail every sweep.
OfflineFairness ==
    /\ WF_offlineVars(OfflineTick) /\ WF_offlineVars(TouchAgent) /\ WF_offlineVars(Ingest(0))
    /\ \A s \in Sweepers :
         /\ WF_offlineVars(Sweep(s) \/ Query(s))
         /\ SF_offlineVars(Write(s))

OfflineFairSpec == OfflineSpec /\ OfflineFairness

-----------------------------------------------------------------------------
(* Properties.                                                             *)

\* An agent that falls silent "gets exactly one open event (the partial unique
\* index resolves races)", whichever sweeps overlap; one that shows either sign
\* of life again ends up with none, and no sweep that read the tables before
\* brings one back for good.
OfflineFollowsSilence ==
    /\ <>[](life = {}) => <>[](Cardinality(open) = 1)
    /\ <>[]("stream" \in life) => <>[](open = {})
    /\ <>[]("results" \in life /\ minInterval > 0) => <>[](open = {})
=============================================================================
