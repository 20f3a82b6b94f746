----------------------------- MODULE Watchdog ------------------------------
(***************************************************************************)
(* The reachability watchdog of the agent: it ends the process when the    *)
(* gRPC channel stays down and no probe succeeds, so that the container    *)
(* runtime rebuilds the network.  Code:                                    *)
(* internal/agent/uplink/watchdog.go, FastestInterval, runWorker and       *)
(* splayFor of internal/agent/scheduler/scheduler.go, the sink and the     *)
(* watchdog goroutine of cmdRun in cmd/polarbeam-agent/main.go, the bound  *)
(* on unreachable_timeout of internal/agent/config/config.go.              *)
(*                                                                         *)
(* A tick is one watchdogTick.  Times are ages, capped where they no       *)
(* longer matter.  One probe stands for the fastest of the schedule: its   *)
(* interval and timeout are those the server accepts (timeout < interval,  *)
(* ValidateSettings), its run succeeds if the network works throughout.    *)
(***************************************************************************)
EXTENDS Integers

CONSTANTS
    Limit,          \* server.unreachable_timeout
    Intervals,      \* intervals the fastest probe may have; 0: no probe
    Detect          \* longest time a dead transport still reads Ready

ASSUME WatchdogAssumption ==
    /\ Limit \in Nat \ {0} /\ Detect \in Nat /\ Intervals \subseteq Nat
    \* an interval is a time.Duration: there is a longest
    /\ \E m \in Intervals : \A n \in Intervals : n <= m
    \* minUnreachableTimeout: above the time a dead transport is noticed in
    /\ Detect < Limit

VARIABLES
    interval,       \* interval of the fastest probe that can succeed; 0: none
    probe,          \* its worker: "wait" or "run", ticks left, run unspoilt
    lastReady,      \* age of the last tick that saw the channel Ready
    lastOK,         \* age of the last OK result; Never before one
    ready,          \* the channel state is Ready
    server,         \* the control plane is up
    network,        \* the container's network works
    dead,           \* ticks since the network died
    cut,            \* ticks since the path to the server broke
    exited,         \* the watchdog returned ErrUnreachable
    unseen          \* history: the schedule was replaced over a channel that
                    \* no tick has sampled since

watchdogVars == <<interval, probe, lastReady, lastOK, ready, server, network, dead, cut, exited,
                  unseen>>

Horizon == 2 * Limit + 2 * (CHOOSE m \in Intervals : \A n \in Intervals : n <= m) + 4
Never   == Horizon
Older(a) == IF a < Horizon THEN a + 1 ELSE a

\* splayFor: the first run is anywhere in the interval.
splay(i) == 0..(i - 1)

WatchdogTypeOK ==
    /\ interval \in Intervals
    /\ probe \in [pc : {"wait", "run"}, left : Nat, good : BOOLEAN]
    /\ lastReady \in 0..Horizon /\ lastOK \in 0..Horizon
    /\ dead \in 0..Horizon /\ cut \in 0..Horizon
    /\ {ready, server, network, exited, unseen} \subseteq BOOLEAN

\* A starting agent: the grace period starts now, the schedule comes from the
\* configuration cache.
Boot(i, net, srv) ==
    /\ interval = i
    /\ probe \in {[pc |-> "wait", left |-> s, good |-> FALSE] : s \in splay(IF i = 0 THEN 1 ELSE i)}
    /\ lastReady = 0 /\ lastOK = Never /\ ready = FALSE
    /\ network = net /\ server = srv /\ dead = 0 /\ cut = 0 /\ exited = FALSE
    /\ unseen = FALSE

WatchdogInit == \E i \in Intervals, n, s \in BOOLEAN : Boot(i, n, s)

-----------------------------------------------------------------------------
\* Variant: the probes get no allowance of their own.
budgetLimit == Limit

\* The no-evidence budget: time for the fastest probe to have run.
budget == IF Limit > 2 * interval THEN Limit ELSE 2 * interval

\* The watchdog samples the channel at the end of the tick: a Ready channel
\* restarts the period; otherwise it exits when both periods are over.
sample ==
    /\ lastReady' = IF ready THEN 0 ELSE Older(lastReady)
    /\ exited' = (~ready /\ Older(lastReady) >= budget /\ lastOK' >= budget)

\* The ticker starts with the first run, so runs begin an interval apart.
NextRun == [pc |-> "run", left |-> interval - 1, good |-> network]

\* The probe's worker over the same tick: it waits, starts a run, or the run
\* goes on inside a timeout shorter than the interval.  NoteProbeOK is called
\* when it ends well.
Idling ==
    /\ interval = 0 /\ UNCHANGED probe
    /\ lastOK' = Older(lastOK)
Waiting ==
    /\ interval > 0 /\ probe.pc = "wait"
    /\ probe' = IF probe.left > 0 THEN [probe EXCEPT !.left = @ - 1] ELSE NextRun
    /\ lastOK' = Older(lastOK)
Running ==
    /\ interval > 0 /\ probe.pc = "run" /\ probe.left > 0
    /\ probe' = [probe EXCEPT !.left = @ - 1, !.good = @ /\ network]
    /\ lastOK' = Older(lastOK)
RunEnds ==
    /\ interval > 0 /\ probe.pc = "run"
    /\ probe' = IF probe.left = 0 THEN NextRun
                ELSE [pc |-> "wait", left |-> probe.left - 1, good |-> FALSE]
    /\ lastOK' = IF probe.good /\ network THEN 0 ELSE Older(lastOK)

WatchdogTick ==
    /\ ~exited
    \* keepalive notices a dead transport within Detect ticks
    /\ (ready /\ ~(network /\ server)) => cut < Detect
    /\ Idling \/ Waiting \/ Running \/ RunEnds
    /\ sample
    /\ dead' = IF network THEN 0 ELSE Older(dead)
    /\ cut' = IF network /\ server THEN 0 ELSE IF cut < Detect THEN cut + 1 ELSE cut
    /\ unseen' = (unseen /\ ~ready)
    /\ UNCHANGED <<interval, ready, server, network>>

-----------------------------------------------------------------------------
(* The environment.                                                        *)

\* The channel comes up, or is found dead.
ChannelUp ==
    /\ ~exited /\ ~ready /\ network /\ server /\ ready' = TRUE
    /\ UNCHANGED <<interval, probe, lastReady, lastOK, server, network, dead, cut, exited, unseen>>
ChannelDown ==
    /\ ~exited /\ ready /\ ready' = FALSE
    /\ UNCHANGED <<interval, probe, lastReady, lastOK, server, network, dead, cut, exited, unseen>>

ServerStops ==
    /\ ~exited /\ server /\ server' = FALSE
    /\ UNCHANGED <<interval, probe, lastReady, lastOK, ready, network, dead, cut, exited, unseen>>
ServerStarts ==
    /\ ~exited /\ ~server /\ server' = TRUE
    /\ cut' = IF network THEN 0 ELSE cut
    /\ UNCHANGED <<interval, probe, lastReady, lastOK, ready, network, dead, exited, unseen>>

\* The container's network is rebuilt underneath it: nothing works any more.
NetworkDies ==
    /\ ~exited /\ network /\ network' = FALSE
    /\ UNCHANGED <<interval, probe, lastReady, lastOK, ready, server, dead, cut, exited, unseen>>

\* A snapshot over the config stream: the fastest probe is another, splayed anew.
Reconfigure ==
    /\ ~exited /\ ready /\ network /\ server
    /\ \E i \in Intervals, s \in 0..Horizon :
         /\ s \in splay(IF i = 0 THEN 1 ELSE i)
         /\ interval' = i
         /\ probe' = [pc |-> "wait", left |-> s, good |-> FALSE]
    /\ unseen' = TRUE
    /\ UNCHANGED <<lastReady, lastOK, ready, server, network, dead, cut, exited>>

\* The restart policy starts the agent again, in a rebuilt network.
Restart ==
    /\ exited
    /\ probe' \in {[pc |-> "wait", left |-> s, good |-> FALSE] :
                     s \in splay(IF interval = 0 THEN 1 ELSE interval)}
    /\ lastReady' = 0 /\ lastOK' = Never /\ ready' = FALSE /\ exited' = FALSE
    /\ network' = TRUE /\ dead' = 0 /\ cut' = 0 /\ unseen' = FALSE
    /\ UNCHANGED <<interval, server>>

WatchdogNext ==
    \/ WatchdogTick \/ ChannelUp \/ ChannelDown \/ ServerStops \/ ServerStarts
    \/ NetworkDies \/ Reconfigure \/ Restart

WatchdogSpec == WatchdogInit /\ [][WatchdogNext]_watchdogVars

-----------------------------------------------------------------------------
(* "A restart only helps when the container's own network is broken": an   *)
(* agent with a probe that succeeds whenever the network works is never    *)
(* restarted while it does, however long the control plane is away and     *)
(* however slow the probe (watchdog.go, the budget of two intervals).  The *)
(* exception is a schedule replaced over a channel so short-lived that no  *)
(* tick saw it Ready: the grace period does not start again for it.        *)
NoFutileRestart == exited => (~network \/ interval = 0 \/ unseen)

(* A dead network does end the run: within the time the transport takes to *)
(* be noticed, plus the budget, plus the run a probe may just have ended   *)
(* well, whatever the schedule.                                            *)
DeadNetworkNoticed == ~network => dead <= Detect + budget + 1

(* The watchdog restarts the agent when that helps, and only then.         *)
RestartsWhenUseful == NoFutileRestart /\ DeadNetworkNoticed

=============================================================================
