----------------------------- MODULE Scheduler -----------------------------
(***************************************************************************)
(* The probe scheduler: one worker goroutine per assigned probe, the       *)
(* worker set reconciled with every configuration snapshot, per-series     *)
(* prober state retired with its last worker, and Stop.  Code:             *)
(* internal/agent/scheduler/scheduler.go, foldJitter and Retire of         *)
(* internal/agent/probes/icmp.go, the scheduler's part of cmdRun in        *)
(* cmd/polarbeam-agent/main.go.                                            *)
(*                                                                         *)
(* Specs are known by their hash.  The type of a probe never changes (the  *)
(* server has no operation for it), so the kind of its prober is given by  *)
(* its id: Retiring holds the probes whose prober keeps per-series state   *)
(* (ICMP), StandIns the ones a stand-in answers for (unsupported type,     *)
(* unusable interval).  Apply and the locked part of Stop are single       *)
(* steps, they hold Scheduler.mu throughout; a worker is as many steps as  *)
(* it has points where another goroutine can come between.  Timers fire at *)
(* any time.                                                               *)
(***************************************************************************)
EXTENDS Naturals, Sequences

CONSTANTS
    Probes,         \* probe ids
    Specs,          \* spec hashes
    Retiring,       \* probes run by a probes.Retirer
    StandIns,       \* probes run by unsupported or misconfigured
    Slots           \* bound: worker goroutines at one time

ASSUME SchedulerAssumption ==
    /\ Retiring \subseteq Probes /\ StandIns \subseteq Probes
    /\ Retiring \cap StandIns = {} /\ Slots \in Nat \ {0}

VARIABLES
    workers,        \* Scheduler.workers: the goroutine registered for an id, or 0
    run,            \* the goroutines: probe, spec, place, context cancelled, and
                    \* whether a current one has folded a run
    series,         \* ids the shared prober holds state for (ICMP.state)
    stop            \* how far Stop is

schedulerVars == <<workers, run, series, stop>>

NoProbe == "none"
Free    == [id |-> NoProbe, spec |-> NoProbe, pc |-> "free",
            cancelled |-> FALSE, folded |-> FALSE]
Live(i) == run[i].pc # "free"

SchedulerTypeOK ==
    /\ workers \in [Probes -> 0..Slots]
    /\ run \in [1..Slots ->
                 [id : Probes \cup {NoProbe}, spec : Specs \cup {NoProbe},
                  pc : {"free", "splay", "probe", "check", "checkOK", "sink",
                        "tick", "retire", "drop"},
                  cancelled : BOOLEAN, folded : BOOLEAN]]
    /\ series \subseteq Probes
    /\ stop \in {"no", "cancelled", "waiting", "returned"}

SchedulerInit ==
    /\ workers = [p \in Probes |-> 0]
    /\ run = [i \in 1..Slots |-> Free]
    /\ series = {} /\ stop = "no"

-----------------------------------------------------------------------------
(* Apply.                                                                  *)

\* The snapshots tried: specs in wire order, ids possibly missing or repeated.
Snapshots ==
    UNION {[1..n -> [id : Probes \cup {""}, spec : Specs]] : n \in 0..2}

\* desired: the first spec of every id; those without an id are ignored.
desired(snap) ==
    [p \in {snap[k].id : k \in DOMAIN snap} \ {""} |->
       snap[CHOOSE k \in DOMAIN snap :
              snap[k].id = p /\ \A j \in 1..(k - 1) : snap[j].id # p].spec]

\* startWorkerLocked: the worker waits out its splay under a context of its own
\* (cancelled from the start if the scheduler's is).
startWorkerLocked(p, spec) ==
    [Free EXCEPT !.id = p, !.spec = spec, !.pc = "splay",
                 !.cancelled = (stop # "no")]

\* Removed and changed probes are cancelled and dropped from the map, changed
\* and new ones started, unchanged ones left alone.
Reconcile(want) ==
    LET same(p)  == p \in DOMAIN want /\ workers[p] # 0
                      /\ run[workers[p]].spec = want[p]
        gone     == {workers[p] : p \in {q \in Probes : ~same(q)}} \ {0}
        begun    == {p \in DOMAIN want : ~same(p)}
        idle     == {i \in 1..Slots : ~Live(i)}
    IN  \E slot \in [begun -> idle] :
          /\ \A p, q \in begun : slot[p] = slot[q] => p = q
          /\ \A p \in begun, i \in idle : i < slot[p] => \E q \in begun : slot[q] = i
          /\ workers' = [p \in Probes |-> IF p \in begun THEN slot[p]
                                          ELSE IF same(p) THEN workers[p] ELSE 0]
          /\ run' = [i \in 1..Slots |->
               IF \E p \in begun : slot[p] = i
               THEN LET p == CHOOSE q \in begun : slot[q] = i
                    IN  startWorkerLocked(p, want[p])
               ELSE [run[i] EXCEPT !.cancelled = @ \/ i \in gone,
                                  !.folded = @ /\ i \notin gone]]
          /\ UNCHANGED <<series, stop>>

Apply ==
    /\ stop = "no"
    /\ \E snap \in Snapshots : Reconcile(desired(snap))

-----------------------------------------------------------------------------
(* runWorker.                                                              *)

Goto(i, pc) ==
    /\ run' = [run EXCEPT ![i].pc = pc]
    /\ UNCHANGED <<workers, series, stop>>

\* wg.Done.
Exit(i) == run' = [run EXCEPT ![i] = Free]

\* The worker returns: retire is deferred for probers with state.
Return(i) ==
    IF run[i].id \in Retiring
    THEN Goto(i, "retire")
    ELSE Exit(i) /\ UNCHANGED <<workers, series, stop>>

\* The splay timer or the ticker fires; a cancelled context may lose the race.
Fire(i) == run[i].pc \in {"splay", "tick"} /\ Goto(i, "probe")

\* Variant: only the splay watches the context.
CancelledInSplay(i) == run[i].pc = "splay" /\ run[i].cancelled /\ Return(i)

Cancelled(i) == run[i].pc \in {"splay", "tick"} /\ run[i].cancelled /\ Return(i)

\* runOnce: the prober returns within the spec's timeout, with an OK result or
\* without (a panic is an ERROR result; a stand-in never answers OK).  A
\* stateful prober folds the run into the series unless it failed early.
runOnce(i) ==
    /\ run[i].pc = "probe"
    /\ \E ok, fold \in BOOLEAN :
         /\ ok => run[i].id \notin StandIns
         /\ fold => run[i].id \in Retiring
         /\ (ok /\ run[i].id \in Retiring) => fold
         /\ series' = IF fold THEN series \cup {run[i].id} ELSE series
         /\ run' = [run EXCEPT ![i].pc = IF ok THEN "checkOK" ELSE "check",
                               ![i].folded = ~run[i].cancelled /\ (@ \/ fold)]
    /\ UNCHANGED <<workers, stop>>

\* A result the cancellation produced is dropped, a real one goes to the sink.
CheckResult(i) ==
    /\ run[i].pc \in {"check", "checkOK"}
    /\ Goto(i, IF run[i].cancelled /\ run[i].pc = "check" THEN "tick" ELSE "sink")

\* The sink (spool append, NoteProbeOK) runs on the worker's goroutine.
Sink(i) == run[i].pc = "sink" /\ Goto(i, "tick")

\* Variant: the state is dropped only if the retiring worker is still registered.
replacedOrRemoved(i) == workers[run[i].id] # i

replaced(i) == workers[run[i].id] # 0

\* retire: under the lock, has a replacement taken the id over?
Retire(i) ==
    /\ run[i].pc = "retire"
    /\ IF replaced(i)
       THEN Exit(i) /\ UNCHANGED <<workers, series, stop>>
       ELSE Goto(i, "drop")

\* ICMP.Retire, after the lock was released.
DropJitter(i) ==
    /\ run[i].pc = "drop"
    /\ series' = series \ {run[i].id}
    /\ Exit(i)
    /\ UNCHANGED <<workers, stop>>

Worker(i) ==
    \/ Fire(i) \/ Cancelled(i) \/ runOnce(i) \/ CheckResult(i) \/ Sink(i)
    \/ Retire(i) \/ DropJitter(i)

-----------------------------------------------------------------------------
(* Stop.                                                                   *)

\* s.cancel(): every worker's context derives from it.
StopCancel ==
    /\ stop = "no" /\ stop' = "cancelled"
    /\ run' = [i \in 1..Slots |-> [run[i] EXCEPT !.cancelled = Live(i), !.folded = FALSE]]
    /\ UNCHANGED <<workers, series>>

StopLocked ==
    /\ stop = "cancelled" /\ stop' = "waiting"
    /\ run' = [i \in 1..Slots |-> [run[i] EXCEPT !.cancelled = @ \/ \E p \in Probes : workers[p] = i]]
    /\ workers' = [p \in Probes |-> 0]
    /\ UNCHANGED series

\* wg.Wait.
StopReturn ==
    /\ stop = "waiting" /\ \A i \in 1..Slots : ~Live(i)
    /\ stop' = "returned"
    /\ UNCHANGED <<workers, run, series>>

SchedulerNext ==
    \/ Apply \/ StopCancel \/ StopLocked \/ StopReturn
    \/ \E i \in 1..Slots : Worker(i)

\* Every goroutine runs on; of a cancelled context and a timer that are both
\* ready, select does not choose the timer for ever.
SchedulerFair ==
    /\ WF_schedulerVars(StopLocked) /\ WF_schedulerVars(StopReturn)
    /\ \A i \in 1..Slots : /\ WF_schedulerVars(Worker(i))
                           /\ SF_schedulerVars(Cancelled(i))

SchedulerFairSpec == SchedulerInit /\ [][SchedulerNext]_schedulerVars /\ SchedulerFair

-----------------------------------------------------------------------------
(* A series' state is dropped with its last worker, whatever the order in  *)
(* which replaced, removed and re-added workers of the probe end (retire): *)
(* no worker of the id, no state under it.  (A process that is stopping     *)
(* takes the state with it.)                                               *)
StateRetired ==
    stop = "no" =>
      \A p \in Probes : (\A i \in 1..Slots : run[i].id # p) => p \notin series

(* After Stop has returned nothing of the scheduler runs, so no result     *)
(* reaches the spool that main.go closes next: an Apply racing Stop either *)
(* finds the context cancelled or has its workers waited for.              *)
QuietAfterStop == stop = "returned" => \A i \in 1..Slots : ~Live(i)

(* Stop returns, whatever the workers were doing when it was called        *)
(* (main.go's shutdown waits for it).                                      *)
StopReturns == (stop = "cancelled") ~> (stop = "returned")

(* "Retiring then would delete the replacement's live state midstream" (the *)
(* comment on retire): a worker that ends never deletes state a worker      *)
(* started after it has already folded a run into.  It does: the lock is    *)
(* released between the check and the deletion.  Stated, not checked.       *)
NoMidstreamRetire ==
    [][\A i \in 1..Slots :
         (run[i].pc = "drop" /\ run'[i].pc = "free") =>
             ~\E j \in 1..Slots : j # i /\ run[j].id = run[i].id /\ run[j].folded
                                   /\ workers[run[i].id] = j]_schedulerVars

(* A worker that ended leaves nothing behind: neither its series' state nor *)
(* a goroutine that outlives Stop (retire, Apply, Stop).                    *)
WorkersEndClean == StateRetired /\ QuietAfterStop

=============================================================================
