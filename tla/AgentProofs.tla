---------------------------- MODULE AgentProofs ----------------------------
(***************************************************************************)
(* Proofs about the agent's scheduler, identity, watchdog and path MTU     *)
(* prober, for every set of probes, specs and goroutines, every lifetime   *)
(* of certificates, every limit and schedule and every range of sizes.     *)
(*                                                                         *)
(* SchedulerInv: a registered goroutine works on the probe it is           *)
(* registered for and nobody has cancelled it, one that is retiring was    *)
(* cancelled, and state of a series means a goroutine of that probe.       *)
(***************************************************************************)
EXTENDS AgentIdentity, Scheduler, Watchdog, PathMtu, TLAPS

Goroutine ==
    [id : Probes \cup {NoProbe}, spec : Specs \cup {NoProbe},
     pc : {"free", "splay", "probe", "check", "checkOK", "sink", "tick", "retire", "drop"},
     cancelled : BOOLEAN, folded : BOOLEAN]

\* A goroutine ends only after it was cancelled, and works for a probe.
GoroutineOK(r) ==
    /\ r.pc \in {"retire", "drop"} => r.cancelled
    /\ r.pc # "free" => r.id \in Probes

\* p's goroutine is its own and current.
RegisteredOK(p) ==
    workers[p] # 0 => /\ run[workers[p]].pc # "free" /\ run[workers[p]].id = p
                      /\ ~run[workers[p]].cancelled

HasGoroutine(p) == \E i \in 1..Slots : run[i].pc # "free" /\ run[i].id = p

SchedulerInv ==
    /\ SchedulerTypeOK
    /\ series \subseteq Retiring
    /\ \A i \in 1..Slots : GoroutineOK(run[i])
    /\ stop = "no" => /\ \A p \in Probes : RegisteredOK(p)
                      /\ \A p \in series : HasGoroutine(p)
    /\ stop = "returned" => \A i \in 1..Slots : run[i].pc = "free"

(* However removals, replacements and re-additions of a probe interleave   *)
(* with the ends of its goroutines, and however Apply races Stop: state of *)
(* a series goes with its last goroutine, and no goroutine outlives Stop   *)
(* (retire, Apply, Stop).                                                  *)
THEOREM WorkersEndCleanAlways == SchedulerFairSpec => []WorkersEndClean
\* The first spec of an id is one of the snapshot's.
<1>desired. ASSUME NEW snap \in Snapshots
            PROVE  /\ DOMAIN desired(snap) \subseteq Probes
                   /\ \A p \in DOMAIN desired(snap) : desired(snap)[p] \in Specs
    <2> USE <1>desired
    <2>1. PICK n \in 0..2 : snap \in [1..n -> [id : Probes \cup {""}, spec : Specs]]
        BY DEF Snapshots
    <2>2. DOMAIN desired(snap) = {snap[k].id : k \in DOMAIN snap} \ {""}
        BY DEF desired
    <2>3. ASSUME NEW p \in DOMAIN desired(snap) PROVE p \in Probes /\ desired(snap)[p] \in Specs
        <3> DEFINE First(k) == snap[k].id = p /\ \A j \in 1..(k - 1) : snap[j].id # p
        <3>1. p \in Probes /\ \E k \in 1..n : snap[k].id = p
            BY <2>1, <2>2, <2>3
        <3>2. \E k \in 1..n : First(k)
            <4>1. PICK k \in 1..n : snap[k].id = p
                BY <3>1
            <4>2. 1 \in 1..n /\ k \in {1, 2}
                OBVIOUS
            <4>3. First(1) \/ (k = 2 /\ First(2))
                BY <4>1, <4>2
            <4> QED
                BY <4>2, <4>3
        <3>3. (CHOOSE k \in DOMAIN snap : First(k)) \in 1..n
            BY <2>1, <3>2
        <3>4. desired(snap)[p] = snap[CHOOSE k \in DOMAIN snap : First(k)].spec
            BY <2>2, <2>3 DEF desired
        <3> QED
            BY <2>1, <3>1, <3>3, <3>4
    <2> QED
        BY <2>3
<1> USE SchedulerAssumption
<1>1. SchedulerInit => SchedulerInv
    <2>1. Free \in Goroutine /\ GoroutineOK(Free) /\ Free.pc = "free"
        BY DEF Free, Goroutine, GoroutineOK
    <2>2. SchedulerInit => run \in [1..Slots -> Goroutine] /\ \A i \in 1..Slots : run[i] = Free
        BY <2>1 DEF SchedulerInit
    <2> QED
        BY <2>1, <2>2 DEF SchedulerInit, SchedulerInv, SchedulerTypeOK, RegisteredOK, Goroutine
<1>2. ASSUME SchedulerInv, Apply PROVE SchedulerInv'
    <2>1. PICK snap \in Snapshots : Reconcile(desired(snap))
        BY <1>2 DEF Apply
    <2> DEFINE want     == desired(snap)
               same(p)  == p \in DOMAIN want /\ workers[p] # 0
                             /\ run[workers[p]].spec = want[p]
               gone     == {workers[p] : p \in {q \in Probes : ~same(q)}} \ {0}
               begun    == {p \in DOMAIN want : ~same(p)}
               idle     == {i \in 1..Slots : ~Live(i)}
    <2>2. DOMAIN want \subseteq Probes /\ \A p \in DOMAIN want : want[p] \in Specs
        BY <1>desired, SMTT(40)
    <2>3. PICK slot \in [begun -> idle] :
            /\ \A p, q \in begun : slot[p] = slot[q] => p = q
            /\ workers' = [p \in Probes |-> IF p \in begun THEN slot[p]
                                            ELSE IF same(p) THEN workers[p] ELSE 0]
            /\ run' = [i \in 1..Slots |->
                 IF \E p \in begun : slot[p] = i
                 THEN LET p == CHOOSE q \in begun : slot[q] = i
                      IN  startWorkerLocked(p, want[p])
                 ELSE [run[i] EXCEPT !.cancelled = @ \/ i \in gone,
                                    !.folded = @ /\ i \notin gone]]
            /\ UNCHANGED <<series, stop>>
        BY <2>1 DEF Reconcile
    <2> HIDE DEF want
    <2>4. /\ stop = "no" /\ stop' = "no" /\ series' = series
          /\ run \in [1..Slots -> Goroutine] /\ workers \in [Probes -> 0..Slots]
          /\ \A i \in 1..Slots : GoroutineOK(run[i])
          /\ \A p \in Probes : RegisteredOK(p)
          /\ \A p \in series : HasGoroutine(p)
          /\ series \subseteq Probes /\ series \subseteq Retiring
        BY <1>2, <2>3 DEF Apply, SchedulerInv, SchedulerTypeOK, Goroutine
    <2> DEFINE taken(i) == \E p \in begun : slot[p] = i
    <2>5. ASSUME NEW p \in begun
          PROVE  /\ slot[p] \in 1..Slots /\ ~Live(slot[p])
                 /\ run'[slot[p]] \in Goroutine
                 /\ run'[slot[p]].id = p /\ run'[slot[p]].pc = "splay"
                 /\ ~run'[slot[p]].cancelled
        <3>1. slot[p] \in 1..Slots /\ ~Live(slot[p])
            BY <2>3
        <3>2. (CHOOSE q \in begun : slot[q] = slot[p]) = p
            BY <2>3
        <3>3. run'[slot[p]] = startWorkerLocked(p, want[p])
            BY <2>3, <3>1, <3>2
        <3>4. LET w == startWorkerLocked(p, want[p])
              IN  /\ w \in Goroutine /\ w.id = p /\ w.pc = "splay" /\ ~w.cancelled
            <4>1. Free \in Goroutine
                BY DEF Free, Goroutine
            <4>2. p \in Probes /\ want[p] \in Specs /\ stop = "no"
                BY <2>2, <2>4
            <4> QED
                BY <4>1, <4>2, Zenon DEF startWorkerLocked, Goroutine
        <3> QED
            BY <2>2, <3>1, <3>3, <3>4, SMTT(40) DEF Goroutine
    <2>6. ASSUME NEW i \in 1..Slots, ~taken(i)
          PROVE  /\ run'[i] \in Goroutine
                 /\ run'[i].id = run[i].id /\ run'[i].pc = run[i].pc
                 /\ run'[i].cancelled <=> (run[i].cancelled \/ i \in gone)
        <3>1. run[i] \in Goroutine
            BY <2>4
        <3>2. run'[i] = [run[i] EXCEPT !.cancelled = @ \/ i \in gone,
                                       !.folded = @ /\ i \notin gone]
            BY <2>3, <2>6, Zenon
        <3> HIDE DEF gone
        <3> QED
            BY <3>1, <3>2, Zenon DEF Goroutine
    <2>7. \A i \in 1..Slots : Live(i) => ~taken(i)
        BY <2>5
    <2>8. run' \in [1..Slots -> Goroutine]
        <3>1. \A i \in 1..Slots : run'[i] \in Goroutine
            BY <2>5, <2>6
        <3>2. \E f : run' = [i \in 1..Slots |-> f[i]]
            <4> DEFINE f == [i \in 1..Slots |->
                 IF \E p \in begun : slot[p] = i
                 THEN LET p == CHOOSE q \in begun : slot[q] = i
                      IN  startWorkerLocked(p, want[p])
                 ELSE [run[i] EXCEPT !.cancelled = @ \/ i \in gone,
                                    !.folded = @ /\ i \notin gone]]
            <4>1. run' = f
                BY <2>3, Zenon
            <4>2. f = [i \in 1..Slots |-> f[i]]
                BY Zenon
            <4> HIDE DEF f
            <4> QED
                BY <4>1, <4>2
        <3> QED
            BY <3>1, <3>2
    <2>9. workers' \in [Probes -> 0..Slots]
        <3>1. \A p \in Probes : (IF p \in begun THEN slot[p]
                                 ELSE IF same(p) THEN workers[p] ELSE 0) \in 0..Slots
            BY <2>4, <2>5
        <3>2. workers' = [p \in Probes |-> IF p \in begun THEN slot[p]
                                           ELSE IF same(p) THEN workers[p] ELSE 0]
            BY <2>3
        <3> HIDE DEF begun, same
        <3> QED
            BY <3>1, <3>2
    <2>10. \A i \in 1..Slots : GoroutineOK(run'[i])
        <3> TAKE i \in 1..Slots
        <3>1. CASE taken(i)
            BY <3>1, <2>2, <2>5 DEF GoroutineOK
        <3>2. CASE ~taken(i)
            BY <3>2, <2>4, <2>6, SMTT(40) DEF GoroutineOK
        <3> QED
            BY <3>1, <3>2
    <2>11. \A p \in Probes : RegisteredOK(p)'
        <3> SUFFICES ASSUME NEW p \in Probes, workers'[p] # 0
                     PROVE  /\ run'[workers'[p]].pc # "free" /\ run'[workers'[p]].id = p
                            /\ ~run'[workers'[p]].cancelled
            BY SMTT(40) DEF RegisteredOK
        <3>0. workers'[p] = IF p \in begun THEN slot[p]
                            ELSE IF same(p) THEN workers[p] ELSE 0
            BY <2>3
        <3>1. CASE p \in begun
            BY <3>0, <3>1, <2>5
        <3>2. CASE p \notin begun
            <4>1. same(p) /\ workers'[p] = workers[p] /\ workers[p] \in 1..Slots
                BY <3>0, <3>2, <2>4
            <4>2. Live(workers[p]) /\ run[workers[p]].id = p /\ ~run[workers[p]].cancelled
                BY <4>1, <2>4 DEF RegisteredOK, Live
            <4>3. workers[p] \notin gone
                <5> SUFFICES ASSUME NEW q \in Probes, ~same(q), workers[q] = workers[p]
                             PROVE  FALSE
                    OBVIOUS
                <5>1. run[workers[q]].id = q
                    BY <4>1, <2>4 DEF RegisteredOK
                <5> QED
                    BY <5>1, <4>1, <4>2
            <4> QED
                BY <4>1, <4>2, <4>3, <2>6, <2>7 DEF Live
        <3> QED
            BY <3>1, <3>2
    <2>12. \A p \in series : HasGoroutine(p)'
        <3> TAKE p \in series
        <3>1. PICK i \in 1..Slots : run[i].pc # "free" /\ run[i].id = p
            BY <2>4 DEF HasGoroutine
        <3>2. run'[i].pc # "free" /\ run'[i].id = p
            BY <3>1, <2>6, <2>7 DEF Live
        <3> QED
            BY <3>2 DEF HasGoroutine
    <2> QED
        BY <2>4, <2>8, <2>9, <2>10, <2>11, <2>12, SMTT(40) DEF SchedulerInv, SchedulerTypeOK, Goroutine
\* A goroutine goes on: it keeps its probe and its context.
<1>3. ASSUME SchedulerInv, NEW i \in 1..Slots, NEW r \in Goroutine,
             run[i].pc # "free", r.pc # "free", r.id = run[i].id,
             r.cancelled = run[i].cancelled, GoroutineOK(r),
             run' = [run EXCEPT ![i] = r], UNCHANGED <<workers, stop>>,
             series' \subseteq series \cup ({r.id} \cap Retiring)
      PROVE  SchedulerInv'
    <2>1. /\ run \in [1..Slots -> Goroutine] /\ workers \in [Probes -> 0..Slots]
          /\ series \subseteq Probes /\ series \subseteq Retiring
          /\ \A j \in 1..Slots : GoroutineOK(run[j])
          /\ stop = "no" => /\ \A p \in Probes : RegisteredOK(p)
                            /\ \A p \in series : HasGoroutine(p)
          /\ stop \in {"no", "cancelled", "waiting", "returned"} /\ stop # "returned"
        BY <1>3 DEF SchedulerInv, SchedulerTypeOK, Goroutine
    <2>2. /\ run' \in [1..Slots -> Goroutine] /\ run'[i] = r
          /\ \A j \in 1..Slots : j # i => run'[j] = run[j]
        BY <1>3, <2>1
    <2>3. \A j \in 1..Slots : /\ GoroutineOK(run'[j])
                              /\ run'[j].pc = "free" <=> run[j].pc = "free"
                              /\ run'[j].id = run[j].id
                              /\ run'[j].cancelled = run[j].cancelled
        BY <1>3, <2>1, <2>2
    <2>4. stop = "no" => \A p \in Probes : RegisteredOK(p)'
        BY <1>3, <2>1, <2>3 DEF RegisteredOK
    <2>5. stop = "no" => \A p \in series' : HasGoroutine(p)'
        <3> SUFFICES ASSUME stop = "no", NEW p \in series'
                     PROVE  \E j \in 1..Slots : run'[j].pc # "free" /\ run'[j].id = p
            BY DEF HasGoroutine
        <3>1. p = run[i].id \/ \E j \in 1..Slots : run[j].pc # "free" /\ run[j].id = p
            BY <1>3, <2>1 DEF HasGoroutine
        <3> QED
            BY <3>1, <1>3, <2>3
    <2>6. series' \subseteq Probes /\ series' \subseteq Retiring
        BY <1>3, <2>1
    <2> QED
        BY <1>3, <2>1, <2>2, <2>3, <2>4, <2>5, <2>6
        DEF SchedulerInv, SchedulerTypeOK, Goroutine
\* A cancelled goroutine ends and leaves no state of its own behind.
<1>4. ASSUME SchedulerInv, NEW i \in 1..Slots, run[i].pc # "free", run[i].cancelled,
             run' = [run EXCEPT ![i] = Free], UNCHANGED <<workers, stop>>,
             series' \subseteq series,
             run[i].id \in series' => workers[run[i].id] # 0
      PROVE  SchedulerInv'
    <2>1. /\ run \in [1..Slots -> Goroutine] /\ workers \in [Probes -> 0..Slots]
          /\ series \subseteq Probes /\ series \subseteq Retiring
          /\ \A j \in 1..Slots : GoroutineOK(run[j])
          /\ stop = "no" => /\ \A p \in Probes : RegisteredOK(p)
                            /\ \A p \in series : HasGoroutine(p)
          /\ stop \in {"no", "cancelled", "waiting", "returned"} /\ stop # "returned"
        BY <1>4 DEF SchedulerInv, SchedulerTypeOK, Goroutine
    <2>2. Free \in Goroutine /\ GoroutineOK(Free) /\ Free.pc = "free"
        BY DEF Free, Goroutine, GoroutineOK
    <2>3. /\ run' \in [1..Slots -> Goroutine] /\ run'[i] = Free
          /\ \A j \in 1..Slots : j # i => run'[j] = run[j]
        BY <1>4, <2>1, <2>2
    <2>4. \A j \in 1..Slots : GoroutineOK(run'[j])
        BY <2>1, <2>2, <2>3
    <2>5. stop = "no" => \A p \in Probes : workers[p] # i /\ RegisteredOK(p)'
        BY <1>4, <2>1, <2>3 DEF RegisteredOK
    <2>6. stop = "no" => \A p \in series' : HasGoroutine(p)'
        <3> SUFFICES ASSUME stop = "no", NEW p \in series'
                     PROVE  \E j \in 1..Slots : run'[j].pc # "free" /\ run'[j].id = p
            BY DEF HasGoroutine
        <3>1. CASE p = run[i].id
            <4>1. workers[p] \in 1..Slots /\ workers[p] # i
                BY <1>4, <3>1, <2>1, <2>5
            <4>2. run[workers[p]].pc # "free" /\ run[workers[p]].id = p
                BY <1>4, <4>1, <2>1 DEF RegisteredOK
            <4>3. run'[workers[p]] = run[workers[p]]
                BY <4>1, <2>3
            <4> QED
                BY <4>1, <4>2, <4>3
        <3>2. CASE p # run[i].id
            <4>1. PICK j \in 1..Slots : run[j].pc # "free" /\ run[j].id = p
                BY <1>4, <2>1 DEF HasGoroutine
            <4> QED
                BY <4>1, <3>2, <2>3
        <3> QED
            BY <3>1, <3>2
    <2> QED
        BY <1>4, <2>1, <2>3, <2>4, <2>5, <2>6 DEF SchedulerInv, SchedulerTypeOK, Goroutine
<1>5. ASSUME SchedulerInv, NEW i \in 1..Slots, Worker(i) PROVE SchedulerInv'
    <2>1. /\ run \in [1..Slots -> Goroutine] /\ run[i] \in Goroutine
          /\ GoroutineOK(run[i]) /\ series \subseteq Retiring
        BY <1>5 DEF SchedulerInv, SchedulerTypeOK, Goroutine
    \* Goto, from where a goroutine runs or ends
    <2>2. ASSUME NEW pc \in {"splay", "probe", "check", "checkOK", "sink", "tick", "retire", "drop"},
                 run[i].pc # "free", pc \in {"retire", "drop"} => run[i].cancelled, Goto(i, pc)
          PROVE  SchedulerInv'
        <3> DEFINE r == [run[i] EXCEPT !.pc = pc]
        <3>1. r \in Goroutine /\ r.pc = pc /\ r.id = run[i].id /\ r.cancelled = run[i].cancelled
            BY <2>1 DEF Goroutine
        <3>2. run' = [run EXCEPT ![i] = r] /\ UNCHANGED <<workers, stop, series>>
            BY <2>2 DEF Goto
        <3>3. GoroutineOK(r)
            BY <2>1, <2>2, <3>1 DEF GoroutineOK
        <3> HIDE DEF r
        <3> QED
            BY <1>3, <1>5, <2>2, <3>1, <3>2, <3>3
    <2>3. CASE Fire(i)
        BY <2>2, <2>3 DEF Fire
    <2>4. CASE Cancelled(i)
        <3>1. run[i].pc \in {"splay", "tick"} /\ run[i].cancelled /\ Return(i)
            BY <2>4 DEF Cancelled
        <3>2. CASE run[i].id \in Retiring
            BY <2>2, <3>1, <3>2 DEF Return
        <3>3. CASE run[i].id \notin Retiring
            BY <1>4, <1>5, <2>1, <3>1, <3>3 DEF Return, Exit
        <3> QED
            BY <3>2, <3>3
    <2>5. CASE runOnce(i)
        <3>1. PICK ok \in BOOLEAN, fold \in BOOLEAN :
                 /\ fold => run[i].id \in Retiring
                 /\ series' = IF fold THEN series \cup {run[i].id} ELSE series
                 /\ run' = [run EXCEPT ![i].pc = IF ok THEN "checkOK" ELSE "check",
                                       ![i].folded = ~run[i].cancelled /\ (@ \/ fold)]
            BY <2>5 DEF runOnce
        <3> DEFINE r == [run[i] EXCEPT !.pc = IF ok THEN "checkOK" ELSE "check",
                                       !.folded = ~run[i].cancelled /\ (@ \/ fold)]
        <3>2. run' = [run EXCEPT ![i] = r]
            BY <2>1, <3>1, Zenon
        <3>3. /\ r \in Goroutine /\ r.pc \in {"check", "checkOK"} /\ r.id = run[i].id
              /\ r.cancelled = run[i].cancelled
            BY <2>1, Zenon DEF Goroutine
        <3>4. run[i].pc = "probe" /\ UNCHANGED <<workers, stop>>
            BY <2>5 DEF runOnce
        <3> HIDE DEF r
        <3>5. GoroutineOK(r)
            BY <2>1, <3>3, <3>4 DEF GoroutineOK
        <3>6. series' \subseteq series \cup ({r.id} \cap Retiring)
            BY <3>1, <3>3
        <3>7. r.pc # "free" /\ run[i].pc # "free"
            BY <3>3, <3>4
        <3> QED
            BY <1>3, <1>5, <3>2, <3>3, <3>4, <3>5, <3>6, <3>7
    <2>6. CASE CheckResult(i)
        BY <2>2, <2>6 DEF CheckResult
    <2>7. CASE Sink(i)
        BY <2>2, <2>7 DEF Sink
    <2>8. CASE Retire(i)
        <3>1. run[i].pc = "retire" /\ run[i].cancelled
            BY <2>1, <2>8 DEF Retire, GoroutineOK
        <3>2. CASE replaced(i)
            BY <1>4, <1>5, <2>8, <3>1, <3>2 DEF Retire, Exit, replaced
        <3>3. CASE ~replaced(i)
            BY <2>2, <2>8, <3>1, <3>3 DEF Retire
        <3> QED
            BY <3>2, <3>3
    <2>9. CASE DropJitter(i)
        <3>1. run[i].pc = "drop" /\ run[i].cancelled
            BY <2>1, <2>9 DEF DropJitter, GoroutineOK
        <3> QED
            BY <1>4, <1>5, <2>9, <3>1 DEF DropJitter, Exit
    <2> QED
        BY <1>5, <2>3, <2>4, <2>5, <2>6, <2>7, <2>8, <2>9 DEF Worker
\* Stop's two sections change nothing but contexts.
<1>6. ASSUME SchedulerInv, StopCancel \/ StopLocked PROVE SchedulerInv'
    <2>1. /\ run \in [1..Slots -> Goroutine] /\ workers \in [Probes -> 0..Slots]
          /\ series \subseteq Probes /\ series \subseteq Retiring
          /\ \A j \in 1..Slots : GoroutineOK(run[j])
          /\ series' = series /\ stop' \in {"cancelled", "waiting"}
        BY <1>6 DEF SchedulerInv, SchedulerTypeOK, Goroutine, StopCancel, StopLocked
    <2>2. workers' \in [Probes -> 0..Slots]
        <3> USE <1>6, <2>1
        <3>1. StopCancel => workers' = workers
            BY DEF StopCancel
        <3>2. StopLocked => workers' = [p \in Probes |-> 0]
            BY DEF StopLocked
        <3> QED
            BY <3>1, <3>2
    <2>3. \E f : run' = [i \in 1..Slots |-> f[i]]
        <3>1. CASE StopCancel
            <4> DEFINE f == [i \in 1..Slots |-> [run[i] EXCEPT !.cancelled = Live(i), !.folded = FALSE]]
            <4>1. run' = f /\ f = [i \in 1..Slots |-> f[i]]
                BY <3>1, Zenon DEF StopCancel
            <4> HIDE DEF f
            <4> QED
                BY <4>1
        <3>2. CASE StopLocked
            <4> DEFINE f == [i \in 1..Slots |-> [run[i] EXCEPT !.cancelled = @ \/ \E p \in Probes : workers[p] = i]]
            <4>1. run' = f /\ f = [i \in 1..Slots |-> f[i]]
                BY <3>2, Zenon DEF StopLocked
            <4> HIDE DEF f
            <4> QED
                BY <4>1
        <3> QED
            BY <1>6, <3>1, <3>2
    <2>4. ASSUME NEW i \in 1..Slots
          PROVE  /\ run'[i] \in Goroutine /\ run'[i].pc = run[i].pc /\ run'[i].id = run[i].id
                 /\ run[i].cancelled /\ run[i].pc # "free" => run'[i].cancelled
        <3>1. run[i] \in Goroutine
            BY <2>1
        <3>2. CASE StopCancel
            <4>1. run'[i] = [run[i] EXCEPT !.cancelled = Live(i), !.folded = FALSE]
                BY <3>2, Zenon DEF StopCancel
            <4> QED
                BY <3>1, <4>1, Zenon DEF Goroutine, Live
        <3>3. CASE StopLocked
            <4> DEFINE registered == \E p \in Probes : workers[p] = i
            <4>1. run'[i] = [run[i] EXCEPT !.cancelled = @ \/ registered]
                BY <3>3, Zenon DEF StopLocked
            <4>2. registered \in BOOLEAN
                OBVIOUS
            <4> HIDE DEF registered
            <4> QED
                BY <3>1, <4>1, <4>2, Zenon DEF Goroutine
        <3> QED
            BY <1>6, <3>2, <3>3
    <2>5. run' \in [1..Slots -> Goroutine]
        BY <2>3, <2>4
    <2>6. \A i \in 1..Slots : GoroutineOK(run'[i])
        BY <2>1, <2>4 DEF GoroutineOK
    <2> QED
        BY <2>1, <2>2, <2>5, <2>6 DEF SchedulerInv, SchedulerTypeOK, Goroutine
<1>7. ASSUME SchedulerInv, StopReturn PROVE SchedulerInv'
    BY <1>7 DEF StopReturn, SchedulerInv, SchedulerTypeOK, Live
<1>8. ASSUME SchedulerInv, UNCHANGED schedulerVars PROVE SchedulerInv'
    BY <1>8 DEF schedulerVars, SchedulerInv, SchedulerTypeOK, RegisteredOK, HasGoroutine
<1>9. SchedulerInv /\ [SchedulerNext]_schedulerVars => SchedulerInv'
    BY <1>2, <1>5, <1>6, <1>7, <1>8 DEF SchedulerNext
<1>10. SchedulerInv => WorkersEndClean
    BY DEF SchedulerInv, SchedulerTypeOK, WorkersEndClean, StateRetired, QuietAfterStop, Live,
           HasGoroutine
<1> QED
    BY <1>1, <1>9, <1>10, PTL DEF SchedulerFairSpec
-----------------------------------------------------------------------------
(***************************************************************************)
(* The identity.  FilesInv says what the enroll command has on disk at     *)
(* each of its steps, and that it and the running agent exclude one        *)
(* another.  It holds whichever writes may be torn.                        *)
(***************************************************************************)

Enrolling == {"stageKey", "stageCSR", "call", "writeKey", "writeCA", "writeCert"}
HasAnswer == {"writeKey", "writeCA", "writeCert"}

EnrollInv ==
    /\ enroll.pc \in Enrolling =>
         /\ disk.crt = Absent
         /\ enroll.ca \in Algs /\ enroll.key \in {enroll.ca} \X (1..4)
    /\ enroll.pc = "stageCSR" => disk.key = enroll.key
    /\ enroll.pc \in {"call"} \cup HasAnswer => disk.key = enroll.key /\ disk.csr = enroll.key
    /\ enroll.pc \in HasAnswer => token = enroll.key /\ ~rejected /\ (~moved => enroll.ca = caAlg)
    /\ enroll.pc = "writeCert" => disk.ca = <<enroll.ca, 0>>
    /\ (enroll.pc \notin Enrolling /\ enroll # Idle) => Enrolled

EnrolledInv ==
    /\ renewer.pc # "off" => enroll = Idle /\ Enrolled
    /\ Enrolled => /\ Loads /\ token # Absent /\ ~rejected
                   /\ ~moved => disk.ca = <<caAlg, 0>>

FilesInv == IdentityTypeOK /\ EnrollInv /\ EnrolledInv

\* A jittered wait is at least a tick, and at most five percent longer.
LEMMA JitterBounds ==
    ASSUME NEW d \in Nat, NEW w \in jitterPct(d)
    PROVE  w \in Nat \ {0} /\ w <= d + (d + 19) \div 20
<1>1. (d + 19) \div 20 \in Nat /\ d \div 20 \in Nat /\ d \div 20 <= d
    OBVIOUS
<1> QED
    BY <1>1 DEF jitterPct, Greatest

LEMMA FilesInvAlways == IdentitySpec => []FilesInv
<1> USE IdentityAssumption
<1>1. IdentityInit => FilesInv
    <2> SUFFICES ASSUME IdentityInit PROVE FilesInv
        OBVIOUS
    <2>1. IdentityTypeOK
        <3>1. renewer \in [pc : {"off", "sleep", "rpc"}, wait : Nat, hit : BOOLEAN]
            BY DEF IdentityInit, Off
        <3>2. /\ disk \in [key : {Absent}, csr : {Absent}, ca : {Absent}, crt : {Absent}]
              /\ enroll \in [pc : {"idle"}, key : {Absent}, ca : {"none"}]
              /\ outage \in [st : {"ahead"}, left : 0..MaxOutage]
              /\ age \in 0..(Validity + 1) /\ rejected = FALSE /\ moved = FALSE
            BY DEF IdentityInit, Idle, NoFiles, Healthy
        <3> QED
            BY <3>1, <3>2 DEF IdentityInit, IdentityTypeOK
    <2>2. EnrollInv /\ EnrolledInv
        BY DEF IdentityInit, EnrollInv, EnrolledInv, Enrolled, Enrolling, HasAnswer, Idle, Off,
               NoFiles, Absent
    <2> QED
        BY <2>1, <2>2 DEF FilesInv
\* Without agent.crt there is always a key nothing knows.
<1>10. ASSUME FilesInv, ~Enrolled
      PROVE  newAgentKey(caAlg) \in {caAlg} \X (1..4) /\ caAlg \in Algs
    <2>1. caAlg \in Algs /\ disk.crt = <<"absent", 0>>
        BY <1>10 DEF FilesInv, IdentityTypeOK, Enrolled, Absent
    <2>2. \E k \in {caAlg} \X (1..4) : k \notin {disk.key, disk.csr, disk.crt, token}
        <3>1. \A n \in 1..4 : <<caAlg, n>> \in {caAlg} \X (1..4) /\ <<caAlg, n>> # disk.crt
            BY <2>1
        <3>2. \A m, n \in 1..4 : m # n => <<caAlg, m>> # <<caAlg, n>>
            OBVIOUS
        <3>3. \/ <<caAlg, 1>> \notin {disk.key, disk.csr, token}
              \/ <<caAlg, 2>> \notin {disk.key, disk.csr, token}
              \/ <<caAlg, 3>> \notin {disk.key, disk.csr, token}
              \/ <<caAlg, 4>> \notin {disk.key, disk.csr, token}
            BY <3>2
        <3> QED
            BY <3>1, <3>3
    <2> QED
        BY <2>1, <2>2 DEF newAgentKey
<1>2. ASSUME FilesInv, [IdentityNext]_identityVars PROVE IdentityTypeOK'
    <2> USE DEF FilesInv, IdentityTypeOK, EnrollInv, EnrolledInv, Enrolled, Enrolling, HasAnswer,
                Idle, Off, NoFiles, Healthy, Absent, Torn, Keys
    <2>1. CASE EnrollBegin
        <3>1. newAgentKey(caAlg) \in Keys /\ caAlg \in Algs
            BY <1>2, <1>10, <2>1 DEF EnrollBegin
        <3>2. parseStagedPair(caAlg) => disk.key \in Keys
            BY <1>2 DEF parseStagedPair
        <3>3. enroll' \in [pc : {"call", "stageKey"}, key : Keys, ca : Algs]
            BY <2>1, <3>1, <3>2 DEF EnrollBegin, trustAnchor
        <3> QED
            BY <1>2, <2>1, <3>3 DEF EnrollBegin
    <2>2. CASE StageKey
        BY <1>2, <2>2 DEF StageKey, WriteFile
    <2>3. CASE StageCSR
        BY <1>2, <2>3 DEF StageCSR, WriteFile
    <2>4. CASE CallEnroll
        <3>1. token' \in Keys \cup {Absent}
            BY <1>2, <2>4 DEF CallEnroll
        <3>2. rejected' \in BOOLEAN
            BY <1>2, <2>4, Zenon DEF CallEnroll
        <3>3. enroll' = Idle \/ enroll' = [enroll EXCEPT !.pc = "writeKey"]
            BY <2>4 DEF CallEnroll
        <3>4. enroll' \in [pc : {"idle", "stageKey", "stageCSR", "call", "writeKey",
                                 "writeCA", "writeCert", "unstage"},
                           key : Keys \cup {Absent}, ca : Algs \cup {"none"}]
            BY <1>2, <3>3
        <3> QED
            BY <1>2, <2>4, <3>1, <3>2, <3>4 DEF CallEnroll
    <2>5. CASE WriteKey
        BY <1>2, <2>5 DEF WriteKey, WriteFile
    <2>6. CASE WriteCA
        BY <1>2, <2>6 DEF WriteCA, WriteFile
    <2>7. CASE WriteCert
        BY <1>2, <2>7 DEF WriteCert
    <2>8. CASE Unstage
        BY <1>2, <2>8 DEF Unstage, WriteFile
    <2>9. ASSUME NEW step \in TornFiles, TearFile(step) PROVE IdentityTypeOK'
        BY <1>2, <2>9 DEF TearFile, fileOf
    <2>10. CASE EnrollDies
        BY <1>2, <2>10 DEF EnrollDies
    <2>11. CASE EnrollReturns
        BY <1>2, <2>11 DEF EnrollReturns
    <2>12. CASE IdentityRetire
        <3>1. disk' \in [key : {Absent}, csr : {Absent}, ca : {Absent}, crt : {Absent}]
            BY <2>12 DEF IdentityRetire, retiredFiles
        <3>2. outage' \in [st : {"ahead"}, left : 0..MaxOutage] /\ age' \in 0..(Validity + 1)
            BY <2>12 DEF IdentityRetire
        <3> QED
            BY <1>2, <2>12, <3>1, <3>2 DEF IdentityRetire
    <2>13. CASE NewToken
        BY <1>2, <2>13 DEF NewToken
    <2>14. CASE Cutover
        BY <1>2, <2>14 DEF Cutover
    <2>15. CASE Start
        BY <1>2, <2>15 DEF Start
    <2>16. CASE Stop
        BY <1>2, <2>16 DEF Stop
    <2>17. CASE Wake
        <3> DEFINE wait == renewAtFor(Validity) - age
        <3>1. wait \in Int
            BY <1>2 DEF renewAtFor
        <3> HIDE DEF wait
        <3>2. CASE wait > 0
            <4>1. PICK w \in jitterPct(wait) : renewer' = [renewer EXCEPT !.wait = w]
                BY <2>17, <3>2 DEF Wake, wait
            <4>2. w \in Nat
                BY <3>1, <3>2, JitterBounds
            <4> QED
                BY <1>2, <2>17, <4>1, <4>2 DEF Wake
        <3>3. CASE ~(wait > 0)
            <4>1. renewer' = [pc |-> "rpc", wait |-> RenewTimeout, hit |-> ~Reachable]
                BY <2>17, <3>3 DEF Wake, wait
            <4>2. renewer' \in [pc : {"off", "sleep", "rpc"}, wait : Nat, hit : BOOLEAN]
                BY <4>1, Zenon
            <4> QED
                BY <1>2, <2>17, <4>2 DEF Wake
        <3> QED
            BY <3>2, <3>3
    <2>18. CASE RenewOk
        <3>1. renewer' = [pc |-> "sleep", wait |-> 0, hit |-> FALSE] /\ 0 \in Nat
            BY <2>18 DEF RenewOk
        <3>2. disk.key = disk.crt /\ disk.crt \in Keys
            BY <1>2, <2>18 DEF RenewOk, Loads
        <3>3. outage' = Healthy \/ outage' = outage
            BY <2>18 DEF RenewOk
        <3>4. outage' \in [st : {"ahead", "now", "past"}, left : 0..MaxOutage]
            BY <1>2, <3>3
        <3>5. renewer' \in [pc : {"off", "sleep", "rpc"}, wait : Nat, hit : BOOLEAN]
            BY <3>1, Zenon
        <3>6. disk' \in [key : Keys \cup {Absent, Torn}, csr : Keys \cup {Absent, Torn},
                         ca : (Algs \X {0}) \cup {Absent, Torn}, crt : Keys \cup {Absent}]
            BY <1>2, <2>18, <3>2 DEF RenewOk
        <3>7. age' = 0 /\ age' \in 0..(Validity + 1) /\ UNCHANGED <<enroll, caAlg, token, rejected, moved>>
            BY <2>18 DEF RenewOk
        <3> HIDE DEF Keys, Healthy, Absent, Torn, Idle
        <3> QED
            BY <1>2, <3>4, <3>5, <3>6, <3>7
    <2>19. CASE RenewFails
        <3>1. retryIntervalFor(Validity) \in Nat
            BY DEF retryIntervalFor, Least, Greatest
        <3>2. PICK w \in jitterPct(retryIntervalFor(Validity)) :
                 renewer' = [pc |-> "sleep", wait |-> w, hit |-> FALSE]
            BY <2>19 DEF RenewFails
        <3>3. w \in Nat
            BY <3>1, JitterBounds
        <3>4. renewer' \in [pc : {"off", "sleep", "rpc"}, wait : Nat, hit : BOOLEAN]
            BY <3>2, <3>3, Zenon
        <3> QED
            BY <1>2, <2>19, <3>4 DEF RenewFails
    <2>20. CASE OutageBegins
        <3>1. renewer' \in [pc : {"off", "sleep", "rpc"}, wait : Nat, hit : BOOLEAN]
            BY <1>2, <2>20, Zenon DEF OutageBegins
        <3>2. outage' \in [st : {"now"}, left : 0..MaxOutage]
            BY <2>20 DEF OutageBegins
        <3> QED
            BY <1>2, <2>20, <3>1, <3>2 DEF OutageBegins
    <2>21. CASE OutageEnds
        BY <1>2, <2>21 DEF OutageEnds
    <2>22. CASE RenewerTick
        BY <1>2, <2>22 DEF RenewerTick, Least
    <2>23. CASE UNCHANGED identityVars
        BY <1>2, <2>23 DEF identityVars
    <2> QED
        BY <1>2, <2>1, <2>2, <2>3, <2>4, <2>5, <2>6, <2>7, <2>8, <2>9, <2>10, <2>11, <2>12,
           <2>13, <2>14, <2>15, <2>16, <2>17, <2>18, <2>19, <2>20, <2>21, <2>22, <2>23
        DEF IdentityNext
<1>3. ASSUME FilesInv, [IdentityNext]_identityVars PROVE EnrollInv' /\ EnrolledInv'
    <2> USE DEF FilesInv, IdentityTypeOK, EnrollInv, EnrolledInv, Enrolled, Enrolling, HasAnswer,
                Idle, Off, NoFiles, Healthy, Absent, Torn, Loads, Keys
    <2>1. CASE EnrollBegin
        <3>1. newAgentKey(caAlg) \in {caAlg} \X (1..4) /\ caAlg \in Algs
            BY <1>3, <1>10, <2>1 DEF EnrollBegin
        <3>2. CASE parseStagedPair(caAlg)
            <4>1. /\ enroll' = [pc |-> "call", key |-> disk.key, ca |-> caAlg]
                  /\ disk.key \in {caAlg} \X (1..4) /\ disk.csr = disk.key
                BY <1>3, <2>1, <3>2 DEF EnrollBegin, trustAnchor, parseStagedPair
            <4> QED
                BY <1>3, <2>1, <3>1, <4>1 DEF EnrollBegin
        <3>3. CASE ~parseStagedPair(caAlg)
            <4>1. enroll' = [pc |-> "stageKey", key |-> newAgentKey(caAlg), ca |-> caAlg]
                BY <2>1, <3>3 DEF EnrollBegin, trustAnchor
            <4> QED
                BY <1>3, <2>1, <3>1, <4>1 DEF EnrollBegin
        <3> QED
            BY <3>2, <3>3
    <2>2. CASE StageKey
        BY <1>3, <2>2 DEF StageKey, WriteFile
    <2>3. CASE StageCSR
        BY <1>3, <2>3 DEF StageCSR, WriteFile
    <2>4. CASE CallEnroll
        BY <1>3, <2>4 DEF CallEnroll
    <2>5. CASE WriteKey
        BY <1>3, <2>5 DEF WriteKey, WriteFile
    <2>6. CASE WriteCA
        BY <1>3, <2>6 DEF WriteCA, WriteFile
    <2>7. CASE WriteCert
        BY <1>3, <2>7 DEF WriteCert
    <2>8. CASE Unstage
        BY <1>3, <2>8 DEF Unstage, WriteFile
    <2>9. ASSUME NEW step \in TornFiles, TearFile(step) PROVE EnrollInv' /\ EnrolledInv'
        BY <1>3, <2>9 DEF TearFile, fileOf
    <2>10. CASE EnrollDies
        BY <1>3, <2>10 DEF EnrollDies
    <2>11. CASE EnrollReturns
        BY <1>3, <2>11 DEF EnrollReturns
    <2>12. CASE IdentityRetire
        BY <1>3, <2>12 DEF IdentityRetire, retiredFiles
    <2>13. CASE NewToken
        BY <1>3, <2>13 DEF NewToken
    <2>14. CASE Cutover
        <3>1. token # Absent => moved'
            BY <2>14 DEF Cutover
        <3>2. token # Absent \/ (~Enrolled /\ enroll.pc \notin HasAnswer)
            BY <1>3
        <3> QED
            BY <1>3, <2>14, <3>1, <3>2 DEF Cutover
    <2>15. CASE Start
        BY <1>3, <2>15 DEF Start
    <2>16. CASE Stop
        BY <1>3, <2>16 DEF Stop
    <2>17. CASE Wake
        BY <1>3, <2>17 DEF Wake
    <2>18. CASE RenewOk
        BY <1>3, <2>18 DEF RenewOk, Renewable
    <2>19. CASE RenewFails
        BY <1>3, <2>19 DEF RenewFails
    <2>20. CASE OutageBegins
        BY <1>3, <2>20 DEF OutageBegins
    <2>21. CASE OutageEnds
        BY <1>3, <2>21 DEF OutageEnds
    <2>22. CASE RenewerTick
        BY <1>3, <2>22 DEF RenewerTick
    <2>23. CASE UNCHANGED identityVars
        BY <1>3, <2>23 DEF identityVars
    <2> QED
        BY <1>3, <2>1, <2>2, <2>3, <2>4, <2>5, <2>6, <2>7, <2>8, <2>9, <2>10, <2>11, <2>12,
           <2>13, <2>14, <2>15, <2>16, <2>17, <2>18, <2>19, <2>20, <2>21, <2>22, <2>23
        DEF IdentityNext
<1>4. FilesInv /\ [IdentityNext]_identityVars => FilesInv'
    BY <1>2, <1>3 DEF FilesInv
<1> QED
    BY <1>1, <1>4, PTL DEF IdentitySpec

(* So long as the second write of the key is not torn, an enrollment the   *)
(* server has answered can be retried: through crashes between any two     *)
(* steps, torn writes of the other files and lost answers, the staged pair *)
(* is the one the token was consumed for (Run, stageKeyAndCSR,             *)
(* PKI.write).  The hypothesis is needed: with that write torn the         *)
(* property fails.                                                         *)
THEOREM EnrollmentRetryableAlways ==
    ASSUME "writeKey" \notin TornFiles
    PROVE  IdentitySpec => []EnrollmentRetryable
<1> DEFINE Unused == token # Absent /\ ~moved /\ ~Enrolled
           RetryInv == Unused => /\ parseStagedPair(caAlg) /\ disk.csr = token
                                 /\ enroll.pc \notin {"stageKey", "stageCSR"}
<1> USE IdentityAssumption
<1>1. IdentityInit => RetryInv
    BY DEF IdentityInit
<1>2. ASSUME FilesInv, RetryInv, [IdentityNext]_identityVars PROVE RetryInv'
    <2> USE DEF FilesInv, IdentityTypeOK, EnrollInv, EnrolledInv, Enrolled, Enrolling, HasAnswer,
                Idle, Off, NoFiles, Healthy, Absent, Torn, Keys, parseStagedPair
    <2>1. CASE EnrollBegin
        BY <1>2, <2>1 DEF EnrollBegin, trustAnchor
    <2>2. CASE StageKey
        BY <1>2, <2>2 DEF StageKey, WriteFile
    <2>3. CASE StageCSR
        BY <1>2, <2>3 DEF StageCSR, WriteFile
    <2>4. CASE CallEnroll
        BY <1>2, <2>4 DEF CallEnroll
    <2>5. CASE WriteKey
        BY <1>2, <2>5 DEF WriteKey, WriteFile
    <2>6. CASE WriteCA
        BY <1>2, <2>6 DEF WriteCA, WriteFile
    <2>7. CASE WriteCert
        BY <1>2, <2>7 DEF WriteCert
    <2>8. CASE Unstage
        BY <1>2, <2>8 DEF Unstage, WriteFile
    <2>9. ASSUME NEW step \in TornFiles, TearFile(step) PROVE RetryInv'
        BY <1>2, <2>9 DEF TearFile, fileOf
    <2>10. CASE EnrollDies
        BY <1>2, <2>10 DEF EnrollDies
    <2>11. CASE EnrollReturns
        BY <1>2, <2>11 DEF EnrollReturns
    <2>12. CASE IdentityRetire
        BY <1>2, <2>12 DEF IdentityRetire, retiredFiles
    <2>13. CASE NewToken
        BY <1>2, <2>13 DEF NewToken
    <2>14. CASE Cutover
        BY <1>2, <2>14 DEF Cutover
    <2>15. CASE Start
        BY <1>2, <2>15 DEF Start
    <2>16. CASE Stop
        BY <1>2, <2>16 DEF Stop
    <2>17. CASE Wake
        BY <1>2, <2>17 DEF Wake
    <2>18. CASE RenewOk
        BY <1>2, <2>18 DEF RenewOk, Loads
    <2>19. CASE RenewFails
        BY <1>2, <2>19 DEF RenewFails
    <2>20. CASE OutageBegins
        BY <1>2, <2>20 DEF OutageBegins
    <2>21. CASE OutageEnds
        BY <1>2, <2>21 DEF OutageEnds
    <2>22. CASE RenewerTick
        BY <1>2, <2>22 DEF RenewerTick
    <2>23. CASE UNCHANGED identityVars
        BY <1>2, <2>23 DEF identityVars
    <2> QED
        BY <1>2, <2>1, <2>2, <2>3, <2>4, <2>5, <2>6, <2>7, <2>8, <2>9, <2>10, <2>11, <2>12,
           <2>13, <2>14, <2>15, <2>16, <2>17, <2>18, <2>19, <2>20, <2>21, <2>22, <2>23
        DEF IdentityNext
<1>3. RetryInv => EnrollmentRetryable
    BY DEF EnrollmentRetryable
<1>4. FilesInv /\ RetryInv /\ [IdentityNext]_identityVars => RetryInv'
    BY <1>2
<1> QED
    BY <1>1, <1>3, <1>4, FilesInvAlways, PTL DEF IdentitySpec

(***************************************************************************)
(* The renewal clock.  A certificate's first renewal is called no later    *)
(* than CallBy, the outage may cost MaxOutage on top and what is left of   *)
(* the retry interval then running RetryWait.                              *)
(***************************************************************************)
renewAt   == renewAtFor(Validity)
retry     == retryIntervalFor(Validity)
CallBy    == renewAt + (renewAt + 19) \div 20
RetryWait == retry + (retry + 19) \div 20

\* The lifetime has room for an outage, and an RPC takes less than a tick.
RoomToRenew == RenewTimeout = 0 /\ CallBy + MaxOutage + RetryWait <= Validity

RenewerInv ==
    /\ renewer.pc = "off" => renewer.wait = 0 /\ ~renewer.hit
    /\ renewer.pc = "sleep" => ~renewer.hit
    /\ renewer.pc = "rpc" => renewer.wait = 0 /\ (outage.st = "now" => renewer.hit)
    /\ renewer.hit => outage.st # "ahead"

ClockInv ==
    (Enrolled /\ ~moved) =>
      /\ outage.st = "ahead" => age + renewer.wait <= CallBy
      /\ outage.st = "now" => age + outage.left <= CallBy + MaxOutage
      /\ renewer.hit => age <= CallBy + MaxOutage
      /\ age + renewer.wait <= CallBy + MaxOutage + RetryWait

(* An enrolled agent's identity works: whatever crash, torn write or       *)
(* cutover preceded it the files load, and while the server keeps its CA   *)
(* a running agent never lets the certificate expire, if the lifetime has  *)
(* room for the outage (ClientTLS, renewAtFor, retryIntervalFor,           *)
(* jitterPct).                                                             *)
THEOREM IdentityLastsAlways ==
    ASSUME RoomToRenew
    PROVE  IdentitySpec => []IdentityLasts
<1> USE IdentityAssumption
<1>1. CallBy \in Nat /\ RetryWait \in Nat /\ renewAt \in Nat /\ retry \in Nat /\ renewAt <= CallBy
    <2>1. renewAt \in Nat /\ retry \in Nat
        BY DEF renewAt, retry, renewAtFor, retryIntervalFor, Least, Greatest
    <2>2. (renewAt + 19) \div 20 \in Nat /\ (retry + 19) \div 20 \in Nat
        BY <2>1
    <2> QED
        BY <2>1, <2>2 DEF CallBy, RetryWait
<1>2. RenewTimeout = 0 /\ CallBy + MaxOutage + RetryWait <= Validity
    BY DEF RoomToRenew
<1>3. IdentityInit => RenewerInv /\ ClockInv
    BY DEF IdentityInit, RenewerInv, ClockInv, Off, Healthy, Enrolled, NoFiles
<1>4. ASSUME FilesInv, RenewerInv, [IdentityNext]_identityVars PROVE RenewerInv'
    <2> USE <1>2 DEF FilesInv, IdentityTypeOK, EnrolledInv, RenewerInv, Off, Healthy, Idle
    <2>1. CASE EnrollBegin
        BY <1>4, <2>1 DEF EnrollBegin, trustAnchor
    <2>2. CASE StageKey
        BY <1>4, <2>2 DEF StageKey, WriteFile
    <2>3. CASE StageCSR
        BY <1>4, <2>3 DEF StageCSR, WriteFile
    <2>4. CASE CallEnroll
        BY <1>4, <2>4 DEF CallEnroll
    <2>5. CASE WriteKey
        BY <1>4, <2>5 DEF WriteKey, WriteFile
    <2>6. CASE WriteCA
        BY <1>4, <2>6 DEF WriteCA, WriteFile
    <2>7. CASE WriteCert
        BY <1>4, <2>7 DEF WriteCert
    <2>8. CASE Unstage
        BY <1>4, <2>8 DEF Unstage, WriteFile
    <2>9. ASSUME NEW step \in TornFiles, TearFile(step) PROVE RenewerInv'
        BY <1>4, <2>9 DEF TearFile, fileOf
    <2>10. CASE EnrollDies
        BY <1>4, <2>10 DEF EnrollDies
    <2>11. CASE EnrollReturns
        BY <1>4, <2>11 DEF EnrollReturns
    <2>12. CASE IdentityRetire
        BY <1>4, <2>12 DEF IdentityRetire, retiredFiles
    <2>13. CASE NewToken
        BY <1>4, <2>13 DEF NewToken
    <2>14. CASE Cutover
        BY <1>4, <2>14 DEF Cutover
    <2>15. CASE Start
        BY <1>4, <2>15 DEF Start
    <2>16. CASE Stop
        BY <1>4, <2>16 DEF Stop
    <2>17. CASE Wake
        <3> DEFINE wait == renewAtFor(Validity) - age
        <3>1. CASE wait > 0
            <4>1. PICK w \in jitterPct(wait) : renewer' = [renewer EXCEPT !.wait = w]
                BY <2>17, <3>1 DEF Wake
            <4>2. renewer'.pc = "sleep" /\ ~renewer'.hit
                BY <1>4, <2>17, <4>1 DEF Wake
            <4> QED
                BY <1>4, <2>17, <4>2 DEF Wake
        <3>2. CASE ~(wait > 0)
            <4>1. renewer' = [pc |-> "rpc", wait |-> RenewTimeout, hit |-> ~Reachable]
                BY <2>17, <3>2 DEF Wake
            <4>2. renewer'.pc = "rpc" /\ renewer'.wait = 0 /\ (renewer'.hit <=> outage.st = "now")
                BY <4>1, <1>2, Zenon DEF Reachable
            <4> QED
                BY <1>4, <2>17, <4>2 DEF Wake
        <3> QED
            BY <3>1, <3>2
    <2>18. CASE RenewOk
        BY <1>4, <2>18 DEF RenewOk
    <2>19. CASE RenewFails
        BY <1>4, <2>19 DEF RenewFails
    <2>20. CASE OutageBegins
        BY <1>4, <2>20 DEF OutageBegins
    <2>21. CASE OutageEnds
        BY <1>4, <2>21 DEF OutageEnds
    <2>22. CASE RenewerTick
        BY <1>4, <2>22 DEF RenewerTick
    <2>23. CASE UNCHANGED identityVars
        BY <1>4, <2>23 DEF identityVars
    <2> QED
        BY <1>4, <2>1, <2>2, <2>3, <2>4, <2>5, <2>6, <2>7, <2>8, <2>9, <2>10, <2>11, <2>12,
           <2>13, <2>14, <2>15, <2>16, <2>17, <2>18, <2>19, <2>20, <2>21, <2>22, <2>23
        DEF IdentityNext
<1>5. ASSUME FilesInv, RenewerInv, ClockInv, [IdentityNext]_identityVars PROVE ClockInv'
    <2> USE <1>1, <1>2 DEF FilesInv, IdentityTypeOK, EnrollInv, EnrolledInv, Enrolled, Enrolling,
            HasAnswer, RenewerInv, ClockInv, Off, Healthy, Idle
    <2>1. CASE EnrollBegin
        BY <1>5, <2>1 DEF EnrollBegin, trustAnchor
    <2>2. CASE StageKey
        BY <1>5, <2>2 DEF StageKey, WriteFile
    <2>3. CASE StageCSR
        BY <1>5, <2>3 DEF StageCSR, WriteFile
    <2>4. CASE CallEnroll
        BY <1>5, <2>4 DEF CallEnroll
    <2>5. CASE WriteKey
        BY <1>5, <2>5 DEF WriteKey, WriteFile
    <2>6. CASE WriteCA
        BY <1>5, <2>6 DEF WriteCA, WriteFile
    <2>7. CASE WriteCert
        BY <1>5, <2>7 DEF WriteCert
    <2>8. CASE Unstage
        BY <1>5, <2>8 DEF Unstage, WriteFile
    <2>9. ASSUME NEW step \in TornFiles, TearFile(step) PROVE ClockInv'
        BY <1>5, <2>9 DEF TearFile, fileOf
    <2>10. CASE EnrollDies
        BY <1>5, <2>10 DEF EnrollDies
    <2>11. CASE EnrollReturns
        BY <1>5, <2>11 DEF EnrollReturns
    <2>12. CASE IdentityRetire
        BY <1>5, <2>12 DEF IdentityRetire, retiredFiles
    <2>13. CASE NewToken
        BY <1>5, <2>13 DEF NewToken
    <2>14. CASE Cutover
        BY <1>5, <2>14 DEF Cutover
    <2>15. CASE Start
        BY <1>5, <2>15 DEF Start
    <2>16. CASE Stop
        BY <1>5, <2>16 DEF Stop
    <2>17. CASE Wake
        <3> DEFINE wait == renewAt - age
        <3>1. age \in Nat /\ wait \in Int /\ renewer.wait = 0
            BY <1>5, <2>17 DEF Wake
        <3>2. CASE wait > 0
            <4>1. PICK w \in jitterPct(wait) : renewer' = [renewer EXCEPT !.wait = w]
                BY <2>17, <3>2 DEF Wake, renewAt
            <4>2. w \in Nat /\ w <= wait + (wait + 19) \div 20
                BY <3>1, <3>2, JitterBounds
            <4>3. wait \in Nat /\ wait <= renewAt
                BY <3>1, <3>2
            <4> HIDE DEF wait
            <4>4. (wait + 19) \div 20 <= (renewAt + 19) \div 20
                BY <4>3
            <4>5. (wait + 19) \div 20 \in Nat /\ (renewAt + 19) \div 20 \in Nat
                BY <4>3
            <4>6. age + w <= CallBy
                <5> HIDE DEF ClockInv, RenewerInv, FilesInv
                <5> QED
                    BY <3>1, <4>2, <4>3, <4>4, <4>5 DEF CallBy, wait
            <4>7. renewer'.wait = w /\ renewer'.hit = renewer.hit
                BY <1>5, <4>1
            <4> QED
                BY <1>5, <2>17, <4>2, <4>6, <4>7 DEF Wake
        <3>3. CASE ~(wait > 0)
            <4>1. renewer' = [pc |-> "rpc", wait |-> RenewTimeout, hit |-> ~Reachable]
                BY <2>17, <3>3 DEF Wake, renewAt
            <4>2. renewer'.wait = 0 /\ (renewer'.hit <=> outage.st = "now")
                BY <4>1, Zenon, <1>2 DEF Reachable
            <4> QED
                BY <1>5, <2>17, <3>1, <4>2 DEF Wake
        <3> QED
            BY <3>2, <3>3
    <2>18. CASE RenewOk
        BY <1>5, <2>18 DEF RenewOk
    <2>19. CASE RenewFails
        <3>1. PICK w \in jitterPct(retry) : renewer' = [pc |-> "sleep", wait |-> w, hit |-> FALSE]
            BY <2>19 DEF RenewFails, retry
        <3>2. w \in Nat /\ w <= RetryWait
            BY JitterBounds DEF RetryWait
        <3>3. (Enrolled /\ ~moved) => Renewable
            BY <1>5 DEF Renewable
        <3> QED
            BY <1>5, <2>19, <3>1, <3>2, <3>3 DEF RenewFails
    <2>20. CASE OutageBegins
        BY <1>5, <2>20 DEF OutageBegins
    <2>21. CASE OutageEnds
        BY <1>5, <2>21 DEF OutageEnds
    <2>22. CASE RenewerTick
        BY <1>5, <2>22 DEF RenewerTick, Least
    <2>23. CASE UNCHANGED identityVars
        BY <1>5, <2>23 DEF identityVars
    <2> QED
        BY <1>5, <2>1, <2>2, <2>3, <2>4, <2>5, <2>6, <2>7, <2>8, <2>9, <2>10, <2>11, <2>12,
           <2>13, <2>14, <2>15, <2>16, <2>17, <2>18, <2>19, <2>20, <2>21, <2>22, <2>23
        DEF IdentityNext
<1>6. FilesInv /\ RenewerInv /\ ClockInv => IdentityLasts
    BY <1>1, <1>2 DEF FilesInv, IdentityTypeOK, EnrolledInv, ClockInv, IdentityLasts, EnrolledLoads,
           RenewedInTime
<1>7. FilesInv /\ RenewerInv /\ ClockInv /\ [IdentityNext]_identityVars => RenewerInv' /\ ClockInv'
    BY <1>4, <1>5
<1> QED
    BY <1>3, <1>6, <1>7, FilesInvAlways, PTL DEF IdentitySpec

-----------------------------------------------------------------------------
(* The watchdog. *)

\* Ticks until the fastest probe has reported, at the latest.
TicksLeft == IF probe.pc = "wait" THEN probe.left + 1 + interval ELSE probe.left + 1

WatchdogShape ==
    /\ interval \in Intervals
    /\ DOMAIN probe = {"pc", "left", "good"} /\ probe.pc \in {"wait", "run"} /\ probe.left \in Nat
    /\ lastReady \in Nat /\ lastOK \in Nat /\ dead \in Nat /\ cut \in Nat
    /\ dead <= Horizon

\* With a network that works, the grace period, or the time since the last good
\* result, leaves the probe the ticks it still needs.
ProbeHasTime ==
    interval > 0 =>
        /\ probe.left < interval
        /\ network /\ probe.pc = "run" => probe.good
        /\ network /\ ~unseen =>
             \/ lastReady + TicksLeft <= 2 * interval
             \/ lastOK + TicksLeft <= 2 * interval

\* How long a dead network can have gone unnoticed.
DeadTime ==
    /\ network => dead = 0
    /\ cut <= Detect
    /\ ready => dead <= cut
    /\ dead <= lastOK
    /\ dead <= lastReady + Detect
    /\ ~exited => dead <= Detect + budget

WatchdogInv == WatchdogShape /\ ProbeHasTime /\ DeadTime /\ RestartsWhenUseful

(* The watchdog restarts the agent when that helps and only then, for every *)
(* limit, schedule and detection time: never while the network works and a  *)
(* probe can show it, unless the schedule was replaced over a channel no    *)
(* tick saw; and never later than Detect plus the budget and one tick after *)
(* the network died (Watchdog.Run, FastestInterval).                        *)
THEOREM RestartsWhenUsefulAlways == WatchdogSpec => []RestartsWhenUseful
<1> USE WatchdogAssumption
<1>1. Horizon \in Nat /\ Limit \in Nat /\ Limit > 0 /\ Detect \in Nat /\ Intervals \subseteq Nat
      /\ Detect < Limit
    <2>1. PICK m \in Intervals : \A n \in Intervals : n <= m
        OBVIOUS
    <2>2. PICK x \in Intervals : x = CHOOSE y \in Intervals : \A n \in Intervals : n <= y
        BY <2>1
    <2>3. Horizon = 2 * Limit + 2 * x + 4
        BY <2>2 DEF Horizon
    <2>4. x \in Nat /\ Limit \in Nat /\ Limit > 0 /\ Detect \in Nat
        OBVIOUS
    <2> QED
        BY <2>3, <2>4
<1>2. \A a \in Nat : Older(a) \in Nat /\ a <= Older(a) /\ Older(a) <= a + 1
                     /\ (a < Horizon => Older(a) = a + 1) /\ (a <= Horizon => Older(a) <= Horizon)
    BY <1>1 DEF Older
<1> HIDE DEF Horizon, Older
<1>3. ASSUME NEW i \in Intervals, NEW s \in splay(IF i = 0 THEN 1 ELSE i)
      PROVE  s \in Nat /\ (i > 0 => s < i)
    BY <1>1 DEF splay
<1>4. ASSUME WatchdogInit PROVE WatchdogInv
    <2>1. PICK i \in Intervals, n \in BOOLEAN, v \in BOOLEAN : Boot(i, n, v)
        BY <1>4 DEF WatchdogInit
    <2>2. PICK s \in splay(IF i = 0 THEN 1 ELSE i) : probe = [pc |-> "wait", left |-> s, good |-> FALSE]
        BY <2>1 DEF Boot
    <2>3. /\ DOMAIN probe = {"pc", "left", "good"} /\ probe.pc = "wait" /\ probe.left = s
          /\ s \in Nat /\ (i > 0 => s < i)
        BY <1>3, <2>2
    <2>4. /\ interval = i /\ lastReady = 0 /\ lastOK = Horizon /\ ~ready /\ dead = 0 /\ cut = 0
          /\ ~exited /\ ~unseen
        BY <2>1 DEF Boot, Never
    <2>5. i \in Nat /\ (i > 0 => s + 1 + i <= 2 * i) /\ budget \in Nat /\ 0 <= Detect + budget
          /\ 0 <= Detect + budget + 1
        BY <1>1, <2>3, <2>4 DEF budget
    <2>6. ProbeHasTime
        BY <2>3, <2>4, <2>5 DEF ProbeHasTime, TicksLeft
    <2> QED
        BY <1>1, <2>3, <2>4, <2>5, <2>6 DEF WatchdogInv, WatchdogShape, DeadTime, RestartsWhenUseful,
           NoFutileRestart, DeadNetworkNoticed
<1>5. ASSUME WatchdogInv, WatchdogTick PROVE WatchdogInv'
    <2>1. WatchdogShape /\ ProbeHasTime /\ DeadTime /\ RestartsWhenUseful
        BY <1>5 DEF WatchdogInv
    <2>2. /\ ~exited /\ UNCHANGED <<interval, ready, server, network>> /\ unseen' = (unseen /\ ~ready)
          /\ lastReady' = (IF ready THEN 0 ELSE Older(lastReady))
          /\ exited' = (~ready /\ Older(lastReady) >= budget /\ lastOK' >= budget)
          /\ dead' = (IF network THEN 0 ELSE Older(dead))
          /\ cut' = (IF network /\ server THEN 0 ELSE IF cut < Detect THEN cut + 1 ELSE cut)
          /\ ((ready /\ ~(network /\ server)) => cut < Detect)
        BY <1>5 DEF WatchdogTick, sample
    <2>3. interval \in Nat /\ budget \in Nat /\ budget >= 2 * interval /\ budget' = budget
        BY <1>1, <2>1, <2>2 DEF WatchdogShape, budget
    <2>4. /\ DOMAIN probe' = {"pc", "left", "good"} /\ probe'.pc \in {"wait", "run"} /\ probe'.left \in Nat
          /\ lastOK' \in Nat
          /\ (network \/ lastOK' = Older(lastOK))
          /\ (interval > 0 => probe'.left < interval)
          /\ (interval > 0 /\ network /\ probe'.pc = "run" => probe'.good)
          /\ \/ interval = 0
             \/ lastOK' = Older(lastOK) /\ TicksLeft' = TicksLeft - 1
             \/ network => lastOK' = 0
        <3> DEFINE p == probe
                   q == probe'
                   i == interval
        <3>0. /\ i \in Nat /\ DOMAIN p = {"pc", "left", "good"} /\ p.pc \in {"wait", "run"} /\ p.left \in Nat
              /\ (i > 0 => p.left < i) /\ (i > 0 /\ network /\ p.pc = "run" => p.good)
              /\ lastOK \in Nat /\ Older(lastOK) \in Nat
            BY <1>2, <2>1, <2>3 DEF WatchdogShape, ProbeHasTime
        <3>n. /\ DOMAIN NextRun = {"pc", "left", "good"} /\ NextRun.pc = "run" /\ NextRun.left = i - 1
              /\ NextRun.good = network
            BY DEF NextRun
        <3> HIDE DEF p, q, i, NextRun
        <3>1. CASE Idling
            BY <3>0, <3>1, <2>2 DEF Idling, p, i
        <3>2. CASE Waiting
            <4>1. i > 0 /\ p.pc = "wait" /\ lastOK' = Older(lastOK)
                BY <3>2 DEF Waiting, p, i
            <4>2. CASE p.left > 0
                <5>1. q = [p EXCEPT !.left = p.left - 1]
                    BY <3>2, <4>2 DEF Waiting, p, q
                <5>2. DOMAIN q = {"pc", "left", "good"} /\ q.pc = "wait" /\ q.left = p.left - 1
                    BY <3>0, <4>1, <5>1
                <5>3. q.left \in Nat /\ q.left < i /\ q.left + 1 + i = (p.left + 1 + i) - 1
                    BY <3>0, <4>1, <4>2, <5>2
                <5> QED
                    BY <2>2, <3>0, <4>1, <5>2, <5>3 DEF TicksLeft, p, q, i
            <4>3. CASE ~(p.left > 0)
                <5>1. q = NextRun /\ p.left = 0
                    BY <3>0, <3>2, <4>3 DEF Waiting, p, q
                <5>2. q.left \in Nat /\ q.left < i /\ q.left + 1 = (p.left + 1 + i) - 1
                    BY <3>0, <3>n, <4>1, <5>1
                <5> QED
                    BY <2>2, <3>0, <3>n, <4>1, <5>1, <5>2 DEF TicksLeft, p, q, i
            <4> QED
                BY <4>2, <4>3
        <3>3. CASE Running
            <4>1. /\ i > 0 /\ p.pc = "run" /\ p.left > 0 /\ lastOK' = Older(lastOK)
                  /\ q = [p EXCEPT !.left = p.left - 1, !.good = p.good /\ network]
                BY <3>3 DEF Running, p, q, i
            <4>2. /\ DOMAIN q = {"pc", "left", "good"} /\ q.pc = "run" /\ q.left = p.left - 1
                  /\ q.good = (p.good /\ network)
                BY <3>0, <4>1
            <4>3. q.left \in Nat /\ q.left < i /\ q.left + 1 = (p.left + 1) - 1
                BY <3>0, <4>1, <4>2
            <4> QED
                BY <2>2, <3>0, <4>1, <4>2, <4>3 DEF TicksLeft, p, q, i
        <3>4. CASE RunEnds
            <4>1. /\ i > 0 /\ p.pc = "run"
                  /\ q = (IF p.left = 0 THEN NextRun ELSE [pc |-> "wait", left |-> p.left - 1, good |-> FALSE])
                  /\ lastOK' = (IF p.good /\ network THEN 0 ELSE Older(lastOK))
                BY <3>4 DEF RunEnds, p, q, i
            <4>2. lastOK' \in Nat /\ (network \/ lastOK' = Older(lastOK)) /\ (network => lastOK' = 0)
                BY <3>0, <4>1
            <4>3. /\ DOMAIN q = {"pc", "left", "good"} /\ q.pc \in {"wait", "run"}
                  /\ q.left \in Nat /\ q.left < i /\ (network /\ q.pc = "run" => q.good)
                <5>1. CASE p.left = 0
                    BY <3>0, <3>n, <4>1, <5>1
                <5>2. CASE p.left # 0
                    <6>1. p.left - 1 \in Nat /\ p.left - 1 < i
                        BY <3>0, <4>1, <5>2
                    <6> QED
                        BY <4>1, <5>2, <6>1
                <5> QED
                    BY <5>1, <5>2
            <4> QED
                BY <4>2, <4>3 DEF q, i
        <3> QED
            BY <1>5, <3>1, <3>2, <3>3, <3>4 DEF WatchdogTick
    <2>5. /\ lastReady \in Nat /\ lastOK \in Nat /\ dead \in Nat /\ cut \in Nat /\ dead <= Horizon
          /\ Older(lastReady) \in Nat /\ Older(lastReady) <= lastReady + 1
          /\ Older(lastOK) \in Nat /\ Older(lastOK) <= lastOK + 1 /\ lastOK <= Older(lastOK)
          /\ Older(dead) \in Nat /\ Older(dead) <= dead + 1 /\ Older(dead) <= Horizon
          /\ (lastReady < Horizon => Older(lastReady) = lastReady + 1) /\ lastReady <= Older(lastReady)
          /\ (lastOK < Horizon => Older(lastOK) = lastOK + 1)
        BY <1>2, <2>1 DEF WatchdogShape
    <2>6. WatchdogShape'
        BY <1>1, <2>1, <2>2, <2>4, <2>5 DEF WatchdogShape
    <2>7. interval > 0 => TicksLeft \in Nat /\ TicksLeft' \in Nat /\ TicksLeft' >= 1 /\ TicksLeft' <= 2 * interval
        BY <2>1, <2>2, <2>3, <2>4 DEF TicksLeft, WatchdogShape, ProbeHasTime
    <2> HIDE DEF TicksLeft
    <2>8. interval > 0 /\ network /\ ~unseen' =>
             lastReady' + TicksLeft' <= 2 * interval \/ lastOK' + TicksLeft' <= 2 * interval
        <3> SUFFICES ASSUME interval > 0, network, ~unseen'
                     PROVE  lastReady' + TicksLeft' <= 2 * interval \/ lastOK' + TicksLeft' <= 2 * interval
            OBVIOUS
        <3>1. CASE ready
            BY <2>2, <2>3, <2>7, <3>1
        <3>2. CASE lastOK' = 0
            BY <2>3, <2>7, <3>2
        <3>3. CASE ~ready /\ lastOK' = Older(lastOK) /\ TicksLeft' = TicksLeft - 1
            <4>1. lastReady + TicksLeft <= 2 * interval \/ lastOK + TicksLeft <= 2 * interval
                BY <2>1, <2>2, <3>3 DEF ProbeHasTime
            <4>2. lastReady' <= lastReady + 1 /\ lastOK' <= lastOK + 1 /\ lastReady' \in Nat /\ lastOK' \in Nat
                BY <2>2, <2>5, <3>3
            <4> QED
                BY <2>3, <2>5, <2>7, <3>3, <4>1, <4>2
        <3> QED
            BY <2>3, <2>4, <3>1, <3>2, <3>3
    <2>9. ProbeHasTime'
        BY <2>2, <2>4, <2>8 DEF ProbeHasTime
    <2>10. NoFutileRestart'
        <3> SUFFICES ASSUME exited', network', interval' # 0, ~unseen' PROVE FALSE
            BY DEF NoFutileRestart
        <3>1. interval > 0 /\ network /\ ~ready /\ Older(lastReady) >= budget /\ lastOK' >= budget
              /\ lastReady' = Older(lastReady)
            <4>1. ~ready /\ Older(lastReady) >= budget /\ lastOK' >= budget
                BY <2>2, Zenon
            <4> QED
                BY <2>2, <2>3, <4>1
        <3>2. lastReady' >= 2 * interval /\ lastOK' >= 2 * interval
            BY <2>3, <2>4, <2>5, <3>1
        <3> QED
            BY <2>3, <2>4, <2>5, <2>7, <2>8, <3>1, <3>2
    <2>11. /\ (network => dead' = 0) /\ cut' <= Detect /\ (ready => dead' <= cut')
           /\ dead' <= lastOK' /\ dead' <= lastReady' + Detect /\ dead' <= Detect + budget + 1
        <3>1. CASE network
            BY <1>1, <2>1, <2>2, <2>3, <2>4, <2>5, <3>1 DEF DeadTime
        <3>2. CASE ~network
            <4>1. dead' = Older(dead) /\ lastOK' = Older(lastOK) /\ cut <= Detect
                  /\ (ready => dead <= cut /\ cut < Detect) /\ dead <= lastOK /\ dead <= lastReady + Detect
                  /\ dead <= Detect + budget
                BY <2>1, <2>2, <2>4, <3>2 DEF DeadTime
            <4>2. cut' = IF cut < Detect THEN cut + 1 ELSE cut
                BY <2>2, <3>2
            <4>3. cut' <= Detect /\ (ready => dead' <= cut')
                BY <1>1, <2>5, <4>1, <4>2
            <4>4. dead' <= lastOK'
                BY <1>1, <2>5, <4>1
            <4>5. dead' <= lastReady' + Detect
                <5>1. CASE ready
                    BY <1>1, <2>2, <2>5, <4>1, <5>1
                <5>2. CASE ~ready
                    BY <1>1, <2>2, <2>5, <4>1, <5>2
                <5> QED
                    BY <5>1, <5>2
            <4>6. dead' <= Detect + budget + 1
                BY <1>1, <2>3, <2>5, <4>1
            <4> QED
                BY <3>2, <4>3, <4>4, <4>5, <4>6
        <3> QED
            BY <3>1, <3>2
    <2>12. ~exited' => dead' <= Detect + budget
        <3>1. dead' \in Nat
            BY <2>2, <2>5
        <3>2. CASE ready
            BY <1>1, <2>2, <2>3, <2>11, <3>1, <3>2
        <3>3. CASE ~ready /\ Older(lastReady) < budget
            BY <1>1, <2>2, <2>3, <2>5, <2>11, <3>1, <3>3
        <3>4. CASE lastOK' < budget
            BY <1>1, <2>3, <2>4, <2>11, <3>1, <3>4
        <3>5. ~exited' => ready \/ ~(Older(lastReady) >= budget) \/ ~(lastOK' >= budget)
            BY <2>2, Zenon
        <3> QED
            BY <2>3, <2>4, <2>5, <3>2, <3>3, <3>4, <3>5
    <2> QED
        BY <2>2, <2>3, <2>6, <2>9, <2>10, <2>11, <2>12
        DEF WatchdogInv, DeadTime, RestartsWhenUseful, DeadNetworkNoticed
<1>6. ASSUME WatchdogInv, ChannelUp \/ ChannelDown \/ ServerStops \/ ServerStarts \/ NetworkDies
      PROVE  WatchdogInv'
    <2>1. /\ UNCHANGED <<interval, probe, lastReady, lastOK, dead, exited, unseen>>
          /\ ~exited /\ (network' => network) /\ cut' \in {0, cut}
          /\ (cut' # cut => network') /\ (ready' => ready \/ network)
        BY <1>6 DEF ChannelUp, ChannelDown, ServerStops, ServerStarts, NetworkDies
    <2>2. WatchdogShape'
        BY <1>6, <2>1 DEF WatchdogInv, WatchdogShape
    <2>3. ProbeHasTime'
        BY <1>6, <2>1 DEF WatchdogInv, ProbeHasTime, TicksLeft
    <2>4. budget \in Nat /\ budget' = budget
        BY <1>1, <1>6, <2>1 DEF WatchdogInv, WatchdogShape, budget
    <2>5. DeadTime'
        BY <1>1, <1>6, <2>1, <2>4 DEF WatchdogInv, WatchdogShape, DeadTime
    <2>6. dead <= Detect + budget + 1
        BY <1>1, <1>6, <2>1, <2>4 DEF WatchdogInv, WatchdogShape, DeadTime
    <2> QED
        BY <2>1, <2>2, <2>3, <2>4, <2>5, <2>6
        DEF WatchdogInv, RestartsWhenUseful, NoFutileRestart, DeadNetworkNoticed
<1>7. ASSUME WatchdogInv, Reconfigure PROVE WatchdogInv'
    <2>1. PICK i \in Intervals, s \in 0..Horizon :
             s \in splay(IF i = 0 THEN 1 ELSE i) /\ interval' = i /\ probe' = [pc |-> "wait", left |-> s, good |-> FALSE]
        BY <1>7 DEF Reconfigure
    <2>2. /\ DOMAIN probe' = {"pc", "left", "good"} /\ probe'.pc = "wait" /\ probe'.left = s
          /\ s \in Nat /\ (i > 0 => s < i)
        BY <1>3, <2>1
    <2>3. /\ ~exited /\ network /\ unseen' /\ dead = 0
          /\ UNCHANGED <<lastReady, lastOK, ready, server, network, dead, cut, exited>>
        BY <1>7 DEF Reconfigure, WatchdogInv, DeadTime
    <2>4. 0 <= Detect + budget'
        BY <1>1, <2>1 DEF budget
    <2>5. DeadTime'
        <3>1. /\ cut \in Nat /\ lastOK \in Nat /\ lastReady \in Nat /\ cut <= Detect
            BY <1>7 DEF WatchdogInv, WatchdogShape, DeadTime
        <3>2. 0 <= lastReady + Detect /\ 0 <= cut /\ 0 <= lastOK
            BY <1>1, <3>1
        <3> QED
            BY <2>3, <2>4, <3>1, <3>2 DEF DeadTime
    <2> QED
        BY <1>7, <2>1, <2>2, <2>3, <2>5
        DEF WatchdogInv, WatchdogShape, ProbeHasTime, RestartsWhenUseful, NoFutileRestart, DeadNetworkNoticed
<1>8. ASSUME WatchdogInv, Restart PROVE WatchdogInv'
    <2>1. PICK s \in splay(IF interval = 0 THEN 1 ELSE interval) :
             probe' = [pc |-> "wait", left |-> s, good |-> FALSE]
        BY <1>8 DEF Restart
    <2>2. interval \in Intervals /\ interval \in Nat
        BY <1>1, <1>8 DEF WatchdogInv, WatchdogShape
    <2>3. /\ DOMAIN probe' = {"pc", "left", "good"} /\ probe'.pc = "wait" /\ probe'.left = s
          /\ s \in Nat /\ (interval > 0 => s < interval)
        BY <1>3, <2>1, <2>2
    <2>4. /\ interval' = interval /\ lastReady' = 0 /\ lastOK' = Horizon /\ ~ready' /\ dead' = 0
          /\ cut' = 0 /\ ~exited' /\ ~unseen' /\ network'
        BY <1>8 DEF Restart, Never
    <2>5. 0 <= Detect + budget' /\ (interval > 0 => s + 1 + interval <= 2 * interval)
        BY <1>1, <2>2, <2>3, <2>4 DEF budget
    <2>6. ProbeHasTime'
        BY <2>2, <2>3, <2>4, <2>5 DEF ProbeHasTime, TicksLeft
    <2>7. DeadTime'
        <3>1. 0 <= Detect /\ 0 <= Horizon /\ 0 <= 0 + Detect
            BY <1>1
        <3> QED
            BY <2>4, <2>5, <3>1 DEF DeadTime
    <2> QED
        BY <1>1, <2>2, <2>3, <2>4, <2>6, <2>7
        DEF WatchdogInv, WatchdogShape, RestartsWhenUseful, NoFutileRestart, DeadNetworkNoticed
<1>9. ASSUME WatchdogInv, UNCHANGED watchdogVars PROVE WatchdogInv'
    BY <1>9 DEF watchdogVars, WatchdogInv, WatchdogShape, ProbeHasTime, TicksLeft, DeadTime, budget,
       RestartsWhenUseful, NoFutileRestart, DeadNetworkNoticed
<1>10. WatchdogInv /\ [WatchdogNext]_watchdogVars => WatchdogInv'
    BY <1>5, <1>6, <1>7, <1>8, <1>9 DEF WatchdogNext
<1>11. WatchdogInv => RestartsWhenUseful
    BY DEF WatchdogInv
<1> QED
    BY <1>4, <1>10, <1>11, PTL DEF WatchdogSpec

-----------------------------------------------------------------------------
(* The path MTU search.                                                    *)

RouterMtus == {path.first.mtu, path.second.mtu}

SearchType ==
    [lo : Sizes \cup {0}, hi : Sizes \cup {MaxSize + 1},
     cause : {"none", "tooBig", "silent", "local"}, tested : SUBSET Sizes,
     nextHopMTU : Nat, override : Nat, advConfirmed : BOOLEAN]

\* A tested size is outside the open interval; an advertised MTU is a router's.
SearchOK(s) ==
    /\ s \in SearchType
    /\ \A z \in s.tested : z <= s.lo \/ z >= s.hi
    /\ s.override # 0 => s.override >= MinSize
    /\ s.nextHopMTU # 0 => s.nextHopMTU \in RouterMtus

\* A size with a reply under way is under test or settled; what is under test
\* left the interface.
RunOK ==
    /\ path \in [local : Locals, first : Routers, second : Routers]
    /\ cur \in Sizes \cup {0} /\ late \subseteq Sizes \cap (search.tested \cup {cur})
    /\ missed \in BOOLEAN
    /\ cur # 0 => Answer(cur).v # "local"

\* While no size fell silent by accident both bounds are what the path says of
\* them, and a confirmed MTU is a router's, with nothing left under test.
BoundsTrue(s) ==
    /\ s.lo # 0 => Answer(s.lo).v = "ok"
    /\ IF s.hi = MaxSize + 1 THEN s.cause = "none"
       ELSE s.cause = Answer(s.hi).v /\ s.cause # "ok"
    /\ s.advConfirmed => s.cause = "tooBig" /\ s.lo # 0 /\ s.lo \in RouterMtus

PathMtuInv ==
    /\ SearchOK(search) /\ RunOK
    /\ ~missed => BoundsTrue(search) /\ (search.advConfirmed => cur = 0)

(* What a finished path MTU run reports of a stable path is true, for      *)
(* every range, every pair of routers and every order in which replies     *)
(* come, are late or are lost, unless every send of one size went          *)
(* unanswered in time: an OK names the MTU, a black hole has a silent      *)
(* router exactly there, a minimum that fails really fails (next, record,  *)
(* done, pmtuFinalize).                                                    *)
THEOREM ResultIsTrueAlways == PathMtuSpec => []ResultIsTrue
<1> USE PathMtuAssumption
\* What the path says of a size.
<1>1. ASSUME path \in [local : Locals, first : Routers, second : Routers], NEW z \in Nat
      PROVE  /\ path.local \in Nat /\ path.first.mtu \in Nat /\ path.second.mtu \in Nat
             /\ Answer(z).v \in {"ok", "tooBig", "silent", "local"}
             /\ Answer(z).v = "ok" <=>
                   z <= path.local /\ z <= path.first.mtu /\ z <= path.second.mtu
             /\ Answer(z).v = "local" <=> z > path.local
             /\ Answer(z).adv \in {0} \cup RouterMtus /\ Answer(z).adv \in Nat
             /\ Answer(z).v = "silent" =>
                   \/ z > path.first.mtu /\ path.first.manners = "silent"
                   \/ z <= path.first.mtu /\ z > path.second.mtu /\ path.second.manners = "silent"
    <2>1. /\ path.local \in Nat /\ path.first.mtu \in Nat /\ path.second.mtu \in Nat
          /\ path.first.manners \in Manners /\ path.second.manners \in Manners
        BY <1>1 DEF Routers
    <2>2. ASSUME NEW r
          PROVE  /\ r.manners = "advertises" => Refusal(r) = [v |-> "tooBig", adv |-> r.mtu]
                 /\ r.manners = "refuses" => Refusal(r) = [v |-> "tooBig", adv |-> 0]
                 /\ r.manners = "silent" => Refusal(r) = [v |-> "silent", adv |-> 0]
        BY DEF Refusal
    <2>3. CASE z > path.local
        <3>1. Answer(z) = [v |-> "local", adv |-> 0]
            BY <2>3 DEF Answer
        <3> QED
            BY <2>1, <2>3, <3>1
    <2>4. CASE ~(z > path.local) /\ z > path.first.mtu
        <3>1. Answer(z) = Refusal(path.first)
            BY <2>4 DEF Answer
        <3> QED
            BY <2>1, <2>2, <2>4, <3>1 DEF Manners, RouterMtus
    <2>5. CASE ~(z > path.local) /\ ~(z > path.first.mtu) /\ z > path.second.mtu
        <3>1. Answer(z) = Refusal(path.second)
            BY <2>5 DEF Answer
        <3> QED
            BY <2>1, <2>2, <2>5, <3>1 DEF Manners, RouterMtus
    <2>6. CASE ~(z > path.local) /\ ~(z > path.first.mtu) /\ ~(z > path.second.mtu)
        <3>1. Answer(z) = [v |-> "ok", adv |-> 0]
            BY <2>6 DEF Answer
        <3> QED
            BY <2>1, <2>6, <3>1
    <2> QED
        BY <2>3, <2>4, <2>5, <2>6
\* What the search knows after a verdict.
<1>2. ASSUME NEW s \in SearchType, NEW z \in Sizes, NEW adv \in Nat,
             NEW v \in {"ok", "tooBig", "silent", "local"}, NEW t, t = record(s, z, v, adv)
      PROVE  /\ t \in SearchType /\ t.tested = s.tested \cup {z}
             /\ v = "ok" =>
                  /\ t.hi = s.hi /\ t.cause = s.cause
                  /\ t.nextHopMTU = s.nextHopMTU /\ t.override = s.override
                  /\ IF z > s.lo /\ z < s.hi
                     THEN /\ t.lo = z
                          /\ t.advConfirmed => \/ s.advConfirmed
                                               \/ s.cause = "tooBig" /\ z = s.nextHopMTU
                     ELSE t.lo = s.lo /\ t.advConfirmed = s.advConfirmed
             /\ v # "ok" =>
                  /\ t.lo = s.lo /\ t.advConfirmed = s.advConfirmed
                  /\ IF z < s.hi THEN t.hi = z /\ t.cause = v ELSE t.hi = s.hi /\ t.cause = s.cause
                  /\ t.nextHopMTU \in {s.nextHopMTU, adv}
                  /\ t.override # s.override => t.override = adv /\ adv >= MinSize
    <2> DEFINE u == [s EXCEPT !.tested = @ \cup {z}]
               w == lower(u, z, v)
    <2>1. /\ u \in SearchType /\ u.tested = s.tested \cup {z} /\ u.lo = s.lo /\ u.hi = s.hi
          /\ u.cause = s.cause /\ u.nextHopMTU = s.nextHopMTU /\ u.override = s.override
          /\ u.advConfirmed = s.advConfirmed
        BY DEF SearchType
    <2> HIDE DEF u
    <2>2. CASE v = "ok"
        <3>1. t = recordOK(u, z)
            BY <1>2, <2>2 DEF record, u
        <3> QED
            BY <2>1, <2>2, <3>1 DEF recordOK, SearchType
    <2>3. ASSUME v # "ok"
          PROVE  /\ w \in SearchType /\ w.tested = u.tested /\ w.lo = u.lo
                 /\ IF z < u.hi THEN w.hi = z /\ w.cause = v ELSE w.hi = u.hi /\ w.cause = u.cause
                 /\ w.nextHopMTU = u.nextHopMTU /\ w.override = u.override
                 /\ w.advConfirmed = u.advConfirmed
        BY <2>1, <2>3 DEF lower, SearchType
    <2> HIDE DEF w
    <2>4. CASE v = "tooBig"
        <3>1. t = advertised(w, z, adv)
            BY <1>2, <2>4 DEF record, u, w
        <3>2. /\ t \in SearchType /\ t.tested = w.tested /\ t.lo = w.lo /\ t.hi = w.hi
              /\ t.cause = w.cause /\ t.advConfirmed = w.advConfirmed
              /\ t.nextHopMTU \in {w.nextHopMTU, adv}
              /\ t.override # w.override => t.override = adv /\ adv >= MinSize
            <4> DEFINE news == /\ adv >= MtuFloor /\ adv < z
                               /\ w.nextHopMTU = 0 \/ adv < w.nextHopMTU
                       ov == IF adv >= MinSize THEN adv ELSE w.override
            <4>1. w \in SearchType
                BY <2>3, <2>4
            <4>2. CASE news
                <5>1. t = [w EXCEPT !.nextHopMTU = adv, !.override = ov]
                    BY <3>1, <4>2 DEF advertised
                <5>2. ov \in Nat /\ (ov # w.override => ov = adv /\ adv >= MinSize)
                    BY <4>1 DEF SearchType
                <5> HIDE DEF ov, w
                <5>3. /\ t \in SearchType /\ t.nextHopMTU = adv /\ t.override = ov
                      /\ t.tested = w.tested /\ t.lo = w.lo /\ t.hi = w.hi
                      /\ t.cause = w.cause /\ t.advConfirmed = w.advConfirmed
                    BY <4>1, <5>1, <5>2 DEF SearchType
                <5> QED
                    BY <5>2, <5>3
            <4>3. CASE ~news
                BY <3>1, <4>1, <4>3 DEF advertised
            <4> QED
                BY <4>2, <4>3
        <3> QED
            BY <2>1, <2>3, <2>4, <3>2
    <2>5. CASE v \in {"silent", "local"}
        <3>1. t = w
            BY <1>2, <2>5 DEF record, u, w
        <3> QED
            BY <2>1, <2>3, <2>5, <3>1
    <2> QED
        BY <2>2, <2>4, <2>5
\* The same in the parts that the steps below use.
<1>2a. ASSUME NEW s \in SearchType, NEW z \in Sizes, NEW adv \in Nat,
              NEW v \in {"ok", "tooBig", "silent", "local"}, NEW t, t = record(s, z, v, adv)
       PROVE  /\ t.tested = s.tested \cup {z}
              /\ ~(z > s.lo /\ z < s.hi) => t.advConfirmed = s.advConfirmed
    BY <1>2, <1>2a
<1>2b. ASSUME NEW s \in SearchType, NEW z \in Sizes, NEW adv \in Nat,
              NEW t, t = record(s, z, "ok", adv)
       PROVE  /\ t.hi = s.hi /\ t.cause = s.cause
              /\ IF z > s.lo /\ z < s.hi
                 THEN /\ t.lo = z
                      /\ t.advConfirmed => \/ s.advConfirmed
                                           \/ s.cause = "tooBig" /\ z = s.nextHopMTU
                 ELSE t.lo = s.lo /\ t.advConfirmed = s.advConfirmed
    BY <1>2, <1>2b
<1>2c. ASSUME NEW s \in SearchType, NEW z \in Sizes, NEW adv \in Nat,
              NEW v \in {"tooBig", "silent", "local"}, NEW t, t = record(s, z, v, adv)
       PROVE  /\ t.lo = s.lo /\ t.advConfirmed = s.advConfirmed
              /\ IF z < s.hi THEN t.hi = z /\ t.cause = v ELSE t.hi = s.hi /\ t.cause = s.cause
    BY <1>2, <1>2c
\* The next size is one of the range, and only a search that is not done has one.
<1>3. ASSUME NEW s, SearchOK(s), next(s) # 0
      PROVE  next(s) \in Sizes /\ ~s.advConfirmed
    <2>1. /\ s.lo \in Sizes \cup {0} /\ s.hi \in Sizes \cup {MaxSize + 1} /\ s.override \in Nat
        BY <1>3 DEF SearchOK, SearchType
    <2>2. ~done(s)
        BY <1>3 DEF next
    <2>3. ~s.advConfirmed /\ ~(s.hi <= MinSize)
        BY <2>2 DEF done
    <2>4. CASE next(s) = MaxSize \/ next(s) = MinSize
        BY <2>3, <2>4 DEF Sizes
    <2>5. CASE next(s) = s.override /\ s.override > s.lo /\ s.override < s.hi
        BY <1>3, <2>1, <2>3, <2>5 DEF SearchOK, Sizes
    <2>6. CASE /\ next(s) = mid(s) /\ mid(s) > s.lo /\ mid(s) < s.hi
               /\ s.lo = 0 => MinSize \in s.tested
        <3>1. PICK m \in Nat : m = mid(s)
            BY <2>1 DEF mid, Sizes
        <3>2. s.lo # 0
            BY <1>3, <2>1, <2>3, <2>6 DEF SearchOK, Sizes
        <3> QED
            BY <2>1, <2>3, <2>6, <3>1, <3>2 DEF Sizes
    <2>7. \/ next(s) = MaxSize \/ next(s) = MinSize
          \/ next(s) = s.override /\ s.override > s.lo /\ s.override < s.hi
          \/ /\ next(s) = mid(s) /\ ~(mid(s) <= s.lo) /\ ~(mid(s) >= s.hi)
             /\ s.lo = 0 => MinSize \in s.tested
        BY <1>3, <2>2 DEF next
    <2>8. mid(s) \in Nat
        BY <2>1 DEF mid, Sizes
    <2> QED
        BY <2>1, <2>4, <2>5, <2>6, <2>7, <2>8 DEF Sizes
\* A verdict keeps the search well formed.
<1>4. ASSUME NEW s, SearchOK(s), NEW z \in Sizes, NEW adv \in {0} \cup RouterMtus, adv \in Nat,
             NEW v \in {"ok", "tooBig", "silent", "local"}
      PROVE  SearchOK(record(s, z, v, adv))
    <2> DEFINE t == record(s, z, v, adv)
    <2>1. s \in SearchType
        BY <1>4 DEF SearchOK
    <2>t. t = record(s, z, v, adv)
        OBVIOUS
    <2> HIDE DEF t
    <2>2. /\ t \in SearchType /\ t.tested = s.tested \cup {z}
          /\ v = "ok" =>
               /\ t.hi = s.hi /\ t.nextHopMTU = s.nextHopMTU /\ t.override = s.override
               /\ t.lo = IF z > s.lo /\ z < s.hi THEN z ELSE s.lo
          /\ v # "ok" =>
               /\ t.lo = s.lo /\ t.hi = IF z < s.hi THEN z ELSE s.hi
               /\ t.nextHopMTU \in {s.nextHopMTU, adv}
               /\ t.override # s.override => t.override = adv /\ adv >= MinSize
        BY <1>2, <1>4, <2>1, <2>t
    <2>3. /\ s.lo \in Nat /\ s.hi \in Nat /\ z \in Nat /\ s.tested \subseteq Nat
          /\ \A y \in s.tested : y <= s.lo \/ y >= s.hi
        BY <1>4, <2>1 DEF SearchOK, SearchType, Sizes
    <2>4. \A y \in t.tested : y <= t.lo \/ y >= t.hi
        BY <2>2, <2>3
    <2>5. t.override # 0 => t.override >= MinSize
        BY <1>4, <2>2 DEF SearchOK
    <2>6. t.nextHopMTU # 0 => t.nextHopMTU \in RouterMtus
        BY <1>4, <2>2 DEF SearchOK
    <2> QED
        BY <2>2, <2>4, <2>5, <2>6 DEF SearchOK, t
\* A true verdict keeps the bounds true.
<1>5. ASSUME PathMtuInv, NEW z \in Sizes, BoundsTrue(search),
             ~search.advConfirmed \/ z \in search.tested
      PROVE  BoundsTrue(record(search, z, Answer(z).v, Answer(z).adv))
    <2> DEFINE s == search
               v == Answer(z).v
               adv == Answer(z).adv
               t == record(s, z, v, adv)
    <2>1. /\ s \in SearchType /\ s.lo \in Nat /\ s.hi \in Nat /\ z \in Nat /\ z # MaxSize + 1 /\ z # 0
        BY <1>5 DEF PathMtuInv, SearchOK, SearchType, Sizes
    <2>2. v \in {"ok", "tooBig", "silent", "local"} /\ adv \in Nat
        BY <1>1, <1>5, <2>1 DEF PathMtuInv, RunOK
    <2>3. /\ s.lo # 0 => Answer(s.lo).v = "ok"
          /\ IF s.hi = MaxSize + 1 THEN s.cause = "none"
             ELSE s.cause = Answer(s.hi).v /\ s.cause # "ok"
          /\ s.advConfirmed => s.cause = "tooBig" /\ s.lo # 0 /\ s.lo \in RouterMtus
          /\ s.nextHopMTU # 0 => s.nextHopMTU \in RouterMtus
          /\ z \in s.tested => z <= s.lo \/ z >= s.hi
        BY <1>5 DEF BoundsTrue, PathMtuInv, SearchOK
    <2>4. v # "ok" /\ z <= s.lo => s.lo = 0
        BY <1>1, <1>5, <2>1, <2>3 DEF PathMtuInv, RunOK
    <2> HIDE DEF s, v, adv
    <2>5. CASE v = "ok"
        <3>1. /\ t.hi = s.hi /\ t.cause = s.cause
              /\ IF z > s.lo /\ z < s.hi
                 THEN /\ t.lo = z
                      /\ t.advConfirmed => \/ s.advConfirmed
                                           \/ s.cause = "tooBig" /\ z = s.nextHopMTU
                 ELSE t.lo = s.lo /\ t.advConfirmed = s.advConfirmed
            BY <1>2b, <2>1, <2>2, <2>5
        <3> HIDE DEF t
        <3>2. z \in s.tested => ~(z > s.lo /\ z < s.hi)
            BY <2>1, <2>3
        <3>3. ~s.advConfirmed \/ z \in s.tested
            BY <1>5 DEF s
        <3>4. t.lo # 0 => Answer(t.lo).v = "ok"
            BY <2>3, <2>5, <3>1 DEF v
        <3>5. t.advConfirmed => t.cause = "tooBig" /\ t.lo # 0 /\ t.lo \in RouterMtus
            BY <2>1, <2>3, <3>1, <3>2, <3>3
        <3>6. BoundsTrue(t)
            BY <2>3, <3>1, <3>4, <3>5 DEF BoundsTrue
        <3> QED
            BY <3>6 DEF t, s, v, adv
    <2>6. CASE v # "ok"
        <3>1. /\ t.lo = s.lo /\ t.advConfirmed = s.advConfirmed
              /\ IF z < s.hi THEN t.hi = z /\ t.cause = v ELSE t.hi = s.hi /\ t.cause = s.cause
            BY <1>2c, <2>1, <2>2, <2>6
        <3> HIDE DEF t
        <3>2. s.advConfirmed => ~(z < s.hi)
            <4>1. ~s.advConfirmed \/ z \in s.tested
                BY <1>5 DEF s
            <4> QED
                BY <2>1, <2>3, <2>4, <2>6, <4>1
        <3>3. IF t.hi = MaxSize + 1 THEN t.cause = "none"
              ELSE t.cause = Answer(t.hi).v /\ t.cause # "ok"
            BY <2>1, <2>3, <2>6, <3>1 DEF v
        <3>4. BoundsTrue(t)
            BY <2>3, <3>1, <3>2, <3>3 DEF BoundsTrue
        <3> QED
            BY <3>4 DEF t, s, v, adv
    <2> QED
        BY <2>5, <2>6
<1>6. PathMtuInit => PathMtuInv
    <2> SUFFICES ASSUME PathMtuInit PROVE PathMtuInv
        OBVIOUS
    <2>1. newPMTUSearch \in SearchType
        BY DEF newPMTUSearch, SearchType, Sizes
    <2>2. SearchOK(newPMTUSearch) /\ BoundsTrue(newPMTUSearch) /\ ~newPMTUSearch.advConfirmed
        BY <2>1 DEF newPMTUSearch, SearchOK, BoundsTrue
    <2> QED
        BY <2>2 DEF PathMtuInit, PathMtuInv, RunOK
\* A step is judged by the search it leaves and by what is under test and late.
<1>7. ASSUME PathMtuInv, path' = path
      PROVE  /\ \A z : (Answer(z))' = Answer(z)
             /\ RouterMtus' = RouterMtus
             /\ BoundsTrue(search)' = BoundsTrue(search')
             /\ SearchOK(search)' = SearchOK(search')
    BY <1>7 DEF Answer, RouterMtus, BoundsTrue, SearchOK, Refusal
<1>8. ASSUME PathMtuInv, path' = path, missed' \in BOOLEAN, SearchOK(search'),
             cur' \in Sizes \cup {0}, late' \subseteq Sizes \cap (search'.tested \cup {cur'}),
             cur' # 0 => Answer(cur').v # "local",
             ~missed' => BoundsTrue(search') /\ (search'.advConfirmed => cur' = 0)
      PROVE  PathMtuInv'
    <2>1. SearchOK(search)' /\ (~missed' => BoundsTrue(search)')
        BY <1>7, <1>8
    <2>2. (Answer(cur))' = Answer(cur')
        BY <1>8 DEF Answer, Refusal
    <2>3. RunOK'
        BY <1>8, <2>2 DEF RunOK, PathMtuInv
    <2> QED
        BY <1>8, <2>1, <2>3 DEF PathMtuInv
<1>f. ASSUME PathMtuInv
      PROVE  /\ SearchOK(search) /\ search \in SearchType /\ search.tested \subseteq Sizes
             /\ path \in [local : Locals, first : Routers, second : Routers]
             /\ cur \in Sizes \cup {0} /\ late \subseteq Sizes \cap (search.tested \cup {cur})
             /\ missed \in BOOLEAN /\ (cur # 0 => Answer(cur).v # "local")
             /\ ~missed => BoundsTrue(search) /\ (search.advConfirmed => cur = 0)
             /\ 0 \notin Sizes /\ Sizes \subseteq Nat
    BY <1>f DEF PathMtuInv, SearchOK, SearchType, RunOK, Sizes
\* A reply, now or late, of a size sent.
<1>9. ASSUME PathMtuInv, NEW z \in Sizes
      PROVE  LET t == record(search, z, Answer(z).v, Answer(z).adv) IN
             /\ SearchOK(t) /\ t.tested = search.tested \cup {z}
             /\ Answer(z).v \in {"ok", "tooBig", "silent", "local"}
    <2>1. /\ Answer(z).v \in {"ok", "tooBig", "silent", "local"}
          /\ Answer(z).adv \in {0} \cup RouterMtus /\ Answer(z).adv \in Nat
        BY <1>1, <1>f, <1>9
    <2>2. SearchOK(record(search, z, Answer(z).v, Answer(z).adv))
        BY <1>4, <1>f, <1>9, <2>1
    <2>3. record(search, z, Answer(z).v, Answer(z).adv).tested = search.tested \cup {z}
        BY <1>2a, <1>f, <1>9, <2>1
    <2> QED
        BY <2>1, <2>2, <2>3
<1>10. ASSUME PathMtuInv, SendFirst PROVE PathMtuInv'
    <2> DEFINE z == next(search)
    <2>1. z \in Sizes /\ ~search.advConfirmed /\ cur = 0
        BY <1>3, <1>f, <1>10 DEF SendFirst
    <2>2. CASE Answer(z).v = "local"
        <3>1. search' = record(search, z, "local", 0) /\ UNCHANGED <<cur, path, late, missed>>
            BY <1>10, <2>2 DEF SendFirst
        <3>2. Answer(z).adv = 0
            BY <2>2, <1>f, <1>10, <2>1 DEF Answer, Refusal, Routers, Manners
        <3> HIDE DEF z
        <3>3. search' = record(search, z, Answer(z).v, Answer(z).adv)
            BY <2>2, <3>1, <3>2
        <3>4. SearchOK(search') /\ search'.tested = search.tested \cup {z}
            BY <1>9, <1>10, <2>1, <3>3
        <3>5. ~missed => BoundsTrue(search')
            BY <1>5, <1>10, <1>f, <2>1, <3>3
        <3> QED
            BY <1>8, <1>10, <1>f, <2>1, <3>1, <3>4, <3>5
    <2>3. CASE Answer(z).v # "local"
        <3>1. cur' = z /\ UNCHANGED <<search, path, late, missed>>
            BY <1>10, <2>3 DEF SendFirst
        <3> HIDE DEF z
        <3> QED
            BY <1>8, <1>10, <1>f, <2>1, <2>3, <3>1
    <2> QED
        BY <2>2, <2>3
<1>11. ASSUME PathMtuInv, ReplyInTime PROVE PathMtuInv'
    <2>1. /\ cur \in Sizes /\ cur # 0 /\ cur' = 0 /\ UNCHANGED <<path, late, missed>>
          /\ search' = record(search, cur, Answer(cur).v, Answer(cur).adv)
        BY <1>f, <1>11 DEF ReplyInTime, Resolve
    <2>2. SearchOK(search') /\ search'.tested = search.tested \cup {cur}
        BY <1>9, <1>11, <2>1
    <2>3. ~missed => BoundsTrue(search')
        BY <1>5, <1>11, <1>f, <2>1
    <2> QED
        BY <1>8, <1>11, <1>f, <2>1, <2>2, <2>3
<1>12. ASSUME PathMtuInv, LateReply PROVE PathMtuInv'
    <2>1. PICK z \in late \ {cur} :
             /\ search' = record(search, z, Answer(z).v, Answer(z).adv)
             /\ late' = late \ {z}
        BY <1>12 DEF LateReply
    <2>2. cur # 0 /\ UNCHANGED <<path, cur, missed>>
        BY <1>12 DEF LateReply
    <2>3. z \in Sizes /\ z \in search.tested
        BY <1>f, <1>12
    <2>4. SearchOK(search') /\ search'.tested = search.tested \cup {z}
        BY <1>9, <1>12, <2>1, <2>3
    <2>5. ~missed => BoundsTrue(search')
        BY <1>5, <1>12, <1>f, <2>1, <2>3
    <2>6. ~missed => ~search'.advConfirmed
        <3>1. search'.advConfirmed = search.advConfirmed
            <4> DEFINE v == Answer(z).v
                       adv == Answer(z).adv
                       t == record(search, z, v, adv)
            <4>1. v \in {"ok", "tooBig", "silent", "local"} /\ adv \in Nat
                BY <1>1, <1>f, <1>12, <2>3
            <4>2. ~(z > search.lo /\ z < search.hi)
                BY <1>f, <1>12, <2>3 DEF SearchOK, SearchType, Sizes
            <4> HIDE DEF v, adv
            <4>3. t.advConfirmed = search.advConfirmed
                BY <1>2a, <1>f, <1>12, <2>3, <4>1, <4>2
            <4> QED
                BY <2>1, <4>3 DEF t, v, adv
        <3> QED
            BY <1>f, <1>12, <2>2, <3>1
    <2> QED
        BY <1>8, <1>12, <1>f, <2>1, <2>2, <2>4, <2>5, <2>6
<1>13. ASSUME PathMtuInv, WaitEnds PROVE PathMtuInv'
    <2>1. cur \in Sizes /\ cur # 0 /\ late' \subseteq late \cup {cur} /\ path' = path
        BY <1>f, <1>13 DEF WaitEnds
    <2>2. CASE UNCHANGED <<search, cur, missed>>
        BY <1>8, <1>13, <1>f, <2>1, <2>2
    <2>3. CASE /\ search' = record(search, cur, "silent", 0) /\ cur' = 0
               /\ missed' = (missed \/ Answered(cur))
        <3>1. SearchOK(search')
            BY <1>4, <1>f, <1>13, <2>1, <2>3
        <3>2. search'.tested = search.tested \cup {cur}
            <4>1. record(search, cur, "silent", 0).tested = search.tested \cup {cur}
                BY <1>2a, <1>f, <1>13, <2>1
            <4> QED
                BY <2>3, <4>1
        <3>3. ASSUME ~missed' PROVE BoundsTrue(search')
            <4>1. ~missed /\ Answer(cur).v = "silent"
                BY <1>1, <1>f, <1>13, <2>1, <2>3, <3>3 DEF Answered
            <4>2. Answer(cur).adv = 0
                BY <4>1, <1>f, <1>13, <2>1 DEF Answer, Refusal, Routers, Manners
            <4>3. search' = record(search, cur, Answer(cur).v, Answer(cur).adv)
                BY <2>3, <4>1, <4>2
            <4> QED
                BY <1>5, <1>13, <1>f, <2>1, <4>1, <4>3
        <3>4. missed' \in BOOLEAN
            BY <2>3 DEF Answered
        <3> QED
            BY <1>8, <1>13, <1>f, <2>1, <2>3, <3>1, <3>2, <3>3, <3>4
    <2> QED
        BY <1>13, <2>2, <2>3 DEF WaitEnds, Resolve
<1>14. ASSUME PathMtuInv, LoopEnds \/ Deadline PROVE PathMtuInv'
    <2>1. UNCHANGED <<path, search, missed>> /\ cur' \in {cur, 0} /\ late' = {}
        BY <1>14 DEF LoopEnds, Deadline
    <2> QED
        BY <1>8, <1>14, <1>f, <2>1
<1>15. PathMtuInv /\ [PathMtuNext]_pathMtuVars => PathMtuInv'
    <2>1. ASSUME PathMtuInv, UNCHANGED pathMtuVars PROVE PathMtuInv'
        BY <1>8, <1>f, <2>1 DEF pathMtuVars
    <2> QED
        BY <1>10, <1>11, <1>12, <1>13, <1>14, <2>1 DEF PathMtuNext
\* Where a finished search stands.
<1>16. ASSUME PathMtuInv PROVE ResultIsTrue
    <2> SUFFICES ASSUME ~missed PROVE ResultIsTrue
        BY DEF ResultIsTrue
    <2> DEFINE lo == search.lo
               hi == search.hi
               P == PathMTU
    <2>1. path.local \in Nat /\ path.first.mtu \in Nat /\ path.second.mtu \in Nat
        BY <1>1, <1>f, <1>16, 0 \in Nat
    <2>2. /\ P \in {path.local, path.first.mtu, path.second.mtu} /\ P \in Nat
          /\ P <= path.local /\ P <= path.first.mtu /\ P <= path.second.mtu
        <3> DEFINE S == {path.local, path.first.mtu, path.second.mtu}
        <3>1. \E m \in S : \A n \in S : m <= n
            BY <2>1
        <3>2. P \in S /\ \A n \in S : P <= n
            BY <3>1, Zenon DEF PathMTU, Smallest
        <3> QED
            BY <2>1, <3>2
    <2>3. /\ lo \in Sizes \cup {0} /\ hi \in Sizes \cup {MaxSize + 1} /\ lo \in Nat /\ hi \in Nat
          /\ search.advConfirmed \in BOOLEAN
          /\ search.cause \in {"none", "tooBig", "silent", "local"}
        BY <1>f, <1>16 DEF SearchType, Sizes
    <2>4. /\ lo # 0 => Answer(lo).v = "ok"
          /\ hi = MaxSize + 1 => search.cause = "none"
          /\ hi # MaxSize + 1 => search.cause = Answer(hi).v /\ search.cause # "ok"
          /\ search.advConfirmed => search.cause = "tooBig" /\ lo # 0 /\ lo \in RouterMtus
        BY <1>f, <1>16 DEF BoundsTrue
    <2>5. /\ Answer(lo).v = "ok" => lo <= P
          /\ Answer(hi).v \in {"ok", "tooBig", "silent", "local"}
          /\ Answer(hi).v # "ok" => hi > P
          /\ Answer(hi).v = "local" => hi > path.local
          /\ Answer(hi).v = "silent" =>
                \/ hi > path.first.mtu /\ path.first.manners = "silent"
                \/ hi <= path.first.mtu /\ hi > path.second.mtu /\ path.second.manners = "silent"
        BY <1>1, <1>f, <1>16, <2>1, <2>2, <2>3
    <2>6. /\ lo # 0 => MinSize <= lo /\ lo <= MaxSize /\ lo <= P
          /\ hi # MaxSize + 1 => hi > P /\ hi <= MaxSize /\ search.cause # "none"
          /\ search.advConfirmed => lo # 0 /\ lo = P /\ hi # MaxSize + 1
        <3>1. search.advConfirmed => lo >= P
            BY <2>1, <2>2, <2>4 DEF RouterMtus
        <3>2. lo # 0 => MinSize <= lo /\ lo <= MaxSize /\ lo <= P
            BY <2>3, <2>4, <2>5 DEF Sizes
        <3>3. hi # MaxSize + 1 => hi > P /\ hi <= MaxSize /\ search.cause # "none"
            BY <2>3, <2>4, <2>5 DEF Sizes
        <3> QED
            BY <2>2, <2>3, <2>4, <3>1, <3>2, <3>3
    <2> HIDE DEF lo, hi, P
    <2>7. /\ done(search) /\ lo = 0 => hi <= MinSize /\ P < MinSize /\ search.cause # "none"
          /\ done(search) /\ lo # 0 =>
                /\ lo = Carried
                /\ hi # MaxSize + 1 => lo = P /\ (search.advConfirmed \/ hi = lo + 1)
        <3>1. done(search) <=> lo >= MaxSize \/ hi <= MinSize \/ hi - lo <= 1 \/ search.advConfirmed
            BY DEF done, lo, hi
        <3>2. Carried = IF P > MaxSize THEN MaxSize ELSE P
            BY DEF Carried, P
        <3>3. ASSUME done(search), lo = 0 PROVE hi <= MinSize
            BY <2>2, <2>3, <2>6, <3>1, <3>3
        <3>4. ASSUME done(search), lo = 0 PROVE P < MinSize /\ search.cause # "none"
            BY <2>2, <2>3, <2>6, <3>3, <3>4
        <3>5. ASSUME done(search), lo # 0 PROVE lo = Carried
            <4>1. CASE hi = MaxSize + 1
                BY <2>2, <2>3, <2>6, <3>1, <3>2, <3>5, <4>1
            <4>2. CASE hi # MaxSize + 1
                BY <2>2, <2>3, <2>6, <3>1, <3>2, <3>5, <4>2
            <4> QED
                BY <4>1, <4>2
        <3>6. ASSUME done(search), lo # 0, hi # MaxSize + 1
              PROVE  lo = P /\ (search.advConfirmed \/ hi = lo + 1)
            BY <2>2, <2>3, <2>6, <3>1, <3>6
        <3> QED
            BY <3>3, <3>4, <3>5, <3>6
    \* The classification.
    <2>8. /\ Status = "ok" => done(search) /\ (lo # 0 \/ search.cause = "none")
          /\ Status = "blackHole" => done(search) /\ lo # 0 /\ search.cause = "silent"
          /\ Status = "localTooSmall" => done(search) /\ lo = 0 /\ search.cause = "local"
          /\ Status \in {"pathTooSmall", "noReply"} => done(search) /\ lo = 0
        BY <2>3, <2>4, <2>5 DEF Status, lo, hi
    <2>9. Status = "ok" => lo = Carried
        BY <2>7, <2>8
    <2>10. ASSUME Status = "blackHole" PROVE lo = P /\ Bottleneck.manners = "silent"
        <3>1. hi # MaxSize + 1 /\ ~search.advConfirmed
            BY <2>4, <2>8, <2>10
        <3>2. lo = P /\ hi = P + 1
            BY <2>7, <2>8, <2>10, <3>1
        <3>3. Answer(hi).v = "silent"
            BY <2>4, <2>8, <2>10, <3>1
        <3>4. \/ path.first.mtu = P /\ path.first.manners = "silent"
              \/ path.first.mtu # P /\ path.second.manners = "silent"
            BY <2>1, <2>2, <2>5, <3>2, <3>3
        <3> QED
            BY <3>2, <3>4 DEF Bottleneck, P
    <2>11. Status = "localTooSmall" => path.local < MinSize
        BY <2>1, <2>3, <2>4, <2>5, <2>7, <2>8
    <2>12. Status \in {"pathTooSmall", "noReply"} => P < MinSize
        BY <2>7, <2>8
    <2> QED
        BY <2>9, <2>10, <2>11, <2>12 DEF ResultIsTrue, lo, P
<1> QED
    BY <1>6, <1>15, <1>16, PTL DEF PathMtuSpec

=============================================================================
