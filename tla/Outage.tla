------------------------------- MODULE Outage -------------------------------
(***************************************************************************)
(* One probe series of the server's outage engine, with the three writers  *)
(* that share its series_state row and its outage_events rows:             *)
(*                                                                         *)
(*   - the ingest transaction (grpcapi PushResults -> outage.Apply), which *)
(*     accepts a result against a cached assignment, locks the series row, *)
(*     then touches event rows, and publishes everything at commit;        *)
(*   - the configuration transaction that disables or removes the probe    *)
(*     (store.cleanupSeries), which closes the event rows first and then   *)
(*     resets or deletes the series row;                                   *)
(*   - the orphan sweep (outage.closeOrphanEvents), a chain of one-row     *)
(*     autocommit statements between which anything may happen.            *)
(*                                                                         *)
(* PostgreSQL is READ COMMITTED: a statement sees what is committed when   *)
(* it starts, a write waits for the transaction that holds the row, and    *)
(* re-checks its predicate on the row it gets.  `series` and `events` are  *)
(* the committed rows; what a transaction has written but not committed    *)
(* lives in `ingest` and `config`.                                         *)
(***************************************************************************)
EXTENDS OutageStep

CONSTANTS MaxClock,        \* bound: server clock values are 1..MaxClock
          MaxRemovals,     \* bound: how often the probe is disabled or removed
          MaxFaults,       \* bound: server crashes and failed sweep statements
          CacheTTL,        \* assignmentCacheTTL, in clock ticks
          FutureSkew       \* maxFutureSkew, in clock ticks

ASSUME OutageAssumption ==
    /\ MaxClock \in Nat \ {0}
    /\ MaxRemovals \in Nat
    /\ MaxFaults \in Nat
    /\ CacheTTL \in Nat
    /\ FutureSkew \in Nat

VARIABLES clock,     \* the server's time.Now() and now()
          series,    \* the committed series_state row, or NoRow
          events,    \* the committed outage_events rows, id = position
          inserted,  \* times of the committed probe_results rows
          enabled,   \* the probe is enabled in the committed configuration
          cache,     \* assignmentCache entry of the agent
          ingest,    \* the ingest transaction
          config,    \* the transaction removing the probe
          sweep,     \* the orphan sweep
          faults,    \* history: crashes and failed sweep statements so far
          removals,  \* history: how often the probe was removed
          removedAt, \* history: when it was removed last
          escaped    \* history: events committed between the two statements
                     \* of a removal, which has seen the series but not them

db   == <<series, events, inserted>>
ghost == <<faults, removals, removedAt, escaped>>
vars == <<clock, db, enabled, cache, ingest, config, sweep, ghost>>

NoRow    == [ZeroState EXCEPT !.kind = "no row"]
NoResult == [time |-> 0, verdict |-> "none"]

IdleIngest == [phase |-> "idle", result |-> NoResult, state |-> ZeroState, ops |-> noOps, adopt |-> 0]
IdleConfig == [phase |-> "idle", held |-> {}, at |-> 0, deletes |-> FALSE]
IdleSweep  == [phase |-> "idle", now |-> 0, assigned |-> FALSE, orphans |-> {}, damaged |-> FALSE]

Init ==
    /\ clock = 1
    /\ series = NoRow
    /\ events = <<>>
    /\ inserted = {}
    /\ enabled = TRUE
    /\ cache = [assigned |-> FALSE, expires |-> 0]
    /\ ingest = IdleIngest
    /\ config = IdleConfig
    /\ sweep = IdleSweep
    /\ faults = 0
    /\ removals = 0
    /\ removedAt = 0
    /\ escaped = {}

Tick ==
    /\ clock < MaxClock
    /\ clock' = clock + 1
    /\ UNCHANGED <<db, enabled, cache, ingest, config, sweep, ghost>>

-----------------------------------------------------------------------------
(* Row locks.  A writer waits while another transaction holds the row. *)

openRows == {i \in DOMAIN events : events[i].closed = 0}

(* The series row from lockStates to the end of the transaction; a row the
   transaction itself seeded is not yet visible to anyone else. *)
ingestHoldsSeries == ingest.phase \in {"locked", "executed"} /\ series # NoRow

(* The event row the ingest transaction has closed. *)
ingestHoldsEvent(i) ==
    /\ ingest.phase = "executed"
    /\ ingest.ops.close # 0
    /\ ingest.state.openId = i
    /\ events[i].closed = 0

-----------------------------------------------------------------------------
(* Ingest. *)

(* agentProbeMap: the cached assignment while it lasts, else a fresh load.
   (Variant: a hit renews the entry.) *)
assignmentSliding ==
    IF cache.expires # 0 /\ clock <= cache.expires
    THEN [cache EXCEPT !.expires = clock + CacheTTL]
    ELSE [assigned |-> enabled, expires |-> clock + CacheTTL]

assignment ==
    IF cache.expires # 0 /\ clock <= cache.expires THEN cache
    ELSE [assigned |-> enabled, expires |-> clock + CacheTTL]

(* PushResults validates a result against the assignment and the clock;
   what it refuses reaches no table, and a row already inserted (a replayed
   batch) never reaches Apply. *)
Accept(r) ==
    /\ ingest.phase = "idle"
    /\ r.time <= clock + FutureSkew
    /\ r.time \notin inserted
    /\ cache' = assignment
    /\ ingest' = IF assignment.assigned
                 THEN [IdleIngest EXCEPT !.phase = "accepted", !.result = r]
                 ELSE ingest
    /\ UNCHANGED <<clock, db, enabled, config, sweep, ghost>>

(* lockStates: a missing row folds from the zero State, and OpenKind comes
   from the row the pointer names, closed or not. *)
lockedState ==
    IF series = NoRow THEN ZeroState
    ELSE [series EXCEPT !.kind = IF series.openId = 0 THEN NoKind
                                 ELSE events[series.openId].kind]

(* ensureStates, lockStates and step.  A late result leaves the row as it
   was (there is a row: the seeded one is older than any result). *)
LockState ==
    LET r == ingest.result
        s == streaks(lockedState, r)
    IN  /\ ingest.phase = "accepted"
        /\ \/ /\ isNews(lockedState, r)
              /\ ingest' = [ingest EXCEPT !.phase = "locked", !.state = s, !.ops = ops(s, r.verdict)]
              /\ UNCHANGED db
           \/ /\ ~isNews(lockedState, r)
              /\ ingest' = IdleIngest
              /\ inserted' = inserted \cup {r.time}
              /\ UNCHANGED <<series, events>>
        /\ UNCHANGED <<clock, enabled, cache, config, sweep, ghost>>

(* The event rows an ingest that opened or closed would have to wait for:
   the row it closes, and a row of the kind it opens whose close is not
   committed, which still occupies the partial unique index. *)
eventsAwaited ==
    LET o == ingest.ops
    IN  {i \in config.held : \/ o.close # 0 /\ i = ingest.state.openId
                             \/ o.open # NoKind /\ i \in openIds(events, o.open)}

(* Apply executes the ops.  openEvent finds an open row of the kind or
   inserts one: adopt = 0 says the row is new. *)
ExecuteOps ==
    LET o    == ingest.ops
        same == IF o.open = NoKind THEN {} ELSE openIds(events, o.open)
    IN  /\ ingest.phase = "locked"
        /\ eventsAwaited = {}
        /\ ingest' = [ingest EXCEPT !.phase = "executed",
                                    !.adopt = IF same = {} THEN 0 ELSE CHOOSE i \in same : TRUE]
        /\ UNCHANGED <<clock, db, enabled, cache, config, sweep, ghost>>

(* The pointer the transaction stores. *)
storedPointer ==
    IF ingest.ops.open # NoKind /\ ingest.adopt = 0 THEN Len(events) + 1
    ELSE IF ingest.ops.open # NoKind THEN ingest.adopt
    ELSE IF ingest.ops.close # 0 THEN 0
    ELSE ingest.state.openId

(* bulkUpsertStates and COMMIT: rows, pointer and counters appear at once. *)
CommitIngest ==
    LET o      == ingest.ops
        s      == ingest.state
        closed == afterClose(events, s, o)
        isNew  == o.open # NoKind /\ ingest.adopt = 0
    IN  /\ ingest.phase = "executed"
        /\ events' = IF isNew THEN Append(closed, [kind |-> o.open, opened |-> o.at, closed |-> 0])
                     ELSE closed
        /\ series' = [s EXCEPT !.openId = storedPointer, !.kind = NoKind]
        /\ inserted' = inserted \cup {ingest.result.time}
        /\ escaped' = IF isNew /\ config.phase = "closed" THEN escaped \cup {Len(events) + 1} ELSE escaped
        /\ ingest' = IdleIngest
        /\ UNCHANGED <<clock, enabled, cache, config, sweep, faults, removals, removedAt>>

(* A failed statement, a deadlock victim or a cancelled push: ROLLBACK. *)
AbortIngest ==
    /\ ingest.phase # "idle"
    /\ ingest' = IdleIngest
    /\ UNCHANGED <<clock, db, enabled, cache, config, sweep, ghost>>

-----------------------------------------------------------------------------
(* Configuration. *)

resetRow(s) ==
    [s EXCEPT !.openId = 0, !.fails = 0, !.oks = 0, !.degraded = 0, !.clean = 0,
              !.firstFail = 0, !.firstOK = 0, !.firstDegraded = 0, !.firstClean = 0]

(* cleanupSeries, first statement: the open rows it can see are closed,
   dated now(), and held until the transaction ends. *)
CleanupEvents(deletes) ==
    /\ config.phase = "idle" /\ enabled
    /\ removals < MaxRemovals
    /\ \A i \in openRows : ~ingestHoldsEvent(i)
    /\ config' = [phase |-> "closed", held |-> openRows, at |-> clock, deletes |-> deletes]
    /\ UNCHANGED <<clock, db, enabled, cache, ingest, sweep, ghost>>

(* cleanupSeries, the series row: deleted with a probe that is gone for
   good, reset (last_time kept) for a disable.  Then COMMIT. *)
CommitCleanup ==
    /\ config.phase = "closed"
    /\ ~ingestHoldsSeries
    /\ events' = [i \in DOMAIN events |->
                     IF i \in config.held THEN [events[i] EXCEPT !.closed = config.at]
                     ELSE events[i]]
    /\ series' = IF config.deletes \/ series = NoRow THEN NoRow ELSE resetRow(series)
    /\ enabled' = FALSE
    /\ config' = IdleConfig
    /\ removals' = removals + 1
    /\ removedAt' = clock
    /\ UNCHANGED <<clock, inserted, cache, ingest, sweep, faults, escaped>>

AbortCleanup ==
    /\ config.phase = "closed"
    /\ config' = IdleConfig
    /\ UNCHANGED <<clock, db, enabled, cache, ingest, sweep, ghost>>

(* UpdateProbeConfig enabling the probe again, or a mesh member re-added:
   the probe ID is derived, so it is the same series. *)
Enable ==
    /\ config.phase = "idle" /\ ~enabled
    /\ enabled' = TRUE
    /\ UNCHANGED <<clock, db, cache, ingest, config, sweep, ghost>>

-----------------------------------------------------------------------------
(* The orphan sweep: closeOrphanEvents. *)

isDangling == series # NoRow /\ series.openId # 0 /\ events[series.openId].closed # 0

SweepStart ==
    /\ sweep.phase = "idle"
    /\ sweep' = [IdleSweep EXCEPT !.phase = "assigned", !.now = clock, !.assigned = enabled]
    /\ UNCHANGED <<clock, db, enabled, cache, ingest, config, ghost>>

(* The open events of probes outside the set.  (Variant: only the ones a
   series points to.) *)
orphanRowsPointed == IF sweep.assigned THEN {} ELSE openRows \cap {series.openId}

orphanRows == IF sweep.assigned THEN {} ELSE openRows

FindOrphans ==
    /\ sweep.phase = "assigned"
    /\ sweep' = [sweep EXCEPT !.phase = "close", !.orphans = orphanRows]
    /\ UNCHANGED <<clock, db, enabled, cache, ingest, config, ghost>>

CloseOrphan ==
    /\ sweep.phase = "close"
    /\ \E i \in sweep.orphans :
          /\ ~ingestHoldsEvent(i) /\ i \notin config.held
          /\ events' = closeEvent(events, i, sweep.now)
          /\ sweep' = [sweep EXCEPT !.orphans = @ \ {i}]
    /\ UNCHANGED <<clock, series, inserted, enabled, cache, ingest, config, ghost>>

(* Not filtered by assignment. *)
damagedRow == isDangling

FindDangling ==
    /\ sweep.phase = "close" /\ sweep.orphans = {}
    /\ sweep' = [sweep EXCEPT !.phase = "repair", !.damaged = damagedRow]
    /\ UNCHANGED <<clock, db, enabled, cache, ingest, config, ghost>>

(* The reset re-checks its predicate on the row it locked.
   (Variant: it trusts the list.) *)
repairedBlind == IF series = NoRow THEN series ELSE resetRow(series)

repaired == IF isDangling THEN resetRow(series) ELSE series

ResetDangling ==
    /\ sweep.phase = "repair"
    /\ \/ /\ ~sweep.damaged
          /\ UNCHANGED series
       \/ /\ sweep.damaged
          /\ ~ingestHoldsSeries
          /\ series' = repaired
    /\ sweep' = IdleSweep
    /\ UNCHANGED <<clock, events, inserted, enabled, cache, ingest, config, ghost>>

(* A statement of the sweep fails: the rest waits for the next tick. *)
SweepFails ==
    /\ sweep.phase # "idle"
    /\ faults < MaxFaults
    /\ faults' = faults + 1
    /\ sweep' = IdleSweep
    /\ UNCHANGED <<clock, db, enabled, cache, ingest, config, removals, removedAt, escaped>>

-----------------------------------------------------------------------------

(* The server process dies: open transactions roll back, the cache is lost. *)
Crash ==
    /\ faults < MaxFaults
    /\ faults' = faults + 1
    /\ ingest' = IdleIngest
    /\ config' = IdleConfig
    /\ sweep' = IdleSweep
    /\ cache' = [assigned |-> FALSE, expires |-> 0]
    /\ UNCHANGED <<clock, db, enabled, removals, removedAt, escaped>>

IngestNext == (\E r \in Result : Accept(r)) \/ LockState \/ ExecuteOps \/ CommitIngest \/ AbortIngest
ConfigNext == (\E d \in BOOLEAN : CleanupEvents(d)) \/ CommitCleanup \/ AbortCleanup \/ Enable
SweepNext  == SweepStart \/ FindOrphans \/ CloseOrphan \/ FindDangling \/ ResetDangling \/ SweepFails

Next == Tick \/ IngestNext \/ ConfigNext \/ SweepNext \/ Crash

Spec == Init /\ [][Next]_vars

(***************************************************************************)
(* Fairness.  A transaction ends: it goes on or is rolled back.  The sweep *)
(* runs on a ticker for as long as the server does; a write of it that     *)
(* meets a locked row gets the row in the end (PostgreSQL queues waiters,  *)
(* so the fairness is strong).  Crashes and failing sweep statements       *)
(* happen at most MaxFaults times: anywhere, but not for ever.             *)
(***************************************************************************)
Fairness ==
    /\ WF_vars(LockState \/ ExecuteOps \/ CommitIngest \/ AbortIngest)
    /\ WF_vars(CommitCleanup \/ AbortCleanup)
    /\ WF_vars(SweepStart \/ FindOrphans \/ FindDangling)
    /\ SF_vars(CloseOrphan)
    /\ SF_vars(ResetDangling)

FairSpec == Spec /\ Fairness

-----------------------------------------------------------------------------

(* The rows keep their shape; pointers and the sweep's lists name rows. *)
TypeOK ==
    /\ clock \in 1..MaxClock
    /\ series \in State \cup {NoRow}
    /\ series.openId \in 0..Len(events)
    /\ events \in Seq(Event)
    /\ inserted \subseteq Times
    /\ enabled \in BOOLEAN
    /\ cache \in [assigned : BOOLEAN, expires : 0..(MaxClock + CacheTTL)]
    /\ ingest.phase \in {"idle", "accepted", "locked", "executed"}
    /\ ingest.adopt \in 0..Len(events)
    /\ ingest.phase \in {"locked", "executed"} => ingest.state \in State
    /\ config.held \subseteq openRows
    /\ sweep.orphans \subseteq DOMAIN events

(***************************************************************************)
(* No open event is stranded: it is the one its series points to, so three *)
(* countering results close it, or it slipped between the two statements   *)
(* of a removal.  (Apply's upsert of pointer and row in one transaction,   *)
(* cleanupSeries, and the sweep's re-check under the row lock before it    *)
(* clears a pointer that was dangling when it looked.)                     *)
(***************************************************************************)
EveryOpenEventIsOwned == openRows \subseteq {series.openId} \cup escaped

(***************************************************************************)
(* "assignment changes converge within 30 s" (assignmentCache): a result   *)
(* for a removed probe is accepted no later than CacheTTL after the        *)
(* removal.  (lookup's expiry and put's stamp.)                            *)
(***************************************************************************)
AcceptanceConverges ==
    [][ingest.phase = "idle" /\ ingest'.phase = "accepted" /\ ~enabled
          => clock <= removedAt + CacheTTL]_vars

(***************************************************************************)
(* Once a probe stays removed its events do not stay open: stragglers the  *)
(* stale assignment let in are closed by the sweep.                        *)
(***************************************************************************)
OrphansClosed == <>[](~enabled) => <>[](openRows = {})

(***************************************************************************)
(* A pointer to a closed event, which would suppress every later open of   *)
(* a still failing probe, does not last: the sweep repairs it, whether or  *)
(* not the probe is assigned.                                              *)
(***************************************************************************)
DanglingRepaired == isDangling ~> ~isDangling

(***************************************************************************)
(* The orphan sweep repairs what it may find: once a probe stays removed,  *)
(* neither an open event nor a pointer to a closed one remains.            *)
(***************************************************************************)
SweepRepairs == OrphansClosed /\ DanglingRepaired

=============================================================================
