----------------------------- MODULE ChangeWatch -----------------------------
(***************************************************************************)
(* Path change detection for one traceroute series of one agent:           *)
(* pathwatch.Apply, which every PushResults transaction runs after the     *)
(* deduplicating insert and after outage.Apply, against the removal of the *)
(* probe (store.cleanupSeries with deleteRows).  mtuwatch.Apply is the     *)
(* same algorithm over (largest_ok_bytes, black_hole) instead of a path    *)
(* hash; a reading below stands for either.                                *)
(*                                                                         *)
(* PostgreSQL is READ COMMITTED.  `inserted`, `hasState`, `current` and    *)
(* `events` are the committed rows of probe_results, series_state,         *)
(* traceroute_current and path_events; what a transaction has written but  *)
(* not committed is in `tx` and `cfg`.  A statement that meets a row       *)
(* another transaction holds waits: its action is not enabled.             *)
(***************************************************************************)
EXTENDS Integers, Sequences, FiniteSets, SequencesExt

CONSTANTS Txs,          \* concurrent PushResults transactions of the agent
          Readings,     \* path hashes
          MaxTime,      \* bound: the agent's results have times 1..MaxTime
          MaxRemovals   \* bound: how often the probe is deleted

ASSUME WatchAssumption == MaxTime \in Nat /\ MaxRemovals \in Nat /\ "cfg" \notin Txs

Times == 1..MaxTime

(* What the agent measured at each time.  Incomplete: the destination was  *)
(* not reached, the hash is malformed or the stamp is not after year 1.    *)
Incomplete == "incomplete"

(* time 0 is Go's zero time, the seed's updated_at; Blank its empty hash. *)
Blank == "blank"
NoRow == [time |-> -1, reading |-> Blank]
SeedRow == [time |-> 0, reading |-> Blank]

VARIABLES log,        \* log[t]: the result the agent has for time t
          inserted,   \* times of the committed probe_results rows
          hasState,   \* the series has a committed series_state row
          current,    \* its committed traceroute_current row, or NoRow
          events,     \* its committed path_events rows, in commit order
          enabled,    \* the probe exists in the committed configuration
          assignCache,      \* the agent's assignmentCache entry for the probe
          tx,         \* the PushResults transactions
          cfg,        \* the transaction that deletes the probe
          removals,   \* history: deletions so far
          applied,    \* history: committed complete results, each newer
                      \* than the row it met, since the row was last absent
          rowBorn        \* history: Len(events) when it was last absent

db    == <<inserted, hasState, current, events>>
ghost == <<removals, applied, rowBorn>>
watchVars  == <<log, db, enabled, assignCache, tx, cfg, ghost>>

IdleTx  == [phase |-> "idle", batch |-> {}, new |-> {}, seeded |-> FALSE,
            row |-> NoRow, pending |-> <<>>]
IdleCfg == [phase |-> "idle", holds |-> {}]

WatchInit ==
    /\ log \in [Times -> Readings \cup {Incomplete}]
    /\ inserted = {} /\ hasState = FALSE /\ current = NoRow /\ events = <<>>
    /\ enabled = TRUE
    /\ assignCache = "absent"
    /\ tx = [x \in Txs |-> IdleTx]
    /\ cfg = IdleCfg
    /\ removals = 0 /\ applied = {} /\ rowBorn = 0

-----------------------------------------------------------------------------
(* Row locks. *)

(* outage.Apply seeds or locks the series_state row of every inserted      *)
(* result before pathwatch.Apply starts, and holds it to the end.          *)
holdsState(x) == tx[x].phase \in {"locked", "seeded", "folded", "done"} /\ tx[x].new # {}

(* The traceroute_current row: seeded by x, or locked by its FOR UPDATE. *)
holdsCurrent(x) ==
    \/ tx[x].phase = "seeded" /\ tx[x].seeded
    \/ tx[x].phase = "folded" /\ (tx[x].seeded \/ current # NoRow)

(* Who an insert or a lock of the series_state row by x waits for. *)
stateHolders(x) ==
    {y \in Txs \ {x} : holdsState(y)} \cup {c \in {"cfg"} : "state" \in cfg.holds}

currentHolders(x) ==
    {y \in Txs \ {x} : holdsCurrent(y)} \cup {c \in {"cfg"} : "current" \in cfg.holds}

(* ON CONFLICT DO NOTHING on the dedupe index waits for the transaction    *)
(* that is inserting the same result.                                      *)
insertHolders(x) == {y \in Txs \ {x} : tx[x].batch \cap tx[y].new # {}}

-----------------------------------------------------------------------------
(* The fold. *)

decide(cur, t) ==
    IF log[t] = Incomplete THEN "skip"
    ELSE IF cur = NoRow THEN "insert"
    ELSE IF ~(t > cur.time) THEN "skip"
    ELSE IF cur.reading = log[t] THEN "refresh"
    ELSE "change"

(* One run: the pending event carries the identity the row had before it. *)
foldRun(acc, t) ==
    LET act == decide(acc.cur, t)
    IN  IF act = "skip" THEN acc
        ELSE [cur     |-> [time |-> t, reading |-> log[t]],
              pending |-> IF act = "change"
                          THEN Append(acc.pending, [time |-> t, old |-> acc.cur.reading, new |-> log[t]])
                          ELSE acc.pending]

inTimeOrder(S) == SetToSortSeq(S, <)

fold(cur, S) == FoldLeft(foldRun, [cur |-> cur, pending |-> <<>>], inTimeOrder(S))

(* Variant: replayed results reach Apply too. *)
runsReplayed(x) == {t \in tx[x].batch : log[t] # Incomplete}

(* The runs Apply groups: inserted by this transaction, and usable. *)
runs(x) == {t \in tx[x].new : log[t] # Incomplete}

-----------------------------------------------------------------------------
(* PushResults. *)

(* agentProbeMap: a cached assignment is trusted until it expires. *)
assignment == IF assignCache = "absent" THEN (IF enabled THEN "assigned" ELSE "unassigned") ELSE assignCache

Accept(x, B) ==
    /\ tx[x].phase = "idle"
    /\ assignCache' = assignment
    /\ tx' = IF assignment = "assigned"
             THEN [tx EXCEPT ![x] = [IdleTx EXCEPT !.phase = "accepted", !.batch = B]]
             ELSE tx
    /\ UNCHANGED <<log, db, enabled, cfg, ghost>>

ExpireAssignment ==
    /\ assignCache # "absent"
    /\ assignCache' = "absent"
    /\ UNCHANGED <<log, db, enabled, tx, cfg, ghost>>

(* InsertResultsTx: rows already there are skipped and not reported back. *)
InsertResults(x) ==
    /\ tx[x].phase = "accepted"
    /\ insertHolders(x) = {}
    /\ LET new == tx[x].batch \ inserted
       IN  tx' = [tx EXCEPT ![x].phase = IF new = {} THEN "done" ELSE "inserted",
                            ![x].new = new]
    /\ UNCHANGED <<log, db, enabled, assignCache, cfg, ghost>>

(* outage.Apply, as far as its row lock goes.  With no usable run          *)
(* pathwatch.Apply returns at once.                                        *)
LockState(x) ==
    /\ tx[x].phase = "inserted"
    /\ stateHolders(x) = {}
    /\ tx' = [tx EXCEPT ![x].phase = IF runs(x) = {} THEN "done" ELSE "locked"]
    /\ UNCHANGED <<log, db, enabled, assignCache, cfg, ghost>>

(* ensureCurrent: seed the row if there is none, and know whether this     *)
(* call did.  A row that is there is not locked yet.                       *)
EnsureCurrent(x) ==
    /\ tx[x].phase = "locked"
    /\ currentHolders(x) = {}
    /\ tx' = [tx EXCEPT ![x].phase = "seeded", ![x].seeded = (current = NoRow)]
    /\ UNCHANGED <<log, db, enabled, assignCache, cfg, ghost>>

(* A row this call seeded is no prior path. *)
priorPath(x) == IF tx[x].seeded THEN NoRow ELSE current

(* lockCurrents, then the fold of the batch.  lockCurrents tolerates a map *)
(* miss, and there is one when the probe is deleted since ensureCurrent.   *)
LockAndFold(x) ==
    /\ tx[x].phase = "seeded"
    /\ currentHolders(x) = {}
    /\ LET f == fold(priorPath(x), runs(x))
       IN  tx' = [tx EXCEPT ![x].phase = "folded", ![x].row = f.cur, ![x].pending = f.pending]
    /\ UNCHANGED <<log, db, enabled, assignCache, cfg, ghost>>

(* bulkUpsertCurrent's updated_at guard, on the row the transaction sees.  *)
(* No final run means no statement.                                        *)
upsertApplies(x) ==
    \/ tx[x].row = priorPath(x)
    \/ tx[x].seeded /\ SeedRow.time < tx[x].row.time
    \/ current = NoRow
    \/ current.time < tx[x].row.time

(* bulkInsertEvents, bulkUpsertCurrent, COMMIT. *)
CommitFolded(x) ==
    /\ tx[x].phase = "folded" /\ upsertApplies(x)
    /\ inserted' = inserted \cup tx[x].new
    /\ hasState' = TRUE
    /\ current' = tx[x].row
    /\ events' = events \o tx[x].pending
    /\ applied' = applied \cup {t \in tx[x].new : log[t] # Incomplete /\ t > current.time}
    /\ tx' = [tx EXCEPT ![x] = IdleTx]
    /\ UNCHANGED <<log, enabled, assignCache, cfg, removals, rowBorn>>

(* COMMIT of a push without a usable new run. *)
CommitPlain(x) ==
    /\ tx[x].phase = "done"
    /\ inserted' = inserted \cup tx[x].new
    /\ hasState' = (hasState \/ tx[x].new # {})
    /\ tx' = [tx EXCEPT ![x] = IdleTx]
    /\ UNCHANGED <<log, current, events, enabled, assignCache, cfg, ghost>>

(* A failed statement, a short upsert, a cancelled call or a crash. *)
Rollback(x) ==
    /\ tx[x].phase # "idle"
    /\ tx' = [tx EXCEPT ![x] = IdleTx]
    /\ UNCHANGED <<log, db, enabled, assignCache, cfg, ghost>>

-----------------------------------------------------------------------------
(* Deleting the probe: cleanupSeries. *)

(* Variant: the current row is deleted before the series row. *)
cleanupOrderSwapped == <<"current", "state">>

cleanupOrder == <<"state", "current">>

table == IF cfg.phase = "idle" THEN cleanupOrder[1] ELSE cleanupOrder[2]

committedRow(t) == IF t = "state" THEN hasState ELSE current # NoRow

(* A DELETE sees, and waits for, committed rows only. *)
deleteAwaits(t) ==
    {x \in Txs : committedRow(t) /\ IF t = "state" THEN holdsState(x) ELSE holdsCurrent(x)}

DeleteRows ==
    /\ cfg.phase \in {"idle", "first"}
    /\ cfg.phase = "idle" => enabled /\ removals < MaxRemovals
    /\ deleteAwaits(table) = {}
    /\ cfg' = [phase |-> IF cfg.phase = "idle" THEN "first" ELSE "second",
               holds |-> cfg.holds \cup {t \in {table} : committedRow(t)}]
    /\ UNCHANGED <<log, db, enabled, assignCache, tx, ghost>>

CommitDelete ==
    /\ cfg.phase = "second"
    /\ hasState' = (hasState /\ "state" \notin cfg.holds)
    /\ current' = IF "current" \in cfg.holds THEN NoRow ELSE current
    /\ enabled' = FALSE
    /\ cfg' = IdleCfg
    /\ removals' = removals + 1
    /\ IF "current" \in cfg.holds THEN applied' = {} /\ rowBorn' = Len(events)
       ELSE UNCHANGED <<applied, rowBorn>>
    /\ UNCHANGED <<log, inserted, events, assignCache, tx>>

AbortDelete ==
    /\ cfg.phase # "idle"
    /\ cfg' = IdleCfg
    /\ UNCHANGED <<log, db, enabled, assignCache, tx, ghost>>

(* A probe ID is derived from the mesh and its members: adding the member  *)
(* again brings the same series back.                                      *)
Recreate ==
    /\ ~enabled /\ cfg.phase = "idle"
    /\ enabled' = TRUE
    /\ UNCHANGED <<log, db, assignCache, tx, cfg, ghost>>

-----------------------------------------------------------------------------

PushNext(x) ==
    \/ \E B \in SUBSET Times \ {{}} : Accept(x, B)
    \/ InsertResults(x)
    \/ LockState(x)
    \/ EnsureCurrent(x)
    \/ LockAndFold(x)
    \/ CommitFolded(x)
    \/ CommitPlain(x)
    \/ Rollback(x)

WatchNext ==
    \/ \E x \in Txs : PushNext(x)
    \/ ExpireAssignment
    \/ DeleteRows
    \/ CommitDelete
    \/ AbortDelete
    \/ Recreate

WatchSpec == WatchInit /\ [][WatchNext]_watchVars

(* Transactions and readings are interchangeable. *)
WatchSymmetry == Permutations(Txs) \cup Permutations(Readings)

-----------------------------------------------------------------------------

PathRow   == [time : Times, reading : Readings]
Event == [time : Times, old : Readings, new : Readings]

(* Committed rows hold real runs, never the seed's placeholder. *)
WatchTypeOK ==
    /\ inserted \subseteq Times
    /\ hasState \in BOOLEAN
    /\ current \in PathRow \cup {NoRow}
    /\ events \in Seq(Event)
    /\ enabled \in BOOLEAN
    /\ assignCache \in {"absent", "assigned", "unassigned"}
    /\ \A x \in Txs : /\ tx[x].phase \in {"idle", "accepted", "inserted", "locked", "seeded", "folded", "done"}
                      /\ tx[x].new \subseteq tx[x].batch
                      /\ tx[x].row \in PathRow \cup {NoRow}
    /\ cfg.phase \in {"idle", "first", "second"}
    /\ cfg.holds \subseteq {"state", "current"}

(* The reference: the changes seen along the runs of S, oldest first. *)
changesOf(S) ==
    LET s == SetToSortSeq(S, <)
        at == SetToSortSeq({i \in 2..Len(s) : log[s[i]] # log[s[i - 1]]}, <)
    IN  [k \in 1..Len(at) |-> [time |-> s[at[k]], old |-> log[s[at[k] - 1]], new |-> log[s[at[k]]]]]

(***************************************************************************)
(* "committed rows and events match the per-run fold exactly" (Apply):     *)
(* whatever batches overlap, are replayed, arrive out of order, roll back  *)
(* or race a first sighting, the row is the newest run and the events are  *)
(* the changes along the runs that were news when they committed.          *)
(***************************************************************************)
EventsMatchRuns ==
    /\ SubSeq(events, rowBorn + 1, Len(events)) = changesOf(applied)
    /\ current = IF applied = {} THEN NoRow
                 ELSE LET t == CHOOSE u \in applied : \A v \in applied : v <= u
                      IN  [time |-> t, reading |-> log[t]]

(***************************************************************************)
(* "it never skips - a shortfall in RowsAffected is a logic bug"           *)
(* (bulkUpsertCurrent): the guard holds from the fold to the upsert.       *)
(***************************************************************************)
UpsertNeverShort == \A x \in Txs : tx[x].phase = "folded" => upsertApplies(x)

(* Who each transaction waits for. *)
awaits(a) ==
    IF a = "cfg" THEN IF cfg.phase = "first" THEN deleteAwaits(table) ELSE {}
    ELSE CASE tx[a].phase = "accepted" -> insertHolders(a)
           [] tx[a].phase = "inserted" -> stateHolders(a)
           [] tx[a].phase \in {"locked", "seeded"} -> currentHolders(a)
           [] OTHER -> {}

(***************************************************************************)
(* Pushes and a deletion never wait for each other in a ring on these      *)
(* tables: cleanupSeries deletes in the order in which ingest locks.       *)
(***************************************************************************)
NoWaitCycle ==
    \A S \in SUBSET (Txs \cup {"cfg"}) : S # {} => \E a \in S : awaits(a) \cap S = {}

(***************************************************************************)
(* cleanupSeries drops the row because "a surviving row would be served    *)
(* forever": once a deleted probe's assignment has left the cache and      *)
(* nothing is in flight, the series has no current row.                    *)
(***************************************************************************)
NoSurvivingRow ==
    ~enabled /\ assignCache # "assigned" /\ cfg = IdleCfg /\ (\A x \in Txs : tx[x] = IdleTx)
        => current = NoRow

(* What Apply writes is what the runs say: the current row and the events, *)
(* and an upsert that takes every row it was given.                        *)
ChangesRecorded == EventsMatchRuns /\ UpsertNeverShort

=============================================================================
