# TLA+ models of polarbeam

Polarbeam measures networks: agents run probes and push the results to a
server, which keeps them in PostgreSQL, opens and closes incidents, detects path
changes and distributes the probe configuration. This directory holds TLA+
models of the parts of it whose correctness depends on interleaving, failure and
order, the TLC configurations that check them on small instances, and TLAPS
proofs of the main results for every value of the constants.

    tlc -workers 2 -config MCControl.cfg MCControl       # one run
    tlapm DeliveryProofs.tla                             # one proof module

`PROJECT.json` lists the components, the runs, the mutant of each property (a
plausible bug that the property catches), the source lines each definition
models, the hazards the properties are for, the findings and the theorems.

## 1. Inventory

### Agent

| part | state | operations | hard about it |
|---|---|---|---|
| spool (`internal/agent/spool`) | segment files, read position, byte and record estimates, three drop counters in two sidecar files | `Append`, bounds enforcement, `Next` and its ack closure, `AckDropped`, `Open` | a crash between any two disk writes, failing deletes and writes, appends racing a push, estimates that drift |
| pusher (`uplink/pusher.go`) | batch in flight, drop report in flight | wait for signal, drain, push, back off, ack | lost answers, retries, counters that move during a push |
| config stream client (`uplink/uplink.go`), config cache (`confcache`), `cmd/polarbeam-agent` | advertised hash, running schedule, cache file | connect with the hash, receive, apply, store or clear the cache, start from the cache | a crash between apply and store, failing store and clear |
| scheduler (`scheduler`) | one worker per probe, per-series prober state | `Apply`, worker loop, `retire`, `Stop` | cancellation against a running probe, a replacement against the retirement of its predecessor, a stop against a start |
| renewal and enrollment (`uplink/renew.go`, `enroll`, `retiredir`) | key, CSR, CA and certificate files | enroll, replay, renew, commit, retire | a crash between two file writes or in the middle of one, a lost answer, a long outage |
| watchdog (`uplink/watchdog.go`) | last time the channel was ready, last success | tick | a restart that cannot help, a dead network nobody notices |
| probes (`probes`) | sockets, ICMP session, jitter state | run a probe | late and lost replies (the path MTU search); the rest is network I/O |

### Server

| part | state | operations | hard about it |
|---|---|---|---|
| ingest (`grpcapi/server.go` `PushResults`, `ingest.go`, `store/results.go`) | assignment cache; `probe_results`, `agents.dropped_*` | authenticate, validate, and in one transaction: drop accounting, deduplicated insert, outage fold, path and MTU folds | replays, concurrent pushes, stale assignments |
| outage engine (`outage/outage.go`) | `series_state`, `outage_events` | `step`, `Apply` | escalation and de-escalation, late results, locks shared with removal and sweep |
| sweeps (`outage/sweep.go`) | none of its own | close orphaned events, repair dangling pointers, agent_offline events | one-row statements between which anything happens |
| path and MTU change detection (`pathwatch`, `mtuwatch`) | `traceroute_current`, `path_events`; `path_mtu_*` | seed, lock, fold, insert events, guarded upsert | first sightings, replays, deletion of the probe |
| probe configuration (`store/probeconfig.go`) | meshes, targets, probe configs | add, update, remove, `cleanupSeries`, version bump | lock order, cleanup against pushes in flight |
| config stream (`grpcapi/server.go` `streamConfig`, `store/agentconfig.go`, `meshexpand`) | last version, last snapshot, ticks since rebuild | build, send, tick, forced rebuild, certificate re-check | torn builds, lost bumps, breaks after a send |
| authentication (`grpcapi/auth.go`) | verdict cache | look up, fetch, store, record a proof of revocation | a verdict that is stale when it is stored or used |
| enrollment store (`store/enrollment.go`) | join tokens, agents, certificates | `EnrollAgent` and its replay, `RenewCertificate`, two revocations, drop totals | row locks against snapshots of later statements |
| meshes, templates, caches (`store/probeconfig.go`, `store.go`, handlers) | mesh, members, templates, cache of running probes | create, add, remove, enable, delete, fill and invalidate | counts taken before a lock, names taken again, a fill that publishes old data |
| sites, networks, targets, tokens (`store/sites.go`, `networks.go`, `tokens.go`) | inventory rows and what refers to them | create, refer, delete | deletion against a reference being inserted |
| probe validation (`probeadmin`, `httpapi/probeconfig.go`) | a probe row | post, put, delete | two lists of rules in two programs |
| accounts (`store/users.go`, `store/oidc.go`, `httpapi/auth.go`, `users.go`, `oidc.go`, `oidcauth`) | users, sessions, provider settings, cached provider | log in, change, reset, disable, delete, sign on, reconfigure | the last admin, a session stored after its credential or its policy is gone |
| syslog forwarding (`syslogfwd`) | ring, writer, connection per sink | log, write, reconnect, apply settings, close | a bounded queue, a collector that does not read, a swap of sinks under load |
| dashboards, CA, migrations, web | see `PROJECT.json` | | SQL text, cryptography, formatting |

The agent calls the server (`PushResults`, `StreamConfig`, `Enroll`,
`RenewCert`); the server's parts meet in PostgreSQL under READ COMMITTED, where
row locks are the only synchronization, and in two in-process caches.

What makes the parts correct: no result is lost without being counted, and
counted once; replays change nothing; incidents are opened and closed at the
right results and none stays open unowned; path events are exactly the observed
changes; an agent's identity survives any interrupted write; a revoked certificate stops working within a known time and is never
followed by a new one; a configuration edit always reaches the agent; a session
ends with the credential and the policy it was granted on; an administrator's
edits strand nothing and wait for each other in no ring.

## 2. Modules

| module | models | composed from |
|---|---|---|
| `DropLedger` | drop counters, sidecar files, drop report, server's fold of it | |
| `StoreForward` | the spool's records, the pusher, the deduplicating insert | extends `DropLedger` |
| `OutageStep` | the outage engine's `step` and the effect of its ops, as operators | |
| `Hysteresis` | `Apply` on one series, any sequence of results | extends `OutageStep` |
| `Outage` | ingest, removal and orphan sweep on one series | extends `OutageStep` |
| `ChangeWatch` | path change detection, concurrent pushes, deletion of the probe | |
| `ConfigStream` | writers, config stream, agent with its cache | |
| `CertIssuance` | enrollment, renewal and revocation transactions | |
| `CertCache` | the verdict cache, RPCs, the stream's certificate sweep | |
| `AgentIdentity` | enrollment, the PKI files, renewal | |
| `Scheduler` | workers, retirement, stop | |
| `Watchdog` | the reachability watchdog and the probes that vouch for the network | |
| `PathMtu` | one run of the path MTU search | |
| `AgentOffline` | the silence sweep of several server processes | |
| `MeshAdmin` | meshes, members, templates, the cache of running probes | |
| `Places` | sites, networks, targets, tokens and references to them | |
| `ProbeValidation` | the server's rules for a probe and the agent's | |
| `Accounts` | users, sessions, OIDC | |
| `SyslogForwarder` | the forwarder and its sinks | implements `LossyFifo` |
| `LossyFifo` | what a sink promises: order, at most once, loss counted | |
| `MCControl`, `MCAgent`, `MCStore`, `MCDelivery` | several modules in one run | extend them |
| `MCAccounts` | values for `Accounts` | extends it |
| `DeliveryProofs` | theorems of the loss ledger and the result path | extends `StoreForward` |
| `OutageProofs` | theorems of the outage engine | extends `Hysteresis`, `Outage` |
| `ConfigStreamProofs`, `AccountsProofs`, `SyslogForwarderProofs` | theorems of the module of that name | extend it |
| `CertProofs` | theorems of the certificates | extends `CertIssuance`, `CertCache` |
| `AgentProofs` | theorems of the agent | extends `AgentIdentity`, `Scheduler`, `Watchdog`, `PathMtu` |
| `StoreProofs` | theorems of the mesh administration, places, lock orders and validation | extends `MCStore` |

**DropLedger.** `total`, `unacked`, `acked` are the spool's three counters;
`fKnown`/`fUnacked` is the file `dropped`, `fTotal`/`fAcked` the file
`dropped-state`. A drop updates memory and then writes the two files one after
the other (`persist` says which is next), each by an atomic rename; `Crash` may
come before either, and `Open` reconciles what it finds (`diskTotal`,
`diskAcked`). `Send`, `Commit`, `PushFails`, `AckDropped` are the life of a
report; `droppedDelta` is the server's rule. `Wipe` and `DamageUnacked` are a directory
that was emptied and a file `dropped` that no longer parses. `WriteFaults` names
the operations whose writes may fail.

**StoreForward** adds the records: segments, the active one, the read position,
the two estimates (`pending`, `totalBytes`), bounds by size and by age, and the
pusher's loop. The spool directory is `segs`, a function from the number of a
segment to its records, because `listSegments` knows a file by the number in its
name and nothing else. A turn with `Spool.mu` is an action, so appends and drops come
between `Next`, `Dropped` and the ack closure as they do in the code. A record
is a number; a torn write is a record that was not appended.

**OutageStep / Hysteresis / Outage.** A result is a time and a verdict (ok,
degraded, failing). `Hysteresis` folds any sequence of them, late ones too.
`Outage` splits the ingest transaction at its statements (`Accept`, `LockState`,
`ExecuteOps`, `CommitIngest`), lets a removal run its two statements and the
sweep its five, and makes a statement wait for rows another transaction holds.

**ChangeWatch.** Two pushes of one agent, each a transaction of the statements
of `PushResults` (`InsertResults`, `LockState` for the row lock of
`outage.Apply`, `EnsureCurrent`, `LockAndFold`, `CommitFolded`), against
`cleanupSeries` with `deleteRows`. The agent's results are fixed in the initial
state, batches are any sets of them: replays, overlaps and late arrivals are all
there. The assignment cache has no clock here: an entry may be used until it
expires, and may expire at any time; `Outage` has the clock.

**ConfigStream.** A configuration is the pair of contents that two statements of
the batch read, so a torn build is one whose parts differ. Hashes are contents.
`hidden` marks an edit that no bump announced (a lost bump, manual SQL).

**CertIssuance.** The token row and the agent row are locks; a check is a later
statement than the lock that protects it, and what it checked may only be used
while the lock is held.

**CertCache.** One certificate; each RPC reads the clock, looks up, fetches if it
must, stores and is handled, in steps; the stream re-checks on ticks and records
a proof of revocation. `Latency` bounds an RPC, `SweepEvery` is the tick.

**AgentIdentity.** A key, a CSR and a certificate are known by the key they
carry. Each file write is a step; `TearFile` is one interrupted after
`os.WriteFile` truncated the file, `EnrollDies` a crash between two. The renewer
counts ticks (twelve hours in the run): the renewal point, its jitter and the
retry cadence are the code's formulas.

**Scheduler, Watchdog.** `Apply` and the locked half of `Stop` are one step each,
a worker as many as it has points where another goroutine can come between. The
watchdog's `interval` is `FastestInterval`; a probe run succeeds if the network
works throughout it.

**PathMtu.** The path is external and fixed during a run; replies may come in
time, late (for a size the search has left) or never. `record`, `next` and `done`
are the search.

**AgentOffline.** Times are ages. A sweep takes `now`, queries and writes in
three steps, with the sweep of another process in between.

**MeshAdmin, Places.** A request is a process whose program counter says which
row locks it holds; who waits for whom follows from that. Names can be deleted
and taken again by other rows. The CLI is a caller whose process has a cache of
its own.

**ProbeValidation.** The validators and the probers' parsers are operators; the
conversions of the Go library are tabulated for the texts an instance uses, with
the difference between `Atoi` and `Sscanf` kept.

**Accounts.** A transaction with one wait is one step; one with several is a step
per wait. A password hash is a number that is never used again.

**SyslogForwarder.** Sinks are numbered as `Apply` makes them; `held` of
`LossyFifo` is the ring and the record in flight, `lost` the drops and the
records reported as undelivered at a stop.

**Merged runs.** The modules an MC module extends share no state. A behaviour is
one of theirs, chosen by `part` in the initial state; the others stay where they
start. Every module has one type invariant at most; they are stated to say what
the variables hold, and those of `DropLedger`, `CertIssuance` and `ConfigStream`
are part of a proved inductive invariant.

## 3. Runs

| run | result | what it shows | bounds |
|---|---|---|---|
| `control` | pass | revocation is final, a token creates one agent, nothing is minted on a revoked credential; a revoked certificate is admitted and its stream up no longer than the cache, a request and a tick; a build never masks a write, the server knows what the agent runs, the cache file is not stale, the agent converges; the event rows of a series are the ones a reference definition reads off its history | 2 issuers, 2 revokers, 3 serials, 2 CSRs; 2 RPCs, clock to the end of the longest window; 2 contents, 2 writes, 2 failures, forced rebuild every 2 ticks; the code's threshold of 3 and 9 results: an opening, an escalation or close, and a further streak |
| `store_forward` | pass | a missing record was dropped and counted, or was being dropped when the process died; only delivered records are skipped; oldest first; size bound; nothing acknowledged that the server does not have | 4 records, segments of 2, at most 3 on disk, batches of 2: rotation, a batch across two segments, a partly read segment, an overflow; failing deletes and counter writes; 1 crash |
| `delivery` | pass | within the bounds every record arrives; a silent agent ends with exactly one open event, a live one with none | 3 records, 1 crash; 2 sweepers, a sweep as long as the touch interval, a clock one tick ahead |
| `outage` | pass | no open event is stranded by removal, sweep, adoption, rollback or crash; a removed probe is accepted no longer than the cache lasts | 4 result times, clock to 3, 1 removal, 1 fault |
| `outage_live` | pass | events of removed probes are closed, dangling pointers repaired | 3 result times, clock to 2 |
| `store` | pass | the cache of running probes is fresh or about to be invalidated; no ring of waiting transactions but the one named below; deletions of places fail with an answer; an accepted probe runs; path rows and events are the fold of the runs that were news and the guarded upsert never comes up short; no mesh is left with a template and too few members, series that end are cleaned up, no scoped caller writes elsewhere | 2 admins, 3 sites, 2 networks, 2 templates, 3 requests; 2 rows per name, 5 calls; every pair of parameters of every type with legal, boundary and illegal texts; 2 pushes, 3 runs, 2 readings, 1 deletion. Symmetry of the two callers and the two readings |
| `syslog` | pass | the ring fits, a sink is a `LossyFifo`, a stop ends whatever the collector does | a ring of 2, 2 connections, 1 change of settings, 2 records besides the forwarder's own |
| `accounts` | pass | no session outlives its credential or its policy, the client secret is sent to no other provider, the last enabled admin stays, requests end | 2 concurrent of 3 requests, 3 local users (2 admins), 2 federated |
| `agent` | pass | an enrolled identity loads and is renewed in time, an interrupted enrollment can be retried; an ended worker leaves no state and no result after the stop, and the stop returns; the watchdog restarts only where it can help and a dead network is noticed; drop counters are exact and counted once; the MTU found is true and the search is no scan | a 30-day certificate in ticks of 12 hours and outages of 7.5 days, the longest it survives; 3 worker goroutines of one probe; a watchdog limit of 5 ticks, intervals up to 4; 4 drops; sizes 3 to 18 over two routers |
| `store_forward_stuck` | violation | after a drop of read records `pending` is too small, and a failed push then leaves records in the spool until the next append | 4 records, no crash |
| `change_watch_survivor` | violation | a push in flight, or accepted on a cached assignment, leaves a current row of a deleted probe | as in `store` |
| `enroll_torn_key` | violation | an enrollment interrupted while it rewrites `agent.key` cannot be retried | as in `agent`, every file write may be torn |

### Fairness

- `StoreForward!FairSpec`: the supervisor restarts the agent, its goroutines run,
  and of infinitely many pushes infinitely many are answered (strong fairness of
  the server's commit and of the answer; an unreachable server fails pushes but
  not for ever). Nothing makes probes produce results.
- `Outage!FairSpec`: a transaction goes on or is rolled back (statement and
  context timeouts), the sweep's ticker runs. A sweep statement that meets a
  locked row gets it in the end because PostgreSQL queues waiters: strong fairness
  for the two that write. Crashes and failing statements are bounded in number.
- `ConfigStream!ConfigFairness`: the agent restarts and reconnects, a stream ticks
  and finishes its builds. Nothing is assumed of the writers: the bump after a
  commit may never come.
- `AgentOffline!OfflineFairness`: time passes, an agent that is up touches and
  delivers, tickers fire, and not every sweep's write fails (strong fairness).
- `Scheduler!SchedulerFair`: goroutines run and a cancelled run returns.
- `SyslogForwarder!ForwarderFairness`: the writer goroutine and the stop timer run.
  Nothing is assumed of the collector.
- `Accounts!AccountsFairSpec`: a process whose row lock is free goes on.

In `MCDelivery` each fairness condition is guarded by its part. In `MCControl` and
`MCAgent` the condition is that of the one part that has a liveness property, and
that property speaks of no other part; safety is checked of every behaviour.

### Findings

Three runs end in a violation on purpose (texts in `PROJECT.json`):
`store_forward_stuck` (`spool.go:536`), `change_watch_survivor`
(`probeconfig.go:943`) and `enroll_torn_key` (`enroll.go:268`).

Met while modelling and visible in the properties, without a run of their own:

- An ingest that commits between `cleanupSeries`' first and later statements opens
  an event the cleanup has not seen, and the pointer to it is cleared: the
  history variable `escaped` in `EveryOpenEventIsOwned`. The sweep closes it
  unless the probe is enabled again first.
- A crash between the removal of an overflowing segment and the write of the
  counters loses its records uncounted (`uncounted` in `NoSilentLoss`).
- A failed counter write after an ack is only logged; followed by a drop and a
  crash between its two writes it makes `Open` derive too small a total, which is
  why `TotalIsExact`, `CountedOnce` and `ResetOnlyAfterWipe` allow only the write
  of `Open`'s repair to fail (`WriteFaults \subseteq {"open"}`).
- `certValidCached` stores the verdict it fetched whatever the cache holds by
  then, so a "valid" fetched before a revocation can replace the proof of it.
  `RevocationWindow` holds all the same: the entry's life counts from the moment
  the RPC read the clock.
- `lockCurrents` can miss a row `ensureCurrent` saw, when a first push commits
  between the two deletes of a removal and a second push is between its two
  statements. The code tolerates the miss and `ChangesRecorded` holds.
- `cleanupSeries` locks event rows before series rows, ingest the other way round.
  PostgreSQL aborts one of them; `AbortIngest` and `AbortCleanup` are that.
- `UpdateProbeConfig` and `DeleteProbeConfig` lock the template and then its
  series, `DeleteMeshGroup` the series and then, by cascade, the templates.
  `MeshLockOrder` states that this is the only ring of waiting admins;
  `DeadlockDetected` breaks it.
- `retire` (`scheduler.go:175`) releases the lock before it calls `Retire`: a
  replacement started in between can lose state it has folded already.
  `NoMidstreamRetire` in `Scheduler` states the comment's promise; it does not
  hold and no run asks for it. `WorkersEndClean` does hold.
- A mesh template's port written "+80" passes the validator (`strconv.Atoi`) and
  reaches the agents as port 0 (`fmt.Sscanf`); a train whose product overflows a
  duration passes as a short one. `AcceptedProbeRuns` excepts both by name
  (`SignedPort`, `HugeTrain`).
- `Forwarder.Apply` publishes the new sink before it has drained the old one and
  emitted `audit.forward.start`, so that record need not be the collector's first
  (docs/audit-logging.md:121); and a `Handle` that read the old sink can queue a
  record behind its stop record.
- Demotion of the last admin by an OIDC login is not under the last-admin guard:
  `LastAdminKept` speaks of the operations that are.
- The watchdog of an agent whose fastest probe has not had time to run sees no
  evidence either way: `unseen` in `NoFutileRestart`.
- In `PathMtu` an echo that comes after its size was given up is not counted
  (`missed`): the result is a size that works, not always the largest.

## 4. Proofs

For every value of the constants, under the assumptions the modules declare:

| module | theorems | assumption | inductive invariant |
|---|---|---|---|
| `DeliveryProofs` | `LedgerTypeCorrect`, `AckedIsCountedAlways`, `TotalIsExactAlways`, `CountedOnceAlways`, `ResetOnlyAfterWipeAlways`; `PathKeepsLedger`, `NoSilentLossAlways`, `WithinMaxBytesAlways` | `MaxDroppedAssumption`, `WriteFaultsAssumption`; `StoreForwardAssumption` | `AckedInv`; `ExactInv`; `SpoolInv` with `CountInv` and `BytesCovered` |
| `OutageProofs` | `EventRowsConsistentAlways`; `EveryOpenEventIsOwnedAlways`, `AcceptanceConvergesAlways` | `HysteresisAssumption`; `OutageAssumption` | `FoldInv`; `OwnedInv`, `CacheInv` |
| `ConfigStreamProofs` | `ConfigTypeCorrect`, `VersionCoversBuildAlways`, `ServerKnowsAgentAlways`, `CacheNotStaleAlways` | `ConfigAssumption` | `ConfigInv` |
| `CertProofs` | `RevocationIsFinalAlways`, `TokenEnrollsOnceAlways`, `MintedOnStandingCredentialAlways`; `RevocationTakesEffectAlways` | `CertAssumption`; `CacheAssumption` | `CertInv`; `CacheInv` |
| `AgentProofs` | `WorkersEndCleanAlways`; `EnrollmentRetryableAlways`, `IdentityLastsAlways`; `RestartsWhenUsefulAlways`; `ResultIsTrueAlways` | `SchedulerAssumption`; `IdentityAssumption`; `WatchdogAssumption`; `PathMtuAssumption` | `SchedulerInv`; `FilesInv` with `RetryInv`, `RenewerInv` and `ClockInv`; `WatchdogInv`; `PathMtuInv` |
| `AccountsProofs` | `AccessIsCurrentAlways`, `SecretStaysWithProviderAlways`, `LastAdminKeptAlways` | `AccountsAssumption` | `ShapeInv`, `PolicyInv`, `CredentialInv` |
| `SyslogForwarderProofs` | `RingFitsAlways`, `SinkIsLossyFifoAlways` | `QueueAssumption`, `ForwarderBounds` | `ForwarderInv` |
| `StoreProofs` | `CacheFreshAlways`, `ScopedWriteAlways`, `NothingStrandedAlways`; `PlacesSafe`; `LockOrderAlways`; `AcceptedProbeRunsAlways` | `MeshAssumption`; `PlacesAssumption`; `WatchAssumption`; `ValidationAssumption` | `CacheInv`; `MeshInv`; `PlacesInv`; `WatchInv`; `RowAccepted` |

The bounds (`MaxDropped`, `MaxWrites`, `MaxClock`...) are arbitrary naturals in
the proofs, so they restrict nothing. The assumptions say that bounds are
naturals and that sizes which must not be zero are not; three say a little more.
`PlacesAssumption` keeps join tokens apart from sites and networks and
`WatchAssumption` the removal (`"cfg"`) apart from the pushes: rows of different
tables and different transactions, which the model has in one set.
`ValidationAssumption` says that the durations and counts of a request are
integers, as its Go type does.

- **Ledger.** `AckedIsCounted` says nothing of the report in flight or of the
  files a crash would fall back to; `AckedInv` adds that a committed report's
  acknowledgement is covered by the server's count and that both files are. The
  exactness theorems need more: `FilesInv` says, for each point between two
  writes, what `Open` would derive from the files (`total - counting` before the
  first write of a drop, `total` after), and `ServerInv` relates
  `dropped_last_total` to what the agent had durable. `ExactInv` is the
  conjunction of the three. They are proved for a ledger in which the writes of
  drops and acks succeed and the repair of `Open` may fail.
- **Result path.** `PathKeepsLedger` shows that a step of the spool, the pusher or
  the ingest is, for the counters, a step of the ledger; the ledger's theorems
  carry over. `SpoolInv` is about the records: the files hold them in the order of
  their appends (`FilesOrdered`), the numbers in memory fit the files
  (`NumbersFit`), what lies before the read position was inserted
  (`PositionFits`), and what a batch says of a file is still true of it when its
  ack arrives (`BatchFits`), although appends and drops came between. `CountInv`
  then bounds the lost records by what is counted. For the size, the estimate
  covers the files between operations (`BytesCovered`), so the scan that is made
  only when the estimate says so is made in time.
- **Hysteresis.** The fold keeps the pointer on the last event and only that one
  open; for the dates, that a streak's first result is not older than the open
  event, so that a close never precedes its open.
- **Outage.** An ingest works on the row it locked: `IngestFits` says that the row's
  pointer is still the one it computed with and that it opens an event only when
  there is none or it closes the old one. `OwnedInv` adds that a removal between
  its two statements has closed every open row it could see. For the acceptance,
  `CacheInv` bounds every entry's expiry by the clock plus its lifetime, and says
  that an entry which would outlive the bound was made after the removal and says
  "unassigned".
- **Issuance.** `LocksConflict` (a revoker's lock excludes sharing issuers) and
  `ChecksStand` (what an issuer has checked is still true while it holds its
  lock) are what an issuer's late insert rests on; `TokenInv` ties the token to
  the number of agents; `RevokedInv` says what a revocation leaves.
- **Config stream.** `BuildInv` carries the promise of `VersionCoversBuild` into
  the middle of a build: the part read so far is the configuration if no newer
  version has appeared. `AgentInv` does the same for what is on the wire.
- **Certificate cache.** For every RPC, entry and stream: when a "valid" verdict
  was fetched, and hence when it expires; `CacheInv` is their conjunction with
  the clock's order.
- **Scheduler.** A registered goroutine belongs to the probe it is registered for
  and was not cancelled; one that retires was. State of a series therefore has a
  goroutine behind it until `retire` drops it, whichever of several successors of
  one probe ends last.
- **Enrollment.** `EnrollInv` says for each step of `enroll` what is on disk by
  then, so that a crash after the server's answer leaves the staged key and CSR
  the token is bound to, or a complete identity. The theorem has the hypothesis that the write of
  `agent.key` is not torn (`"writeKey" \notin TornFiles`). It is needed: without
  it the property is false, which is what the run `enroll_torn_key` shows.
- **Renewal.** The renewer calls at `CallBy` at the latest and retries within
  `RetryWait`, so an outage of `MaxOutage` leaves a call that succeeds before
  `Validity` if the three fit (`RoomToRenew`). `ClockInv` carries that sum through
  the outage: how old the certificate can be, given how much of the outage is
  past and how long the renewer still waits. `RoomToRenew` also fixes
  `RenewTimeout` to 0, an RPC shorter than a tick, as in the run.
- **Path MTU.** Both bounds of the search are what the path answers at them
  (`BoundsTrue`), a tested size is never inside them and a late reply belongs to a
  settled size (`SearchOK`, `RunOK`), so folding it in changes nothing. The
  hypothesis that no size fell silent by accident is `missed`, a part of the
  property. The attempt found a defect of an earlier form of the model: the cases
  of `Answer` overlapped, so that its value was not determined; they are exclusive
  now.
- **Watchdog.** `TicksLeft` is how long the fastest probe needs until it has
  reported. With a network that works, `lastReady` or `lastOK` plus `TicksLeft`
  is at most twice the interval, so one of the two periods that must both be over
  is still below the budget: the evidence comes in time. The other half bounds the time a network is dead by what the
  transport takes to notice (`cut <= Detect`) and the budget that then runs.
- **Accounts.** `ShapeInv` says what a request at each of its steps has read.
  `PolicyInv`: a sign-in whose snapshot of the settings is still current works on
  the role the stored policy gives, because the session insert shares the row a
  settings write locks. `CredentialInv`: hashes only grow, so a revoked one is
  never current again, and the only session on one is that of a login whose
  insert waited for the user's row (`late`, excepted by the property).
- **Syslog.** The record in flight followed by the ring is an increasing sequence
  between the last acknowledged number and the last one given out (`SinkOK`); the
  two slots above `QueueSize` are the requeued record and the one that reports a
  recovery or a stop. The refinement is proved step by step: `DataStep` shows for
  each action that it is an `Enter`, `Leave`, `Lose` or `Retire` of `LossyFifo` or
  leaves its variables alone.
- **Mesh administration.** `RequestOK` says for each point of a request which of
  its checks still stand: the scope, the count of members, the template's
  existence, the list of series to clean. `LocksExclude` is why: whoever could
  undo one needs the mesh row or the template row the request holds. A request
  on a template holds no mesh row; it relies on a mesh deletion ending all
  templates, and on ids of templates not being used again, so that a template
  that exists is still on the network the scope was compared with.
- **Places.** `CallReads` is what a request has read and relies on: a deletion that
  has counted finds nothing referring to its place, an enrollment finds its token
  unused and its places there. `CallLocks` says which rows it holds at that point
  and `CallsExclude` that nobody else has them: to add a reference one needs the
  row the deletion holds.
- **Lock order.** The mesh part follows from `MeshInv`, the part of the places from
  the same invariant as above (tokens before the place). A push that waits while
  it holds rows is one that folds, and only one folds at a time (`WatchInv`); the
  removal takes the tables in the same order. A ring of pushes and the removal, of
  any length, has no second link.
- **Validation.** `RowAccepted`: the stored row is the settings of a request that
  `validateProbeRequest` accepted, since an update replaces the whole row. What is
  left is arithmetic about the two sides' rules, one step per type of probe. The
  durations, counts and limits are arbitrary; the texts of parameters are the
  tabulated ones.

Only model-checked:

- liveness (`EventuallyDelivered`, `OfflineFollowsSilence`, `SweepRepairs`,
  `ConfigConverges`, `StopEnds`, `StopReturns`, `RequestsEnd`): fairness is out of
  the prover's reach;
- `Hysteresis!EventsMatchHistory`, whose reference definition is recursive, and
  `ChangeWatch!ChangesRecorded`, which compares the event rows with
  the changes along the sorted runs: both need induction over data;
- `PathMtu!NeverAScan`, the second half of `SearchIsSound`: the number of sizes
  tested is bounded by a logarithm, an induction over the halvings.

## 5. What is left out

- Ledger: agents before v0.4 that report no total, damage to `dropped-state`,
  saturation of 64-bit counters, loss of writes by a host power failure, a push
  that overtakes another (the pusher is sequential).
- Store and forward: wiped or damaged directories (they are in the ledger), the
  bytes of a record.
- Outage: one series and one ingest at a time, one result per transaction (the
  fold of several is in `Hysteresis`), several series' lock order, display
  columns.
- Change watch: one series; the event rows a removal locks first; hops. `mtuwatch`
  is the same algorithm and has no module of its own.
- Config stream: one agent; `TouchAgent`'s display columns; an agent whose own
  identity cannot be read and that therefore has no cache.
- Issuance and cache: one token and one agent, one certificate; expiry is a flag
  in `CertIssuance` and left out of `CertCache`.
- Agent identity: file modes and directories, the cryptography, a host power
  failure that loses renamed files. Scheduler: the order in which timers fire is
  free, so nothing is said of cadence.
- Path MTU: a path that changes during a run (a late and contradicting "too big"
  can then invert the bracket), sequence numbers, the two address families.
- Agent offline: `opened_at` and `closed_at` (with a fast clock and no probes an
  event can close before it opened; nothing compares them).
- Accounts: user names and their collision suffix, the advisory lock of the audit
  log, rate limits, login events, listings. A session insert that waits for its
  user's row while the password is rotated survives the rotation (`late`).
- Administration: display columns of sites and networks, listings. Validation: a
  direct target's port and URL against the type of the probe.
- Syslog: formatting, TLS, the audit catalog.
- Components without a module are listed in `PROJECT.json` with the reason.

## 6. Plan

1. `StoreForward` as an implementation of an at-least-once channel with loss
   accounting.
2. `mtuwatch` over the reading of `ChangeWatch`, thresholds and the settings rows.

### Not modelled

Dashboard queries (`dashboard.go`, `events.go`, `inventory.go`, `matrix.go`), the
web dashboard and listings are read-only SQL and formatting; the certificate
authority is cryptography; migrations and the seed run once, alone, before
anything else; generated protobuf code and vendored modules are not the
program's own.
