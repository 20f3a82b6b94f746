---------------------------- MODULE StoreForward ----------------------------
(***************************************************************************)
(* The result path of one agent: probe results are appended to segment     *)
(* files, the pusher reads them oldest-first and pushes batches, the       *)
(* server inserts a batch in one transaction and deduplicates it, and only *)
(* then are the records consumed.  Code: internal/agent/spool/spool.go,    *)
(* internal/agent/uplink/pusher.go, PushResults of                         *)
(* internal/server/grpcapi/server.go, InsertResultsTx of                   *)
(* internal/server/store/results.go.  The drop counters are module         *)
(* DropLedger, whose actions the ones below conjoin.                       *)
(*                                                                         *)
(* A result is its number in append order and has size one; the read       *)
(* offset of a segment counts records.  The clock is not modelled: a       *)
(* segment may be found too old, and the bounds check due, at any append.  *)
(***************************************************************************)
EXTENDS DropLedger, Sequences, FiniteSetsExt

CONSTANTS
    MaxRecords,     \* bound: results produced
    SegMax,         \* segMaxBytes, in records
    MaxBytes,       \* spool.max_bytes, in records
    BatchSize,      \* batchSize
    Aging,          \* TRUE: segments may outlive spool.max_age
    RemoveFaults,   \* TRUE: removing an acked segment may fail
    MaxCrashes      \* bound: crashes of the agent process

ASSUME StoreForwardAssumption ==
    /\ MaxRecords \in Nat /\ SegMax \in Nat \ {0} /\ MaxBytes \in Nat
    /\ BatchSize \in Nat \ {0} /\ MaxCrashes \in Nat
    /\ Aging \in BOOLEAN /\ RemoveFaults \in BOOLEAN

VARIABLES
    segs,                  \* disk: the records of each segment file, by its number
    activeSeq, activeOpen, \* Spool.activeSeq; Spool.active # nil
    nextSeq,               \* Spool.nextSeq
    readSeq, readOffset,   \* Spool.readSeq, readOffset (memory only)
    pending,               \* Spool.pending
    totalBytes,            \* Spool.totalBytes, an overestimate
    op,                    \* operation that holds Spool.mu across steps, or "none"
    notify,                \* Spool.notify holds a token
    pusher,                \* where Pusher.Run is
    batch,                 \* what Next returned: records and consumed segments
    rows,                  \* server: probe_results of this agent
    appended, spooled,     \* results produced so far; those written to a segment
    dropped, uncounted,    \* history: dropped records; drops a crash left uncounted
    crashes

spoolVars == <<activeSeq, activeOpen, nextSeq, readSeq, readOffset, pending, totalBytes>>
pathVars  == <<segs, spoolVars, op, notify, pusher, batch, rows, appended,
               spooled, dropped, uncounted, crashes>>
vars      == <<ledgerVars, pathVars>>

Records == 1..MaxRecords
NoBatch == [recs |-> {}, consumed |-> {}]

recsOf(q) == {segs[q][k] : k \in 1..Len(segs[q])}
OnDisk    == UNION {recsOf(q) : q \in DOMAIN segs}
Size      == Cardinality(OnDisk)

(* A file appears or is written, files disappear.                          *)
with(q, recs) == [p \in DOMAIN segs \cup {q} |-> IF p = q THEN recs ELSE segs[p]]
without(qs)   == [p \in DOMAIN segs \ qs |-> segs[p]]

Consumed == [seq : Nat, end : Nat, complete : BOOLEAN]

TypeOK ==
    /\ LedgerTypeOK
    /\ DOMAIN segs \subseteq Nat /\ \A q \in DOMAIN segs : segs[q] \in Seq(Records)
    /\ activeSeq \in Nat /\ activeOpen \in BOOLEAN /\ nextSeq \in Nat
    /\ readSeq \in Nat /\ readOffset \in Nat
    /\ pending \in Nat /\ totalBytes \in Nat
    /\ op \in {"none", "append", "open"}
    /\ notify \in BOOLEAN
    /\ pusher \in {"top", "collect", "drain", "read", "pushing", "backoff"}
    /\ batch.recs \subseteq Records /\ batch.consumed \subseteq Consumed
    /\ rows \subseteq Records /\ spooled \subseteq Records /\ dropped \subseteq Records
    /\ appended \in 0..MaxRecords /\ uncounted \in Nat /\ crashes \in Nat

Init ==
    /\ LedgerInit
    /\ segs = <<>>
    /\ activeSeq = 0 /\ activeOpen = FALSE /\ nextSeq = 1
    /\ readSeq = 0 /\ readOffset = 0 /\ pending = 0 /\ totalBytes = 0
    /\ op = "none" /\ notify = FALSE /\ pusher = "top" /\ batch = NoBatch
    /\ rows = {} /\ appended = 0 /\ spooled = {} /\ dropped = {} /\ uncounted = 0 /\ crashes = 0

(* Spool.mu is free: no operation is between two of its steps.  After a    *)
(* fatal error the failed operation has returned.                          *)
muFree  == persist = "idle" /\ (op = "none" \/ mode = "failing")
running == alive /\ op # "open"
-----------------------------------------------------------------------------
(* Append and bounds enforcement                                           *)

(* Append up to the bounds check: rotate a full or old active segment,     *)
(* open one if there is none, write, count, and decide whether to scan.    *)
AppendRecord(aged, due) ==
    /\ mode = "up" /\ muFree /\ op = "none" /\ appended < MaxRecords
    /\ LET r     == appended + 1
           fits  == activeOpen /\ ~aged /\ Len(segs[activeSeq]) < SegMax
       IN  IF fits
           THEN /\ segs' = with(activeSeq, Append(segs[activeSeq], r))
                /\ UNCHANGED <<activeSeq, activeOpen, nextSeq>>
           ELSE /\ segs' = with(nextSeq, <<r>>)
                /\ activeSeq' = nextSeq /\ activeOpen' = TRUE
                /\ nextSeq' = nextSeq + 1
    /\ appended' = appended + 1 /\ spooled' = spooled \cup {appended + 1}
    /\ pending' = pending + 1
    /\ totalBytes' = totalBytes + 1
    /\ IF totalBytes' > MaxBytes \/ due
       THEN op' = "append" /\ UNCHANGED notify
       ELSE notify' = TRUE /\ UNCHANGED op
    /\ UNCHANGED <<ledgerVars, readSeq, readOffset, pusher, batch, rows, dropped,
                   uncounted, crashes>>

(* dropUnspoolable: a result that cannot be marshalled or is too large.    *)
AppendUnspoolable ==
    /\ muFree /\ op = "none" /\ appended < MaxRecords
    /\ Drop(1)
    /\ appended' = appended + 1
    /\ dropped' = dropped \cup {appended + 1}
    /\ UNCHANGED <<segs, spoolVars, op, notify, pusher, batch, rows, spooled, uncounted, crashes>>

(* max0(s.pending - n)                                                     *)
pendingLess(n) == max(pending - n, 0)

(* countRecords reads the whole segment, consumed records included.        *)
countRecords(q) == Len(segs[q])

(* One turn of enforceBoundsLocked that drops the oldest segment, over     *)
(* size or over age (the segment just written is not); the counters are    *)
(* persisted after the file is gone.                                       *)
DropOldest ==
    /\ op # "none" /\ DOMAIN segs # {}
    /\ Size > MaxBytes \/ (Aging /\ (op = "open" \/ Cardinality(DOMAIN segs) > 1))
    /\ LET oldest == Min(DOMAIN segs) IN
       /\ Drop(countRecords(oldest))
       /\ segs' = without({oldest})
       /\ activeOpen' = (activeOpen /\ oldest # activeSeq)
       /\ readSeq' = IF readSeq = oldest THEN 0 ELSE readSeq
       /\ readOffset' = IF readSeq = oldest THEN 0 ELSE readOffset
       /\ pending' = pendingLess(countRecords(oldest))
       /\ dropped' = dropped \cup recsOf(oldest)
    /\ UNCHANGED <<activeSeq, nextSeq, totalBytes, op, notify, pusher, batch, rows,
                   appended, spooled, uncounted, crashes>>

(* Variant: the scan forgets what it found.                                 *)
resyncZero == 0

(* What a scan that dropped nothing sets the byte estimate to.             *)
resync == Size

(* The turn that finds the spool within bounds; Append then wakes the      *)
(* pusher, Open does so if anything is left.                               *)
WithinBounds ==
    /\ mode = "up" /\ persist = "idle" /\ op # "none" /\ Size <= MaxBytes
    /\ totalBytes' = resync
    /\ notify' = (notify \/ op = "append" \/ pending > 0)
    /\ op' = "none"
    /\ UNCHANGED <<ledgerVars, segs, activeSeq, activeOpen, nextSeq, readSeq, readOffset,
                   pending, pusher, batch, rows, appended, spooled, dropped, uncounted, crashes>>
-----------------------------------------------------------------------------
(* Persisting the counters, death, restart                                 *)

uncountedNow == IF persist = "unacked" /\ cause = "drop" THEN counting ELSE 0

PersistCounters ==
    /\ PersistUnacked \/ PersistState
    /\ UNCHANGED pathVars

PersistError ==
    /\ PersistFails
    /\ uncounted' = uncounted + uncountedNow
    /\ UNCHANGED <<segs, spoolVars, op, notify, pusher, batch, rows, appended, spooled, dropped, crashes>>

(* Everything in memory is gone: the read position too.                    *)
CrashAgent ==
    /\ Crash
    /\ crashes < MaxCrashes /\ crashes' = crashes + 1
    /\ uncounted' = uncounted + uncountedNow
    /\ activeSeq' = 0 /\ activeOpen' = FALSE /\ nextSeq' = 1
    /\ readSeq' = 0 /\ readOffset' = 0 /\ pending' = 0 /\ totalBytes' = 0
    /\ op' = "none" /\ notify' = FALSE /\ pusher' = "top" /\ batch' = NoBatch
    /\ UNCHANGED <<segs, rows, appended, spooled, dropped>>

(* Open: scan the segments, reconcile the counters, then enforce bounds.   *)
OpenSpool ==
    /\ Open
    /\ pending' = Size
    /\ nextSeq' = IF DOMAIN segs = {} THEN 1 ELSE Max(DOMAIN segs) + 1
    /\ op' = "open"
    /\ UNCHANGED <<segs, activeSeq, activeOpen, readSeq, readOffset, totalBytes, notify,
                   pusher, batch, rows, appended, spooled, dropped, uncounted, crashes>>
-----------------------------------------------------------------------------
(* Pusher.Run                                                              *)

(* Variant: only a signal wakes the pusher.                                 *)
hasPendingNever == FALSE

hasPending == pending > 0

(* The top of the loop: sleep until something is spooled.                  *)
Wake ==
    /\ running /\ muFree /\ pusher = "top"
    /\ \/ hasPending /\ UNCHANGED notify
       \/ ~hasPending /\ notify /\ notify' = FALSE
    /\ pusher' = "collect"
    /\ UNCHANGED <<ledgerVars, segs, spoolVars, op, batch, rows, appended, spooled, dropped,
                   uncounted, crashes>>

(* The batching window takes the token of an append and waits on ...       *)
CollectSignal ==
    /\ running /\ muFree /\ pusher = "collect" /\ notify /\ pending < BatchSize
    /\ notify' = FALSE
    /\ UNCHANGED <<ledgerVars, segs, spoolVars, op, pusher, batch, rows, appended,
                   spooled, dropped, uncounted, crashes>>

(* ... until a batch is full or the timer fires.                           *)
CollectDone ==
    /\ running /\ muFree /\ pusher = "collect"
    /\ pusher' = "drain"
    /\ UNCHANGED <<ledgerVars, segs, spoolVars, op, notify, batch, rows, appended,
                   spooled, dropped, uncounted, crashes>>

start(q)  == IF q = readSeq THEN readOffset ELSE 0
unread(q) == {segs[q][k] : k \in (start(q) + 1)..Len(segs[q])}

(* Next fills the batch from the oldest segment on.                        *)
before(q) == Cardinality(UNION {unread(p) : p \in {p \in DOMAIN segs : p < q}})
taken(q)  == min(Cardinality(unread(q)), BatchSize - before(q))

visited == {q \in DOMAIN segs : before(q) < BatchSize}

(* Variant: a segment one record short of its end counts as read.          *)
consumedSegEarly(q) ==
    [seq |-> q, end |-> start(q) + taken(q),
     complete |-> start(q) + taken(q) + 1 >= Len(segs[q]) /\ q # activeSeq]

(* What Next says of segment q: how far it was read, and whether an ack    *)
(* deletes it (sealed and read to its end).                                *)
consumedSeg(q) ==
    [seq |-> q, end |-> start(q) + taken(q),
     complete |-> start(q) + taken(q) >= Len(segs[q]) /\ q # activeSeq]

nextBatch ==
    [recs |-> UNION {{segs[q][start(q) + k] : k \in 1..taken(q)} : q \in visited},
     consumed |-> {consumedSeg(q) : q \in {p \in visited : taken(p) > 0 \/ p # activeSeq}}]

(* Spool.Next: an empty answer ends the drain and resets pending.          *)
Next_ ==
    /\ running /\ muFree /\ pusher = "drain"
    /\ IF nextBatch.recs = {}
       THEN pending' = 0 /\ pusher' = "top" /\ UNCHANGED batch
       ELSE batch' = nextBatch /\ pusher' = "read" /\ UNCHANGED pending
    /\ UNCHANGED <<ledgerVars, segs, activeSeq, activeOpen, nextSeq, readSeq, readOffset,
                   totalBytes, op, notify, rows, appended, spooled, dropped, uncounted, crashes>>

(* Dropped() is a second turn with the mutex: an append and its drops may  *)
(* come in between.                                                        *)
SendBatch ==
    /\ running /\ muFree /\ pusher = "read"
    /\ Send
    /\ pusher' = "pushing"
    /\ UNCHANGED <<segs, spoolVars, op, notify, batch, rows, appended, spooled, dropped,
                   uncounted, crashes>>

(* PushResults on the server: drop accounting and the deduplicated insert  *)
(* commit together.                                                        *)
IngestBatch ==
    /\ Commit
    /\ rows' = rows \cup batch.recs
    /\ UNCHANGED <<segs, spoolVars, op, notify, pusher, batch, appended, spooled, dropped,
                   uncounted, crashes>>

PushError ==
    /\ running
    /\ PushFails
    /\ pusher' = "backoff" /\ batch' = NoBatch
    /\ UNCHANGED <<segs, spoolVars, op, notify, rows, appended, spooled, dropped, uncounted, crashes>>

BackoffOver ==
    /\ running /\ pusher = "backoff"
    /\ pusher' = "top"
    /\ UNCHANGED <<ledgerVars, segs, spoolVars, op, notify, batch, rows, appended,
                   spooled, dropped, uncounted, crashes>>

AckDroppedBatch ==
    /\ running /\ muFree
    /\ AckDropped
    /\ UNCHANGED pathVars

(* The ack closure: delete the fully read segments (one that bounds        *)
(* enforcement removed meanwhile is tolerated), advance the read position  *)
(* in the segment read in part, and take the batch off pending.            *)
AckBatch(failed) ==
    /\ running /\ muFree
    /\ Consume
    /\ LET removed == {c.seq : c \in {d \in batch.consumed : d.complete}} \ failed
           partial == {c \in batch.consumed : ~c.complete}
       IN  /\ segs' = without(removed)
           /\ IF partial # {}
              THEN LET c == CHOOSE d \in partial : TRUE
                   IN  readSeq' = c.seq /\ readOffset' = c.end
              ELSE IF readSeq \in removed
                   THEN readSeq' = 0 /\ readOffset' = 0
                   ELSE UNCHANGED <<readSeq, readOffset>>
    /\ pending' = pendingLess(Cardinality(batch.recs))
    /\ pusher' = "drain" /\ batch' = NoBatch
    /\ UNCHANGED <<activeSeq, activeOpen, nextSeq, totalBytes, op, notify, rows,
                   appended, spooled, dropped, uncounted, crashes>>

removable == IF RemoveFaults THEN SUBSET {c.seq : c \in batch.consumed} ELSE {{}}
-----------------------------------------------------------------------------
Produce == (\E aged, due \in BOOLEAN : AppendRecord(aged, due)) \/ AppendUnspoolable
Enforce == DropOldest \/ WithinBounds
Acknowledge == \E failed \in removable : AckBatch(failed)
Push    == Wake \/ CollectSignal \/ CollectDone \/ Next_ \/ SendBatch \/ BackoffOver

Next ==
    \/ Produce
    \/ Enforce
    \/ PersistCounters
    \/ PersistError
    \/ CrashAgent
    \/ OpenSpool
    \/ Push
    \/ IngestBatch
    \/ PushError
    \/ AckDroppedBatch
    \/ Acknowledge

Spec == Init /\ [][Next]_vars

(***************************************************************************)
(* Fairness: the agent is restarted by its supervisor, its goroutines run, *)
(* and of infinitely many pushes the server answers infinitely many.       *)
(* Nothing makes probes produce results or the process crash.              *)
(***************************************************************************)
FairSpec ==
    /\ Spec
    /\ WF_vars(Enforce) /\ WF_vars(PersistCounters) /\ WF_vars(OpenSpool)
    /\ WF_vars(Wake) /\ WF_vars(CollectDone) /\ WF_vars(Next_) /\ WF_vars(SendBatch)
    /\ WF_vars(BackoffOver)
    /\ SF_vars(IngestBatch) /\ SF_vars(AckDroppedBatch) /\ WF_vars(Acknowledge)
-----------------------------------------------------------------------------
(* What must hold                                                          *)

missing == spooled \ (rows \cup OnDisk)

(* A result leaves the spool only after the server inserted it or because  *)
(* bounds dropped it, through every crash, failed delete and append that   *)
(* races the ack closure; and every record so lost is in the persisted     *)
(* total, except for a drop the process did not survive to count.          *)
LossIsAccounted ==
    /\ missing \subseteq dropped
    /\ Cardinality(1..appended \ (rows \cup OnDisk)) <= durable + uncounted + uncountedNow

(* Everything before the read position was inserted by the server: Next    *)
(* never skips a record, whatever rotated, was dropped or failed to be     *)
(* deleted between Next and its ack.                                       *)
ReadPositionDelivered ==
    \A q \in DOMAIN segs : recsOf(q) \ unread(q) \subseteq rows

(* Replay is oldest-first: a batch never overtakes an older record that is *)
(* still spooled and not yet inserted.                                     *)
OldestFirst ==
    \A b \in batch.recs, r \in OnDisk : r < b => r \in batch.recs \cup rows

(* "a max_bytes breach can never be missed" although the byte count is an  *)
(* estimate and the directory is scanned only when it says so: between     *)
(* operations the spool is within max_bytes.                               *)
WithinMaxBytes == (mode = "up" /\ muFree) => Size <= MaxBytes

(* No loss goes unnoticed at either end: what left the spool undelivered   *)
(* is in the ledger, nothing undelivered is skipped or overtaken, and what *)
(* the agent takes for acknowledged the server has counted.                *)
NoSilentLoss ==
    LossIsAccounted /\ ReadPositionDelivered /\ OldestFirst /\ AckedIsCounted

(* README: agents spool "while the server is unreachable and replay them   *)
(* on reconnect": every result is eventually inserted or dropped.          *)
EventuallyDelivered ==
    \A r \in Records : (r <= appended) ~> (r \in rows \cup dropped)
=============================================================================
