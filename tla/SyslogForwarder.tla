--------------------------- MODULE SyslogForwarder ---------------------------
(* The syslog forwarder (internal/server/syslogfwd): loggers queue records on
   the current sink, the sink's writer sends them one at a time, the settings
   page replaces the sink while everything runs, shutdown closes it.

   A record is its sequence number.  A section under core.seqMu, sink.mu or
   core.mu is one step (seqMu is only taken around sink.mu).  fail's two
   sections are one: between them only a logger's push may come, which queues
   the pending disconnected record itself.  The halt policy ends in Run's
   shutdown, which is CloseBegin and may come at any time.                    *)
EXTENDS Integers, FiniteSets, Sequences

CONSTANTS
    Threads,     \* goroutines that log
    QueueSize,   \* records a ring holds; there are two spare slots beyond it
    MaxPuts,     \* bound: settings changes
    MaxConns,    \* bound: connections opened
    MaxRecords   \* bound: numbers given out before loggers fall silent

ASSUME QueueAssumption == QueueSize \in Nat \ {0}
ASSUME ForwarderBounds == {MaxPuts, MaxConns, MaxRecords} \subseteq Nat

Sinks == 1..(MaxPuts + 1)

VARIABLES
    seq,      \* core.seq
    current,  \* core.sink, 0 when forwarding is disabled
    sk,       \* the sinks, in the order they were created
    made,     \* how many were created
    conns,    \* connections opened so far; a connection is its number
    hp,       \* the Handle call a goroutine is in
    ad,       \* the settings PUT in progress: one, the handler holds syslogMu
    cl,       \* Close in progress
    acked,    \* history: the last record written without error, per sink
    lost      \* history: how many records were dropped or reported undelivered

fwdVars == <<seq, current, sk, made, conns, hp, ad, cl, acked, lost>>

(* ring, inflight, conn, stopping and dropped are the fields of those names (0
   for nil); outage: firstFailure is set.  pc is where run() stands and wconn
   the connection it writes on.                                               *)
newSink == [ring |-> <<>>, inflight |-> 0, conn |-> 0, stopping |-> FALSE,
            dropped |-> 0, outage |-> FALSE,
            pc |-> "new", wconn |-> 0]

Idle == [pc |-> "idle", sink |-> 0, attempt |-> 0]

\* Run applies the stored settings: either forwarding is off, or the first sink is
\* installed and its writer is about to start.
ForwarderInit ==
    /\ seq = 0 /\ conns = 0 /\ lost = 0
    /\ hp = [t \in Threads |-> Idle]
    /\ cl = [pc |-> "idle", sink |-> 0]
    /\ acked = [s \in Sinks |-> 0]
    /\ \E on \in BOOLEAN :
          /\ current = (IF on THEN 1 ELSE 0) /\ made = current
          /\ sk = [s \in Sinks |-> newSink]
          /\ ad = [pc |-> IF on THEN "start" ELSE "idle", prev |-> 0, next |-> current,
                   wasEnabled |-> TRUE, enabled |-> on, puts |-> 0]

SetSink(s, k) == sk' = [sk EXCEPT ![s] = k]

\* A sink's new state, with what it dropped.
Dropping(s, k) == SetSink(s, k) /\ lost' = lost + (k.dropped - sk[s].dropped)

\* stop has returned: nothing refers to the sink any more.
Gone == [newSink EXCEPT !.pc = "exited", !.stopping = TRUE]

-----------------------------------------------------------------------------
(* The queue. *)

\* Variant: appendLocked without the bound on reserved records.
appendLockedUnbounded(k, msg, reserved) ==
    IF Len(k.ring) >= QueueSize /\ ~reserved
    THEN [k EXCEPT !.ring = Append(Tail(@), msg), !.dropped = @ + 1]
    ELSE [k EXCEPT !.ring = Append(@, msg)]

\* appendLocked: a full ring gives up its oldest record, unless the new one is
\* reserved and takes the first spare slot.
appendLocked(k, msg, reserved) ==
    IF Len(k.ring) >= QueueSize /\ ~(reserved /\ Len(k.ring) = QueueSize)
    THEN [k EXCEPT !.ring = Append(Tail(@), msg), !.dropped = @ + 1]
    ELSE [k EXCEPT !.ring = Append(@, msg)]

\* push, under the sequence lock, so numbers follow the order in the ring.
enqueue(s, k, reserved) ==
    /\ seq' = seq + 1
    /\ Dropping(s, appendLocked(k, seq + 1, reserved))

\* Handle reads the current sink; a disabled forwarder accepts nothing.
Log(t) ==
    /\ hp[t].pc = "idle" /\ current # 0 /\ seq < MaxRecords
    /\ hp' = [hp EXCEPT ![t] = [pc |-> "push", sink |-> current, attempt |-> 1]]
    /\ UNCHANGED <<conns, seq, current, sk, made, ad, cl, acked, lost>>

\* A retired sink refuses the record; it goes to the one that replaced it.
HandlePush(t) ==
    /\ hp[t].pc = "push"
    /\ IF sk[hp[t].sink].stopping
       THEN /\ hp' = [hp EXCEPT ![t] =
                        IF current = 0 \/ hp[t].attempt = 3 THEN Idle
                        ELSE [pc |-> "push", sink |-> current, attempt |-> hp[t].attempt + 1]]
            /\ UNCHANGED <<seq, sk, lost>>
       ELSE /\ enqueue(hp[t].sink, sk[hp[t].sink], FALSE)
            /\ hp' = [hp EXCEPT ![t] = Idle]
    /\ UNCHANGED <<conns, current, made, ad, cl, acked>>

\* Handle in one step, for the records the forwarder itself and the settings
\* handler log; a sink is retired only after it stopped being the current one.
Handle(reserved) ==
    IF current = 0 THEN UNCHANGED <<seq, sk, lost>> ELSE enqueue(current, sk[current], reserved)

-----------------------------------------------------------------------------
(* Failures: of the writer's dial and write, or seen by watch. *)

(* fail, by a goroutine whose sink is then k: nothing on a retired sink or for a
   connection already replaced; the first failure of an outage queues a
   disconnected record, which may push out an older one.                      *)
fail(s, k, conn) ==
    IF k.stopping \/ (conn # 0 /\ k.conn # conn)
    THEN Dropping(s, k) /\ UNCHANGED seq
    ELSE LET down == [k EXCEPT !.conn = IF conn = 0 THEN @ ELSE 0, !.outage = TRUE]
         IN  IF k.outage THEN Dropping(s, down) /\ UNCHANGED seq
             ELSE enqueue(s, down, FALSE)

\* watch: the peer of the live connection went away.
watch(s) ==
    /\ sk[s].conn # 0 /\ ~sk[s].stopping
    /\ fail(s, sk[s], sk[s].conn)
    /\ UNCHANGED <<conns, current, made, hp, ad, cl, acked>>

-----------------------------------------------------------------------------
(* The writer, sink.run. *)

WriterStep == UNCHANGED <<current, made, ad, cl>>
WriterOnly == WriterStep /\ UNCHANGED conns

\* A retired sink's writer ends when nothing is left or the connection is gone.
WriterExits(s) ==
    /\ sk[s].pc = "loop" /\ sk[s].stopping /\ (sk[s].ring = <<>> \/ sk[s].conn = 0)
    /\ SetSink(s, [sk[s] EXCEPT !.conn = 0, !.pc = "exited"])
    /\ WriterOnly /\ UNCHANGED <<seq, hp, acked, lost>>

\* No connection: back off (unless it is the first dial, or a stable connection
\* was lost) and dial; stop ends both.
WriterReconnects(s) ==
    /\ sk[s].pc = "loop" /\ ~sk[s].stopping /\ sk[s].conn = 0
    /\ SetSink(s, [sk[s] EXCEPT !.pc = "dial"])
    /\ WriterOnly /\ UNCHANGED <<seq, hp, acked, lost>>

\* dial succeeds; stop cancels its context, so only before the sink is retired.
DialOk(s) ==
    /\ sk[s].pc = "dial" /\ ~sk[s].stopping /\ conns < MaxConns
    /\ SetSink(s, [sk[s] EXCEPT !.pc = "dialed", !.wconn = conns + 1])
    /\ conns' = conns + 1
    /\ WriterStep /\ UNCHANGED <<seq, hp, acked, lost>>

\* connected installs it, on a sink that may have been retired meanwhile.
connected(s) ==
    /\ sk[s].pc = "dialed"
    /\ SetSink(s, [sk[s] EXCEPT !.pc = "loop", !.conn = sk[s].wconn, !.wconn = 0])
    /\ WriterOnly /\ UNCHANGED <<seq, hp, acked, lost>>

DialFails(s) ==
    /\ sk[s].pc = "dial"
    /\ fail(s, [sk[s] EXCEPT !.pc = "loop"], 0)
    /\ WriterOnly /\ UNCHANGED <<hp, acked>>

\* takeLocked: the oldest record leaves the ring to be written.
takeLocked(s) ==
    /\ sk[s].pc = "loop" /\ sk[s].conn # 0 /\ sk[s].ring # <<>>
    /\ SetSink(s, [sk[s] EXCEPT !.pc = "write", !.inflight = Head(sk[s].ring),
                                !.ring = Tail(@), !.wconn = sk[s].conn])
    /\ WriterOnly /\ UNCHANGED <<seq, hp, acked, lost>>

\* A write may complete although its connection was closed meanwhile.
WriteOk(s) ==
    /\ sk[s].pc = "write"
    /\ SetSink(s, [sk[s] EXCEPT !.pc = "acked", !.inflight = 0])
    /\ acked' = [acked EXCEPT ![s] = sk[s].inflight]
    /\ WriterOnly /\ UNCHANGED <<seq, hp, lost>>

WriteFails(s) ==
    /\ sk[s].pc = "write"
    /\ fail(s, [sk[s] EXCEPT !.pc = "requeue"], sk[s].wconn)
    /\ WriterOnly /\ UNCHANGED <<hp, acked>>

\* requeue at the back of the queue, where push puts records.
requeueLast(s) ==
    /\ sk[s].pc = "requeue"
    /\ LET k == [sk[s] EXCEPT !.pc = "loop", !.inflight = 0, !.wconn = 0]
       IN  Dropping(s, IF Len(k.ring) >= QueueSize /\ ~k.stopping
                       THEN [k EXCEPT !.dropped = @ + 1]
                       ELSE [k EXCEPT !.ring = Append(@, sk[s].inflight)])
    /\ WriterOnly /\ UNCHANGED <<seq, hp, acked>>

\* requeue: back to the front; a full ring drops it, unless the sink retires.
requeue(s) ==
    /\ sk[s].pc = "requeue"
    /\ LET k == [sk[s] EXCEPT !.pc = "loop", !.inflight = 0, !.wconn = 0]
       IN  Dropping(s, IF Len(k.ring) >= QueueSize /\ ~k.stopping
                       THEN [k EXCEPT !.dropped = @ + 1]
                       ELSE [k EXCEPT !.ring = <<sk[s].inflight>> \o @])
    /\ WriterOnly /\ UNCHANGED <<seq, hp, acked>>

\* delivered: a write on the live connection ends the outage.
delivered(s) ==
    /\ sk[s].pc = "acked"
    /\ LET ends == sk[s].conn = sk[s].wconn /\ sk[s].outage
       IN  SetSink(s, [sk[s] EXCEPT !.pc = IF ends THEN "emit" ELSE "loop",
                                    !.outage = @ /\ ~ends, !.wconn = 0])
    /\ WriterOnly /\ UNCHANGED <<seq, hp, acked, lost>>

\* ... and its recovered record is logged like any other, on the current sink.
EmitRecovered(s) ==
    /\ sk[s].pc = "emit"
    /\ LET k == [sk[s] EXCEPT !.pc = "loop"]
       IN  IF current = s THEN enqueue(s, k, TRUE)
           ELSE IF current = 0 THEN Dropping(s, k) /\ UNCHANGED seq
           ELSE LET c == appendLocked(sk[current], seq + 1, TRUE)
                IN  /\ sk' = [sk EXCEPT ![s] = k, ![current] = c]
                    /\ seq' = seq + 1
                    /\ lost' = lost + (c.dropped - sk[current].dropped)
    /\ WriterOnly /\ UNCHANGED <<hp, acked>>

Writer(s) ==
    \/ WriterExits(s) \/ WriterReconnects(s)
    \/ DialOk(s) \/ connected(s) \/ DialFails(s)
    \/ takeLocked(s) \/ WriteOk(s) \/ WriteFails(s)
    \/ requeue(s) \/ delivered(s) \/ EmitRecovered(s)

-----------------------------------------------------------------------------
(* stop, Apply, Close. *)

stopBegin(s) == SetSink(s, [sk[s] EXCEPT !.stopping = TRUE])

\* stop that closes the connection but leaves it in place.
StopTimerKeepsConn(s) ==
    /\ sk[s].stopping /\ sk[s].conn # 0 /\ sk[s].pc # "dialed"
    /\ UNCHANGED fwdVars

\* stop's timer closes the connection.  It never fires in the instant between a
\* dial's success and connected: the drain time is seconds.
StopTimer(s) ==
    /\ sk[s].stopping /\ sk[s].conn # 0 /\ sk[s].pc # "dialed"
    /\ SetSink(s, [sk[s] EXCEPT !.conn = 0])
    /\ UNCHANGED <<conns, seq, current, made, hp, ad, cl, acked, lost>>

AdminOnly == UNCHANGED <<conns, hp, cl, acked>>

\* The handler stores the row and, when a destination was enabled, queues the
\* record of the change there before Apply retires it.
PutStore ==
    /\ ad.pc = "idle" /\ ad.puts < MaxPuts /\ cl.pc = "idle"
    /\ \E e \in BOOLEAN :
          ad' = [ad EXCEPT !.pc = "swap", !.wasEnabled = ad.enabled, !.enabled = e,
                           !.puts = @ + 1]
    /\ IF ad.enabled THEN Handle(FALSE) ELSE UNCHANGED <<seq, sk, lost>>
    /\ AdminOnly /\ UNCHANGED <<current, made>>

\* Apply swaps the sink.  Its revision check cannot refuse: the row's updated_at
\* grows with every PUT and PUTs exclude one another.
ApplySwap ==
    /\ ad.pc = "swap"
    /\ LET next == IF ad.enabled THEN made + 1 ELSE 0
       IN  /\ current' = next
           /\ made' = IF ad.enabled THEN next ELSE made
           /\ ad' = [ad EXCEPT !.pc = IF current = 0 THEN "start" ELSE "stop",
                               !.prev = current, !.next = next]
    /\ AdminOnly /\ UNCHANGED <<seq, sk, lost>>

ApplyStop ==
    /\ ad.pc = "stop"
    /\ stopBegin(ad.prev)
    /\ ad' = [ad EXCEPT !.pc = "wait"]
    /\ AdminOnly /\ UNCHANGED <<seq, current, made, lost>>

\* What the old sink could not deliver is reported, and carried into the drop
\* total of the new one.
ApplyStopped ==
    /\ ad.pc = "wait" /\ sk[ad.prev].pc = "exited"
    /\ LET undelivered == Len(sk[ad.prev].ring)
       IN  /\ sk' = [s \in Sinks |-> IF s = ad.prev THEN Gone
                                     ELSE IF s = ad.next
                                     THEN [sk[s] EXCEPT !.dropped = @ + undelivered]
                                     ELSE sk[s]]
           /\ lost' = lost + undelivered
    /\ acked' = [acked EXCEPT ![ad.prev] = 0]
    /\ ad' = [ad EXCEPT !.pc = "start", !.prev = 0]
    /\ UNCHANGED <<conns, hp, cl, seq, current, made>>

\* go next.run(), then the start record, which goes where records go by then.
ApplyStart ==
    /\ ad.pc = "start"
    /\ ad' = [ad EXCEPT !.pc = "record"]
    /\ LET run == [sk[ad.next] EXCEPT !.pc = "loop"]
       IN  IF ad.next = 0 THEN UNCHANGED <<seq, sk, lost>>
           ELSE IF current = ad.next THEN enqueue(current, run, FALSE)
           ELSE Dropping(ad.next, run) /\ UNCHANGED seq
    /\ AdminOnly /\ UNCHANGED <<current, made>>

\* The record of the change comes after Apply when forwarding was off.
PutEnd ==
    /\ ad.pc = "record"
    /\ ad' = [ad EXCEPT !.pc = "idle", !.prev = 0, !.next = 0]
    /\ IF ad.wasEnabled THEN UNCHANGED <<seq, sk, lost>> ELSE Handle(FALSE)
    /\ AdminOnly /\ UNCHANGED <<current, made>>

\* Shutdown has stopped the HTTP server before; of a handler that outlasted its
\* grace only the wait inside Apply may still be going on.
CloseBegin ==
    /\ cl.pc = "idle" /\ ad.pc # "swap"
    /\ current' = 0
    /\ cl' = [cl EXCEPT !.sink = current, !.pc = IF current = 0 THEN "done" ELSE "record"]
    /\ UNCHANGED <<conns, seq, sk, made, hp, ad, acked, lost>>

\* The stop record is queued on the sink itself, in the spare slot.
CloseRecord ==
    /\ cl.pc = "record"
    /\ enqueue(cl.sink, sk[cl.sink], TRUE)
    /\ cl' = [cl EXCEPT !.pc = "stop"]
    /\ UNCHANGED <<conns, current, made, hp, ad, acked>>

CloseStop ==
    /\ cl.pc = "stop"
    /\ stopBegin(cl.sink)
    /\ cl' = [cl EXCEPT !.pc = "wait"]
    /\ UNCHANGED <<conns, seq, current, made, hp, ad, acked, lost>>

\* Close returns the number of records left in the ring.
CloseStopped ==
    /\ cl.pc = "wait" /\ sk[cl.sink].pc = "exited"
    /\ lost' = lost + Len(sk[cl.sink].ring)
    /\ SetSink(cl.sink, Gone)
    /\ acked' = [acked EXCEPT ![cl.sink] = 0]
    /\ cl' = [pc |-> "done", sink |-> 0]
    /\ UNCHANGED <<conns, seq, current, made, hp, ad>>

Applier == PutStore \/ ApplySwap \/ ApplyStop \/ ApplyStopped \/ ApplyStart \/ PutEnd
Closer == CloseRecord \/ CloseStop \/ CloseStopped

ForwarderNext ==
    \/ \E t \in Threads : Log(t) \/ HandlePush(t)
    \/ \E s \in Sinks : watch(s) \/ Writer(s) \/ StopTimer(s)
    \/ Applier \/ CloseBegin \/ Closer

ForwarderSpec == ForwarderInit /\ [][ForwarderNext]_fwdVars

(* Goroutines run, timeouts end every dial, sleep and write, and stop's timer
   fires.  Nothing makes a dial or a write succeed, loggers log, an
   administrator edit, or the process stop.                                   *)
ForwarderFairness ==
    /\ \A t \in Threads : WF_fwdVars(HandlePush(t))
    /\ \A s \in Sinks : WF_fwdVars(Writer(s)) /\ WF_fwdVars(StopTimer(s))
    /\ WF_fwdVars(ad.pc # "idle" /\ Applier)
    /\ WF_fwdVars(Closer)

ForwarderFairSpec == ForwarderSpec /\ ForwarderFairness

-----------------------------------------------------------------------------
(* Properties. *)

ForwarderTypeOK ==
    /\ seq \in Nat /\ current \in 0..made /\ made \in 0..(MaxPuts + 1)
    /\ \A s \in Sinks : sk[s].inflight \in 0..seq /\ sk[s].conn \in 0..MaxConns

InFlight(s) == IF sk[s].inflight = 0 THEN {} ELSE {sk[s].inflight}
InRing(s) == {sk[s].ring[i] : i \in DOMAIN sk[s].ring}

Fifo == INSTANCE LossyFifo
        WITH Destinations <- Sinks,
             held <- [s \in Sinks |-> InFlight(s) \cup InRing(s)],
             last <- acked

(* Through failed writes, requeued records, overflow during a write, outages,
   replacement and shutdown, every sink is a queue that keeps the order of the
   sequence numbers, delivers nothing twice, and counts what it drops.        *)
SinkIsLossyFifo == Fifo!FifoSpec

(* The ring never holds more records than it has slots, nor the record in flight
   twice: reserved records and the one a retiring sink puts back share the two
   spare slots, and a push beyond them would overwrite a queued record.       *)
RingFits ==
    \A s \in Sinks : /\ Len(sk[s].ring) <= QueueSize + 2
                     /\ ~sk[s].stopping => Len(sk[s].ring) <= QueueSize + 1
                     /\ Cardinality(InRing(s)) = Len(sk[s].ring)
                     /\ InFlight(s) \cap InRing(s) = {}

(* A settings change and a shutdown end, whatever the collector does: while the
   old connection stalls or fails on every write, and when Close retires a sink
   whose writer a concurrent Apply has not started yet.                        *)
StopEnds ==
    /\ ad.pc # "idle" ~> ad.pc = "idle"
    /\ cl.pc # "idle" ~> cl.pc = "done"
=============================================================================
