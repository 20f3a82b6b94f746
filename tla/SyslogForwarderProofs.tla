------------------------ MODULE SyslogForwarderProofs ------------------------
(***************************************************************************)
(* Proofs about the syslog forwarder, for every number of goroutines,      *)
(* settings changes, connections and records, and every queue size: the    *)
(* ring fits its slots, and every sink is the lossy queue of LossyFifo.    *)
(*                                                                         *)
(* The argument is per sink.  SinkOK says that the record in flight and    *)
(* the ring, read in this order, are increasing numbers between the last   *)
(* acknowledged one and the last one given out, and counts the slots.      *)
(* ControlInv says which sinks the goroutines that are not writers refer   *)
(* to, and that a sink whose writer was not started has nothing in flight. *)
(***************************************************************************)
EXTENDS SyslogForwarder, FiniteSetTheorems, TLAPS

SinkFields == {"ring", "inflight", "conn", "stopping", "dropped", "outage", "pc", "wconn"}

RingSet(k) == {k.ring[i] : i \in DOMAIN k.ring}
Held(k) == (IF k.inflight = 0 THEN {} ELSE {k.inflight}) \cup RingSet(k)

\* a is the number acknowledged last on the sink, n the last one given out.
SinkOK(k, a, n) ==
    /\ DOMAIN k = SinkFields
    /\ k.ring \in Seq(Nat) /\ k.inflight \in Nat /\ k.dropped \in Nat
    /\ a \in Nat /\ n \in Nat /\ a <= n
    /\ k.inflight # 0 <=> k.pc \in {"write", "requeue"}
    /\ \A i \in 1..Len(k.ring) : a < k.ring[i] /\ k.ring[i] <= n /\ k.inflight < k.ring[i]
    /\ \A i, j \in 1..Len(k.ring) : i < j => k.ring[i] < k.ring[j]
    /\ k.inflight # 0 => a < k.inflight /\ k.inflight <= n
    /\ Len(k.ring) <= QueueSize + (IF k.inflight = 0 THEN 2 ELSE 1)
    /\ ~k.stopping => Len(k.ring) <= QueueSize + 1

DataInv ==
    /\ seq \in Nat /\ lost \in Nat
    /\ DOMAIN sk = Sinks /\ acked \in [Sinks -> Nat]
    /\ \A s \in Sinks : SinkOK(sk[s], acked[s], seq)

ControlInv ==
    /\ current \in Sinks \cup {0} /\ ad.next \in Sinks \cup {0}
    /\ DOMAIN ad = {"pc", "prev", "next", "wasEnabled", "enabled", "puts"}
    /\ made \in Nat /\ ad.puts \in Nat /\ ad.puts <= MaxPuts
    /\ made <= ad.puts + 1
    /\ ad.pc = "swap" => made <= ad.puts
    /\ \A s \in Sinks : s > made => sk[s].pc = "new"
    /\ ad.pc \in {"stop", "wait"} => ad.prev \in Sinks
    /\ ad.pc \in {"stop", "wait", "start"} /\ ad.next # 0 =>
         ad.next <= made /\ sk[ad.next].pc = "new"
    /\ DOMAIN cl = {"pc", "sink"}
    /\ cl.pc \in {"record", "stop", "wait"} => cl.sink \in Sinks
    /\ DOMAIN hp = Threads
    /\ \A t \in Threads : /\ DOMAIN hp[t] = {"pc", "sink", "attempt"}
                          /\ hp[t].pc = "push" => hp[t].sink \in Sinks

ForwarderInv == DataInv /\ ControlInv

FifoStep == [Fifo!FifoNext]_(Fifo!fifoVars)

-----------------------------------------------------------------------------
(* The ring of one sink. *)

LEMMA RingCardinality ==
    ASSUME NEW k, NEW a, NEW n, SinkOK(k, a, n)
    PROVE  IsFiniteSet(RingSet(k)) /\ Cardinality(RingSet(k)) = Len(k.ring)
<1> DEFINE D == 1..Len(k.ring)
           f == [i \in D |-> k.ring[i]]
<1>1. /\ DOMAIN k.ring = D /\ Len(k.ring) \in Nat
      /\ \A i \in D : k.ring[i] \in Nat
      /\ \A i, j \in D : k.ring[i] = k.ring[j] => i = j
    <2> DEFINE g == k.ring
    <2>1. g \in Seq(Nat) /\ \A i, j \in 1..Len(g) : i < j => g[i] < g[j]
        BY DEF SinkOK
    <2> HIDE DEF g
    <2>2. Len(g) \in Nat /\ DOMAIN g = 1..Len(g) /\ \A i \in 1..Len(g) : g[i] \in Nat
        BY <2>1
    <2>3. \A i, j \in 1..Len(g) : g[i] = g[j] => i = j
        <3> SUFFICES ASSUME NEW i \in 1..Len(g), NEW j \in 1..Len(g), i # j PROVE g[i] # g[j]
            OBVIOUS
        <3>1. i < j \/ j < i
            BY <2>2
        <3> QED
            BY <2>1, <2>2, <3>1
    <2> QED
        BY <2>2, <2>3 DEF g
<1>2. f \in Bijection(D, RingSet(k))
    BY <1>1 DEF Bijection, Injection, Surjection, IsInjective, RingSet
<1>3. IsFiniteSet(D) /\ Cardinality(D) = Len(k.ring)
    BY <1>1, FS_Interval
<1> QED
    BY <1>2, <1>3, FS_Bijection DEF ExistsBijection

\* What appendLocked does to a sink: the new record enters, and the oldest may leave.
LEMMA AppendKeeps ==
    ASSUME NEW k, NEW a, NEW n, NEW r \in BOOLEAN, SinkOK(k, a, n)
    PROVE  LET m == appendLocked(k, n + 1, r) IN
           /\ SinkOK(m, a, n + 1) /\ m.pc = k.pc
           /\ n + 1 \notin Held(k) /\ SinkOK(k, a, n + 1)
           /\ \/ m.dropped = k.dropped /\ Held(m) = Held(k) \cup {n + 1}
              \/ /\ m.dropped = k.dropped + 1
                 /\ \E x \in Held(k) : Held(m) = (Held(k) \ {x}) \cup {n + 1}
<1> DEFINE m == appendLocked(k, n + 1, r)
           g == k.ring
           L == Len(g)
           f == k.inflight
<1> USE QueueAssumption
<1>1. g \in Seq(Nat) /\ L \in Nat /\ DOMAIN g = 1..L
    BY DEF SinkOK
<1>2. /\ a \in Nat /\ n \in Nat /\ f \in Nat /\ a <= n
      /\ \A i \in 1..L : g[i] \in Nat /\ a < g[i] /\ g[i] <= n /\ f < g[i]
      /\ \A i, j \in 1..L : i < j => g[i] < g[j]
      /\ f # 0 => a < f /\ f <= n
    BY DEF SinkOK
<1>3. RingSet(k) = {g[i] : i \in 1..L} /\ Held(k) = (IF f = 0 THEN {} ELSE {f}) \cup RingSet(k)
    BY <1>1 DEF RingSet, Held
<1> HIDE DEF g, L, f
<1>4. n + 1 \notin Held(k) /\ SinkOK(k, a, n + 1)
    <2>1. n + 1 \notin Held(k)
        BY <1>2, <1>3
    <2> QED
        BY <1>2, <2>1 DEF SinkOK, g, L, f
<1>5. CASE L >= QueueSize /\ ~(r /\ L = QueueSize)
    <2> DEFINE q == Append(Tail(g), n + 1)
    <2>1. m = [k EXCEPT !.ring = q, !.dropped = @ + 1]
        BY <1>5 DEF appendLocked, g, L
    <2> DEFINE t == Tail(g)
    <2>a. t \in Seq(Nat) /\ Len(t) = L - 1 /\ \A i \in 1..(L - 1) : t[i] = g[i + 1]
        <3>1. L >= 1
            BY <1>1, <1>5
        <3>2. g # <<>>
            BY <3>1 DEF L
        <3> QED
            BY <1>1, <3>1, <3>2 DEF L
    <2> HIDE DEF t
    <2>2. q \in Seq(Nat) /\ Len(q) = L /\ DOMAIN q = 1..L
        BY <1>1, <1>2, <2>a DEF t
    <2>3. \A i \in 1..L : q[i] = IF i = L THEN n + 1 ELSE g[i + 1]
        BY <1>1, <1>2, <2>a DEF t
    <2> HIDE DEF q
    <2>4. /\ m.ring = q /\ m.dropped = k.dropped + 1 /\ DOMAIN m = SinkFields
          /\ m.inflight = f /\ m.pc = k.pc /\ m.stopping = k.stopping
        BY <2>1 DEF SinkOK, SinkFields, f
    <2> HIDE DEF m
    <2>5. /\ \A i \in 1..L : a < q[i] /\ q[i] <= n + 1 /\ f < q[i]
          /\ \A i, j \in 1..L : i < j => q[i] < q[j]
        <3>1. \A i \in 1..L : i # L => i + 1 \in 1..L /\ q[i] = g[i + 1]
            BY <1>1, <2>3
        <3>2. \A i, j \in 1..L : i < j => i # L
            BY <1>1
        <3>3. \A i \in 1..L : i = L => q[i] = n + 1
            BY <2>3
        <3>4. ASSUME NEW i \in 1..L, NEW j \in 1..L, i < j PROVE q[i] < q[j]
            <4>1. i + 1 \in 1..L /\ q[i] = g[i + 1]
                BY <3>1, <3>2, <3>4
            <4>2. CASE j = L
                BY <1>2, <3>3, <4>1, <4>2
            <4>3. CASE j # L
                <5>1. j + 1 \in 1..L /\ q[j] = g[j + 1] /\ i + 1 < j + 1
                    BY <3>1, <3>4, <4>3
                <5> QED
                    BY <1>2, <4>1, <5>1
            <4> QED
                BY <4>2, <4>3
        <3> QED
            BY <1>2, <3>1, <3>3, <3>4
    <2>6. SinkOK(m, a, n + 1)
        BY <1>2, <2>2, <2>4, <2>5 DEF SinkOK, L, f, g
    <2>7. RingSet(m) = (RingSet(k) \ {g[1]}) \cup {n + 1}
        <3>1. RingSet(m) = {q[i] : i \in 1..L}
            BY <2>2, <2>4 DEF RingSet
        <3>2. \A i \in 1..L : q[i] = n + 1 \/ q[i] \in {g[j] : j \in 2..L}
            BY <1>1, <2>3
        <3>3. \A j \in 2..L : g[j] = q[j - 1] /\ g[j] # g[1]
            BY <1>1, <1>2, <2>3
        <3>4. q[L] = n + 1 /\ L \in 1..L
            BY <1>1, <1>5, <2>3
        <3>5. {g[j] : j \in 2..L} = RingSet(k) \ {g[1]}
            BY <1>1, <1>3, <3>3
        <3>6. {g[j] : j \in 2..L} \cup {n + 1} = RingSet(m)
            <4>1. \A j \in 2..L : g[j] \in RingSet(m)
                <5>1. \A j \in 2..L : j - 1 \in 1..L
                    BY <1>1
                <5> QED
                    BY <3>1, <3>3, <5>1
            <4>2. n + 1 \in RingSet(m)
                BY <3>1, <3>4
            <4> QED
                BY <3>1, <3>2, <4>1, <4>2
        <3> QED
            BY <3>5, <3>6
    <2>8. g[1] \in RingSet(k) /\ f # g[1]
        BY <1>1, <1>2, <1>3, <1>5
    <2>9. Held(m) = (Held(k) \ {g[1]}) \cup {n + 1} /\ g[1] \in Held(k)
        BY <1>3, <2>4, <2>7, <2>8 DEF Held
    <2> QED
        BY <1>4, <2>4, <2>6, <2>9 DEF m
<1>6. CASE ~(L >= QueueSize /\ ~(r /\ L = QueueSize))
    <2> DEFINE q == Append(g, n + 1)
    <2>1. m = [k EXCEPT !.ring = q]
        BY <1>6 DEF appendLocked, g, L
    <2>2. q \in Seq(Nat) /\ Len(q) = L + 1 /\ DOMAIN q = 1..(L + 1)
        BY <1>1, <1>2 DEF L
    <2>3. \A i \in 1..(L + 1) : q[i] = IF i = L + 1 THEN n + 1 ELSE g[i]
        BY <1>1, <1>2 DEF L
    <2> HIDE DEF q
    <2>4. /\ m.ring = q /\ m.dropped = k.dropped /\ DOMAIN m = SinkFields
          /\ m.inflight = f /\ m.pc = k.pc /\ m.stopping = k.stopping
        BY <2>1 DEF SinkOK, SinkFields, f
    <2> HIDE DEF m
    <2>5. /\ \A i \in 1..(L + 1) : a < q[i] /\ q[i] <= n + 1 /\ f < q[i]
          /\ \A i, j \in 1..(L + 1) : i < j => q[i] < q[j]
        <3>1. \A i \in 1..(L + 1) : i # L + 1 => i \in 1..L /\ q[i] = g[i]
            BY <1>1, <2>3
        <3>2. \A i, j \in 1..(L + 1) : i < j => i # L + 1
            BY <1>1
        <3>3. \A i \in 1..(L + 1) : i = L + 1 => q[i] = n + 1
            BY <2>3
        <3> QED
            BY <1>2, <3>1, <3>2, <3>3
    <2>6. L + 1 <= QueueSize + 1
        BY <1>1, <1>6
    <2>7. SinkOK(m, a, n + 1)
        BY <1>1, <1>2, <2>2, <2>4, <2>5, <2>6, SMTT(30) DEF SinkOK, f
    <2>8. RingSet(m) = RingSet(k) \cup {n + 1}
        <3>1. RingSet(m) = {q[i] : i \in 1..(L + 1)}
            BY <2>2, <2>4 DEF RingSet
        <3>2. \A i \in 1..L : q[i] = g[i] /\ i \in 1..(L + 1)
            BY <1>1, <2>3
        <3>3. q[L + 1] = n + 1 /\ L + 1 \in 1..(L + 1)
            BY <1>1, <2>3
        <3>4. \A i \in 1..(L + 1) : i = L + 1 \/ i \in 1..L
            BY <1>1
        <3> QED
            BY <1>3, <3>1, <3>2, <3>3, <3>4
    <2> QED
        BY <1>3, <1>4, <2>4, <2>7, <2>8 DEF Held, m
<1> QED
    BY <1>5, <1>6

-----------------------------------------------------------------------------
(* Steps of the whole forwarder, by what they do to the queues. *)

\* The state function LossyFifo's held is replaced by.
held == [s \in Sinks |-> Held(sk[s])]

LEMMA FifoExpanded ==
    /\ Fifo!FifoInit <=> /\ held = [s \in Sinks |-> {}]
                         /\ acked = [s \in Sinks |-> 0] /\ lost = 0
    /\ UNCHANGED <<held, acked, lost>> => FifoStep
    /\ \A d \in Sinks : Fifo!Enter(d) \/ Fifo!Leave(d) \/ Fifo!Lose(d) \/ Fifo!Retire(d) => FifoStep
    /\ \A d \in Sinks : Fifo!Enter(d) <=>
          /\ held'[d] \ held[d] # {}
          /\ \A new \in held'[d] \ held[d], old \in held[d] \cup {acked[d]} : new > old
          /\ held' = [held EXCEPT ![d] = held'[d]]
          /\ lost' = lost + Cardinality(held[d] \ held'[d])
          /\ UNCHANGED acked
    /\ \A d \in Sinks : Fifo!Leave(d) <=>
          /\ held[d] # {} /\ Fifo!Min(held[d]) > acked[d]
          /\ acked' = [acked EXCEPT ![d] = Fifo!Min(held[d])]
          /\ held' = [held EXCEPT ![d] = @ \ {Fifo!Min(@)}]
          /\ UNCHANGED lost
    /\ \A d \in Sinks : Fifo!Lose(d) <=>
          \E r \in held[d] : /\ held' = [held EXCEPT ![d] = @ \ {r}]
                             /\ lost' = lost + 1 /\ UNCHANGED acked
    /\ \A d \in Sinks : Fifo!Retire(d) <=>
          /\ lost' = lost + Cardinality(held[d])
          /\ held' = [held EXCEPT ![d] = {}] /\ acked' = [acked EXCEPT ![d] = 0]
<1>1. [s \in Sinks |-> InFlight(s) \cup InRing(s)] = held
    BY DEF held, Held, RingSet, InFlight, InRing
<1>2. [s \in Sinks |-> InFlight(s) \cup InRing(s)]' = held'
    BY DEF held, Held, RingSet, InFlight, InRing
<1> HIDE DEF held
<1>a. \A S : Fifo!Cardinality(S) = Cardinality(S)
    BY DEF Cardinality, Fifo!Cardinality
<1>3. Fifo!FifoInit <=> /\ held = [s \in Sinks |-> {}]
                        /\ acked = [s \in Sinks |-> 0] /\ lost = 0
    BY <1>1 DEF Fifo!FifoInit
<1>4. UNCHANGED <<held, acked, lost>> => FifoStep
    BY <1>1, <1>2 DEF FifoStep, Fifo!fifoVars
<1>5. \A d \in Sinks : Fifo!Enter(d) \/ Fifo!Leave(d) \/ Fifo!Lose(d) \/ Fifo!Retire(d) => FifoStep
    BY DEF FifoStep, Fifo!FifoNext
<1>6. ASSUME NEW d \in Sinks
      PROVE  Fifo!Enter(d) <=>
          /\ held'[d] \ held[d] # {}
          /\ \A new \in held'[d] \ held[d], old \in held[d] \cup {acked[d]} : new > old
          /\ held' = [held EXCEPT ![d] = held'[d]]
          /\ lost' = lost + Cardinality(held[d] \ held'[d])
          /\ UNCHANGED acked
    BY <1>a, <1>1, <1>2 DEF Fifo!Enter
<1>7. ASSUME NEW d \in Sinks
      PROVE  Fifo!Leave(d) <=>
          /\ held[d] # {} /\ Fifo!Min(held[d]) > acked[d]
          /\ acked' = [acked EXCEPT ![d] = Fifo!Min(held[d])]
          /\ held' = [held EXCEPT ![d] = @ \ {Fifo!Min(@)}]
          /\ UNCHANGED lost
    BY <1>1, <1>2 DEF Fifo!Leave
<1>8. ASSUME NEW d \in Sinks
      PROVE  Fifo!Lose(d) <=>
          \E r \in held[d] : /\ held' = [held EXCEPT ![d] = @ \ {r}]
                             /\ lost' = lost + 1 /\ UNCHANGED acked
    BY <1>1, <1>2 DEF Fifo!Lose
<1>9. ASSUME NEW d \in Sinks
      PROVE  Fifo!Retire(d) <=>
          /\ lost' = lost + Cardinality(held[d])
          /\ held' = [held EXCEPT ![d] = {}] /\ acked' = [acked EXCEPT ![d] = 0]
    BY <1>a, <1>1, <1>2 DEF Fifo!Retire
<1> QED
    BY <1>3, <1>4, <1>5, <1>6, <1>7, <1>8, <1>9

LEMMA PushStep ==
    ASSUME DataInv, NEW d \in Sinks, NEW k, NEW r \in BOOLEAN,
           SinkOK(k, acked[d], seq), Held(k) = Held(sk[d]),
           seq' = seq + 1, UNCHANGED acked, DOMAIN sk' = Sinks,
           sk'[d] = appendLocked(k, seq + 1, r),
           lost' = lost + (sk'[d].dropped - k.dropped),
           \A x \in Sinks \ {d} : Held(sk'[x]) = Held(sk[x]) /\ SinkOK(sk'[x], acked[x], seq)
    PROVE  DataInv' /\ FifoStep
<1> DEFINE m == sk'[d]
<1>1. /\ SinkOK(m, acked[d], seq + 1) /\ seq + 1 \notin Held(k)
      /\ \/ m.dropped = k.dropped /\ Held(m) = Held(k) \cup {seq + 1}
         \/ /\ m.dropped = k.dropped + 1
            /\ \E x \in Held(k) : Held(m) = (Held(k) \ {x}) \cup {seq + 1}
    <2> DEFINE w == appendLocked(k, seq + 1, r)
    <2>1. /\ SinkOK(w, acked[d], seq + 1) /\ seq + 1 \notin Held(k)
          /\ \/ w.dropped = k.dropped /\ Held(w) = Held(k) \cup {seq + 1}
             \/ /\ w.dropped = k.dropped + 1
                /\ \E x \in Held(k) : Held(w) = (Held(k) \ {x}) \cup {seq + 1}
        BY AppendKeeps
    <2> HIDE DEF w
    <2> QED
        BY <2>1 DEF w
<1>2. \A x \in Sinks : SinkOK(sk'[x], acked[x], seq + 1)
    <2>1. ASSUME NEW w, NEW a, SinkOK(w, a, seq) PROVE SinkOK(w, a, seq + 1)
        BY <2>1, AppendKeeps
    <2> QED
        BY <1>1, <2>1
<1>3. seq \in Nat /\ lost \in Nat /\ k.dropped \in Nat /\ acked[d] <= seq /\ acked[d] \in Nat
    BY DEF DataInv, SinkOK
<1>4. lost' \in Nat
    BY <1>1, <1>3
<1>5. DataInv'
    BY <1>2, <1>3, <1>4 DEF DataInv
<1>6. \A x \in Held(k) : x \in Nat /\ x <= seq
    BY DEF SinkOK, Held, RingSet
<1>7. held'[d] = Held(m) /\ held[d] = Held(k) /\ held' = [held EXCEPT ![d] = held'[d]]
    BY DEF held
<1>8. /\ held'[d] \ held[d] = {seq + 1}
      /\ lost' = lost + Cardinality(held[d] \ held'[d])
    <2> HIDE DEF m
    <2>1. CASE m.dropped = k.dropped /\ Held(m) = Held(k) \cup {seq + 1}
        <3>1. lost' = lost
            BY <1>3, <2>1 DEF m
        <3>2. held[d] \ held'[d] = {}
            BY <1>7, <2>1
        <3> QED
            <4>1. Cardinality(held[d] \ held'[d]) = 0
                BY <3>2, FS_EmptySet, Zenon
            <4>2. held'[d] \ held[d] = {seq + 1}
                BY <1>1, <1>7, <2>1
            <4> QED
                BY <1>3, <3>1, <4>1, <4>2
    <2>2. ASSUME NEW x \in Held(k), m.dropped = k.dropped + 1,
                 Held(m) = (Held(k) \ {x}) \cup {seq + 1}
          PROVE  <1>8!:
        <3>1. lost' = lost + 1
            BY <1>3, <2>2 DEF m
        <3>2. held[d] \ held'[d] = {x}
            BY <1>1, <1>7, <2>2
        <3> QED
            BY <1>1, <1>7, <2>2, <3>1, <3>2, FS_Singleton
    <2> QED
        BY <1>1, <2>1, <2>2
<1>9. Fifo!Enter(d)
    BY <1>3, <1>6, <1>7, <1>8, FifoExpanded
<1> QED
    BY <1>5, <1>9, FifoExpanded

LEMMA DataStep ==
    ASSUME ForwarderInv, [ForwarderNext]_fwdVars
    PROVE  DataInv' /\ FifoStep
<1>quiet. ASSUME DataInv, UNCHANGED <<seq, lost, acked>>, DOMAIN sk' = Sinks,
                 \A x \in Sinks : Held(sk'[x]) = Held(sk[x]) /\ SinkOK(sk'[x], acked[x], seq)
          PROVE  DataInv' /\ FifoStep
    <2> USE <1>quiet
    <2>1. DataInv'
        BY DEF DataInv
    <2>2. held' = held
        BY DEF held
    <2> QED
        BY <2>1, <2>2, FifoExpanded
<1> DEFINE Good == DataInv' /\ FifoStep
<1> USE DEF ForwarderInv
\* A change of a sink that leaves its queue alone.
<1>1. ASSUME NEW s \in Sinks, NEW m, DOMAIN m = SinkFields,
             m.ring = sk[s].ring, m.inflight = sk[s].inflight, m.dropped = sk[s].dropped,
             ~m.stopping => ~sk[s].stopping,
             m.inflight # 0 <=> m.pc \in {"write", "requeue"}
      PROVE  SinkOK(m, acked[s], seq) /\ Held(m) = Held(sk[s])
    <2>1. SinkOK(sk[s], acked[s], seq)
        BY DEF DataInv
    <2>2. SinkOK(m, acked[s], seq)
        BY <1>1, <2>1 DEF SinkOK
    <2> QED
        BY <1>1, <2>2 DEF Held, RingSet
<1>2. ASSUME NEW s \in Sinks, NEW m, SetSink(s, m), UNCHANGED <<seq, lost, acked>>,
             SinkOK(m, acked[s], seq), Held(m) = Held(sk[s])
      PROVE  Good
    <2>1. /\ DOMAIN sk' = Sinks
          /\ \A x \in Sinks : Held(sk'[x]) = Held(sk[x]) /\ SinkOK(sk'[x], acked[x], seq)
        BY <1>2 DEF SetSink, DataInv
    <2> QED
        BY <1>2, <2>1, <1>quiet
<1>3. ASSUME NEW s \in Sinks, NEW k, NEW r \in BOOLEAN, enqueue(s, k, r), UNCHANGED acked,
             SinkOK(k, acked[s], seq), Held(k) = Held(sk[s]), k.dropped = sk[s].dropped
      PROVE  Good
    <2>1. /\ DOMAIN sk' = Sinks /\ sk'[s] = appendLocked(k, seq + 1, r)
          /\ seq' = seq + 1 /\ lost' = lost + (sk'[s].dropped - k.dropped)
          /\ \A x \in Sinks \ {s} : Held(sk'[x]) = Held(sk[x]) /\ SinkOK(sk'[x], acked[x], seq)
        BY <1>3 DEF enqueue, Dropping, SetSink, DataInv
    <2> QED
        BY <1>3, <2>1, PushStep
<1>4. ASSUME NEW s \in Sinks, NEW k, Dropping(s, k), UNCHANGED <<seq, acked>>,
             SinkOK(k, acked[s], seq), Held(k) = Held(sk[s]), k.dropped = sk[s].dropped
      PROVE  Good
    <2>1. lost' = lost
        BY <1>4 DEF Dropping, DataInv, SinkOK
    <2> QED
        BY <1>2, <1>4, <2>1 DEF Dropping
<1>5. ASSUME NEW s \in Sinks, NEW k, NEW c, fail(s, k, c), UNCHANGED acked,
             SinkOK(k, acked[s], seq), Held(k) = Held(sk[s]), k.dropped = sk[s].dropped
      PROVE  Good
    <2> DEFINE down == [k EXCEPT !.conn = IF c = 0 THEN @ ELSE 0, !.outage = TRUE]
    <2>1. /\ DOMAIN down = SinkFields /\ down.ring = k.ring /\ down.inflight = k.inflight
          /\ down.dropped = k.dropped /\ down.stopping = k.stopping /\ down.pc = k.pc
        BY <1>5 DEF SinkOK, SinkFields
    <2>2. \/ Dropping(s, k) /\ UNCHANGED seq
          \/ Dropping(s, down) /\ UNCHANGED seq
          \/ enqueue(s, down, FALSE)
        BY <1>5 DEF fail
    <2> HIDE DEF down
    <2>3. SinkOK(down, acked[s], seq) /\ Held(down) = Held(sk[s])
        BY <1>5, <2>1 DEF SinkOK, Held, RingSet
    <2> QED
        BY <1>3, <1>4, <1>5, <2>1, <2>2, <2>3
<1>6. ASSUME NEW s \in Sinks
      PROVE  SinkOK(sk[s], acked[s], seq) /\ DOMAIN sk[s] = SinkFields
    BY DEF DataInv, SinkOK
<1>7. ASSUME UNCHANGED <<sk, seq, lost, acked>> PROVE Good
    BY <1>7, <1>quiet DEF DataInv
<1>8. ASSUME NEW r \in BOOLEAN, Handle(r), UNCHANGED acked PROVE Good
    BY <1>3, <1>6, <1>7, <1>8 DEF Handle, ControlInv

\* Goroutines that log.
<1>9. ASSUME NEW t \in Threads, Log(t) PROVE Good
    BY <1>7, <1>9 DEF Log
<1>10. ASSUME NEW t \in Threads, HandlePush(t) PROVE Good
    <2>1. CASE sk[hp[t].sink].stopping
        BY <1>7, <1>10, <2>1 DEF HandlePush
    <2>2. CASE ~sk[hp[t].sink].stopping
        BY <1>3, <1>6, <1>10, <2>2 DEF HandlePush, ControlInv
    <2> QED
        BY <2>1, <2>2
<1>11. ASSUME NEW s \in Sinks, watch(s) PROVE Good
    BY <1>5, <1>6, <1>11 DEF watch

\* The writer and the timer of stop.
<1>12. ASSUME NEW s \in Sinks, WriterExits(s) PROVE Good
    <2> DEFINE m == [sk[s] EXCEPT !.conn = 0, !.pc = "exited"]
    <2>1. /\ DOMAIN m = SinkFields /\ m.ring = sk[s].ring /\ m.inflight = sk[s].inflight
          /\ m.dropped = sk[s].dropped /\ m.stopping = sk[s].stopping
          /\ m.inflight # 0 <=> m.pc \in {"write", "requeue"}
        BY <1>12, <1>6 DEF WriterExits, SinkOK, SinkFields
    <2>2. SetSink(s, m) /\ UNCHANGED <<seq, lost, acked>>
        BY <1>12 DEF WriterExits, WriterOnly
    <2> HIDE DEF m
    <2> QED
        BY <1>1, <1>2, <2>1, <2>2
<1>13. ASSUME NEW s \in Sinks, WriterReconnects(s) PROVE Good
    <2> DEFINE m == [sk[s] EXCEPT !.pc = "dial"]
    <2>1. /\ DOMAIN m = SinkFields /\ m.ring = sk[s].ring /\ m.inflight = sk[s].inflight
          /\ m.dropped = sk[s].dropped /\ m.stopping = sk[s].stopping
          /\ m.inflight # 0 <=> m.pc \in {"write", "requeue"}
        BY <1>13, <1>6 DEF WriterReconnects, SinkOK, SinkFields
    <2>2. SetSink(s, m) /\ UNCHANGED <<seq, lost, acked>>
        BY <1>13 DEF WriterReconnects, WriterOnly
    <2> HIDE DEF m
    <2> QED
        BY <1>1, <1>2, <2>1, <2>2
<1>14. ASSUME NEW s \in Sinks, DialOk(s) PROVE Good
    <2> DEFINE m == [sk[s] EXCEPT !.pc = "dialed", !.wconn = conns + 1]
    <2>1. /\ DOMAIN m = SinkFields /\ m.ring = sk[s].ring /\ m.inflight = sk[s].inflight
          /\ m.dropped = sk[s].dropped /\ m.stopping = sk[s].stopping
          /\ m.inflight # 0 <=> m.pc \in {"write", "requeue"}
        BY <1>14, <1>6 DEF DialOk, SinkOK, SinkFields
    <2>2. SetSink(s, m) /\ UNCHANGED <<seq, lost, acked>>
        BY <1>14 DEF DialOk, WriterOnly
    <2> HIDE DEF m
    <2> QED
        BY <1>1, <1>2, <2>1, <2>2
<1>15. ASSUME NEW s \in Sinks, connected(s) PROVE Good
    <2> DEFINE m == [sk[s] EXCEPT !.pc = "loop", !.conn = sk[s].wconn, !.wconn = 0]
    <2>1. /\ DOMAIN m = SinkFields /\ m.ring = sk[s].ring /\ m.inflight = sk[s].inflight
          /\ m.dropped = sk[s].dropped /\ m.stopping = sk[s].stopping
          /\ m.inflight # 0 <=> m.pc \in {"write", "requeue"}
        BY <1>15, <1>6 DEF connected, SinkOK, SinkFields
    <2>2. SetSink(s, m) /\ UNCHANGED <<seq, lost, acked>>
        BY <1>15 DEF connected, WriterOnly
    <2> HIDE DEF m
    <2> QED
        BY <1>1, <1>2, <2>1, <2>2
<1>16. ASSUME NEW s \in Sinks, StopTimer(s) PROVE Good
    <2> DEFINE m == [sk[s] EXCEPT !.conn = 0]
    <2>1. /\ DOMAIN m = SinkFields /\ m.ring = sk[s].ring /\ m.inflight = sk[s].inflight
          /\ m.dropped = sk[s].dropped /\ m.stopping = sk[s].stopping
          /\ m.inflight # 0 <=> m.pc \in {"write", "requeue"}
        BY <1>16, <1>6 DEF StopTimer, SinkOK, SinkFields
    <2>2. SetSink(s, m) /\ UNCHANGED <<seq, lost, acked>>
        BY <1>16 DEF StopTimer, WriterOnly
    <2> HIDE DEF m
    <2> QED
        BY <1>1, <1>2, <2>1, <2>2
<1>17. ASSUME NEW s \in Sinks, delivered(s) PROVE Good
    <2> DEFINE ends == sk[s].conn = sk[s].wconn /\ sk[s].outage
               m == [sk[s] EXCEPT !.pc = IF ends THEN "emit" ELSE "loop",
                                  !.outage = @ /\ ~ends, !.wconn = 0]
    <2>1. SetSink(s, m) /\ UNCHANGED <<seq, lost, acked>> /\ sk[s].pc = "acked"
        BY <1>17 DEF delivered, WriterOnly
    <2> HIDE DEF ends
    <2>2. /\ DOMAIN m = SinkFields /\ m.ring = sk[s].ring /\ m.inflight = sk[s].inflight
          /\ m.dropped = sk[s].dropped /\ m.stopping = sk[s].stopping
          /\ m.pc \in {"emit", "loop"}
        BY <1>6 DEF SinkFields
    <2> HIDE DEF m
    <2>3. m.inflight # 0 <=> m.pc \in {"write", "requeue"}
        BY <1>6, <2>1, <2>2 DEF SinkOK
    <2> QED
        BY <1>1, <1>2, <2>1, <2>2, <2>3
<1>18. ASSUME NEW s \in Sinks, DialFails(s) PROVE Good
    <2> DEFINE k == [sk[s] EXCEPT !.pc = "loop"]
    <2>1. fail(s, k, 0) /\ UNCHANGED acked /\ sk[s].pc = "dial"
        BY <1>18 DEF DialFails
    <2>2. /\ DOMAIN k = SinkFields /\ k.ring = sk[s].ring /\ k.inflight = sk[s].inflight
          /\ k.dropped = sk[s].dropped /\ k.stopping = sk[s].stopping
          /\ k.inflight # 0 <=> k.pc \in {"write", "requeue"}
        BY <1>6, <2>1 DEF SinkOK, SinkFields
    <2> HIDE DEF k
    <2> QED
        BY <1>1, <1>5, <2>1, <2>2
<1>19. ASSUME NEW s \in Sinks, WriteFails(s) PROVE Good
    <2> DEFINE k == [sk[s] EXCEPT !.pc = "requeue"]
    <2>1. fail(s, k, sk[s].wconn) /\ UNCHANGED acked /\ sk[s].pc = "write"
        BY <1>19 DEF WriteFails
    <2>2. /\ DOMAIN k = SinkFields /\ k.ring = sk[s].ring /\ k.inflight = sk[s].inflight
          /\ k.dropped = sk[s].dropped /\ k.stopping = sk[s].stopping
          /\ k.inflight # 0 <=> k.pc \in {"write", "requeue"}
        BY <1>6, <2>1 DEF SinkOK, SinkFields
    <2> HIDE DEF k
    <2> QED
        BY <1>1, <1>5, <2>1, <2>2
<1>20. ASSUME NEW s \in Sinks, takeLocked(s) PROVE Good
    <2> DEFINE g == sk[s].ring
               L == Len(g)
               t == Tail(g)
               m == [sk[s] EXCEPT !.pc = "write", !.inflight = Head(g), !.ring = t,
                                  !.wconn = sk[s].conn]
    <2>1. SetSink(s, m) /\ UNCHANGED <<seq, lost, acked>> /\ sk[s].pc = "loop" /\ g # <<>>
        BY <1>20 DEF takeLocked, WriterOnly
    <2>2. g \in Seq(Nat) /\ L \in Nat /\ L >= 1 /\ DOMAIN g = 1..L
        BY <1>6, <2>1 DEF SinkOK
    <2>3. /\ t \in Seq(Nat) /\ Len(t) = L - 1 /\ DOMAIN t = 1..(L - 1)
          /\ \A i \in 1..(L - 1) : t[i] = g[i + 1]
          /\ Head(g) = g[1]
        BY <2>1, <2>2
    <2>4. /\ acked[s] \in Nat /\ seq \in Nat /\ acked[s] <= seq
          /\ \A i \in 1..L : g[i] \in Nat /\ acked[s] < g[i] /\ g[i] <= seq
          /\ \A i, j \in 1..L : i < j => g[i] < g[j]
          /\ sk[s].inflight = 0 /\ L <= QueueSize + 2 /\ (~sk[s].stopping => L <= QueueSize + 1)
          /\ sk[s].dropped \in Nat
        <3> HIDE DEF g, L
        <3>1. sk[s].ring = g /\ Len(g) = L
            BY DEF g, L
        <3>2. /\ acked[s] \in Nat /\ seq \in Nat /\ acked[s] <= seq /\ sk[s].dropped \in Nat
              /\ \A i \in 1..L : acked[s] < g[i] /\ g[i] <= seq
              /\ \A i, j \in 1..L : i < j => g[i] < g[j]
              /\ sk[s].inflight = 0 /\ L <= QueueSize + 2 /\ (~sk[s].stopping => L <= QueueSize + 1)
            BY <1>6, <2>1, <3>1 DEF SinkOK
        <3>3. \A i \in 1..L : g[i] \in Nat
            BY <2>2
        <3> QED
            BY <3>2, <3>3
    <2>5. Held(sk[s]) = {g[i] : i \in 1..L}
        BY <2>2, <2>4 DEF Held, RingSet
    <2> HIDE DEF t
    <2>6. /\ DOMAIN m = SinkFields /\ m.ring = t /\ m.inflight = g[1] /\ m.pc = "write"
          /\ m.dropped = sk[s].dropped /\ m.stopping = sk[s].stopping
        BY <1>6, <2>3 DEF SinkFields
    <2> HIDE DEF m, g, L
    <2>7. 1 \in 1..L /\ g[1] > 0 /\ g[1] \in Nat
        BY <2>2, <2>4
    <2>8. \A i \in 1..(L - 1) : /\ i + 1 \in 1..L /\ t[i] \in Nat /\ acked[s] < t[i]
                                /\ t[i] <= seq /\ g[1] < t[i]
        BY <2>2, <2>3, <2>4, <2>7, SMTT(30)
    <2>9. \A i, j \in 1..(L - 1) : i < j => t[i] < t[j]
        BY <2>2, <2>3, <2>4
    <2>10. SinkOK(m, acked[s], seq)
        <3>1. m.ring \in Seq(Nat) /\ Len(m.ring) = L - 1 /\ m.inflight \in Nat /\ m.inflight # 0
            BY <2>3, <2>6, <2>7
        <3>2. Len(m.ring) <= QueueSize + 1
            BY <2>2, <2>4, <3>1, QueueAssumption
        <3>3. \A i \in 1..Len(m.ring) :
                 acked[s] < m.ring[i] /\ m.ring[i] <= seq /\ m.inflight < m.ring[i]
            BY <2>6, <2>8, <3>1
        <3>4. \A i, j \in 1..Len(m.ring) : i < j => m.ring[i] < m.ring[j]
            BY <2>6, <2>9, <3>1
        <3>5. acked[s] < m.inflight /\ m.inflight <= seq
            BY <2>4, <2>6, <2>7
        <3> QED
            BY <2>4, <2>6, <3>1, <3>2, <3>3, <3>4, <3>5 DEF SinkOK
    <2>11. Held(m) = {g[1]} \cup {t[i] : i \in 1..(L - 1)}
        <3>1. m.inflight # 0
            BY <2>6, <2>7
        <3>2. RingSet(m) = {t[i] : i \in DOMAIN t}
            BY <2>6 DEF RingSet
        <3> QED
            BY <2>3, <2>6, <3>1, <3>2 DEF Held
    <2>12. \A i \in 1..L : i = 1 \/ (i - 1 \in 1..(L - 1) /\ t[i - 1] = g[i])
        BY <2>2, <2>3
    <2>13. Held(m) = Held(sk[s])
        BY <2>3, <2>5, <2>7, <2>8, <2>11, <2>12
    <2> QED
        BY <1>2, <2>1, <2>10, <2>13
\* The record in flight is the oldest one held, and is acknowledged.
<1>21. ASSUME NEW s \in Sinks, WriteOk(s) PROVE Good
    <2> DEFINE f == sk[s].inflight
               m == [sk[s] EXCEPT !.pc = "acked", !.inflight = 0]
    <2>1. /\ sk' = [sk EXCEPT ![s] = m] /\ acked' = [acked EXCEPT ![s] = f]
          /\ UNCHANGED <<seq, lost>> /\ sk[s].pc = "write"
        BY <1>21 DEF WriteOk, SetSink, WriterOnly
    <2>2. /\ f \in Nat /\ f # 0 /\ acked[s] \in Nat /\ acked[s] < f /\ f <= seq
          /\ \A i \in 1..Len(sk[s].ring) : sk[s].ring[i] \in Nat /\ f < sk[s].ring[i]
          /\ DOMAIN sk[s].ring = 1..Len(sk[s].ring)
        BY <1>6, <2>1 DEF SinkOK
    <2>3. /\ DOMAIN m = SinkFields /\ m.ring = sk[s].ring /\ m.inflight = 0 /\ m.pc = "acked"
          /\ m.dropped = sk[s].dropped /\ m.stopping = sk[s].stopping
        BY <1>6 DEF SinkFields
    <2> HIDE DEF m
    <2>4. SinkOK(m, f, seq)
        <3>1. /\ m.ring \in Seq(Nat) /\ m.dropped \in Nat /\ seq \in Nat
              /\ \A i \in 1..Len(m.ring) : m.ring[i] <= seq
              /\ \A i, j \in 1..Len(m.ring) : i < j => m.ring[i] < m.ring[j]
              /\ Len(m.ring) <= QueueSize + 1
            BY <1>6, <2>2, <2>3 DEF SinkOK
        <3>2. \A i \in 1..Len(m.ring) : f < m.ring[i] /\ 0 < m.ring[i]
            BY <2>2, <2>3
        <3>3. Len(m.ring) <= QueueSize + 2
            BY <3>1, QueueAssumption
        <3> QED
            BY <2>2, <2>3, <3>1, <3>2, <3>3 DEF SinkOK
    <2>5. DataInv'
        BY <2>1, <2>2, <2>4 DEF DataInv
    <2>6. /\ RingSet(m) = RingSet(sk[s]) /\ f \notin RingSet(sk[s])
          /\ \A x \in RingSet(sk[s]) : x \in Nat /\ f < x
        <3>1. RingSet(m) = RingSet(sk[s])
            BY <2>3 DEF RingSet
        <3>2. \A x \in RingSet(sk[s]) : x \in Nat /\ f < x
            BY <2>2 DEF RingSet
        <3> QED
            BY <2>2, <3>1, <3>2
    <2>7. /\ held[s] = {f} \cup RingSet(sk[s])
          /\ held' = [held EXCEPT ![s] = RingSet(sk[s])]
        BY <2>1, <2>2, <2>3, <2>6 DEF held, Held, DataInv
    <2>8. Fifo!Min(held[s]) = f
        <3>1. \A y \in held[s] : y \in Nat /\ f <= y
            BY <2>2, <2>6, <2>7
        <3>2. f \in held[s]
            BY <2>7
        <3> QED
            BY <2>2, <3>1, <3>2 DEF Fifo!Min
    <2>9. held[s] \ {f} = RingSet(sk[s])
        BY <2>6, <2>7
    <2>10. Fifo!Leave(s)
        BY <2>1, <2>2, <2>7, <2>8, <2>9, FifoExpanded
    <2> QED
        BY <2>5, <2>10, FifoExpanded
<1>22. ASSUME NEW s \in Sinks, requeue(s) PROVE Good
    <2> DEFINE g == sk[s].ring
               L == Len(g)
               f == sk[s].inflight
               k == [sk[s] EXCEPT !.pc = "loop", !.inflight = 0, !.wconn = 0]
    <2>1. sk[s].pc = "requeue" /\ UNCHANGED <<seq, acked>>
        BY <1>22 DEF requeue, WriterOnly
    <2>2. /\ g \in Seq(Nat) /\ L \in Nat /\ DOMAIN g = 1..L
          /\ f \in Nat /\ f # 0 /\ acked[s] \in Nat /\ acked[s] < f /\ f <= seq /\ seq \in Nat
          /\ \A i \in 1..L : g[i] \in Nat /\ acked[s] < g[i] /\ g[i] <= seq /\ f < g[i]
          /\ \A i, j \in 1..L : i < j => g[i] < g[j]
          /\ L <= QueueSize + 1 /\ sk[s].dropped \in Nat
        <3>1. g \in Seq(Nat) /\ L \in Nat /\ DOMAIN g = 1..L /\ \A i \in 1..L : g[i] \in Nat
            BY <1>6 DEF SinkOK
        <3>2. f # 0
            BY <1>6, <2>1 DEF SinkOK
        <3> QED
            BY <1>6, <3>1, <3>2 DEF SinkOK
    <2>3. /\ Held(sk[s]) = {f} \cup {g[i] : i \in 1..L}
        BY <2>2 DEF Held, RingSet
    <2>4. CASE L >= QueueSize /\ ~sk[s].stopping
        <3> DEFINE m == [k EXCEPT !.dropped = @ + 1]
        <3>1. sk' = [sk EXCEPT ![s] = m] /\ lost' = lost + (m.dropped - sk[s].dropped)
            BY <1>22, <1>6, <2>4 DEF requeue, Dropping, SetSink, SinkFields
        <3>2. /\ DOMAIN m = SinkFields /\ m.ring = g /\ m.inflight = 0 /\ m.pc = "loop"
              /\ m.dropped = sk[s].dropped + 1 /\ m.stopping = sk[s].stopping
            BY <1>6 DEF SinkFields
        <3> HIDE DEF m
        <3>3. SinkOK(m, acked[s], seq)
            <4>1. L <= QueueSize + 2 /\ \A i \in 1..L : 0 < g[i]
                BY <2>2, QueueAssumption
            <4> HIDE DEF g, f
            <4> QED
                BY <2>2, <3>2, <4>1 DEF SinkOK
        <3>4. lost' = lost + 1 /\ lost' \in Nat
            BY <2>2, <3>1, <3>2 DEF DataInv
        <3>5. DataInv'
            BY <2>1, <3>1, <3>3, <3>4 DEF DataInv
        <3>6. Held(m) = Held(sk[s]) \ {f}
            <4>1. Held(m) = {g[i] : i \in 1..L}
                BY <2>2, <3>2 DEF Held, RingSet
            <4>2. f \notin {g[i] : i \in 1..L}
                BY <2>2
            <4> QED
                BY <2>3, <4>1, <4>2
        <3>7. f \in held[s] /\ held' = [held EXCEPT ![s] = @ \ {f}]
            BY <2>3, <3>1, <3>6 DEF held, DataInv
        <3>8. Fifo!Lose(s)
            BY <2>1, <3>4, <3>7, FifoExpanded
        <3> QED
            BY <3>5, <3>8, FifoExpanded
    <2>5. CASE ~(L >= QueueSize /\ ~sk[s].stopping)
        <3> DEFINE q == <<f>> \o g
                   m == [k EXCEPT !.ring = q]
        <3>1. sk' = [sk EXCEPT ![s] = m] /\ lost' = lost + (m.dropped - sk[s].dropped)
            BY <1>22, <1>6, <2>5 DEF requeue, Dropping, SetSink, SinkFields
        <3>2. /\ q \in Seq(Nat) /\ Len(q) = L + 1 /\ DOMAIN q = 1..(L + 1)
              /\ \A i \in 1..(L + 1) : q[i] = IF i = 1 THEN f ELSE g[i - 1]
            BY <2>2
        <3> HIDE DEF q
        <3>3. /\ DOMAIN m = SinkFields /\ m.ring = q /\ m.inflight = 0 /\ m.pc = "loop"
              /\ m.dropped = sk[s].dropped /\ m.stopping = sk[s].stopping
            BY <1>6 DEF SinkFields
        <3> HIDE DEF m, g, L, f
        <3>4. \A i \in 1..(L + 1) : i # 1 => i - 1 \in 1..L /\ q[i] = g[i - 1]
            BY <2>2, <3>2
        <3>5. /\ \A i \in 1..(L + 1) : /\ q[i] \in Nat /\ acked[s] < q[i] /\ q[i] <= seq
                                       /\ 0 < q[i]
              /\ \A i, j \in 1..(L + 1) : i < j => q[i] < q[j]
            <4>1. ASSUME NEW i \in 1..(L + 1), NEW j \in 1..(L + 1), i < j PROVE q[i] < q[j]
                <5>1. j # 1 /\ j - 1 \in 1..L /\ q[j] = g[j - 1]
                    BY <2>2, <3>4, <4>1
                <5>2. CASE i = 1
                    BY <2>2, <3>2, <5>1, <5>2
                <5>3. CASE i # 1
                    <6>1. i - 1 \in 1..L /\ q[i] = g[i - 1] /\ i - 1 < j - 1
                        BY <2>2, <3>4, <4>1, <5>3
                    <6> QED
                        BY <2>2, <5>1, <6>1
                <5> QED
                    BY <5>2, <5>3
            <4> QED
                BY <2>2, <3>2, <3>4, <4>1
        <3>6. L + 1 <= QueueSize + 2 /\ (~sk[s].stopping => L + 1 <= QueueSize + 1)
            BY <2>2, <2>5, QueueAssumption
        <3>7. SinkOK(m, acked[s], seq)
            BY <2>2, <3>2, <3>3, <3>5, <3>6 DEF SinkOK
        <3>8. Held(m) = Held(sk[s])
            <4>1. Held(m) = {q[i] : i \in 1..(L + 1)}
                BY <3>2, <3>3 DEF Held, RingSet
            <4>2. \A i \in 1..L : i + 1 \in 1..(L + 1) /\ q[i + 1] = g[i]
                BY <2>2, <3>2
            <4>3. 1 \in 1..(L + 1) /\ q[1] = f
                BY <2>2, <3>2
            <4> QED
                BY <2>3, <3>4, <4>1, <4>2, <4>3
        <3>9. UNCHANGED lost
            BY <2>2, <3>1, <3>3 DEF DataInv
        <3> QED
            BY <1>2, <2>1, <3>1, <3>7, <3>8, <3>9 DEF SetSink
    <2> QED
        BY <2>4, <2>5
\* The recovered record may go to another sink than the writer's.
<1>23. ASSUME NEW s \in Sinks, EmitRecovered(s) PROVE Good
    <2> DEFINE k == [sk[s] EXCEPT !.pc = "loop"]
    <2>1. sk[s].pc = "emit" /\ UNCHANGED acked
        BY <1>23 DEF EmitRecovered
    <2>2. /\ DOMAIN k = SinkFields /\ k.ring = sk[s].ring /\ k.inflight = sk[s].inflight
          /\ k.dropped = sk[s].dropped /\ k.stopping = sk[s].stopping
          /\ k.inflight # 0 <=> k.pc \in {"write", "requeue"}
        BY <1>6, <2>1 DEF SinkOK, SinkFields
    <2>3. SinkOK(k, acked[s], seq) /\ Held(k) = Held(sk[s])
        <3> HIDE DEF k
        <3> QED
            BY <1>1, <2>2
    <2>4. CASE current = s
        <3>1. enqueue(s, k, TRUE)
            BY <1>23, <2>4 DEF EmitRecovered
        <3> QED
            BY <1>3, <2>1, <2>2, <2>3, <3>1
    <2>5. CASE current # s /\ current = 0
        <3>1. Dropping(s, k) /\ UNCHANGED seq
            BY <1>23, <2>5 DEF EmitRecovered
        <3> QED
            BY <1>4, <2>1, <2>2, <2>3, <3>1
    <2>6. CASE current # s /\ current # 0
        <3> DEFINE c == appendLocked(sk[current], seq + 1, TRUE)
        <3>1. /\ sk' = [sk EXCEPT ![s] = k, ![current] = c]
              /\ seq' = seq + 1 /\ lost' = lost + (c.dropped - sk[current].dropped)
            BY <1>23, <2>6 DEF EmitRecovered
        <3>2. current \in Sinks
            BY <2>6 DEF ControlInv
        <3> HIDE DEF k, c
        <3>3. /\ DOMAIN sk' = Sinks /\ sk'[current] = c
              /\ \A x \in Sinks \ {current} : Held(sk'[x]) = Held(sk[x])
                                              /\ SinkOK(sk'[x], acked[x], seq)
            BY <2>3, <2>6, <3>1, <3>2 DEF DataInv
        <3> QED
            BY <1>6, <2>1, <3>1, <3>2, <3>3, PushStep DEF c
    <2> QED
        BY <2>4, <2>5, <2>6

\* The settings handler and Apply.
<1>24. ASSUME PutStore PROVE Good
    BY <1>7, <1>8, <1>24 DEF PutStore, AdminOnly
<1>25. ASSUME ApplySwap PROVE Good
    BY <1>7, <1>25 DEF ApplySwap, AdminOnly
<1>26. ASSUME NEW s \in Sinks, stopBegin(s), UNCHANGED <<seq, lost, acked>> PROVE Good
    <2> DEFINE m == [sk[s] EXCEPT !.stopping = TRUE]
    <2>1. /\ DOMAIN m = SinkFields /\ m.ring = sk[s].ring /\ m.inflight = sk[s].inflight
          /\ m.dropped = sk[s].dropped /\ m.stopping
          /\ m.inflight # 0 <=> m.pc \in {"write", "requeue"}
        BY <1>6 DEF SinkOK, SinkFields
    <2>2. SetSink(s, m)
        BY <1>26 DEF stopBegin
    <2> HIDE DEF m
    <2> QED
        BY <1>1, <1>2, <1>26, <2>1, <2>2
<1>27. ASSUME ApplyStop PROVE Good
    BY <1>26, <1>27 DEF ApplyStop, AdminOnly, ControlInv
\* A sink whose writer ended gives up its ring, and the others keep theirs.
<1>28. ASSUME NEW s \in Sinks, sk[s].pc = "exited", sk'[s] = Gone, DOMAIN sk' = Sinks,
              UNCHANGED seq, lost' = lost + Len(sk[s].ring),
              acked' = [acked EXCEPT ![s] = 0],
              \A x \in Sinks \ {s} : Held(sk'[x]) = Held(sk[x]) /\ SinkOK(sk'[x], acked[x], seq)
       PROVE  Good
    <2>1. SinkOK(Gone, 0, seq) /\ Held(Gone) = {}
        <3>1. seq \in Nat /\ QueueSize \in Nat
            BY QueueAssumption DEF DataInv
        <3>2. /\ DOMAIN Gone = SinkFields /\ Gone.ring = <<>> /\ Gone.inflight = 0
              /\ Gone.dropped = 0 /\ Gone.pc = "exited" /\ Gone.stopping
            BY DEF Gone, newSink, SinkFields
        <3> QED
            BY <3>1, <3>2 DEF SinkOK, Held, RingSet
    <2>2. sk[s].inflight = 0 /\ Held(sk[s]) = RingSet(sk[s])
        BY <1>6, <1>28 DEF SinkOK, Held
    <2>3. Len(sk[s].ring) \in Nat /\ Cardinality(held[s]) = Len(sk[s].ring)
        <3>1. Len(sk[s].ring) \in Nat
            BY <1>6 DEF SinkOK
        <3>2. held[s] = RingSet(sk[s])
            BY <2>2 DEF held
        <3> QED
            BY <1>6, <3>1, <3>2, RingCardinality
    <2>4. held' = [held EXCEPT ![s] = {}]
        BY <1>28, <2>1 DEF held
    <2>5. Fifo!Retire(s)
        BY <1>28, <2>3, <2>4, FifoExpanded
    <2>6. DataInv'
        <3>1. lost' \in Nat
            BY <1>28, <2>3 DEF DataInv
        <3>2. acked' \in [Sinks -> Nat] /\ acked'[s] = 0
              /\ \A x \in Sinks \ {s} : acked'[x] = acked[x]
            BY <1>28 DEF DataInv
        <3>3. \A x \in Sinks : SinkOK(sk'[x], acked'[x], seq)
            BY <1>28, <2>1, <3>2
        <3> QED
            BY <1>28, <3>1, <3>2, <3>3 DEF DataInv
    <2> QED
        BY <2>5, <2>6, FifoExpanded
<1>29. ASSUME ApplyStopped PROVE Good
    <2> DEFINE u == Len(sk[ad.prev].ring)
    <2>1. /\ ad.prev \in Sinks /\ sk[ad.prev].pc = "exited" /\ UNCHANGED seq
          /\ lost' = lost + u /\ acked' = [acked EXCEPT ![ad.prev] = 0]
          /\ sk' = [s \in Sinks |-> IF s = ad.prev THEN Gone
                                     ELSE IF s = ad.next
                                     THEN [sk[s] EXCEPT !.dropped = @ + u]
                                     ELSE sk[s]]
        BY <1>29 DEF ApplyStopped, ControlInv
    <2>2. u \in Nat
        BY <1>6, <2>1 DEF SinkOK
    <2>3. ASSUME NEW x \in Sinks \ {ad.prev}
          PROVE  Held(sk'[x]) = Held(sk[x]) /\ SinkOK(sk'[x], acked[x], seq)
        <3> DEFINE m == [sk[x] EXCEPT !.dropped = @ + u]
        <3>0. DOMAIN sk[x] = SinkFields /\ sk[x].dropped \in Nat
            BY <1>6 DEF SinkOK
        <3>1. /\ DOMAIN m = SinkFields /\ m.ring = sk[x].ring /\ m.inflight = sk[x].inflight
              /\ m.dropped \in Nat /\ m.stopping = sk[x].stopping /\ m.pc = sk[x].pc
            BY <2>2, <3>0 DEF SinkFields
        <3> HIDE DEF m
        <3>2. SinkOK(m, acked[x], seq)
            BY <1>6, <3>1 DEF SinkOK
        <3>3. Held(m) = Held(sk[x])
            BY <3>1 DEF Held, RingSet
        <3>4. sk'[x] = m \/ sk'[x] = sk[x]
            BY <2>1 DEF m
        <3> QED
            BY <1>6, <3>2, <3>3, <3>4
    <2> HIDE DEF u
    <2>4. sk'[ad.prev] = Gone /\ DOMAIN sk' = Sinks
        BY <2>1
    <2> QED
        BY <1>28, <2>1, <2>3, <2>4 DEF u
<1>30. ASSUME ApplyStart PROVE Good
    <2> DEFINE k == [sk[ad.next] EXCEPT !.pc = "loop"]
    <2>1. CASE ad.next = 0
        BY <1>7, <1>30, <2>1 DEF ApplyStart, AdminOnly
    <2>2. CASE ad.next # 0
        <3>1. ad.next \in Sinks /\ sk[ad.next].pc = "new" /\ UNCHANGED acked
            BY <1>30, <2>2 DEF ApplyStart, AdminOnly, ControlInv
        <3>2. /\ DOMAIN k = SinkFields /\ k.ring = sk[ad.next].ring
              /\ k.inflight = sk[ad.next].inflight
              /\ k.dropped = sk[ad.next].dropped /\ k.stopping = sk[ad.next].stopping
              /\ k.inflight # 0 <=> k.pc \in {"write", "requeue"}
            BY <1>6, <3>1 DEF SinkOK, SinkFields
        <3>3. \/ enqueue(ad.next, k, FALSE)
              \/ Dropping(ad.next, k) /\ UNCHANGED seq
            BY <1>30, <2>2 DEF ApplyStart
        <3> HIDE DEF k
        <3>4. SinkOK(k, acked[ad.next], seq) /\ Held(k) = Held(sk[ad.next])
            BY <1>1, <3>1, <3>2
        <3> QED
            BY <1>3, <1>4, <3>1, <3>2, <3>3, <3>4
    <2> QED
        BY <2>1, <2>2
<1>31. ASSUME PutEnd PROVE Good
    BY <1>7, <1>8, <1>31 DEF PutEnd, AdminOnly
\* Close.
<1>32. ASSUME CloseBegin PROVE Good
    BY <1>7, <1>32 DEF CloseBegin
<1>33. ASSUME CloseRecord PROVE Good
    BY <1>3, <1>6, <1>33 DEF CloseRecord, ControlInv
<1>34. ASSUME CloseStop PROVE Good
    BY <1>26, <1>34 DEF CloseStop, ControlInv
<1>35. ASSUME CloseStopped PROVE Good
    <2>1. /\ cl.sink \in Sinks /\ sk[cl.sink].pc = "exited" /\ UNCHANGED seq
          /\ lost' = lost + Len(sk[cl.sink].ring) /\ acked' = [acked EXCEPT ![cl.sink] = 0]
          /\ sk' = [sk EXCEPT ![cl.sink] = Gone]
        BY <1>35 DEF CloseStopped, SetSink, ControlInv
    <2>2. /\ sk'[cl.sink] = Gone /\ DOMAIN sk' = Sinks
          /\ \A x \in Sinks \ {cl.sink} : Held(sk'[x]) = Held(sk[x])
                                          /\ SinkOK(sk'[x], acked[x], seq)
        BY <1>6, <2>1 DEF DataInv
    <2> QED
        BY <1>28, <2>1, <2>2
<1>36. ASSUME UNCHANGED fwdVars PROVE Good
    BY <1>7, <1>36 DEF fwdVars
<1> HIDE DEF Good
<1>37. ASSUME NEW s \in Sinks, Writer(s) PROVE Good
    BY <1>12, <1>13, <1>14, <1>15, <1>17, <1>18, <1>19, <1>20, <1>21, <1>22, <1>23, <1>37
    DEF Writer
<1>38. ASSUME Applier \/ CloseBegin \/ Closer PROVE Good
    BY <1>24, <1>25, <1>27, <1>29, <1>30, <1>31, <1>32, <1>33, <1>34, <1>35, <1>38
    DEF Applier, Closer
<1>39. Good
    <2>1. ForwarderNext \/ UNCHANGED fwdVars
        OBVIOUS
    <2> QED
        BY <1>9, <1>10, <1>11, <1>16, <1>36, <1>37, <1>38, <2>1 DEF ForwarderNext
<1> QED
    BY <1>39 DEF Good

LEMMA ForwarderInvAlways == ForwarderSpec => []ForwarderInv /\ SinkIsLossyFifo
<1>control. ASSUME ForwarderInv, [ForwarderNext]_fwdVars
            PROVE  ControlInv'
    <2> USE <1>control
    <2> DEFINE NewStays == \A x \in Sinks : sk[x].pc = "new" => sk'[x].pc = "new"
    <2> USE QueueAssumption, ForwarderBounds DEF ForwarderInv
    <2>1. DOMAIN sk = Sinks /\ \A s \in Sinks : DOMAIN sk[s] = SinkFields
        BY DEF DataInv, SinkOK
    <2>2. \A k, msg, r : DOMAIN k = SinkFields => appendLocked(k, msg, r).pc = k.pc
        BY DEF appendLocked, SinkFields
    \* The queue operations change one sink, and not where its writer stands.
    <2>3. ASSUME NEW s \in Sinks, NEW k, DOMAIN k = SinkFields, NEW r, NEW c,
                 enqueue(s, k, r) \/ Dropping(s, k) \/ fail(s, k, c)
          PROVE  sk'[s].pc = k.pc /\ \A x \in Sinks \ {s} : sk'[x] = sk[x]
        <3> DEFINE down == [k EXCEPT !.conn = IF c = 0 THEN @ ELSE 0, !.outage = TRUE]
        <3>1. DOMAIN down = SinkFields /\ down.pc = k.pc
            BY <2>3 DEF SinkFields
        <3>2. \E m \in {k, down} : enqueue(s, m, r) \/ enqueue(s, m, FALSE) \/ Dropping(s, m)
            BY <2>3 DEF fail
        <3> HIDE DEF down
        <3> QED
            <4>1. PICK m : /\ DOMAIN m = SinkFields /\ m.pc = k.pc
                           /\ enqueue(s, m, r) \/ enqueue(s, m, FALSE) \/ Dropping(s, m)
                BY <2>3, <3>1, <3>2
            <4>2. \/ sk' = [sk EXCEPT ![s] = appendLocked(m, seq + 1, r)]
                  \/ sk' = [sk EXCEPT ![s] = appendLocked(m, seq + 1, FALSE)]
                  \/ sk' = [sk EXCEPT ![s] = m]
                BY <4>1 DEF enqueue, Dropping, SetSink
            <4> QED
                <5>1. ASSUME NEW w, sk' = [sk EXCEPT ![s] = w], w.pc = k.pc
                      PROVE  sk'[s].pc = k.pc /\ \A x \in Sinks \ {s} : sk'[x] = sk[x]
                    BY <2>1, <5>1
                <5>2. \A rr : appendLocked(m, seq + 1, rr).pc = k.pc
                    BY <2>2, <4>1
                <5> QED
                    BY <4>1, <4>2, <5>1, <5>2
    <2>4. ASSUME NEW s \in Sinks, NEW k, DOMAIN k = SinkFields, NEW r, NEW c,
                 enqueue(s, k, r) \/ Dropping(s, k) \/ fail(s, k, c),
                 sk[s].pc = "new" => k.pc = "new"
          PROVE  NewStays
        BY <2>3, <2>4
    <2>5. ASSUME NEW r, Handle(r) PROVE NewStays
        BY <2>1, <2>4, <2>5 DEF Handle, ControlInv
    \* Steps of loggers and writers move no reference to a sink but a logger's own.
    <2>6. ASSUME NewStays, UNCHANGED <<current, made, ad, cl>>,
                 DOMAIN hp' = Threads,
                 \A t \in Threads : /\ DOMAIN hp'[t] = {"pc", "sink", "attempt"}
                                    /\ hp'[t].pc = "push" => hp'[t].sink \in Sinks
          PROVE  ControlInv'
        BY <2>6 DEF ControlInv
    <2>7. ASSUME NEW t \in Threads, Log(t) PROVE ControlInv'
        <3>1. /\ hp' = [hp EXCEPT ![t] = [pc |-> "push", sink |-> current, attempt |-> 1]]
              /\ current \in Sinks /\ UNCHANGED <<sk, current, made, ad, cl>>
            BY <2>7 DEF Log, ControlInv
        <3> QED
            BY <2>6, <3>1 DEF ControlInv
    <2>8. ASSUME NEW t \in Threads, HandlePush(t) PROVE ControlInv'
        <3>1. NewStays /\ UNCHANGED <<current, made, ad, cl>>
            BY <2>1, <2>4, <2>8 DEF HandlePush, ControlInv
        <3> DEFINE again == [pc |-> "push", sink |-> current, attempt |-> hp[t].attempt + 1]
        <3>2. DOMAIN again = {"pc", "sink", "attempt"} /\ again.sink = current
            OBVIOUS
        <3>3. /\ DOMAIN hp = Threads
              /\ \/ hp' = [hp EXCEPT ![t] = Idle]
                 \/ current # 0 /\ hp' = [hp EXCEPT ![t] = again]
            BY <2>8 DEF HandlePush, ControlInv
        <3> HIDE DEF again
        <3>4. PICK w : /\ hp' = [hp EXCEPT ![t] = w] /\ DOMAIN w = {"pc", "sink", "attempt"}
                       /\ w.pc = "push" => w.sink \in Sinks
            BY <3>2, <3>3 DEF ControlInv, Idle
        <3> QED
            BY <2>6, <3>1, <3>3, <3>4 DEF ControlInv
    <2>9. ASSUME NEW s \in Sinks, watch(s) PROVE ControlInv'
        <3>1. NewStays
            BY <2>1, <2>4, <2>9 DEF watch
        <3> QED
            BY <2>6, <2>9, <3>1 DEF watch, ControlInv
    <2>10. ASSUME NEW s \in Sinks, StopTimer(s) PROVE ControlInv'
        <3>1. NewStays
            BY <2>1, <2>10 DEF StopTimer, SetSink, SinkFields
        <3> QED
            BY <2>6, <2>10, <3>1 DEF StopTimer, ControlInv
    <2>11. ASSUME NEW s \in Sinks, Writer(s) PROVE ControlInv'
        <3>1. UNCHANGED <<current, made, ad, cl, hp>>
            BY <2>11 DEF Writer, WriterExits, WriterReconnects, DialOk, connected, DialFails,
                         takeLocked, WriteOk, WriteFails, requeue, delivered, EmitRecovered,
                         WriterOnly, WriterStep
        <3>2. sk[s].pc # "new"
            BY <2>11 DEF Writer, WriterExits, WriterReconnects, DialOk, connected, DialFails,
                         takeLocked, WriteOk, WriteFails, requeue, delivered, EmitRecovered
        <3>3. \A x \in Sinks \ {s} : sk'[x].pc = sk[x].pc
            <4>1. ASSUME NEW k, SetSink(s, k) \/ Dropping(s, k)
                  PROVE  \A x \in Sinks \ {s} : sk'[x].pc = sk[x].pc
                BY <2>1, <4>1 DEF SetSink, Dropping
            <4>2. CASE WriterExits(s) \/ WriterReconnects(s) \/ DialOk(s) \/ connected(s)
                       \/ takeLocked(s) \/ WriteOk(s) \/ requeue(s) \/ delivered(s)
                BY <4>1, <4>2 DEF WriterExits, WriterReconnects, DialOk, connected,
                                  takeLocked, WriteOk, requeue, delivered
            <4>3. CASE DialFails(s) \/ WriteFails(s)
                <5>1. PICK k, c : DOMAIN k = SinkFields /\ fail(s, k, c)
                    <6>1. \A x : DOMAIN [sk[s] EXCEPT !.pc = x] = SinkFields
                        BY <2>1
                    <6> QED
                        BY <4>3, <6>1 DEF DialFails, WriteFails
                <5> QED
                    BY <2>3, <5>1
            <4>4. CASE EmitRecovered(s)
                <5> DEFINE k == [sk[s] EXCEPT !.pc = "loop"]
                <5>1. DOMAIN k = SinkFields
                    BY <2>1
                <5>2. \/ enqueue(s, k, TRUE)
                      \/ Dropping(s, k)
                      \/ /\ current \in Sinks /\ current # s
                         /\ sk' = [sk EXCEPT ![s] = k,
                                             ![current] = appendLocked(sk[current], seq + 1, TRUE)]
                    BY <4>4 DEF EmitRecovered, ControlInv
                <5> HIDE DEF k
                <5>3. CASE current \in Sinks /\ current # s
                           /\ sk' = [sk EXCEPT ![s] = k,
                                               ![current] = appendLocked(sk[current], seq + 1, TRUE)]
                    <6> DEFINE c == appendLocked(sk[current], seq + 1, TRUE)
                    <6>1. c.pc = sk[current].pc
                        BY <2>1, <2>2, <5>3
                    <6>2. sk' = [sk EXCEPT ![s] = k, ![current] = c]
                        BY <5>3
                    <6> HIDE DEF c
                    <6> QED
                        BY <2>1, <5>3, <6>1, <6>2
                <5> QED
                    BY <2>3, <5>1, <5>2, <5>3
            <4> QED
                BY <2>11, <4>2, <4>3, <4>4 DEF Writer
        <3> QED
            BY <2>6, <3>1, <3>2, <3>3 DEF ControlInv
    \* The settings handler: made counts the sinks, at most one per stored change.
    <2>12. ASSUME PutStore PROVE ControlInv'
        <3>1. NewStays
            BY <2>5, <2>12 DEF PutStore
        <3> QED
            BY <2>12, <3>1 DEF PutStore, AdminOnly, ControlInv
    <2>13. ASSUME ApplySwap PROVE ControlInv'
        <3>1. ad.pc = "swap" /\ made + 1 \in Sinks
            BY <2>13 DEF ApplySwap, ControlInv, Sinks
        <3>2. /\ UNCHANGED <<sk, hp, cl>>
              /\ \/ current' = made + 1 /\ made' = made + 1
                 \/ current' = 0 /\ made' = made
              /\ \/ current = 0 /\ ad' = [ad EXCEPT !.pc = "start", !.prev = current, !.next = current']
                 \/ /\ current \in Sinks
                    /\ ad' = [ad EXCEPT !.pc = "stop", !.prev = current, !.next = current']
            BY <2>13 DEF ApplySwap, AdminOnly, ControlInv
        <3>3. current' # 0 => current' <= made' /\ sk[current'].pc = "new" /\ current' \in Sinks
            BY <3>1, <3>2 DEF ControlInv
        <3>4. /\ ad'.next = current' /\ ad'.puts = ad.puts /\ ad'.pc \in {"start", "stop"}
              /\ DOMAIN ad' = DOMAIN ad /\ (ad'.pc = "stop" => ad'.prev \in Sinks)
            BY <3>2 DEF ControlInv
        <3>5. /\ made' \in Nat /\ made' <= ad'.puts + 1
              /\ \A s \in Sinks : s > made' => sk'[s].pc = "new"
            BY <3>1, <3>2, <3>4 DEF ControlInv, Sinks
        <3> QED
            BY <3>2, <3>3, <3>4, <3>5 DEF ControlInv
    <2>14. ASSUME NEW s \in Sinks, stopBegin(s) PROVE NewStays
        BY <2>1, <2>14 DEF stopBegin, SetSink, SinkFields
    <2>15. ASSUME ApplyStop PROVE ControlInv'
        <3>1. NewStays
            BY <2>14, <2>15 DEF ApplyStop, ControlInv
        <3> QED
            BY <2>15, <3>1 DEF ApplyStop, AdminOnly, ControlInv
    <2>16. ASSUME ApplyStopped PROVE ControlInv'
        <3>1. NewStays
            BY <2>1, <2>16 DEF ApplyStopped, SinkFields
        <3> QED
            BY <2>16, <3>1 DEF ApplyStopped, ControlInv
    <2>17. ASSUME ApplyStart PROVE ControlInv'
        <3> DEFINE k == [sk[ad.next] EXCEPT !.pc = "loop"]
        <3>1. \A x \in Sinks : x > made /\ sk[x].pc = "new" => sk'[x].pc = "new"
            <4>1. CASE ad.next = 0
                BY <2>17, <4>1 DEF ApplyStart
            <4>2. CASE ad.next # 0
                <5>1. ad.next \in Sinks /\ ad.next <= made /\ DOMAIN k = SinkFields
                    BY <2>1, <2>17, <4>2 DEF ApplyStart, ControlInv
                <5>2. enqueue(ad.next, k, FALSE) \/ Dropping(ad.next, k)
                    BY <2>17, <4>2 DEF ApplyStart
                <5>3. \A x \in Sinks \ {ad.next} : sk'[x] = sk[x]
                    <6> HIDE DEF k
                    <6> QED
                        BY <2>3, <5>1, <5>2
                <5>4. \A x \in Sinks : x > made => x # ad.next
                    BY <5>1 DEF Sinks, ControlInv
                <5> QED
                    BY <5>3, <5>4
            <4> QED
                BY <4>1, <4>2
        <3> QED
            BY <2>17, <3>1 DEF ApplyStart, AdminOnly, ControlInv
    <2>18. ASSUME PutEnd PROVE ControlInv'
        <3>1. NewStays
            BY <2>5, <2>18 DEF PutEnd
        <3> QED
            BY <2>18, <3>1 DEF PutEnd, AdminOnly, ControlInv
    \* Close.
    <2>19. ASSUME CloseBegin PROVE ControlInv'
        BY <2>19 DEF CloseBegin, ControlInv
    <2>20. ASSUME CloseRecord PROVE ControlInv'
        <3>1. NewStays
            BY <2>1, <2>4, <2>20 DEF CloseRecord, ControlInv
        <3> QED
            BY <2>20, <3>1 DEF CloseRecord, ControlInv
    <2>21. ASSUME CloseStop PROVE ControlInv'
        <3>1. NewStays
            BY <2>14, <2>21 DEF CloseStop, ControlInv
        <3> QED
            BY <2>21, <3>1 DEF CloseStop, ControlInv
    <2>22. ASSUME CloseStopped PROVE ControlInv'
        <3>1. NewStays
            BY <2>1, <2>22 DEF CloseStopped, SetSink
        <3> QED
            BY <2>22, <3>1 DEF CloseStopped, ControlInv
    <2>23. ASSUME UNCHANGED fwdVars PROVE ControlInv'
        BY <2>23 DEF fwdVars, ControlInv
    <2>24. ASSUME Applier \/ CloseBegin \/ Closer PROVE ControlInv'
        BY <2>12, <2>13, <2>15, <2>16, <2>17, <2>18, <2>19, <2>20, <2>21, <2>22, <2>24
        DEF Applier, Closer
    <2> HIDE DEF ForwarderInv
    <2> QED
        BY <2>7, <2>8, <2>9, <2>10, <2>11, <2>23, <2>24 DEF ForwarderNext
<1>1. ForwarderInit => ForwarderInv /\ Fifo!FifoInit
    <2> SUFFICES ASSUME ForwarderInit PROVE ForwarderInv /\ Fifo!FifoInit
        OBVIOUS
    <2> USE QueueAssumption, ForwarderBounds
    <2>1. /\ DOMAIN newSink = SinkFields /\ newSink.ring = <<>> /\ newSink.inflight = 0
          /\ newSink.dropped = 0 /\ newSink.pc = "new"
        BY DEF newSink, SinkFields
    <2>2. SinkOK(newSink, 0, 0) /\ Held(newSink) = {}
        BY <2>1 DEF SinkOK, Held, RingSet
    <2>3. sk = [s \in Sinks |-> newSink] /\ acked = [s \in Sinks |-> 0] /\ seq = 0 /\ lost = 0
        BY DEF ForwarderInit
    <2>4. DataInv
        BY <2>2, <2>3 DEF DataInv
    <2>5. ControlInv
        <3>1. 1 \in Sinks
            BY DEF Sinks
        <3>2. current \in {0, 1} /\ made = current /\ hp = [t \in Threads |-> Idle]
              /\ cl = [pc |-> "idle", sink |-> 0]
            BY DEF ForwarderInit
        <3>3. /\ DOMAIN ad = {"pc", "prev", "next", "wasEnabled", "enabled", "puts"}
              /\ ad.pc \in {"idle", "start"} /\ ad.next = current /\ ad.puts = 0
            BY DEF ForwarderInit
        <3> QED
            BY <2>1, <2>3, <3>1, <3>2, <3>3 DEF ControlInv, Idle
    <2>6. held = [s \in Sinks |-> {}]
        BY <2>2, <2>3 DEF held
    <2> QED
        BY <2>3, <2>4, <2>5, <2>6, FifoExpanded DEF ForwarderInv
<1>2. ASSUME ForwarderInv, [ForwarderNext]_fwdVars PROVE ForwarderInv' /\ FifoStep
    BY <1>2, DataStep, <1>control DEF ForwarderInv
<1> QED
    BY <1>1, <1>2, PTL DEF ForwarderSpec, SinkIsLossyFifo, Fifo!FifoSpec, FifoStep

(* The ring never outgrows its slots, and neither repeats a record nor holds *)
(* the one in flight: push, requeue of a failed write, the reserved records  *)
(* of Close and of a recovery share QueueSize + 2 slots in every order.      *)
THEOREM RingFitsAlways == ForwarderSpec => []RingFits
<1>1. ForwarderInv => RingFits
    <2> SUFFICES ASSUME ForwarderInv, NEW s \in Sinks
                 PROVE  /\ Len(sk[s].ring) <= QueueSize + 2
                        /\ ~sk[s].stopping => Len(sk[s].ring) <= QueueSize + 1
                        /\ Cardinality(InRing(s)) = Len(sk[s].ring)
                        /\ InFlight(s) \cap InRing(s) = {}
        BY DEF RingFits
    <2>1. SinkOK(sk[s], acked[s], seq)
        BY DEF ForwarderInv, DataInv
    <2>2. Cardinality(InRing(s)) = Len(sk[s].ring)
        BY <2>1, RingCardinality DEF InRing, RingSet
    <2>3. InFlight(s) \cap InRing(s) = {}
        <3>1. /\ sk[s].inflight \in Nat /\ DOMAIN sk[s].ring = 1..Len(sk[s].ring)
              /\ \A i \in 1..Len(sk[s].ring) : /\ sk[s].ring[i] \in Nat
                                               /\ sk[s].inflight < sk[s].ring[i]
            BY <2>1 DEF SinkOK
        <3> QED
            BY <3>1 DEF InFlight, InRing
    <2>4. Len(sk[s].ring) <= QueueSize + 2
        BY <2>1, QueueAssumption DEF SinkOK
    <2> QED
        BY <2>1, <2>2, <2>3, <2>4 DEF SinkOK
<1> QED
    BY <1>1, ForwarderInvAlways, PTL

(* The forwarder implements LossyFifo: through failed writes, requeues,      *)
(* overflow, a sink's replacement and shutdown, every step is a step of the  *)
(* queue of one sink, or changes no queue.                                   *)
THEOREM SinkIsLossyFifoAlways == ForwarderSpec => SinkIsLossyFifo
BY ForwarderInvAlways, PTL

=============================================================================
