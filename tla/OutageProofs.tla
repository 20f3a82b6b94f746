---------------------------- MODULE OutageProofs ----------------------------
(***************************************************************************)
(* The outage engine, for every Threshold >= 1.  First the fold of         *)
(* Hysteresis over any sequence of results; then the shared rows of        *)
(* Outage, for every clock and cache lifetime and any number of removals,  *)
(* crashes and sweeps.                                                     *)
(*                                                                         *)
(* NoOverlap is not inductive: that a new event begins after the last one  *)
(* ended depends on the dates kept for the running streaks.  FoldInv adds  *)
(* them: the dates of a streak lie between the events already closed (or   *)
(* the opening of the event the streak may close) and the newest result.   *)
(*                                                                         *)
(* That every open event is owned is not inductive.  OwnedInv adds what    *)
(* each writer still knows when it commits: the ingest transaction that    *)
(* the pointer it read is the committed one, and that it opens an event    *)
(* only where there is none or it closes the one there is (a close needs   *)
(* a date, so the streaks are dated); the removal that the rows it holds   *)
(* are all that is open but for the ones that slipped in.                  *)
(***************************************************************************)
EXTENDS Hysteresis, Outage, TLAPS

(* The pointer names the only open row, which is the newest. *)
Pointer(s, evs) ==
    /\ s.openId = 0 <=> s.kind = NoKind
    /\ s.openId # 0 => s.openId = Len(evs) /\ evs[s.openId].kind = s.kind
    /\ \A i \in 1..Len(evs) : evs[i].closed = 0 <=> i = s.openId

(* Dates of the rows. *)
Dates(s, evs) ==
    /\ \A i \in 1..Len(evs) : 0 < evs[i].opened /\ evs[i].opened <= s.lastTime
    /\ \A i \in 1..Len(evs) : evs[i].closed <= s.lastTime
    /\ \A i \in 1..Len(evs) : evs[i].closed # 0 => evs[i].opened <= evs[i].closed
    /\ \A i, j \in 1..Len(evs) : i < j => evs[i].closed <= evs[j].opened

(* Dates of the running streaks. *)
Streaks(s, evs) ==
    /\ s.fails > 0 => /\ 0 < s.firstFail /\ s.firstFail <= s.lastTime
                      /\ \A i \in 1..Len(evs) : evs[i].closed <= s.firstFail
                      /\ s.kind = Degraded => evs[s.openId].opened <= s.firstFail
    /\ s.oks > 0 => /\ 0 < s.firstOK /\ s.firstOK <= s.lastTime
                    /\ s.kind = Failing => evs[s.openId].opened <= s.firstOK
    /\ s.degraded > 0 => /\ s.oks > 0
                         /\ s.firstOK <= s.firstDegraded /\ s.firstDegraded <= s.lastTime
                         /\ \A i \in 1..Len(evs) : evs[i].closed <= s.firstDegraded
    /\ s.clean > 0 => /\ s.oks > 0
                      /\ 0 < s.firstClean /\ s.firstClean <= s.lastTime
                      /\ s.kind = Degraded => evs[s.openId].opened <= s.firstClean
    /\ s.fails = 0 \/ s.oks = 0
    /\ s.degraded = 0 \/ s.clean = 0

FoldInvOf(s, evs) == Pointer(s, evs) /\ Dates(s, evs) /\ Streaks(s, evs)

FoldInv ==
    /\ st \in State
    /\ eventRows \in Seq(Event)
    /\ FoldInvOf(st, eventRows)

-----------------------------------------------------------------------------

(* What the shapes say of the single columns, and that the kinds differ. *)
LEMMA Columns ==
    /\ \A s \in State :
          /\ s.fails \in Nat /\ s.oks \in Nat /\ s.degraded \in Nat /\ s.clean \in Nat
          /\ s.firstFail \in Nat /\ s.firstOK \in Nat /\ s.firstDegraded \in Nat
          /\ s.firstClean \in Nat /\ s.lastTime \in Nat /\ s.openId \in Nat
          /\ s.kind \in Kinds \cup {NoKind}
    /\ \A evs \in Seq(Event) :
          /\ Len(evs) \in Nat /\ DOMAIN evs = 1..Len(evs)
          /\ \A i \in 1..Len(evs) : evs[i] \in Event
          /\ \A i \in 1..Len(evs) : evs[i].opened \in Nat /\ evs[i].closed \in Nat
    /\ Failing # Degraded /\ Failing # NoKind /\ Degraded # NoKind
    /\ Kinds = {Failing, Degraded}
    /\ NoKind \notin Kinds
<1>1. ASSUME NEW s \in State
      PROVE  /\ s.fails \in Nat /\ s.oks \in Nat /\ s.degraded \in Nat /\ s.clean \in Nat
             /\ s.firstFail \in Nat /\ s.firstOK \in Nat /\ s.firstDegraded \in Nat
             /\ s.firstClean \in Nat /\ s.lastTime \in Nat /\ s.openId \in Nat
             /\ s.kind \in Kinds \cup {NoKind}
  BY DEF State
<1>2. ASSUME NEW evs \in Seq(Event)
      PROVE  /\ Len(evs) \in Nat /\ DOMAIN evs = 1..Len(evs)
             /\ \A i \in 1..Len(evs) : evs[i] \in Event
             /\ \A i \in 1..Len(evs) : evs[i].opened \in Nat /\ evs[i].closed \in Nat
  <2>1. \A i \in 1..Len(evs) : evs[i] \in Event
    OBVIOUS
  <2>2. \A e \in Event : e.opened \in Nat /\ e.closed \in Nat
    BY DEF Event
  <2> QED
    BY <2>1, <2>2
<1>3. /\ Failing # Degraded /\ Failing # NoKind /\ Degraded # NoKind
      /\ Kinds = {Failing, Degraded}
      /\ NoKind \notin Kinds
  BY DEF Kinds, Failing, Degraded, NoKind
<1> QED
  BY <1>1, <1>2, <1>3

(* Closing the open row at a date no streak still alive precedes. *)
LEMMA CloseKeepsInv ==
    ASSUME NEW s \in State, NEW evs \in Seq(Event), FoldInvOf(s, evs), s.openId # 0,
           NEW at \in Nat, 0 < at, at <= s.lastTime,
           evs[s.openId].opened <= at,
           s.fails > 0 => at <= s.firstFail,
           s.degraded > 0 => at <= s.firstDegraded,
           NEW z, z = [s EXCEPT !.openId = 0, !.kind = NoKind],
           NEW c, c = closeEvent(evs, s.openId, at)
    PROVE  z \in State /\ c \in Seq(Event) /\ FoldInvOf(z, c)
<1> DEFINE n == Len(evs)
<1>p. Pointer(s, evs) /\ Dates(s, evs) /\ Streaks(s, evs)
  BY DEF FoldInvOf
<1>e. /\ n \in Nat /\ DOMAIN evs = 1..n
      /\ \A i \in 1..n : evs[i] \in Event
      /\ \A i \in 1..n : evs[i].opened \in Nat /\ evs[i].closed \in Nat
  BY Columns
<1>1. s.openId = n /\ n \in 1..n
  BY <1>p, <1>e, Columns DEF Pointer
<1>2. evs[n].closed = 0
  BY <1>1, <1>p DEF Pointer
<1>3. PICK e : e = [evs[n] EXCEPT !.closed = at]
  OBVIOUS
<1>4. e \in Event /\ e.closed = at /\ e.opened = evs[n].opened /\ e.kind = evs[n].kind
  <2>1. \A x \in Event : LET y == [x EXCEPT !.closed = at]
                         IN  y \in Event /\ y.closed = at /\ y.opened = x.opened /\ y.kind = x.kind
    BY DEF Event
  <2> QED
    BY <1>1, <1>3, <1>e, <2>1
<1>5. c = [evs EXCEPT ![n] = e]
  BY <1>1, <1>2, <1>3 DEF closeEvent
<1>6. c \in Seq(Event) /\ Len(c) = n
  BY <1>1, <1>4, <1>5
<1>7. c[n] = e /\ \A i \in 1..n : i # n => c[i] = evs[i]
  BY <1>1, <1>5, <1>e
<1>8. /\ \A i \in 1..n : c[i].opened = evs[i].opened
      /\ c[n].closed = at
      /\ \A i \in 1..n : i # n => c[i].closed = evs[i].closed
  BY <1>1, <1>4, <1>7
<1> HIDE DEF n
<1>9. /\ z \in State /\ z.openId = 0 /\ z.kind = NoKind
      /\ z.fails = s.fails /\ z.oks = s.oks /\ z.degraded = s.degraded /\ z.clean = s.clean
      /\ z.firstFail = s.firstFail /\ z.firstOK = s.firstOK
      /\ z.firstDegraded = s.firstDegraded /\ z.firstClean = s.firstClean
      /\ z.lastTime = s.lastTime
  BY DEF State
<1>10. Pointer(z, c)
  BY <1>p, <1>1, <1>6, <1>8, <1>9, <1>e, Columns DEF Pointer, n
<1>11. Dates(z, c)
  <2>2. \A i \in 1..n : 0 < c[i].opened /\ c[i].opened <= z.lastTime
    BY <1>p, <1>8, <1>9 DEF Dates, n
  <2>3. \A i \in 1..n : c[i].closed <= z.lastTime
    BY <1>p, <1>8, <1>9 DEF Dates, n
  <2>4. \A i \in 1..n : c[i].closed # 0 => c[i].opened <= c[i].closed
    BY <1>p, <1>1, <1>8 DEF Dates, n
  <2>5. \A i, j \in 1..n : i < j => c[i].closed <= c[j].opened
    BY <1>p, <1>e, <1>1, <1>8 DEF Dates, n
  <2> QED
    BY <1>6, <2>2, <2>3, <2>4, <2>5 DEF Dates, n
<1>12. Streaks(z, c)
  BY <1>p, <1>1, <1>6, <1>8, <1>9, <1>e, Columns DEF Streaks, n
<1> QED
  BY <1>6, <1>9, <1>10, <1>11, <1>12 DEF FoldInvOf

(* Opening a row, when none is open, at a date no closed row exceeds. *)
LEMMA OpenKeepsInv ==
    ASSUME NEW s \in State, NEW evs \in Seq(Event), FoldInvOf(s, evs), s.openId = 0,
           NEW k \in Kinds, NEW at \in Nat, 0 < at, at <= s.lastTime,
           \A i \in 1..Len(evs) : evs[i].closed <= at,
           k = Failing => s.oks = 0,
           k = Degraded => s.fails = 0 /\ s.clean = 0,
           NEW z, z = [s EXCEPT !.openId = Len(evs) + 1, !.kind = k]
    PROVE  /\ openIds(evs, k) = {}
           /\ z \in State
           /\ openEvent(evs, k, at) \in Seq(Event)
           /\ FoldInvOf(z, openEvent(evs, k, at))
<1> DEFINE n == Len(evs)
           e == [kind |-> k, opened |-> at, closed |-> 0]
           c == Append(evs, e)
<1>p. Pointer(s, evs) /\ Dates(s, evs) /\ Streaks(s, evs)
  BY DEF FoldInvOf
<1>e. /\ n \in Nat /\ DOMAIN evs = 1..n
      /\ \A i \in 1..n : evs[i] \in Event
      /\ \A i \in 1..n : evs[i].opened \in Nat /\ evs[i].closed \in Nat
  BY Columns
<1>1. \A i \in 1..n : evs[i].closed # 0
  BY <1>p DEF Pointer
<1>2. openIds(evs, k) = {}
  BY <1>e, <1>1 DEF openIds
<1>3. openEvent(evs, k, at) = c
  BY <1>2 DEF openEvent
<1>4. e \in Event /\ e.kind = k /\ e.opened = at /\ e.closed = 0
  BY DEF Event
<1> HIDE DEF e
<1>5. c \in Seq(Event) /\ Len(c) = n + 1
  BY <1>4
<1>6. c[n + 1] = e /\ \A i \in 1..n : c[i] = evs[i]
  BY <1>4, <1>e
<1> HIDE DEF c
<1>7. 1..(n + 1) = (1..n) \cup {n + 1}
  BY <1>e
<1>8. /\ z \in State /\ z.openId = n + 1 /\ z.kind = k
      /\ z.fails = s.fails /\ z.oks = s.oks /\ z.degraded = s.degraded /\ z.clean = s.clean
      /\ z.firstFail = s.firstFail /\ z.firstOK = s.firstOK
      /\ z.firstDegraded = s.firstDegraded /\ z.firstClean = s.firstClean
      /\ z.lastTime = s.lastTime
  <2>1. PICK m \in Nat : m = n + 1
    BY <1>e
  <2>2. z = [s EXCEPT !.openId = m, !.kind = k]
    BY <2>1
  <2>3. z \in State /\ z.openId = m /\ z.kind = k
    BY <2>2 DEF State
  <2> QED
    BY <2>1, <2>2, <2>3 DEF State
<1>9. Pointer(z, c)
  <2>1. k # NoKind
    BY Columns
  <2> QED
    BY <1>1, <1>4, <1>5, <1>6, <1>8, <1>e, <2>1 DEF Pointer
<1>10. Dates(z, c)
  <2>1. \A i \in 1..(n + 1) : 0 < c[i].opened /\ c[i].opened <= z.lastTime
    BY <1>p, <1>4, <1>6, <1>7, <1>8 DEF Dates
  <2>2. \A i \in 1..(n + 1) : c[i].closed <= z.lastTime
    <3>1. s.lastTime \in Nat
      BY Columns
    <3> QED
      BY <1>p, <1>4, <1>6, <1>7, <1>8, <3>1 DEF Dates
  <2>3. \A i \in 1..(n + 1) : c[i].closed # 0 => c[i].opened <= c[i].closed
    BY <1>p, <1>4, <1>6, <1>7 DEF Dates
  <2>4. \A i, j \in 1..(n + 1) : i < j => c[i].closed <= c[j].opened
    BY <1>p, <1>4, <1>6, <1>7, <1>e DEF Dates
  <2> QED
    BY <1>5, <2>1, <2>2, <2>3, <2>4 DEF Dates
<1>11. Streaks(z, c)
  <2>1. \A b \in Nat : (\A i \in 1..n : evs[i].closed <= b) => \A i \in 1..(n + 1) : c[i].closed <= b
    BY <1>4, <1>6, <1>7
  <2>3. s.fails > 0 => \A i \in 1..(n + 1) : c[i].closed <= s.firstFail
    BY <1>p, <2>1, Columns DEF Streaks
  <2>4. s.degraded > 0 => \A i \in 1..(n + 1) : c[i].closed <= s.firstDegraded
    BY <1>p, <2>1, Columns DEF Streaks
  <2>5. s.fails > 0 => z.kind # Degraded
    BY <1>8, Columns
  <2>6. s.clean > 0 => z.kind # Degraded
    BY <1>8, Columns
  <2>7. s.oks > 0 => z.kind # Failing
    BY <1>8, Columns
  <2> QED
    BY <1>p, <1>5, <1>8, <2>3, <2>4, <2>5, <2>6, <2>7 DEF Streaks
<1> QED
  BY <1>2, <1>3, <1>5, <1>8, <1>9, <1>10, <1>11 DEF FoldInvOf

(* Executing the ops the streaks decide keeps the invariant. *)
LEMMA OpsKeepInv ==
    ASSUME NEW s \in State, NEW evs \in Seq(Event), NEW v \in Verdicts, FoldInvOf(s, evs),
           NEW o, o = ops(s, v),
           NEW c, c = afterClose(evs, s, o)
    PROVE  /\ pointed(c, s, o) \in State
           /\ afterOpen(c, o) \in Seq(Event)
           /\ FoldInvOf(pointed(c, s, o), afterOpen(c, o))
<1> DEFINE Goal == /\ pointed(c, s, o) \in State
                   /\ afterOpen(c, o) \in Seq(Event)
                   /\ FoldInvOf(pointed(c, s, o), afterOpen(c, o))
<1>z. PICK z : z = [s EXCEPT !.openId = 0, !.kind = NoKind]
  OBVIOUS
<1>p. Pointer(s, evs) /\ Streaks(s, evs)
  BY DEF FoldInvOf
<1>t. Threshold \in Nat /\ Threshold > 0
  BY HysteresisAssumption
<1>k. s.kind = Failing \/ s.kind = Degraded \/ s.kind = NoKind
  BY Columns
<1>n. ASSUME o = noOps PROVE Goal
  <2>1. o.close = 0 /\ o.open = NoKind
    BY <1>n DEF noOps
  <2>2. c = evs /\ afterOpen(c, o) = c /\ pointed(c, s, o) = s
    BY <2>1 DEF afterClose, afterOpen, pointed
  <2> QED
    BY <2>2
<1>o. ASSUME s.kind = NoKind, o.close = 0,
             NEW k \in Kinds, NEW at \in Nat, o.open = k, o.at = at,
             0 < at, at <= s.lastTime,
             \A i \in 1..Len(evs) : evs[i].closed <= at,
             k = Failing => s.oks = 0,
             k = Degraded => s.fails = 0 /\ s.clean = 0
      PROVE Goal
  <2>1. s.openId = 0 /\ k # NoKind
    BY <1>o, <1>p, Columns DEF Pointer
  <2>2. c = evs
    BY <1>o DEF afterClose
  <2>3. PICK y : y = [s EXCEPT !.openId = Len(evs) + 1, !.kind = k]
    OBVIOUS
  <2>4. /\ openIds(evs, k) = {} /\ y \in State /\ openEvent(evs, k, at) \in Seq(Event)
        /\ FoldInvOf(y, openEvent(evs, k, at))
    BY <2>1, <2>3, <1>o, OpenKeepsInv
  <2>5. pointed(c, s, o) = y
    BY <1>o, <2>1, <2>2, <2>3, <2>4 DEF pointed, openedId
  <2>6. afterOpen(c, o) = openEvent(evs, k, at)
    BY <1>o, <2>1, <2>2 DEF afterOpen
  <2> QED
    BY <2>4, <2>5, <2>6
<1>c. ASSUME s.kind # NoKind, NEW at \in Nat, o.close = at, 0 < at, at <= s.lastTime,
             evs[s.openId].opened <= at,
             s.fails > 0 => at <= s.firstFail,
             s.degraded > 0 => at <= s.firstDegraded
      PROVE c \in Seq(Event) /\ z \in State /\ FoldInvOf(z, c)
  <2>1. s.openId # 0
    BY <1>c, <1>p DEF Pointer
  <2>2. c = closeEvent(evs, s.openId, at)
    BY <1>c DEF afterClose
  <2> QED
    BY <1>z, <2>1, <2>2, <1>c, CloseKeepsInv
<1>d. ASSUME c \in Seq(Event), z \in State, FoldInvOf(z, c),
             NEW k \in Kinds, NEW at \in Nat, o.open = k, o.at = at,
             0 < at, at <= s.lastTime,
             \A i \in 1..Len(c) : c[i].closed <= at,
             k = Failing => s.oks = 0,
             k = Degraded => s.fails = 0 /\ s.clean = 0
      PROVE Goal
  <2>1. /\ z.openId = 0 /\ z.lastTime = s.lastTime /\ z.oks = s.oks
        /\ z.fails = s.fails /\ z.clean = s.clean
    BY <1>z DEF State
  <2>2. k # NoKind
    BY <1>d, Columns
  <2>3. PICK y : y = [z EXCEPT !.openId = Len(c) + 1, !.kind = k]
    OBVIOUS
  <2>4. /\ openIds(c, k) = {} /\ y \in State /\ openEvent(c, k, at) \in Seq(Event)
        /\ FoldInvOf(y, openEvent(c, k, at))
    BY <2>1, <2>3, <1>d, OpenKeepsInv
  <2>5. pointed(c, s, o) = [s EXCEPT !.openId = Len(c) + 1, !.kind = k]
    BY <1>d, <2>2, <2>4 DEF pointed, openedId
  <2>6. pointed(c, s, o) = y
    BY <1>z, <2>3, <2>5 DEF State
  <2>7. afterOpen(c, o) = openEvent(c, k, at)
    BY <1>d, <2>2 DEF afterOpen
  <2> QED
    BY <2>4, <2>6, <2>7
<1>x. ASSUME c \in Seq(Event), z \in State, FoldInvOf(z, c), o.open = NoKind, o.close # 0
      PROVE Goal
  <2>1. pointed(c, s, o) = z /\ afterOpen(c, o) = c
    BY <1>x, <1>z DEF pointed, afterOpen
  <2> QED
    BY <1>x, <2>1
<1>1. CASE v = "fail"
  <2>0. o = opsAfterFail(s)
    BY <1>1 DEF ops
  <2>1. CASE s.fails < Threshold \/ s.kind = Failing
    BY <2>0, <2>1, <1>n DEF opsAfterFail
  <2>2. CASE s.fails >= Threshold /\ s.kind = NoKind
    <3>1. o.close = 0 /\ o.open = Failing /\ o.at = s.firstFail
      BY <1>t, <2>0, <2>2, Columns DEF opsAfterFail
    <3>2. /\ s.oks = 0 /\ 0 < s.firstFail /\ s.firstFail <= s.lastTime
          /\ \A i \in 1..Len(evs) : evs[i].closed <= s.firstFail
      BY <1>t, <1>p, <2>2, Columns DEF Streaks
    <3> QED
      BY <2>2, <3>1, <3>2, <1>o, Columns
  <2>3. CASE s.fails >= Threshold /\ s.kind = Degraded
    <3>1. o.close = s.firstFail /\ o.open = Failing /\ o.at = s.firstFail
      BY <1>t, <2>0, <2>3, Columns DEF opsAfterFail
    <3>2. /\ s.oks = 0 /\ s.degraded = 0 /\ s.fails > 0
          /\ 0 < s.firstFail /\ s.firstFail <= s.lastTime
          /\ evs[s.openId].opened <= s.firstFail
      BY <1>t, <1>p, <2>3, Columns DEF Streaks
    <3>3. c \in Seq(Event) /\ z \in State /\ FoldInvOf(z, c)
      BY <2>3, <3>1, <3>2, <1>c, Columns
    <3>4. \A i \in 1..Len(c) : c[i].closed <= s.firstFail
      <4>1. z.fails = s.fails /\ z.firstFail = s.firstFail
        BY <1>z DEF State
      <4> QED
        BY <3>2, <3>3, <4>1 DEF FoldInvOf, Streaks
    <3> QED
      BY <3>1, <3>2, <3>3, <3>4, <1>d, Columns
  <2> QED
    BY <1>t, <1>k, <2>1, <2>2, <2>3, Columns
<1>2. CASE v # "fail"
  <2>0. o = opsAfterOK(s)
    BY <1>2 DEF ops
  <2>1. CASE s.kind = Failing /\ s.oks >= Threshold
    <3>1. /\ o.close = s.firstOK /\ o.at = s.firstDegraded
          /\ o.open = IF s.degraded >= Threshold THEN Degraded ELSE NoKind
      BY <1>t, <2>0, <2>1, Columns DEF opsAfterOK
    <3>2. /\ s.fails = 0 /\ 0 < s.firstOK /\ s.firstOK <= s.lastTime
          /\ evs[s.openId].opened <= s.firstOK
          /\ s.degraded > 0 => s.firstOK <= s.firstDegraded /\ s.firstDegraded <= s.lastTime
          /\ s.degraded > 0 => s.clean = 0
      BY <1>t, <1>p, <2>1, Columns DEF Streaks
    <3>3. c \in Seq(Event) /\ z \in State /\ FoldInvOf(z, c)
      BY <2>1, <3>1, <3>2, <1>c, Columns
    <3>4. CASE s.degraded >= Threshold
      <4>1. s.degraded > 0 /\ 0 < s.firstDegraded
        BY <1>t, <3>2, <3>4, Columns
      <4>2. z.degraded = s.degraded /\ z.firstDegraded = s.firstDegraded
        BY <1>z DEF State
      <4>3. \A i \in 1..Len(c) : c[i].closed <= s.firstDegraded
        BY <3>3, <4>1, <4>2 DEF FoldInvOf, Streaks
      <4> QED
        BY <3>1, <3>2, <3>3, <3>4, <4>1, <4>3, <1>d, Columns
    <3>5. CASE ~(s.degraded >= Threshold)
      BY <3>1, <3>2, <3>3, <3>5, <1>x
    <3> QED
      BY <3>4, <3>5
  <2>2. CASE s.kind = Degraded /\ s.clean >= Threshold
    <3>1. o.close = s.firstClean /\ o.open = NoKind
      BY <1>t, <2>0, <2>2, Columns DEF opsAfterOK, noOps
    <3>2. /\ s.fails = 0 /\ s.degraded = 0 /\ 0 < s.firstClean /\ s.firstClean <= s.lastTime
          /\ evs[s.openId].opened <= s.firstClean
      BY <1>t, <1>p, <2>2, Columns DEF Streaks
    <3>3. c \in Seq(Event) /\ z \in State /\ FoldInvOf(z, c)
      BY <2>2, <3>1, <3>2, <1>c, Columns
    <3> QED
      BY <3>1, <3>2, <3>3, <1>x
  <2>3. CASE s.kind = NoKind /\ s.degraded >= Threshold
    <3>1. o.close = 0 /\ o.open = Degraded /\ o.at = s.firstDegraded
      BY <1>t, <2>0, <2>3, Columns DEF opsAfterOK, noOps
    <3>2. /\ s.fails = 0 /\ s.clean = 0 /\ 0 < s.firstDegraded /\ s.firstDegraded <= s.lastTime
          /\ \A i \in 1..Len(evs) : evs[i].closed <= s.firstDegraded
      BY <1>t, <1>p, <2>3, Columns DEF Streaks
    <3> QED
      BY <2>3, <3>1, <3>2, <1>o, Columns
  <2>4. CASE /\ ~(s.kind = Failing /\ s.oks >= Threshold)
             /\ ~(s.kind = Degraded /\ s.clean >= Threshold)
             /\ ~(s.kind = NoKind /\ s.degraded >= Threshold)
    BY <2>0, <2>4, <1>n DEF opsAfterOK
  <2> QED
    BY <2>1, <2>2, <2>3, <2>4
<1> QED
  BY <1>1, <1>2

-----------------------------------------------------------------------------

(***************************************************************************)
(* For every Threshold and every order of results, late ones included,     *)
(* Apply leaves consistent rows: at most one probe event of the series is  *)
(* open, none ends before it begins, no two overlap, and the pointer of    *)
(* the series names exactly the open one, so no open event is ever left    *)
(* without the streak that can close it.                                   *)
(***************************************************************************)
THEOREM EventRowsConsistentAlways == HysteresisSpec => []EventRowsConsistent
\* Counting one newer result keeps the invariant: a streak that starts now
\* starts after every date the rows carry.
<1>streaks. ASSUME NEW s \in State, NEW evs \in Seq(Event), NEW r \in Result,
                   FoldInvOf(s, evs), isNews(s, r)
            PROVE  streaks(s, r) \in State /\ FoldInvOf(streaks(s, r), evs)
    <2> USE <1>streaks
    <2>t. r.time \in Nat /\ r.time > 0 /\ r.time > s.lastTime
      BY HysteresisAssumption DEF Result, Times, isNews
    <2>p. Pointer(s, evs) /\ Dates(s, evs) /\ Streaks(s, evs)
      BY DEF FoldInvOf
    <2> DEFINE t == r.time
    <2> HIDE DEF t
    <2>u. t \in Nat /\ t > 0 /\ t > s.lastTime
      BY <2>t DEF t
    <2>1. CASE r.verdict = "fail"
      <3>0. streaks(s, r) = afterFail(s, t)
        BY <2>1 DEF streaks, t
      <3>1. afterFail(s, t) \in State
        BY <2>u, Columns DEF afterFail, since, State
      <3>2. Pointer(afterFail(s, t), evs)
        BY <2>p DEF afterFail, Pointer
      <3>3. Dates(afterFail(s, t), evs)
        <4>1. afterFail(s, t).lastTime = t
          BY DEF afterFail
        <4> HIDE DEF afterFail
        <4> QED
          BY <2>p, <2>u, <4>1, Columns DEF Dates
      <3>4. Streaks(afterFail(s, t), evs)
        <4> DEFINE u == afterFail(s, t)
        <4>1. /\ u.fails > 0 /\ u.firstFail = since(s.fails, s.firstFail, t)
              /\ u.oks = 0 /\ u.degraded = 0 /\ u.clean = 0
              /\ u.lastTime = t /\ u.openId = s.openId /\ u.kind = s.kind
          BY Columns DEF afterFail
        <4> HIDE DEF u
        <4>2. 0 < u.firstFail /\ u.firstFail <= t
          BY <2>p, <2>u, <4>1, Columns DEF since, Streaks
        <4>3. \A i \in 1..Len(evs) : evs[i].closed <= u.firstFail
          BY <2>p, <2>u, <4>1, Columns DEF since, Streaks, Dates
        <4>4. s.kind = Degraded => evs[s.openId].opened <= u.firstFail
          <5> SUFFICES ASSUME s.kind = Degraded PROVE evs[s.openId].opened <= u.firstFail
            OBVIOUS
          <5>1. s.openId \in 1..Len(evs)
            BY <2>p, Columns DEF Pointer
          <5>2. CASE s.fails = 0
            BY <2>p, <2>u, <4>1, <5>1, <5>2, Columns DEF since, Dates
          <5>3. CASE s.fails > 0
            BY <2>p, <4>1, <5>3 DEF since, Streaks
          <5> QED
            BY <5>2, <5>3, Columns
        <4>5. Streaks(u, evs)
          BY <4>1, <4>2, <4>3, <4>4 DEF Streaks
        <4> QED
          BY <4>5 DEF u
      <3> QED
        BY <3>0, <3>1, <3>2, <3>3, <3>4 DEF FoldInvOf
    <2>2. CASE r.verdict = "degraded"
      <3>0. streaks(s, r) = afterDegraded(s, t)
        BY <2>2 DEF streaks, t
      <3>1. afterDegraded(s, t) \in State
        BY <2>u, Columns DEF afterDegraded, since, State
      <3>2. Pointer(afterDegraded(s, t), evs)
        BY <2>p DEF afterDegraded, Pointer
      <3>3. Dates(afterDegraded(s, t), evs)
        <4>1. afterDegraded(s, t).lastTime = t
          BY DEF afterDegraded
        <4> HIDE DEF afterDegraded
        <4> QED
          BY <2>p, <2>u, <4>1, Columns DEF Dates
      <3>4. Streaks(afterDegraded(s, t), evs)
        <4> DEFINE u == afterDegraded(s, t)
        <4>1. /\ u.fails = 0 /\ u.clean = 0
              /\ u.oks > 0 /\ u.firstOK = since(s.oks, s.firstOK, t)
              /\ u.degraded > 0 /\ u.firstDegraded = since(s.degraded, s.firstDegraded, t)
              /\ u.lastTime = t /\ u.openId = s.openId /\ u.kind = s.kind
          BY Columns DEF afterDegraded
        <4> HIDE DEF u
        <4>2. Streaks(u, evs)
          BY <2>p, <2>u, <4>1, Columns DEF since, Streaks, Dates, Pointer
        <4> QED
          BY <4>2 DEF u
      <3> QED
        BY <3>0, <3>1, <3>2, <3>3, <3>4 DEF FoldInvOf
    <2>3. CASE r.verdict = "clean"
      <3>0. streaks(s, r) = afterClean(s, t)
        BY <2>3 DEF streaks, t
      <3>1. afterClean(s, t) \in State
        BY <2>u, Columns DEF afterClean, since, State
      <3>2. Pointer(afterClean(s, t), evs)
        BY <2>p DEF afterClean, Pointer
      <3>3. Dates(afterClean(s, t), evs)
        <4>1. afterClean(s, t).lastTime = t
          BY DEF afterClean
        <4> HIDE DEF afterClean
        <4> QED
          BY <2>p, <2>u, <4>1, Columns DEF Dates
      <3>4. Streaks(afterClean(s, t), evs)
        <4> DEFINE u == afterClean(s, t)
        <4>1. /\ u.fails = 0 /\ u.degraded = 0
              /\ u.oks > 0 /\ u.firstOK = since(s.oks, s.firstOK, t)
              /\ u.clean > 0 /\ u.firstClean = since(s.clean, s.firstClean, t)
              /\ u.lastTime = t /\ u.openId = s.openId /\ u.kind = s.kind
          BY Columns DEF afterClean
        <4> HIDE DEF u
        <4>2. Streaks(u, evs)
          BY <2>p, <2>u, <4>1, Columns DEF since, Streaks, Dates, Pointer
        <4> QED
          BY <4>2 DEF u
      <3> QED
        BY <3>0, <3>1, <3>2, <3>3, <3>4 DEF FoldInvOf
    <2> QED
      BY <2>1, <2>2, <2>3 DEF Result, Verdicts
<1>1. HysteresisInit => FoldInv
  <2> SUFFICES ASSUME HysteresisInit PROVE FoldInv
    OBVIOUS
  <2>1. st \in State /\ eventRows \in Seq(Event) /\ Len(eventRows) = 0
    BY DEF HysteresisInit, ZeroState, State
  <2>2. /\ st.fails = 0 /\ st.oks = 0 /\ st.degraded = 0 /\ st.clean = 0
        /\ st.openId = 0 /\ st.kind = NoKind
    BY DEF HysteresisInit, ZeroState
  <2> QED
    BY <2>1, <2>2 DEF FoldInv, FoldInvOf, Pointer, Dates, Streaks
<1>2. FoldInv /\ [HysteresisNext]_hysteresisVars => FoldInv'
  <2> SUFFICES ASSUME FoldInv, [HysteresisNext]_hysteresisVars PROVE FoldInv'
    OBVIOUS
  <2>1. ASSUME NEW r \in Result, Apply(r) PROVE FoldInv'
    <3>1. PICK s : s = streaks(st, r)
      OBVIOUS
    <3>2. PICK o : o = ops(s, r.verdict)
      OBVIOUS
    <3>3. PICK c : c = afterClose(eventRows, s, o)
      OBVIOUS
    <3>4. isNews(st, r) /\ st' = pointed(c, s, o) /\ eventRows' = afterOpen(c, o)
      BY <2>1, <3>1, <3>2, <3>3 DEF Apply
    <3>5. s \in State /\ FoldInvOf(s, eventRows)
      BY <3>1, <3>4, <1>streaks DEF FoldInv
    <3>6. r.verdict \in Verdicts
      BY DEF Result
    <3>7. st' \in State /\ eventRows' \in Seq(Event) /\ FoldInvOf(st', eventRows')
      BY <3>2, <3>3, <3>4, <3>5, <3>6, OpsKeepInv DEF FoldInv
    <3> QED
      BY <3>7 DEF FoldInv
  <2>2. ASSUME NEW r \in Result, ApplyLate(r) PROVE FoldInv'
    BY <2>2 DEF ApplyLate, hysteresisVars, FoldInv
  <2>3. CASE UNCHANGED hysteresisVars
    BY <2>3 DEF hysteresisVars, FoldInv
  <2> QED
    BY <2>1, <2>2, <2>3 DEF HysteresisNext
<1>3. FoldInv => NoOverlap
  <2> SUFFICES ASSUME FoldInv PROVE NoOverlap
    OBVIOUS
  <2>1. DOMAIN eventRows = 1..Len(eventRows) /\ Len(eventRows) \in Nat
    BY Columns DEF FoldInv
  <2>2. \A i, j \in 1..Len(eventRows) : i < j => eventRows[i].closed # 0
    <3>1. st.openId \in Nat
      BY Columns DEF FoldInv
    <3> QED
      BY <2>1, <3>1 DEF FoldInv, FoldInvOf, Pointer
  <2> QED
    BY <2>1, <2>2 DEF FoldInv, FoldInvOf, Dates, NoOverlap
<1>4. FoldInv => PointerNamesOpenEvent
  BY Columns DEF FoldInv, FoldInvOf, Pointer, PointerNamesOpenEvent
<1>5. FoldInv => EventRowsConsistent
  BY <1>3, <1>4 DEF EventRowsConsistent
<1> QED
  BY <1>1, <1>2, <1>5, PTL DEF HysteresisSpec

-----------------------------------------------------------------------------
(* The shared rows.                                                        *)

\* A streak that has begun is dated.
StreaksDated(s) ==
    /\ s.fails # 0 => s.firstFail # 0
    /\ s.oks # 0 => s.firstOK # 0
    /\ s.clean # 0 => s.firstClean # 0

\* What the ingest transaction may do to the events of the row it locked.
OpsFit(o, pointer) ==
    /\ o.close \in Nat /\ o.at \in Nat /\ o.open \in Kinds \cup {NoKind}
    /\ o.open # NoKind => o.close # 0 \/ pointer = 0

RowsTyped ==
    /\ clock \in Nat \ {0} /\ config.at \in Nat /\ sweep.now \in Nat
    /\ events \in Seq(Event)
    /\ series \in State \cup {NoRow} /\ StreaksDated(series)
    /\ series.openId <= Len(events)

IngestFits ==
    /\ DOMAIN ingest = {"phase", "result", "state", "ops", "adopt"}
    /\ ingest.phase \in {"idle", "accepted", "locked", "executed"}
    /\ ingest.phase = "accepted" => ingest.result \in Result
    /\ ingest.phase \in {"locked", "executed"} =>
          /\ ingest.state \in State /\ StreaksDated(ingest.state)
          /\ ingest.state.openId = series.openId
          /\ OpsFit(ingest.ops, series.openId)
    /\ ingest.adopt \in 0..Len(events)

OwnedInv ==
    /\ RowsTyped /\ IngestFits
    /\ DOMAIN sweep = {"phase", "now", "assigned", "orphans", "damaged"}
    /\ sweep.orphans \subseteq 1..Len(events)
    /\ config.phase = "closed" => config.at # 0 /\ openRows \subseteq config.held \cup escaped
    /\ EveryOpenEventIsOwned

-----------------------------------------------------------------------------
(* No open event is stranded, whatever ingests, removals, sweeps and        *)
(* crashes overlap: it is the one its series points to, or it slipped       *)
(* between the two statements of a removal (Apply, cleanupSeries,           *)
(* closeOrphanEvents).                                                      *)
THEOREM EveryOpenEventIsOwnedAlways == Spec => []EveryOpenEventIsOwned
<1> USE OutageAssumption, HysteresisAssumption
<1>z. /\ ZeroState \in State /\ StreaksDated(ZeroState) /\ ZeroState.openId = 0
      /\ ZeroState.kind = NoKind
    BY DEF ZeroState, State, StreaksDated
<1>n. StreaksDated(NoRow) /\ NoRow.openId = 0 /\ NoRow \notin State
    BY DEF NoRow, ZeroState, StreaksDated, State, Kinds, Failing, Degraded, NoKind
<1>s. ASSUME OwnedInv PROVE series.openId \in Nat /\ series.openId \in 0..Len(events)
    <2>1. Len(events) \in Nat /\ series.openId <= Len(events) /\ series \in State \cup {NoRow}
        BY <1>s DEF OwnedInv, RowsTyped
    <2>2. series.openId \in Nat
        BY Columns, <1>n, <2>1
    <2> QED
        BY <2>1, <2>2
\* The ops decided on the streaks.
<1>1. ASSUME NEW s \in State, StreaksDated(s), NEW r \in Result, s.kind = NoKind => s.openId = 0
      PROVE  /\ streaks(s, r) \in State /\ StreaksDated(streaks(s, r))
             /\ streaks(s, r).openId = s.openId
             /\ OpsFit(ops(streaks(s, r), r.verdict), s.openId)
    <2>1. r.time \in Nat \ {0} /\ r.verdict \in Verdicts
        BY DEF Result, Times
    <2> DEFINE t == r.time
               u == streaks(s, r)
    <2>2. u \in State /\ u.openId = s.openId /\ u.kind = s.kind /\ StreaksDated(u)
        <3>1. CASE r.verdict = "fail"
            <4>1. u = afterFail(s, t)
                BY <3>1 DEF streaks
            <4>2. afterFail(s, t) \in State
                BY Columns, <2>1 DEF afterFail, since, State
            <4> QED
                BY <1>1, Columns, <2>1, <4>1, <4>2, SMTT(30) DEF afterFail, since, StreaksDated
        <3>2. CASE r.verdict = "degraded"
            <4>1. u = afterDegraded(s, t)
                BY <3>2 DEF streaks
            <4>2. afterDegraded(s, t) \in State
                BY Columns, <2>1 DEF afterDegraded, since, State
            <4> QED
                BY <1>1, Columns, <2>1, <4>1, <4>2, SMTT(30) DEF afterDegraded, since, StreaksDated
        <3>3. CASE r.verdict = "clean"
            <4>1. u = afterClean(s, t)
                BY <3>3 DEF streaks
            <4>2. afterClean(s, t) \in State
                BY Columns, <2>1 DEF afterClean, since, State
            <4> QED
                BY <1>1, Columns, <2>1, <4>1, <4>2, SMTT(30) DEF afterClean, since, StreaksDated
        <3> QED
            BY <2>1, <3>1, <3>2, <3>3 DEF Verdicts
    <2> HIDE DEF u, t
    <2>3. OpsFit(opsAfterFail(u), s.openId)
        BY <1>1, Columns, <2>2 DEF opsAfterFail, noOps, OpsFit, StreaksDated
    <2>4. OpsFit(opsAfterOK(u), s.openId)
        BY <1>1, Columns, <2>2 DEF opsAfterOK, noOps, OpsFit, StreaksDated
    <2> QED
        BY <2>2, <2>3, <2>4 DEF ops, u
\* Closing and opening rows.
<1>2. ASSUME NEW evs \in Seq(Event), NEW i \in 1..Len(evs), NEW at \in Nat
      PROVE  LET c == closeEvent(evs, i, at)
             IN  /\ c \in Seq(Event) /\ Len(c) = Len(evs)
                 /\ \A j \in 1..Len(evs) : c[j].closed = 0 => evs[j].closed = 0
                 /\ at # 0 => c[i].closed # 0
                 /\ \A j \in 1..Len(evs) : j # i => c[j] = evs[j]
    <2> DEFINE e == [evs[i] EXCEPT !.closed = IF @ = 0 THEN at ELSE @]
    <2>0. evs[i] \in Event
        OBVIOUS
    <2>1. evs[i] \in Event /\ evs[i].closed \in Nat
        BY <2>0 DEF Event
    <2>2. e \in Event /\ e.closed = (IF evs[i].closed = 0 THEN at ELSE evs[i].closed)
        BY <2>1 DEF Event
    <2>3. closeEvent(evs, i, at) = [evs EXCEPT ![i] = e]
        BY DEF closeEvent
    <2> HIDE DEF e
    <2> QED
        BY <2>2, <2>3
<1>3. ASSUME NEW evs \in Seq(Event), NEW k \in Kinds, NEW at \in Nat
      PROVE  LET c == Append(evs, [kind |-> k, opened |-> at, closed |-> 0])
             IN  /\ c \in Seq(Event) /\ Len(c) = Len(evs) + 1
                 /\ \A j \in 1..Len(evs) : c[j] = evs[j]
    <2>1. [kind |-> k, opened |-> at, closed |-> 0] \in Event
        BY DEF Event
    <2> QED
        BY <2>1
<1>o. ASSUME events \in Seq(Event)
      PROVE  openRows = {i \in 1..Len(events) : events[i].closed = 0}
    BY <1>o DEF openRows
<1>4. Init => OwnedInv
    <2> SUFFICES ASSUME Init PROVE OwnedInv
        OBVIOUS
    <2>1. openRows = {} /\ events \in Seq(Event) /\ Len(events) = 0
        BY DEF Init, openRows
    <2>2. RowsTyped
        BY <1>n, <2>1 DEF Init, RowsTyped, IdleConfig, IdleSweep
    <2>3. IngestFits
        BY <2>1 DEF Init, IngestFits, IdleIngest
    <2> QED
        BY <2>1, <2>2, <2>3 DEF Init, OwnedInv, IdleConfig, IdleSweep, EveryOpenEventIsOwned
\* Steps that leave the committed rows alone.
<1>5. ASSUME OwnedInv, UNCHANGED <<series, events>>, escaped' = escaped,
             clock' \in Nat \ {0}, config'.at \in Nat, sweep'.now \in Nat, IngestFits',
             DOMAIN sweep' = {"phase", "now", "assigned", "orphans", "damaged"},
             sweep'.orphans \subseteq 1..Len(events),
             config'.phase = "closed" => config'.at # 0 /\ openRows \subseteq config'.held \cup escaped
      PROVE  OwnedInv'
    <2>1. openRows' = openRows
        BY <1>5 DEF openRows
    <2>2. RowsTyped'
        BY <1>5 DEF OwnedInv, RowsTyped, StreaksDated
    <2> QED
        BY <1>5, <2>1, <2>2 DEF OwnedInv, EveryOpenEventIsOwned
<1>6. ASSUME OwnedInv, UNCHANGED <<series, events>>, ingest' \in {ingest, IdleIngest}
      PROVE  IngestFits'
    <2>1. Len(events) \in Nat
        BY <1>6 DEF OwnedInv, RowsTyped
    <2>2. CASE ingest' = ingest
        BY <1>6, <2>2 DEF OwnedInv, IngestFits, StreaksDated, OpsFit
    <2>3. CASE ingest' = IdleIngest
        BY <1>6, <2>1, <2>3 DEF IngestFits, IdleIngest
    <2> QED
        BY <1>6, <2>2, <2>3
<1>7. ASSUME OwnedInv, Tick \/ AbortIngest \/ Enable \/ UNCHANGED vars PROVE OwnedInv'
    <2>1. /\ UNCHANGED <<series, events, escaped, config, sweep>> /\ clock' \in {clock, clock + 1}
          /\ ingest' \in {ingest, IdleIngest}
        BY <1>7 DEF Tick, AbortIngest, Enable, vars, db, ghost
    <2> QED
        BY <1>5, <1>6, <1>7, <2>1 DEF OwnedInv, RowsTyped
<1>8. ASSUME OwnedInv, SweepStart \/ FindOrphans \/ FindDangling \/ SweepFails \/ Crash
             \/ AbortCleanup \/ \E d \in BOOLEAN : CleanupEvents(d)
      PROVE  OwnedInv'
    <2>0. /\ clock \in Nat \ {0} /\ config.at \in Nat /\ sweep.now \in Nat /\ events \in Seq(Event)
          /\ DOMAIN sweep = {"phase", "now", "assigned", "orphans", "damaged"}
          /\ sweep.orphans \subseteq 1..Len(events)
          /\ config.phase = "closed" => config.at # 0 /\ openRows \subseteq config.held \cup escaped
        BY <1>8 DEF OwnedInv, RowsTyped
    <2>1. /\ UNCHANGED <<series, events, escaped, clock>> /\ ingest' \in {ingest, IdleIngest}
        BY <1>8 DEF SweepStart, FindOrphans, FindDangling, SweepFails, Crash, AbortCleanup,
                    CleanupEvents, db, ghost
    <2>2. IngestFits'
        BY <1>6, <1>8, <2>1
    <2>3. /\ IdleSweep.now = 0 /\ IdleSweep.orphans = {}
          /\ DOMAIN IdleSweep = {"phase", "now", "assigned", "orphans", "damaged"}
          /\ IdleConfig.at = 0 /\ IdleConfig.phase = "idle"
        BY DEF IdleSweep, IdleConfig
    <2>4. CASE SweepFails \/ Crash \/ AbortCleanup
        <3>1. config' \in {config, IdleConfig} /\ sweep' \in {sweep, IdleSweep}
            BY <2>4 DEF SweepFails, Crash, AbortCleanup
        <3> QED
            BY <1>5, <1>8, <2>0, <2>1, <2>2, <2>3, <3>1
    <2>5. CASE \E d \in BOOLEAN : CleanupEvents(d)
        <3>1. config'.at = clock /\ config'.held = openRows /\ sweep' = sweep
            BY <2>5 DEF CleanupEvents
        <3> QED
            BY <1>5, <1>8, <2>0, <2>1, <2>2, <3>1
    <2>6. CASE SweepStart
        <3>1. /\ sweep'.now = clock /\ sweep'.orphans = {} /\ config' = config
              /\ DOMAIN sweep' = {"phase", "now", "assigned", "orphans", "damaged"}
            BY <2>6 DEF SweepStart, IdleSweep
        <3> QED
            BY <1>5, <1>8, <2>0, <2>1, <2>2, <3>1
    <2>7. CASE FindOrphans \/ FindDangling
        <3>1. orphanRows \subseteq 1..Len(events)
            BY <1>o, <2>0 DEF orphanRows
        <3>2. /\ sweep'.now = sweep.now /\ config' = config
              /\ sweep'.orphans \in {sweep.orphans, orphanRows}
              /\ DOMAIN sweep' = {"phase", "now", "assigned", "orphans", "damaged"}
            BY <2>0, <2>7 DEF FindOrphans, FindDangling
        <3> QED
            BY <1>5, <1>8, <2>0, <2>1, <2>2, <3>1, <3>2
    <2> QED
        BY <1>8, <2>4, <2>5, <2>6, <2>7
\* Ingest.
<1>9. ASSUME OwnedInv, NEW r \in Result, Accept(r) PROVE OwnedInv'
    <2>1. /\ UNCHANGED <<series, events, escaped, clock, config, sweep>>
          /\ ingest' \in {ingest, [IdleIngest EXCEPT !.phase = "accepted", !.result = r]}
        BY <1>9 DEF Accept, db, ghost
    <2>2. IngestFits'
        <3>1. CASE ingest' = ingest
            BY <1>6, <1>9, <2>1, <3>1
        <3>2. CASE ingest' = [IdleIngest EXCEPT !.phase = "accepted", !.result = r]
            <4>1. Len(events) \in Nat
                BY <1>9 DEF OwnedInv, RowsTyped
            <4> QED
                BY <2>1, <3>2, <4>1 DEF IngestFits, IdleIngest
        <3> QED
            BY <2>1, <3>1, <3>2
    <2> QED
        BY <1>5, <1>9, <2>1, <2>2 DEF OwnedInv, RowsTyped
<1>10. ASSUME OwnedInv, LockState PROVE OwnedInv'
    <2> DEFINE r == ingest.result
               s == lockedState
               u == streaks(s, r)
    <2>1. UNCHANGED <<series, events, escaped, clock, config, sweep>> /\ ingest.phase = "accepted"
        BY <1>10 DEF LockState, db, ghost
    <2>2. r \in Result /\ DOMAIN ingest = {"phase", "result", "state", "ops", "adopt"}
          /\ ingest.adopt \in 0..Len(events)
        BY <1>10, <2>1 DEF OwnedInv, IngestFits
    <2>3. s \in State /\ StreaksDated(s) /\ s.openId = series.openId /\ (s.kind = NoKind => s.openId = 0)
        <3>1. CASE series = NoRow
            BY <1>n, <1>z, <3>1 DEF lockedState
        <3>2. CASE series # NoRow
            <4>1. series \in State /\ StreaksDated(series) /\ series.openId \in 0..Len(events)
                BY <1>10, <1>s, <3>2 DEF OwnedInv, RowsTyped
            <4>2. series.openId # 0 => events[series.openId].kind \in Kinds
                <5>1. \A e \in Event : e.kind \in Kinds
                    BY DEF Event
                <5>2. series.openId # 0 => events[series.openId] \in Event
                    BY <1>10, <4>1 DEF OwnedInv, RowsTyped
                <5> QED
                    BY <5>1, <5>2
            <4> DEFINE k == IF series.openId = 0 THEN NoKind ELSE events[series.openId].kind
            <4>3. k \in Kinds \cup {NoKind} /\ (k = NoKind => series.openId = 0)
                BY Columns, <4>2
            <4>4. s = [series EXCEPT !.kind = k]
                BY <3>2 DEF lockedState
            <4> HIDE DEF k
            <4>5. s \in State /\ s.kind = k /\ s.openId = series.openId
                BY <4>1, <4>3, <4>4 DEF State
            <4>6. StreaksDated(s)
                BY <4>1, <4>4 DEF State, StreaksDated
            <4> QED
                BY <4>3, <4>5, <4>6
        <3> QED
            BY <3>1, <3>2
    <2> HIDE DEF s
    <2>4. u \in State /\ StreaksDated(u) /\ u.openId = series.openId
          /\ OpsFit(ops(u, r.verdict), series.openId)
        BY <1>1, <2>2, <2>3
    <2>5. \/ ingest' = IdleIngest
          \/ ingest' = [ingest EXCEPT !.phase = "locked", !.state = u, !.ops = ops(u, r.verdict)]
        BY <1>10 DEF LockState, s
    <2> HIDE DEF u
    <2>6. IngestFits'
        <3>1. CASE ingest' = IdleIngest
            BY <1>6, <1>10, <2>1, <3>1
        <3>2. CASE ingest' = [ingest EXCEPT !.phase = "locked", !.state = u, !.ops = ops(u, r.verdict)]
            <4> DEFINE o == ops(u, r.verdict)
            <4> HIDE DEF o
            <4>1. OpsFit(o, series.openId) /\ ingest' = [ingest EXCEPT !.phase = "locked", !.state = u, !.ops = o]
                BY <2>4, <3>2 DEF o
            <4>2. /\ DOMAIN ingest' = {"phase", "result", "state", "ops", "adopt"}
                  /\ ingest'.phase = "locked" /\ ingest'.state = u /\ ingest'.ops = o
                  /\ ingest'.adopt = ingest.adopt
                BY <2>2, <4>1
            <4>3. StreaksDated(ingest.state)' /\ OpsFit(ingest.ops, series.openId)'
                BY <2>1, <2>4, <4>1, <4>2 DEF StreaksDated, OpsFit
            <4> QED
                BY <2>1, <2>2, <2>4, <4>2, <4>3 DEF IngestFits
        <3> QED
            BY <2>5, <3>1, <3>2
    <2> QED
        BY <1>5, <1>10, <2>1, <2>6 DEF OwnedInv, RowsTyped
<1>11. ASSUME OwnedInv, ExecuteOps PROVE OwnedInv'
    <2> DEFINE o == ingest.ops
               same == IF o.open = NoKind THEN {} ELSE openIds(events, o.open)
               a == IF same = {} THEN 0 ELSE CHOOSE i \in same : TRUE
    <2>1. /\ UNCHANGED <<series, events, escaped, clock, config, sweep>> /\ ingest.phase = "locked"
          /\ ingest' = [ingest EXCEPT !.phase = "executed", !.adopt = a]
        BY <1>11 DEF ExecuteOps, db, ghost
    <2>2. a \in 0..Len(events)
        <3>1. Len(events) \in Nat /\ \A i \in same : i \in 0..Len(events)
            BY <1>11 DEF OwnedInv, RowsTyped, openIds
        <3>2. 0 \in 0..Len(events)
            BY <3>1
        <3> HIDE DEF same
        <3> QED
            BY <3>1, <3>2, Zenon
    <2> HIDE DEF a
    <2>3. IngestFits
        BY <1>11 DEF OwnedInv
    <2>4. /\ DOMAIN ingest' = {"phase", "result", "state", "ops", "adopt"}
          /\ ingest'.phase = "executed" /\ ingest'.state = ingest.state /\ ingest'.ops = ingest.ops
          /\ ingest'.adopt = a
        BY <2>1, <2>3 DEF IngestFits
    <2>5. IngestFits'
        BY <2>1, <2>2, <2>3, <2>4 DEF IngestFits, StreaksDated, OpsFit
    <2> QED
        BY <1>5, <1>11, <2>1, <2>5 DEF OwnedInv, RowsTyped
\* The commit of the ingest: rows and pointer together.
<1>12. ASSUME OwnedInv, CommitIngest PROVE OwnedInv'
    <2> DEFINE o == ingest.ops
               s == ingest.state
               n == Len(events)
               closed == afterClose(events, s, o)
               isNew == o.open # NoKind /\ ingest.adopt = 0
    <2>1. /\ ingest.phase = "executed" /\ ingest' = IdleIngest
          /\ events' = IF isNew THEN Append(closed, [kind |-> o.open, opened |-> o.at, closed |-> 0])
                       ELSE closed
          /\ series' = [s EXCEPT !.openId = storedPointer, !.kind = NoKind]
          /\ escaped' = IF isNew /\ config.phase = "closed" THEN escaped \cup {n + 1} ELSE escaped
          /\ UNCHANGED <<clock, config, sweep>>
        BY <1>12 DEF CommitIngest
    <2>2. /\ s \in State /\ StreaksDated(s) /\ s.openId = series.openId /\ OpsFit(o, s.openId)
          /\ ingest.adopt \in 0..n
        BY <1>12, <2>1 DEF OwnedInv, IngestFits
    <2>3. /\ events \in Seq(Event) /\ n \in Nat /\ s.openId \in 0..n
          /\ openRows = {i \in 1..n : events[i].closed = 0}
          /\ openRows \subseteq {s.openId} \cup escaped
        BY <1>12, <1>o, <1>s, <2>2 DEF OwnedInv, RowsTyped, EveryOpenEventIsOwned
    <2> HIDE DEF closed
    <2>4. /\ closed \in Seq(Event) /\ Len(closed) = n
          /\ \A j \in 1..n : closed[j].closed = 0 => events[j].closed = 0
          /\ o.close # 0 /\ s.openId # 0 => closed[s.openId].closed # 0
        <3>1. CASE o.close = 0
            BY <2>3, <3>1 DEF closed, afterClose
        <3>2. CASE o.close # 0 /\ s.openId # 0
            <4>1. closed = closeEvent(events, s.openId, o.close)
                BY <3>2 DEF closed, afterClose
            <4>2. s.openId \in 1..n /\ o.close \in Nat
                BY <2>2, <2>3, <3>2 DEF OpsFit
            <4> HIDE DEF o, s
            <4> QED
                BY <1>2, <2>3, <3>2, <4>1, <4>2
        <3>3. CASE o.close # 0 /\ s.openId = 0
            <4>1. closed = [events EXCEPT ![0].closed = IF @ = 0 THEN o.close ELSE @]
                BY <3>3 DEF closed, afterClose, closeEvent
            <4>2. 0 \notin DOMAIN events
                BY <2>3
            <4>3. closed = events
                BY <2>3, <4>1, <4>2
            <4> QED
                BY <2>3, <3>3, <4>3
        <3> QED
            BY <3>1, <3>2, <3>3
    <2>5. \A j \in 1..n : closed[j].closed = 0 =>
             j \in escaped \/ (o.close = 0 /\ o.open = NoKind /\ j = s.openId)
        BY <2>2, <2>3, <2>4 DEF OpsFit
    <2>6. CASE isNew
        <3>1. /\ events' \in Seq(Event) /\ Len(events') = n + 1
              /\ \A j \in 1..n : events'[j] = closed[j]
            <4>1. o.open \in Kinds /\ o.at \in Nat
                BY <2>2, <2>6 DEF OpsFit
            <4>2. events' = Append(closed, [kind |-> o.open, opened |-> o.at, closed |-> 0])
                BY <2>1, <2>6
            <4> QED
                BY <1>3, <2>4, <4>1, <4>2
        <3>2. storedPointer = n + 1
            BY <2>6 DEF storedPointer
        <3>3. openRows' = {j \in 1..(n + 1) : events'[j].closed = 0}
            BY <3>1 DEF openRows
        <3>4. openRows' \subseteq {n + 1} \cup escaped
            BY <2>3, <2>5, <2>6, <3>1, <3>3
        <3>5. config.phase = "closed" => openRows' \subseteq config.held \cup escaped'
            BY <2>1, <2>6, <3>4
        <3>6. /\ series' \in State /\ StreaksDated(series') /\ series'.openId = n + 1
            <4>1. PICK m \in Nat : m = n + 1
                BY <2>3
            <4>2. series' = [s EXCEPT !.openId = m, !.kind = NoKind]
                BY <2>1, <3>2, <4>1
            <4>3. series' \in State /\ StreaksDated(series') /\ series'.openId = m
                BY <2>2, <4>2 DEF State, StreaksDated
            <4> QED
                BY <4>1, <4>3
        <3>7. RowsTyped'
            <4>1. StreaksDated(series)'
                BY <3>6 DEF StreaksDated
            <4> QED
                BY <1>12, <2>1, <2>3, <3>1, <3>6, <4>1 DEF OwnedInv, RowsTyped
        <3>8. IngestFits'
            BY <2>1, <2>3, <3>1 DEF IngestFits, IdleIngest
        <3> QED
            BY <1>12, <2>1, <2>3, <3>1, <3>4, <3>5, <3>6, <3>7, <3>8 DEF OwnedInv, EveryOpenEventIsOwned
    <2>7. CASE ~isNew
        <3>1. events' = closed /\ escaped' = escaped
            BY <2>1, <2>7
        <3>2. storedPointer \in 0..n
            BY <2>2, <2>3, <2>7 DEF storedPointer
        <3>3. openRows' = {j \in 1..n : closed[j].closed = 0}
            BY <2>4, <3>1 DEF openRows
        <3>4. openRows' \subseteq {storedPointer} \cup escaped
            BY <2>5, <3>3 DEF storedPointer
        <3>5. openRows' \subseteq openRows
            BY <2>3, <2>4, <3>3
        <3>6. /\ series' \in State /\ StreaksDated(series') /\ series'.openId = storedPointer
            <4> DEFINE m == storedPointer
            <4>1. m \in Nat
                BY <2>3, <3>2
            <4> HIDE DEF m
            <4>2. series' = [s EXCEPT !.openId = m, !.kind = NoKind]
                BY <2>1 DEF m
            <4>3. series' \in State /\ StreaksDated(series') /\ series'.openId = m
                BY <2>2, <4>1, <4>2 DEF State, StreaksDated
            <4> QED
                BY <4>3 DEF m
        <3>7. RowsTyped'
            <4>1. StreaksDated(series)'
                BY <3>6 DEF StreaksDated
            <4> QED
                BY <1>12, <2>1, <2>3, <2>4, <3>1, <3>2, <3>6, <4>1 DEF OwnedInv, RowsTyped
        <3>8. IngestFits'
            BY <2>1, <2>3, <2>4, <3>1 DEF IngestFits, IdleIngest
        <3> QED
            BY <1>12, <2>1, <2>3, <2>4, <3>1, <3>4, <3>5, <3>6, <3>7, <3>8
               DEF OwnedInv, EveryOpenEventIsOwned
    <2> QED
        BY <2>6, <2>7
\* A row that is cleared keeps its shape.
<1>13. ASSUME NEW s \in State
       PROVE  resetRow(s) \in State /\ StreaksDated(resetRow(s)) /\ resetRow(s).openId = 0
    BY DEF State, resetRow, StreaksDated
<1>14. ASSUME OwnedInv, CommitCleanup PROVE OwnedInv'
    <2> DEFINE n == Len(events)
    <2>1. /\ config.phase = "closed" /\ ~ingestHoldsSeries /\ config' = IdleConfig
          /\ events' = [i \in DOMAIN events |-> IF i \in config.held
                                                THEN [events[i] EXCEPT !.closed = config.at]
                                                ELSE events[i]]
          /\ series' = IF config.deletes \/ series = NoRow THEN NoRow ELSE resetRow(series)
          /\ UNCHANGED <<clock, ingest, sweep, escaped>>
        BY <1>14 DEF CommitCleanup
    <2>2. /\ events \in Seq(Event) /\ n \in Nat /\ config.at \in Nat /\ config.at # 0
          /\ clock \in Nat \ {0} /\ openRows = {i \in 1..n : events[i].closed = 0}
          /\ openRows \subseteq config.held \cup escaped
          /\ series \in State \cup {NoRow} /\ IngestFits
        BY <1>14, <1>o, <2>1 DEF OwnedInv, RowsTyped
    <2>3. events' \in Seq(Event) /\ Len(events') = n
          /\ \A i \in 1..n : events'[i].closed = 0 => i \notin config.held /\ events[i].closed = 0
        <3>1. \A e \in Event : /\ [e EXCEPT !.closed = config.at] \in Event
                               /\ [e EXCEPT !.closed = config.at].closed = config.at
            BY <2>2 DEF Event
        <3>2. DOMAIN events' = 1..n /\ \A i \in 1..n : events'[i] \in Event
            BY <2>1, <2>2, <3>1
        <3>3. events' \in [1..n -> Event]
            BY <2>1, <2>2, <3>2
        <3> QED
            BY <2>1, <2>2, <3>3
    <2>4. openRows' = {i \in 1..n : events'[i].closed = 0}
        BY <2>3 DEF openRows
    <2>5. openRows' \subseteq escaped
        BY <2>2, <2>3, <2>4
    <2>6. /\ series' \in State \cup {NoRow} /\ StreaksDated(series') /\ series'.openId = 0
        BY <1>n, <1>13, <2>1, <2>2
    <2>7. RowsTyped'
        <3>1. StreaksDated(series)'
            BY <2>6 DEF StreaksDated
        <3>2. config'.at = 0
            BY <2>1 DEF IdleConfig
        <3> QED
            BY <1>14, <2>1, <2>2, <2>3, <2>6, <3>1, <3>2 DEF OwnedInv, RowsTyped
    <2>8. IngestFits'
        <3>1. ingest.phase \in {"locked", "executed"} => series.openId = 0
            BY <1>n, <2>1 DEF ingestHoldsSeries
        <3> QED
            BY <2>1, <2>2, <2>3, <2>6, <3>1 DEF IngestFits, StreaksDated, OpsFit
    <2> QED
        BY <1>14, <2>1, <2>3, <2>5, <2>7, <2>8 DEF OwnedInv, EveryOpenEventIsOwned, IdleConfig
\* The sweep writes.
<1>15. ASSUME OwnedInv, CloseOrphan PROVE OwnedInv'
    <2> DEFINE n == Len(events)
    <2>1. PICK i \in sweep.orphans :
             /\ events' = closeEvent(events, i, sweep.now)
             /\ sweep' = [sweep EXCEPT !.orphans = @ \ {i}]
             /\ UNCHANGED <<clock, series, ingest, config, escaped>>
        BY <1>15 DEF CloseOrphan, ghost
    <2>2. /\ events \in Seq(Event) /\ i \in 1..n /\ sweep.now \in Nat
          /\ openRows = {j \in 1..n : events[j].closed = 0}
        BY <1>15, <1>o DEF OwnedInv, RowsTyped
    <2>3. /\ events' \in Seq(Event) /\ Len(events') = n
          /\ \A j \in 1..n : events'[j].closed = 0 => events[j].closed = 0
        <3> DEFINE at == sweep.now
                   c  == closeEvent(events, i, at)
        <3>1. events' = c /\ at \in Nat
            BY <2>1, <2>2
        <3> HIDE DEF at
        <3>2. /\ c \in Seq(Event) /\ Len(c) = n
              /\ \A j \in 1..n : c[j].closed = 0 => events[j].closed = 0
            BY <1>2, <2>2, <3>1
        <3> HIDE DEF c
        <3> QED
            BY <3>1, <3>2
    <2>4. openRows' \subseteq openRows
        BY <2>2, <2>3 DEF openRows
    <2>5. /\ DOMAIN sweep' = DOMAIN sweep /\ sweep'.now = sweep.now
          /\ sweep'.orphans \subseteq sweep.orphans
        BY <1>15, <2>1 DEF OwnedInv
    <2>6. RowsTyped' /\ IngestFits'
        BY <1>15, <2>1, <2>2, <2>3, <2>5 DEF OwnedInv, RowsTyped, IngestFits, StreaksDated, OpsFit
    <2> QED
        BY <1>15, <2>1, <2>3, <2>4, <2>5, <2>6 DEF OwnedInv, EveryOpenEventIsOwned
<1>16. ASSUME OwnedInv, ResetDangling PROVE OwnedInv'
    <2>1. /\ events' = events /\ sweep' = IdleSweep /\ UNCHANGED <<clock, ingest, config, escaped>>
          /\ openRows' = openRows
        BY <1>16 DEF ResetDangling, ghost, openRows
    <2>2. CASE series' = series
        <3>1. IngestFits'
            BY <1>6, <1>16, <2>1, <2>2
        <3> QED
            BY <1>5, <1>16, <2>1, <2>2, <3>1 DEF OwnedInv, RowsTyped, IdleSweep
    <2>3. CASE series' # series
        <3>1. ~ingestHoldsSeries /\ isDangling /\ series' = resetRow(series)
            BY <1>16, <2>3 DEF ResetDangling, repaired
        <3>2. series # NoRow /\ events[series.openId].closed # 0 /\ series \in State
            BY <1>16, <3>1 DEF isDangling, OwnedInv, RowsTyped
        <3>3. series' \in State /\ StreaksDated(series') /\ series'.openId = 0
            BY <1>13, <3>1, <3>2
        <3>4. openRows \subseteq escaped
            BY <1>16, <3>2 DEF OwnedInv, EveryOpenEventIsOwned, openRows
        <3>5. RowsTyped'
            <4>1. StreaksDated(series)'
                BY <3>3 DEF StreaksDated
            <4>2. sweep'.now = 0 /\ Len(events) \in Nat
                BY <1>16, <2>1 DEF IdleSweep, OwnedInv, RowsTyped
            <4> QED
                BY <1>16, <2>1, <3>3, <4>1, <4>2 DEF OwnedInv, RowsTyped
        <3>6. ingest.phase \notin {"locked", "executed"}
            BY <3>1, <3>2 DEF ingestHoldsSeries
        <3>7. IngestFits'
            BY <1>16, <2>1, <3>6 DEF OwnedInv, IngestFits
        <3> QED
            BY <1>16, <2>1, <3>4, <3>5, <3>7 DEF OwnedInv, EveryOpenEventIsOwned, IdleSweep
    <2> QED
        BY <2>2, <2>3
<1>17. OwnedInv /\ [Next]_vars => OwnedInv'
    <2> SUFFICES ASSUME OwnedInv, [Next]_vars PROVE OwnedInv'
        OBVIOUS
    <2> QED
        BY <1>7, <1>8, <1>9, <1>10, <1>11, <1>12, <1>14, <1>15, <1>16
           DEF Next, IngestNext, ConfigNext, SweepNext
<1>18. OwnedInv => EveryOpenEventIsOwned
    BY DEF OwnedInv
<1> QED
    BY <1>4, <1>17, <1>18, PTL DEF Spec

-----------------------------------------------------------------------------
CacheInv ==
    /\ clock \in Nat /\ removedAt \in Nat /\ enabled \in BOOLEAN
    /\ DOMAIN cache = {"assigned", "expires"} /\ cache.expires \in Nat
    /\ cache.expires <= clock + CacheTTL
    /\ ~enabled /\ cache.expires > removedAt + CacheTTL => ~cache.assigned

(* A result of a removed probe is accepted for at most the lifetime of a    *)
(* cache entry after the removal: a hit never renews the entry, and an      *)
(* entry made after the removal says unassigned (assignmentCache).          *)
THEOREM AcceptanceConvergesAlways == Spec => AcceptanceConverges
<1> USE OutageAssumption
<1>1. Init => CacheInv
    BY DEF Init, CacheInv
<1>2. ASSUME CacheInv, NEW r \in Result, Accept(r) PROVE CacheInv'
    <2>1. cache' = assignment /\ UNCHANGED <<clock, enabled, removedAt>>
        BY <1>2 DEF Accept, ghost
    <2>2. CASE cache' = cache
        BY <1>2, <2>1, <2>2 DEF CacheInv
    <2>3. CASE cache' = [assigned |-> enabled, expires |-> clock + CacheTTL]
        BY <1>2, <2>1, <2>3 DEF CacheInv
    <2> QED
        BY <2>1, <2>2, <2>3 DEF assignment
<1>3. ASSUME CacheInv, Tick PROVE CacheInv'
    BY <1>3 DEF CacheInv, Tick, ghost
<1>4. ASSUME CacheInv, CommitCleanup PROVE CacheInv'
    <2>1. removedAt' = clock /\ enabled' = FALSE /\ UNCHANGED <<clock, cache>>
        BY <1>4 DEF CommitCleanup
    <2>2. /\ cache.expires <= clock + CacheTTL /\ cache.expires \in Nat /\ clock \in Nat
          /\ DOMAIN cache = {"assigned", "expires"}
        BY <1>4 DEF CacheInv
    <2>3. ~(cache'.expires > removedAt' + CacheTTL)
        BY <2>1, <2>2
    <2>4. cache'.expires \in Nat /\ cache'.expires <= clock' + CacheTTL /\ clock' \in Nat /\ removedAt' \in Nat
        BY <2>1, <2>2
    <2> QED
        BY <2>1, <2>2, <2>3, <2>4, Zenon DEF CacheInv
<1>5. ASSUME CacheInv, Enable PROVE CacheInv'
    BY <1>5 DEF CacheInv, Enable, ghost
<1>6. ASSUME CacheInv, Crash PROVE CacheInv'
    BY <1>6 DEF CacheInv, Crash
<1>7. ASSUME CacheInv, UNCHANGED <<clock, enabled, cache, removedAt>> PROVE CacheInv'
    BY <1>7 DEF CacheInv
<1>8. CacheInv /\ [Next]_vars => CacheInv'
    <2> SUFFICES ASSUME CacheInv, [Next]_vars PROVE CacheInv'
        OBVIOUS
    <2>1. ASSUME \/ LockState \/ ExecuteOps \/ CommitIngest \/ AbortIngest \/ AbortCleanup \/ SweepNext
                 \/ (\E d \in BOOLEAN : CleanupEvents(d)) \/ UNCHANGED vars
          PROVE  UNCHANGED <<clock, enabled, cache, removedAt>>
        BY <2>1 DEF LockState, ExecuteOps, CommitIngest, AbortIngest, AbortCleanup, CleanupEvents, SweepNext,
                    SweepStart, FindOrphans, CloseOrphan, FindDangling, ResetDangling, SweepFails,
                    vars, ghost
    <2> QED
        BY <1>2, <1>3, <1>4, <1>5, <1>6, <1>7, <2>1 DEF Next, IngestNext, ConfigNext
<1> DEFINE InTime == ingest.phase = "idle" /\ ingest'.phase = "accepted" /\ ~enabled
                        => clock <= removedAt + CacheTTL
<1>9. ASSUME CacheInv, NEW r \in Result, Accept(r) PROVE InTime
    <2> SUFFICES ASSUME ingest.phase = "idle", ingest'.phase = "accepted", ~enabled
                 PROVE  clock <= removedAt + CacheTTL
        OBVIOUS
    <2>1. assignment.assigned
        BY <1>9 DEF Accept
    <2>2. assignment = cache /\ clock <= cache.expires
        BY <2>1 DEF assignment
    <2> QED
        BY <1>9, <2>1, <2>2 DEF CacheInv
<1>10. CacheInv /\ [Next]_vars => [InTime]_vars
    <2> SUFFICES ASSUME CacheInv, Next, ingest.phase = "idle", ingest'.phase = "accepted"
                 PROVE  InTime
        OBVIOUS
    <2>1. \E r \in Result : Accept(r)
        BY DEF Next, IngestNext, ConfigNext, SweepNext, Tick, LockState, ExecuteOps, CommitIngest,
               AbortIngest, CleanupEvents, CommitCleanup, AbortCleanup, Enable, SweepStart,
               FindOrphans, CloseOrphan, FindDangling, ResetDangling, SweepFails, Crash, IdleIngest
    <2> QED
        BY <1>9, <2>1
<1> QED
    BY <1>1, <1>8, <1>10, PTL DEF Spec, AcceptanceConverges
=============================================================================
