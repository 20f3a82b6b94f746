----------------------------- MODULE OutageStep -----------------------------
(***************************************************************************)
(* The pure part of internal/server/outage: what one probe result does to  *)
(* the hysteresis state of its series, which events it opens and closes,   *)
(* and what those ops do to the outage_events rows.  Hysteresis runs these *)
(* operators for one series alone; Outage runs them inside ingest          *)
(* transactions that interleave with configuration changes and the sweep.  *)
(*                                                                         *)
(* A result carries its probe time and the verdict ingest gave it: a       *)
(* failure, a success within the critical thresholds, or a success that    *)
(* breaches them.  The display columns (status, loss, latency, open_error) *)
(* decide nothing and are left out.                                        *)
(*                                                                         *)
(* Time 0 stands for Go's zero time and for SQL NULL, event id 0 for a     *)
(* NULL open_event_id.                                                     *)
(***************************************************************************)
EXTENDS Naturals, Sequences

CONSTANTS Threshold,    \* outage.Threshold: the width of the hysteresis
          MaxTime       \* bound: probe times are 1..MaxTime

ASSUME HysteresisAssumption ==
    /\ Threshold \in Nat \ {0}
    /\ MaxTime \in Nat

Failing  == "probe_failing"
Degraded == "probe_degraded"
NoKind   == ""

Times    == 1..MaxTime
Verdicts == {"fail", "clean", "degraded"}
Kinds    == {Failing, Degraded}

(***************************************************************************)
(* State, Result and op.                                                   *)
(***************************************************************************)

State == [fails : Nat, oks : Nat, degraded : Nat, clean : Nat,
          firstFail : Nat, firstOK : Nat, firstDegraded : Nat, firstClean : Nat,
          lastTime : Nat, openId : Nat, kind : Kinds \cup {NoKind}]

Event  == [kind : Kinds, opened : Nat, closed : Nat]

Result == [time : Times, verdict : Verdicts]

ZeroState == [fails |-> 0, oks |-> 0, degraded |-> 0, clean |-> 0,
              firstFail |-> 0, firstOK |-> 0, firstDegraded |-> 0, firstClean |-> 0,
              lastTime |-> 0, openId |-> 0, kind |-> NoKind]

(***************************************************************************)
(* step: the streaks after one result.  A failure ends both success        *)
(* streaks, a success ends the failure streak and one of the two           *)
(* sub-streaks of the success run.  The first result of a streak dates it. *)
(***************************************************************************)
since(n, first, t) == IF n = 0 THEN t ELSE first

afterFail(s, t) ==
    [fails |-> s.fails + 1, firstFail     |-> since(s.fails, s.firstFail, t),
     oks      |-> 0,        firstOK       |-> 0,
     degraded |-> 0,        firstDegraded |-> 0,
     clean    |-> 0,        firstClean    |-> 0,
     lastTime |-> t, openId |-> s.openId, kind |-> s.kind]

afterDegraded(s, t) ==
    [fails    |-> 0,              firstFail     |-> 0,
     oks      |-> s.oks + 1,      firstOK       |-> since(s.oks, s.firstOK, t),
     degraded |-> s.degraded + 1, firstDegraded |-> since(s.degraded, s.firstDegraded, t),
     clean    |-> 0,              firstClean    |-> 0,
     lastTime |-> t, openId |-> s.openId, kind |-> s.kind]

afterClean(s, t) ==
    [fails    |-> 0,           firstFail     |-> 0,
     oks      |-> s.oks + 1,   firstOK       |-> since(s.oks, s.firstOK, t),
     degraded |-> 0,           firstDegraded |-> 0,
     clean    |-> s.clean + 1, firstClean    |-> since(s.clean, s.firstClean, t),
     lastTime |-> t, openId |-> s.openId, kind |-> s.kind]

streaks(s, r) ==
    CASE r.verdict = "fail"     -> afterFail(s, r.time)
      [] r.verdict = "degraded" -> afterDegraded(s, r.time)
      [] r.verdict = "clean"    -> afterClean(s, r.time)

(***************************************************************************)
(* step: the ops decided on the new streaks.  At most one close followed   *)
(* by at most one open; close = 0 and open = NoKind mean "no such op".     *)
(***************************************************************************)
noOps == [close |-> 0, open |-> NoKind, at |-> 0]

(* Variant: the escalation forgets to close the degraded row. *)
opsAfterFailNoClose(s) ==
    IF s.fails < Threshold \/ s.kind = Failing THEN noOps
    ELSE [close |-> 0, open |-> Failing, at |-> s.firstFail]

opsAfterFail(s) ==
    IF s.fails < Threshold \/ s.kind = Failing THEN noOps
    ELSE [close |-> IF s.kind = Degraded THEN s.firstFail ELSE 0,
          open  |-> Failing,
          at    |-> s.firstFail]

(* Variant: de-escalation is left to the next result. *)
opsAfterOKDeferred(s) ==
    CASE s.kind = Failing /\ s.oks >= Threshold -> [noOps EXCEPT !.close = s.firstOK]
      [] s.kind = Degraded /\ s.clean >= Threshold -> [noOps EXCEPT !.close = s.firstClean]
      [] s.kind = NoKind /\ s.degraded >= Threshold ->
             [noOps EXCEPT !.open = Degraded, !.at = s.firstDegraded]
      [] OTHER -> noOps

opsAfterOK(s) ==
    CASE s.kind = Failing /\ s.oks >= Threshold ->
             [close |-> s.firstOK,
              open  |-> IF s.degraded >= Threshold THEN Degraded ELSE NoKind,
              at    |-> s.firstDegraded]
      [] s.kind = Degraded /\ s.clean >= Threshold ->
             [noOps EXCEPT !.close = s.firstClean]
      [] s.kind = NoKind /\ s.degraded >= Threshold ->
             [noOps EXCEPT !.open = Degraded, !.at = s.firstDegraded]
      [] OTHER -> noOps

ops(s, v) == IF v = "fail" THEN opsAfterFail(s) ELSE opsAfterOK(s)

(* step ignores a result that is not newer than the newest one folded. *)
isNews(s, r) == r.time > s.lastTime

(***************************************************************************)
(* Apply: the ops on the event rows.  A close touches only a row that is   *)
(* still open; an open inserts a row or, when the partial unique index     *)
(* reports an open row of the kind, adopts that row.                       *)
(***************************************************************************)
closeEvent(evs, id, at) ==
    [evs EXCEPT ![id].closed = IF @ = 0 THEN at ELSE @]

openIds(evs, k) == {i \in DOMAIN evs : evs[i].kind = k /\ evs[i].closed = 0}

openEvent(evs, k, at) ==
    IF openIds(evs, k) # {} THEN evs
    ELSE Append(evs, [kind |-> k, opened |-> at, closed |-> 0])

openedId(evs, k) ==
    IF openIds(evs, k) # {} THEN CHOOSE i \in openIds(evs, k) : TRUE
    ELSE Len(evs) + 1

afterClose(evs, s, o) ==
    IF o.close = 0 THEN evs ELSE closeEvent(evs, s.openId, o.close)

afterOpen(evs, o) ==
    IF o.open = NoKind THEN evs ELSE openEvent(evs, o.open, o.at)

(* The pointer and kind the series is left with. *)
pointed(evs, s, o) ==
    CASE o.open # NoKind -> [s EXCEPT !.openId = openedId(evs, o.open), !.kind = o.open]
      [] o.open = NoKind /\ o.close # 0 -> [s EXCEPT !.openId = 0, !.kind = NoKind]
      [] OTHER -> s

=============================================================================
