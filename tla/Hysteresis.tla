----------------------------- MODULE Hysteresis -----------------------------
(***************************************************************************)
(* The outage hysteresis of one series, fed by one result at a time, alone *)
(* with its event rows.  Results may arrive late (spool replay): any time  *)
(* in 1..MaxTime may come next.                                            *)
(*                                                                         *)
(* `hist` is a history variable: the results the fold did not ignore.  The *)
(* properties compare the event rows with what that history says.          *)
(***************************************************************************)
EXTENDS OutageStep

VARIABLES st,       \* the State of the series
          eventRows,   \* outage_events rows of the series, id = position
          hist      \* history: results folded, in order

hysteresisVars == <<st, eventRows, hist>>

HysteresisInit ==
    /\ st = ZeroState
    /\ eventRows = <<>>
    /\ hist = <<>>

(* Apply of a batch holding one result of this series. *)
Apply(r) ==
    LET s      == streaks(st, r)
        o      == ops(s, r.verdict)
        closed == afterClose(eventRows, s, o)
    IN  /\ isNews(st, r)
        /\ st' = pointed(closed, s, o)
        /\ eventRows' = afterOpen(closed, o)
        /\ hist' = Append(hist, r)

(* A late result changes nothing. *)
ApplyLate(r) ==
    /\ ~isNews(st, r)
    /\ UNCHANGED hysteresisVars

HysteresisNext == \E r \in Result : Apply(r) \/ ApplyLate(r)

HysteresisSpec == HysteresisInit /\ [][HysteresisNext]_hysteresisVars

-----------------------------------------------------------------------------

(* The rows and the history keep their shape, and the pointer names a row. *)
HysteresisTypeOK ==
    /\ st \in State
    /\ eventRows \in Seq(Event)
    /\ hist \in Seq(Result)
    /\ st.openId \in 0..Len(eventRows)
    /\ st.openId = 0 <=> st.kind = NoKind

(***************************************************************************)
(* The reference: what the event rows should be, read off the history.     *)
(***************************************************************************)

(* Positions at which the last Threshold verdicts all lie in V. *)
Windows(V) ==
    {i \in Threshold..Len(hist) : \A j \in (i - Threshold + 1)..i : hist[j].verdict \in V}

StartOf(i) == hist[i - Threshold + 1].time

FailWindows     == Windows({"fail"})
OKWindows       == Windows({"clean", "degraded"})
DegradedWindows == Windows({"degraded"})
CleanWindows    == Windows({"clean"})

(* A window in `by` opens an event unless an earlier one did and nothing in
   `ends` lies between; the first window in `ends` after it closes it. *)
Opening(by, ends) ==
    {i \in by : \A j \in by : j < i => \E k \in ends : j < k /\ k < i}

ClosedAt(i, ends) ==
    LET later == {k \in ends : k > i}
    IN  IF later = {} THEN 0
        ELSE StartOf(CHOOSE k \in later : \A l \in later : k <= l)

Expected(k, by, ends) ==
    {[kind |-> k, opened |-> StartOf(i), closed |-> ClosedAt(i, ends)] : i \in Opening(by, ends)}

(***************************************************************************)
(* The event rows are exactly what the package comment promises: a         *)
(* probe_failing row from the first of Threshold consecutive failures to   *)
(* the first of Threshold consecutive successes, a probe_degraded row from *)
(* the first of Threshold consecutive breaching successes to the first of  *)
(* Threshold consecutive clean successes or of the failures that escalate. *)
(* (step's streak counters, its >= tests and its two-op cases.)            *)
(***************************************************************************)
EventsMatchHistory ==
    {eventRows[i] : i \in DOMAIN eventRows} =
        Expected(Failing, FailWindows, OKWindows)
            \cup Expected(Degraded, DegradedWindows, CleanWindows \cup FailWindows)

(***************************************************************************)
(* "At most one probe event is open per series" and "event history stays   *)
(* contiguous with no overlap": an event ends no earlier than it began,    *)
(* and an earlier row has ended by the time a later one begins.  (step's   *)
(* escalation and de-escalation pairs, and the dates it gives the ops.)    *)
(***************************************************************************)
NoOverlap ==
    /\ \A i \in DOMAIN eventRows : eventRows[i].closed # 0 => eventRows[i].opened <= eventRows[i].closed
    /\ \A i, j \in DOMAIN eventRows :
           i < j => eventRows[i].closed # 0 /\ eventRows[i].closed <= eventRows[j].opened

(***************************************************************************)
(* The pointer of the series names its open row, and no open row is left   *)
(* unnamed: the drift openEvent's adoption heals never starts here.        *)
(***************************************************************************)
PointerNamesOpenEvent ==
    \A i \in DOMAIN eventRows : eventRows[i].closed = 0 <=> i = st.openId

(* The event rows of a series make sense as a whole: they do not overlap,  *)
(* and the pointer names the one that is open (step, Apply).               *)
EventRowsConsistent == NoOverlap /\ PointerNamesOpenEvent

=============================================================================
