----------------------------- MODULE DropLedger -----------------------------
(***************************************************************************)
(* The loss ledger of one agent: the three drop counters of the spool, the *)
(* two sidecar files that persist them, the report of them that rides      *)
(* every PushResults call, and the server's fold of that report into       *)
(* agents.dropped_results.  Code: internal/agent/spool/spool.go,           *)
(* internal/agent/uplink/pusher.go, internal/server/store/enrollment.go.   *)
(*                                                                         *)
(* The process may die between any two disk writes.  Each sidecar is       *)
(* replaced by an atomic rename, so a crash lands before or after a write, *)
(* never inside one.  What is dropped, and when, is left open here (a drop *)
(* of n records); module StoreForward says which records they are.         *)
(***************************************************************************)
EXTENDS Integers

CONSTANTS
    MaxDropped,   \* bound: records dropped in the life of the agent
    WriteFaults   \* the operations whose sidecar writes may fail (full disk, I/O error)

ASSUME MaxDroppedAssumption == MaxDropped \in Nat
ASSUME WriteFaultsAssumption == WriteFaults \subseteq {"drop", "ack", "open"}

VARIABLES
    mode,      \* "up", "failing" (a fatal spool error is on its way to exit) or "down"
    persist,   \* the sidecar write the holder of Spool.mu makes next, or "idle"
    cause,     \* which operation that write belongs to
    total, unacked, acked,            \* Spool.droppedTotal, droppedUnacked, droppedAcked
    fKnown, fUnacked,                 \* file "dropped": parses, and its value
    fTotal, fAcked,                   \* file "dropped-state": its two numbers
    push,                             \* where the one push in flight is
    reqTotal, reqUnacked,             \* dropped_total and dropped_since_last_push it carries
    lastTotal, droppedResults,        \* agents.dropped_last_total, agents.dropped_results
    gone, counting, durable, base, fresh   \* history: see below

(***************************************************************************)
(* History, read only by the properties and by the bound on drops: gone is *)
(* every record ever dropped, counting the size of the drop being          *)
(* persisted, durable the dropped records whose count reached the disk     *)
(* since the directory was last wiped, base the same for all earlier       *)
(* directories, and fresh tells that no committed push of the present      *)
(* directory carried a total yet.                                          *)
(***************************************************************************)
agentVars  == <<mode, persist, cause, total, unacked, acked>>
fileVars   == <<fKnown, fUnacked, fTotal, fAcked>>
pushVars   == <<push, reqTotal, reqUnacked>>
serverVars == <<lastTotal, droppedResults>>
ghostVars  == <<gone, counting, durable, base, fresh>>
ledgerVars == <<agentVars, fileVars, pushVars, serverVars, ghostVars>>

NULL == -1     \* an SQL NULL in agents.dropped_last_total

min(a, b) == IF a < b THEN a ELSE b
max(a, b) == IF a < b THEN b ELSE a

LedgerTypeOK ==
    /\ mode \in {"up", "failing", "down"}
    /\ persist \in {"idle", "unacked", "state"}
    /\ cause \in {"drop", "ack", "open"}
    /\ total \in Nat /\ unacked \in Nat /\ acked \in Nat
    /\ fKnown \in BOOLEAN /\ fUnacked \in Nat
    /\ fTotal \in Nat /\ fAcked \in Nat
    /\ push \in {"none", "sent", "committed", "reported"}
    /\ reqTotal \in Nat /\ reqUnacked \in Nat
    /\ lastTotal \in Nat \cup {NULL} /\ droppedResults \in Nat
    /\ gone \in Nat /\ counting \in Nat /\ durable \in Nat /\ base \in Nat /\ fresh \in BOOLEAN

(* An agent that was never started, on an empty state directory, and a     *)
(* server that never heard of a drop of it.                                *)
LedgerInit ==
    /\ mode = "down" /\ persist = "idle" /\ cause = "open"
    /\ total = 0 /\ unacked = 0 /\ acked = 0
    /\ fKnown = FALSE /\ fUnacked = 0 /\ fTotal = 0 /\ fAcked = 0
    /\ push = "none" /\ reqTotal = 0 /\ reqUnacked = 0
    /\ lastTotal = NULL /\ droppedResults = 0
    /\ gone = 0 /\ counting = 0 /\ durable = 0 /\ base = 0 /\ fresh = TRUE

alive == mode \in {"up", "failing"}
-----------------------------------------------------------------------------
(* Agent: counting a loss and persisting the counters                      *)

(* n records are gone (a segment was removed, or a result cannot be        *)
(* spooled): the counters move in memory and the two writes follow.        *)
Drop(n) ==
    /\ mode = "up" /\ persist = "idle"
    /\ gone + n <= MaxDropped
    /\ total' = total + n
    /\ unacked' = unacked + n
    /\ persist' = "unacked" /\ cause' = "drop"
    /\ counting' = n /\ gone' = gone + n
    /\ UNCHANGED <<mode, acked, fileVars, pushVars, serverVars, durable, base, fresh>>

(* persistDropCountersLocked, first half: the legacy sidecar.              *)
PersistUnacked ==
    /\ alive /\ persist = "unacked"
    /\ fUnacked' = unacked /\ fKnown' = TRUE
    /\ persist' = "state"
    /\ durable' = IF cause = "drop" THEN durable + counting ELSE durable
    /\ UNCHANGED <<mode, cause, total, unacked, acked, fTotal, fAcked,
                   pushVars, serverVars, gone, counting, base, fresh>>

(* Second half: "<total> <acked>" in one file.                             *)
PersistState ==
    /\ alive /\ persist = "state"
    /\ fTotal' = total /\ fAcked' = acked
    /\ persist' = "idle"
    /\ UNCHANGED <<mode, cause, total, unacked, acked, fKnown, fUnacked,
                   pushVars, serverVars, ghostVars>>

(* A failed write is only logged by AckDropped.  It makes Open return an   *)
(* error and Append return one that cancels the run: until the process is  *)
(* gone the pusher may still find the unpersisted counters in memory.      *)
PersistFails ==
    /\ alive /\ persist # "idle" /\ cause \in WriteFaults
    /\ persist' = "idle"
    /\ mode' = IF cause = "ack" THEN mode ELSE "failing"
    /\ UNCHANGED <<cause, total, unacked, acked, fileVars, pushVars, serverVars, ghostVars>>
-----------------------------------------------------------------------------
(* Agent: death and restart                                                *)

(* The process dies, with its memory; the answer to a push in flight is    *)
(* never read.                                                             *)
Crash ==
    /\ alive
    /\ mode' = "down" /\ persist' = "idle" /\ cause' = "open" /\ push' = "none"
    /\ total' = 0 /\ unacked' = 0 /\ acked' = 0
    /\ reqTotal' = 0 /\ reqUnacked' = 0 /\ counting' = 0
    /\ UNCHANGED <<fileVars, serverVars, gone, durable, base, fresh>>

(* What Open makes of the files: the acked count of the state sidecar, the *)
(* unacked remainder (reconstructed when its file is unreadable), and the  *)
(* reconciled total and acked counts.                                      *)
fileAcked   == min(fAcked, fTotal)
fileUnacked == IF fKnown THEN fUnacked ELSE fTotal - fileAcked

(* Variants: the state sidecar is believed as it stands; or ignored.       *)
diskTotalUnrepaired == fTotal
diskTotalFromParts  == fileAcked + fileUnacked

diskTotal   == max(fTotal, fileAcked + fileUnacked)

diskAcked   == diskTotal - fileUnacked

(* Open: load the sidecars, reconcile them, and persist a repair.          *)
Open ==
    /\ mode = "down"
    /\ total' = diskTotal /\ unacked' = fileUnacked /\ acked' = diskAcked
    /\ persist' = IF \/ diskTotal # fTotal
                     \/ diskAcked # fileAcked
                     \/ ~fKnown /\ diskTotal > 0
                  THEN "unacked" ELSE "idle"
    /\ mode' = "up" /\ cause' = "open"
    /\ UNCHANGED <<fileVars, pushVars, serverVars, ghostVars>>

(* External damage while the agent is down: the legacy sidecar is lost or  *)
(* no longer parses.  A count only that file held is gone with it.         *)
DamageUnacked ==
    /\ mode = "down" /\ fKnown
    /\ fKnown' = FALSE /\ durable' = fTotal
    /\ UNCHANGED <<agentVars, fUnacked, fTotal, fAcked, pushVars, serverVars,
                   gone, counting, base, fresh>>

(* The spool directory is wiped while the agent is down.                   *)
Wipe ==
    /\ mode = "down" /\ durable > 0
    /\ fKnown' = FALSE /\ fUnacked' = 0 /\ fTotal' = 0 /\ fAcked' = 0
    /\ base' = base + durable /\ durable' = 0 /\ fresh' = TRUE
    /\ UNCHANGED <<agentVars, pushVars, serverVars, gone, counting>>
-----------------------------------------------------------------------------
(* The push: Pusher.Run and Uplink.PushResults                             *)

(* Dropped() and the call: both counters are read under one lock.  The     *)
(* pusher does not exist before Open returned.                             *)
Send ==
    /\ alive /\ persist = "idle" /\ push = "none"
    /\ mode = "failing" => cause # "open"
    /\ push' = "sent"
    /\ reqTotal' = total /\ reqUnacked' = unacked
    /\ UNCHANGED <<agentVars, fileVars, serverVars, ghostVars>>

(* Variant: the legacy delta, which a lost answer repeats.                  *)
droppedDeltaLegacy(last, t, u) == u

droppedDelta(last, t, u) ==
    IF last = NULL THEN u ELSE IF t >= last THEN t - last ELSE t

isReset(last, t) == last # NULL /\ t < last

(* The server commits the batch and, in the same transaction, the fold of  *)
(* the reported total (RecordDroppedTotalTx; skipped when it is zero).     *)
Commit ==
    /\ push = "sent"
    /\ push' = "committed"
    /\ IF reqTotal > 0
       THEN /\ droppedResults' = droppedResults
                     + droppedDelta(lastTotal, reqTotal, min(reqUnacked, reqTotal))
            /\ lastTotal' = reqTotal
            /\ fresh' = FALSE
       ELSE UNCHANGED <<lastTotal, droppedResults, fresh>>
    /\ UNCHANGED <<agentVars, fileVars, reqTotal, reqUnacked, gone, counting,
                   durable, base>>

(* The agent sees an error: the push never committed, or its answer was    *)
(* lost after the commit.                                                  *)
PushFails ==
    /\ alive /\ push \in {"sent", "committed"}
    /\ push' = "none"
    /\ UNCHANGED <<agentVars, fileVars, reqTotal, reqUnacked, serverVars, ghostVars>>

(* What the ack may take off: the reported amount, never more than is left.*)
ackedNow == min(reqUnacked, unacked)

(* The answer arrived: AckDropped(unacked), skipped when nothing was       *)
(* reported.                                                               *)
AckDropped ==
    /\ alive /\ persist = "idle" /\ push = "committed"
    /\ push' = "reported"
    /\ IF reqUnacked > 0
       THEN LET r == ackedNow
            IN  /\ unacked' = unacked - r
                /\ acked' = min(acked + r, total)
                /\ persist' = "unacked" /\ cause' = "ack"
       ELSE UNCHANGED <<unacked, acked, persist, cause>>
    /\ UNCHANGED <<mode, total, fileVars, reqTotal, reqUnacked, serverVars, ghostVars>>

(* ack(): the batch is consumed; the next push may start.                  *)
Consume ==
    /\ alive /\ persist = "idle" /\ push = "reported"
    /\ push' = "none"
    /\ UNCHANGED <<agentVars, fileVars, reqTotal, reqUnacked, serverVars, ghostVars>>
-----------------------------------------------------------------------------
LedgerNext ==
    \/ \E n \in 1..MaxDropped : Drop(n)
    \/ PersistUnacked
    \/ PersistState
    \/ PersistFails
    \/ Crash
    \/ Open
    \/ DamageUnacked
    \/ Wipe
    \/ Send
    \/ Commit
    \/ PushFails
    \/ AckDropped
    \/ Consume

LedgerSpec == LedgerInit /\ [][LedgerNext]_ledgerVars
-----------------------------------------------------------------------------
(* What must hold                                                          *)

(* After a restart, and between operations, the lifetime total is exactly  *)
(* the number of dropped records whose count reached the disk: no crash    *)
(* between the two sidecar writes loses or invents a drop (Open's          *)
(* reconciliation), whether or not the repair Open writes reaches the disk *)
(* too.  A drop's or an ack's write that fails is another matter: a failed *)
(* ack write followed by a crash can forget a drop.                        *)
TotalIsExact ==
    (WriteFaults \subseteq {"open"} /\ mode = "up" /\ persist = "idle") => total = durable

(* dropped_results advances by exactly what the agent durably lost, once,  *)
(* whatever pushes are retried, lost after the commit or repeated after a  *)
(* crash: it never exceeds the true loss, and as long as the spool was not *)
(* wiped it equals the last total the agent reported (droppedDelta).       *)
CountedOnce ==
    WriteFaults \subseteq {"open"} =>
        /\ droppedResults <= base + durable
        /\ base = 0 => droppedResults = max(lastTotal, 0)

(* The agent never believes a drop acknowledged that the server did not    *)
(* count: in memory, and in whatever Open would derive from the files at   *)
(* this instant.  Holds with failing sidecar writes too.                   *)
AckedIsCounted ==
    /\ alive => acked <= droppedResults
    /\ diskAcked <= droppedResults

(* "totals never go backwards otherwise" (droppedDelta): the server takes  *)
(* a report for a counter reset only if the directory really was wiped     *)
(* since the last total-bearing report.                                    *)
ResetOnlyAfterWipe ==
    [][(/\ WriteFaults \subseteq {"open"} /\ Commit
        /\ reqTotal > 0 /\ isReset(lastTotal, reqTotal)) => fresh]_ledgerVars
=============================================================================
