--------------------------- MODULE DeliveryProofs ---------------------------
(***************************************************************************)
(* The loss ledger and the result path of one agent, for every bound on    *)
(* drops, results, files and bytes, every batch size and every set of      *)
(* failing writes.                                                         *)
(*                                                                         *)
(* The ledger.  AckedInv holds whatever write fails.  Its core is that the *)
(* acked count never runs ahead of the last total the server stored, and   *)
(* that what Open would derive from the files never runs ahead of memory.  *)
(* ExactInv needs the writes of drops and acks to succeed; Open's repair   *)
(* may fail.  Its core is that the total Open would derive is exactly the  *)
(* durable loss at every instant, in every state of the two files between  *)
(* the two writes.                                                         *)
(*                                                                         *)
(* The path.  SpoolInv says what survives between Next and its ack: the    *)
(* files hold the records in append order, and what the batch says of a    *)
(* file is still true of it, or the file is gone.  A path that keeps it    *)
(* is a ledger (DropLedger), which closes the argument: what is neither    *)
(* inserted nor on disk is a drop, and every drop is in the ledger.        *)
(***************************************************************************)
EXTENDS StoreForward, FiniteSetTheorems, NaturalsInduction, WellFoundedInduction, TLAPS

reported == max(lastTotal, 0)

AckedInv ==
    /\ LedgerTypeOK
    /\ ~alive => push = "none" /\ persist = "idle"
    /\ persist = "state" => fKnown /\ fUnacked = unacked
    /\ alive => /\ total = acked + unacked
                /\ fTotal <= total
                /\ diskAcked <= acked
                /\ acked <= reported
    /\ diskAcked <= reported
    /\ reported <= droppedResults
    /\ push \in {"sent", "committed"} => acked + reqUnacked = reqTotal
    /\ push = "committed" /\ reqTotal > 0 => lastTotal = reqTotal

(* The inductive invariant that holds whatever write fails. *)
LEMMA AckedInvAlways == LedgerSpec => []AckedInv
<1>init. LedgerInit => AckedInv
    <2> SUFFICES ASSUME LedgerInit PROVE AckedInv
        OBVIOUS
    <2>1. LedgerTypeOK /\ ~alive /\ push = "none" /\ persist = "idle"
        BY DEF LedgerInit, LedgerTypeOK, alive, NULL
    <2>2. diskAcked = 0 /\ reported = 0
        BY DEF LedgerInit, reported, diskAcked, diskTotal, fileUnacked, fileAcked, min, max, NULL
    <2> QED
        BY <2>1, <2>2 DEF AckedInv, LedgerInit
<1>step. AckedInv /\ [LedgerNext]_ledgerVars => AckedInv'
    <2> SUFFICES ASSUME AckedInv, [LedgerNext]_ledgerVars PROVE AckedInv'
        OBVIOUS
    <2> USE MaxDroppedAssumption
    <2> USE DEF AckedInv, LedgerTypeOK, alive, reported, diskAcked, diskTotal,
                fileUnacked, fileAcked, min, max, NULL
    <2>1. ASSUME NEW n \in 1..MaxDropped, Drop(n) PROVE AckedInv'
        BY <2>1 DEF Drop, fileVars, pushVars, serverVars
    <2>2. CASE PersistUnacked
        BY <2>2 DEF PersistUnacked, pushVars, serverVars
    <2>3. CASE PersistState
        BY <2>3 DEF PersistState, pushVars, serverVars, ghostVars
    <2>4. CASE PersistFails
        BY <2>4 DEF PersistFails, fileVars, pushVars, serverVars, ghostVars
    <2>5. CASE Crash
        <3>1. LedgerTypeOK' /\ ~alive' /\ push' = "none" /\ persist' = "idle"
            BY <2>5 DEF Crash, fileVars, serverVars
        <3>2. diskAcked' = diskAcked /\ reported' = reported
            BY <2>5 DEF Crash, fileVars, serverVars
        <3> QED
            BY <2>5, <3>1, <3>2 DEF Crash, serverVars
    <2>6. CASE Open
        <3>1. diskAcked \in Nat /\ diskTotal \in Nat /\ fileUnacked \in Nat
              /\ diskTotal = diskAcked + fileUnacked /\ fTotal <= diskTotal
            OBVIOUS
        <3>2. LedgerTypeOK'
            BY <2>6, <3>1 DEF Open, fileVars, pushVars, serverVars, ghostVars
        <3>3. diskAcked' = diskAcked /\ reported' = reported
            BY <2>6 DEF Open, fileVars, serverVars
        <3> QED
            BY <2>6, <3>1, <3>2, <3>3 DEF Open, fileVars, pushVars, serverVars
    <2>7. CASE DamageUnacked
        <3>1. LedgerTypeOK' /\ ~alive' /\ push' = "none" /\ persist' = "idle" /\ ~fKnown'
            BY <2>7 DEF DamageUnacked, agentVars, pushVars, serverVars
        <3>2. diskAcked' <= diskAcked /\ reported' = reported
            BY <2>7, <3>1 DEF DamageUnacked, serverVars
        <3> QED
            BY <2>7, <3>1, <3>2 DEF DamageUnacked, agentVars, serverVars
    <2>8. CASE Wipe
        <3>1. /\ LedgerTypeOK' /\ ~alive' /\ push' = "none" /\ persist' = "idle"
              /\ ~fKnown'
            <4>1. ~alive /\ push = "none" /\ persist = "idle"
                BY <2>8 DEF Wipe
            <4>2. base' \in Nat /\ durable' \in Nat
                BY <2>8 DEF Wipe
            <4> QED
                BY <2>8, <4>1, <4>2 DEF Wipe, agentVars, pushVars, serverVars
        <3>2. diskAcked' = 0 /\ reported' = reported /\ reported \in Nat
            BY <2>8, <3>1 DEF Wipe, serverVars
        <3> QED
            BY <2>8, <3>1, <3>2 DEF Wipe, agentVars, serverVars
    <2>9. CASE Send
        BY <2>9 DEF Send, agentVars, fileVars, serverVars, ghostVars
    <2>10. CASE Commit
        <3>1. alive /\ acked + reqUnacked = reqTotal /\ acked <= reported
            BY <2>10 DEF Commit
        <3>2. diskAcked' = diskAcked /\ alive'
            BY <2>10, <3>1 DEF Commit, agentVars, fileVars
        <3>3. CASE reqTotal = 0
            BY <2>10, <3>1, <3>2, <3>3 DEF Commit, agentVars, fileVars
        <3>4. CASE reqTotal > 0
            <4>1. lastTotal = NULL => min(reqUnacked, reqTotal) = reqTotal
                BY <3>1
            <4>2. /\ lastTotal' = reqTotal /\ droppedResults' \in Nat
                  /\ reqTotal <= droppedResults'
                BY <2>10, <3>4, <4>1 DEF Commit, droppedDelta
            <4>3. reported' = reqTotal
                BY <4>2, <3>4
            <4>4. LedgerTypeOK'
                BY <2>10, <3>4, <4>2 DEF Commit, agentVars, fileVars
            <4> QED
                BY <2>10, <3>1, <3>2, <3>4, <4>2, <4>3, <4>4 DEF Commit, agentVars, fileVars
        <3> QED
            BY <3>3, <3>4
    <2>11. CASE PushFails
        BY <2>11 DEF PushFails, agentVars, fileVars, serverVars, ghostVars
    <2>12. CASE AckDropped
        BY <2>12 DEF AckDropped, ackedNow, fileVars, serverVars, ghostVars
    <2>13. CASE Consume
        BY <2>13 DEF Consume, agentVars, fileVars, serverVars, ghostVars
    <2>14. CASE UNCHANGED ledgerVars
        BY <2>14 DEF ledgerVars, agentVars, fileVars, pushVars, serverVars, ghostVars
    <2> QED
        BY <2>1, <2>2, <2>3, <2>4, <2>5, <2>6, <2>7, <2>8, <2>9, <2>10, <2>11, <2>12,
           <2>13, <2>14 DEF LedgerNext
<1> QED
    BY <1>init, <1>step, PTL DEF LedgerSpec

(* The variables of the ledger keep their types in every behaviour.        *)
THEOREM LedgerTypeCorrect == LedgerSpec => []LedgerTypeOK
<1>1. AckedInv => LedgerTypeOK
    BY DEF AckedInv
<1> QED
    BY AckedInvAlways, <1>1, PTL

(* Whatever write fails and wherever the process dies, neither the running *)
(* agent nor the next Open takes a drop for acknowledged that the server   *)
(* did not count.                                                          *)
THEOREM AckedIsCountedAlways == LedgerSpec => []AckedIsCounted
<1>1. AckedInv => AckedIsCounted
    BY DEF AckedInv, AckedIsCounted, LedgerTypeOK, reported, diskAcked, diskTotal,
           fileUnacked, fileAcked, min, max, NULL
<1> QED
    BY AckedInvAlways, <1>1, PTL
-----------------------------------------------------------------------------
(* The files and the memory when only Open's repair may fail               *)

(* Between operations the files hold what memory holds; a file that was    *)
(* never written stands for zero.                                          *)
SettledFiles ==
    /\ fTotal = total /\ fAcked = acked
    /\ IF fKnown THEN fUnacked = unacked ELSE total = 0

(* About to write the first sidecar of a drop: the files are one drop      *)
(* behind.                                                                 *)
BeforeDropWrite ==
    /\ durable + counting = total
    /\ fTotal = durable /\ fAcked = acked
    /\ IF fKnown THEN fUnacked + counting = unacked ELSE durable = 0

(* About to write the first sidecar of an ack or of Open's repair: the     *)
(* state file alone, with the unacked count in memory, gives the total.    *)
BeforeOtherWrite ==
    /\ durable = total /\ fTotal <= total
    /\ fileAcked + unacked <= total
    /\ fTotal = total \/ fileAcked + unacked = total

FilesInv ==
    /\ mode = "failing" => cause = "open" /\ persist = "idle" /\ push = "none"
    /\ persist # "idle" /\ cause = "open" => push = "none"
    /\ fAcked <= fTotal
    /\ diskTotal = durable
    /\ mode = "up" /\ persist = "idle" => durable = total /\ SettledFiles
    /\ mode = "up" /\ persist = "unacked" /\ cause = "drop" => BeforeDropWrite
    /\ mode = "up" /\ persist = "unacked" /\ cause # "drop" => BeforeOtherWrite
    /\ mode = "up" /\ persist = "state" => durable = total

(* The server's row: fresh until a total of this directory was committed,  *)
(* and from then on never ahead of the state file.                         *)
ServerInv ==
    /\ lastTotal = NULL => droppedResults = 0 /\ fresh
    /\ fresh => droppedResults <= base
    /\ fresh /\ base = 0 => lastTotal = NULL
    /\ base = 0 => droppedResults = reported
    /\ ~fresh => lastTotal <= fTotal /\ droppedResults <= base + lastTotal
    /\ push \in {"sent", "committed"} => reqTotal <= fTotal
    /\ push = "sent" /\ ~fresh => lastTotal <= reqTotal

ExactInv == AckedInv /\ FilesInv /\ ServerInv

(* The inductive invariant of the next theorems: unless a drop's or an     *)
(* ack's write may fail, the ledger is exact.                              *)
ExactUnlessFaulty == WriteFaults \subseteq {"open"} => ExactInv

LEMMA ExactAlways == LedgerSpec => []ExactUnlessFaulty
<1>init. AckedInv /\ LedgerInit => ExactInv
    <2> SUFFICES ASSUME AckedInv, LedgerInit PROVE ExactInv
        OBVIOUS
    <2>1. FilesInv
        BY DEF LedgerInit, FilesInv, diskTotal, fileUnacked, fileAcked, min, max
    <2>2. ServerInv
        BY DEF LedgerInit, ServerInv, reported, max, NULL
    <2> QED
        BY <2>1, <2>2 DEF ExactInv
<1>files. ASSUME WriteFaults \subseteq {"open"}, AckedInv, FilesInv, [LedgerNext]_ledgerVars
          PROVE  FilesInv'
    <2> USE <1>files
    <2> USE DEF FilesInv, SettledFiles, BeforeDropWrite, BeforeOtherWrite
    <2> USE DEF AckedInv, LedgerTypeOK, alive, diskTotal, fileUnacked, fileAcked, min, max
    <2>1. ASSUME NEW n \in 1..MaxDropped, Drop(n) PROVE FilesInv'
        BY <2>1, MaxDroppedAssumption DEF Drop, fileVars
    <2>2. CASE PersistUnacked
        <3>1. mode = "up" /\ mode' = "up" /\ persist' = "state" /\ total' = total
            BY <2>2 DEF PersistUnacked
        <3>2. diskTotal' = max(fTotal, fileAcked + unacked)
            BY <2>2 DEF PersistUnacked
        <3>3. CASE cause = "drop"
            <4>0. BeforeDropWrite /\ durable' = durable + counting
                BY <2>2, <3>1, <3>3 DEF PersistUnacked
            <4>1. BeforeDropWrite /\ durable' = total
                BY <4>0
            <4>2. acked + unacked = total /\ counting <= unacked
                BY <3>1, <4>1
            <4>3. max(fTotal, fileAcked + unacked) = total
                BY <4>1, <4>2
            <4> QED
                BY <2>2, <3>1, <3>2, <3>3, <4>1, <4>3 DEF PersistUnacked
        <3>4. CASE cause # "drop"
            <4>1. BeforeOtherWrite /\ durable' = total
                BY <2>2, <3>1, <3>4 DEF PersistUnacked
            <4> QED
                BY <2>2, <3>1, <3>2, <3>4, <4>1 DEF PersistUnacked, pushVars
        <3> QED
            BY <3>3, <3>4
    <2>3. CASE PersistState
        BY <2>3 DEF PersistState, ghostVars
    <2>4. CASE PersistFails
        BY <2>4 DEF PersistFails, fileVars, pushVars, ghostVars
    <2>5. CASE Crash
        BY <2>5 DEF Crash, fileVars
    <2>6. CASE Open
        <3>1. /\ mode' = "up" /\ cause' = "open" /\ durable' = durable
              /\ diskTotal' = diskTotal /\ fileAcked' = fileAcked
              /\ total' = diskTotal /\ unacked' = fileUnacked /\ acked' = diskAcked
              /\ fTotal' = fTotal /\ fAcked' = fAcked /\ fUnacked' = fUnacked /\ fKnown' = fKnown
            BY <2>6 DEF Open, fileVars, ghostVars
        <3>2. persist' \in {"idle", "unacked"}
            BY <2>6 DEF Open
        <3>3. BeforeOtherWrite'
            BY <3>1
        <3>4. ASSUME persist' = "idle" PROVE SettledFiles'
            <4>1. diskTotal = fTotal /\ diskAcked = fileAcked /\ (fKnown \/ diskTotal = 0)
                BY <2>6, <3>4 DEF Open, diskAcked
            <4>2. fAcked = fileAcked
                BY <4>1, <3>1
            <4> QED
                BY <3>1, <4>1, <4>2 DEF diskAcked
        <3>5. push' = "none"
            BY <2>6 DEF Open, pushVars
        <3> QED
            BY <3>1, <3>2, <3>3, <3>4, <3>5
    <2>7. CASE DamageUnacked
        BY <2>7 DEF DamageUnacked, agentVars
    <2>8. CASE Wipe
        BY <2>8 DEF Wipe, agentVars
    <2>9. CASE Send
        BY <2>9 DEF Send, agentVars, fileVars, ghostVars
    <2>10. CASE Commit
        BY <2>10 DEF Commit, agentVars, fileVars
    <2>11. CASE PushFails
        BY <2>11 DEF PushFails, agentVars, fileVars, ghostVars
    <2>12. CASE AckDropped
        BY <2>12 DEF AckDropped, ackedNow, fileVars, ghostVars
    <2>13. CASE Consume
        BY <2>13 DEF Consume, agentVars, fileVars, ghostVars
    <2>14. CASE UNCHANGED ledgerVars
        BY <2>14 DEF ledgerVars, agentVars, fileVars, pushVars, ghostVars
    <2> QED
        BY <2>1, <2>2, <2>3, <2>4, <2>5, <2>6, <2>7, <2>8, <2>9, <2>10, <2>11, <2>12,
           <2>13, <2>14 DEF LedgerNext
<1>server. ASSUME WriteFaults \subseteq {"open"}, AckedInv, FilesInv, ServerInv, [LedgerNext]_ledgerVars
           PROVE  ServerInv'
    <2> USE <1>server
    <2> USE DEF ServerInv, LedgerTypeOK, reported, max, NULL
    <2> LedgerTypeOK
        BY DEF AckedInv
    <2>1. ASSUME NEW n \in 1..MaxDropped, Drop(n) PROVE ServerInv'
        BY <2>1, MaxDroppedAssumption DEF Drop, fileVars, pushVars, serverVars
    <2>2. CASE PersistUnacked
        BY <2>2 DEF PersistUnacked, pushVars, serverVars
    <2>3. CASE PersistState
        <3>1. fTotal <= total
            BY <2>3 DEF PersistState, AckedInv
        <3> QED
            BY <2>3, <3>1 DEF PersistState, pushVars, serverVars, ghostVars
    <2>4. CASE PersistFails
        BY <2>4 DEF PersistFails, fileVars, pushVars, serverVars, ghostVars
    <2>5. CASE Crash
        BY <2>5 DEF Crash, fileVars, serverVars
    <2>6. CASE Open
        BY <2>6 DEF Open, fileVars, pushVars, serverVars, ghostVars
    <2>7. CASE DamageUnacked
        BY <2>7 DEF DamageUnacked, agentVars, pushVars, serverVars
    <2>8. CASE Wipe
        <3>1. fTotal <= durable
            BY DEF FilesInv, diskTotal, fileUnacked, fileAcked, min
        <3>2. push = "none"
            BY <2>8 DEF Wipe, AckedInv, alive
        <3> QED
            BY <2>8, <3>1, <3>2 DEF Wipe, agentVars, pushVars, serverVars
    <2>9. CASE Send
        <3>1. fTotal = total
            BY <2>9 DEF Send, FilesInv, SettledFiles, alive
        <3> QED
            BY <2>9, <3>1 DEF Send, agentVars, fileVars, serverVars, ghostVars
    <2>10. CASE Commit
        <3>1. acked + reqUnacked = reqTotal /\ acked <= reported
            BY <2>10 DEF Commit, AckedInv, alive
        <3>2. lastTotal = NULL => min(reqUnacked, reqTotal) = reqTotal
            BY <3>1 DEF min
        <3>3. CASE reqTotal = 0
            BY <2>10, <3>3 DEF Commit, agentVars, fileVars
        <3>4. CASE reqTotal > 0
            BY <2>10, <3>2, <3>4 DEF Commit, droppedDelta, agentVars, fileVars
        <3> QED
            BY <3>3, <3>4
    <2>11. CASE PushFails
        BY <2>11 DEF PushFails, agentVars, fileVars, serverVars, ghostVars
    <2>12. CASE AckDropped
        BY <2>12 DEF AckDropped, ackedNow, fileVars, serverVars, ghostVars
    <2>13. CASE Consume
        BY <2>13 DEF Consume, agentVars, fileVars, serverVars, ghostVars
    <2>14. CASE UNCHANGED ledgerVars
        BY <2>14 DEF ledgerVars, agentVars, fileVars, pushVars, serverVars, ghostVars
    <2> QED
        BY <2>1, <2>2, <2>3, <2>4, <2>5, <2>6, <2>7, <2>8, <2>9, <2>10, <2>11, <2>12,
           <2>13, <2>14 DEF LedgerNext
<1>step. AckedInv' /\ ExactUnlessFaulty /\ [LedgerNext]_ledgerVars => ExactUnlessFaulty'
    <2> SUFFICES ASSUME WriteFaults \subseteq {"open"}, AckedInv', ExactInv, [LedgerNext]_ledgerVars
                 PROVE  ExactInv'
        BY DEF ExactUnlessFaulty
    <2>1. FilesInv'
        BY <1>files DEF ExactInv
    <2>2. ServerInv'
        BY <1>server DEF ExactInv
    <2> QED
        BY <2>1, <2>2 DEF ExactInv
<1>1. AckedInv /\ LedgerInit => ExactUnlessFaulty
    BY <1>init DEF ExactUnlessFaulty
<1> QED
    BY <1>1, <1>step, AckedInvAlways, PTL DEF LedgerSpec

(* With the writes of drops and acks succeeding, no crash between the      *)
(* removal of a segment, the two sidecar writes and the server's answer    *)
(* makes Open lose or invent a drop that had reached the disk.             *)
THEOREM TotalIsExactAlways == LedgerSpec => []TotalIsExact
<1>1. ExactUnlessFaulty => TotalIsExact
    BY DEF ExactUnlessFaulty, TotalIsExact, ExactInv, FilesInv
<1> QED
    BY <1>1, ExactAlways, PTL

(* The server's fold counts every durably dropped record exactly once over *)
(* retries, lost answers, crashes and wipes of the spool directory.        *)
THEOREM CountedOnceAlways == LedgerSpec => []CountedOnce
<1>1. ExactUnlessFaulty => CountedOnce
    <2> SUFFICES ASSUME WriteFaults \subseteq {"open"}, ExactInv
                 PROVE  /\ droppedResults <= base + durable
                        /\ base = 0 => droppedResults = max(lastTotal, 0)
        BY DEF ExactUnlessFaulty, CountedOnce
    <2>1. LedgerTypeOK
        BY DEF ExactInv, AckedInv
    <2>2. fTotal <= durable
        BY <2>1 DEF ExactInv, FilesInv, LedgerTypeOK, diskTotal, fileUnacked, fileAcked,
                    min, max
    <2>3. droppedResults <= base + durable
        BY <2>1, <2>2 DEF ExactInv, ServerInv, LedgerTypeOK, NULL
    <2> QED
        BY <2>3 DEF ExactInv, ServerInv, reported
<1> QED
    BY <1>1, ExactAlways, PTL

(* Within one life of the spool directory reported totals never go         *)
(* backwards, so the server never takes an ordinary report for a reset.    *)
THEOREM ResetOnlyAfterWipeAlways == LedgerSpec => ResetOnlyAfterWipe
<1> DEFINE ResetOK == (/\ WriteFaults \subseteq {"open"} /\ Commit /\ reqTotal > 0
                       /\ isReset(lastTotal, reqTotal)) => fresh
<1>1. ExactUnlessFaulty => ResetOK
    BY DEF ExactUnlessFaulty, ExactInv, AckedInv, LedgerTypeOK, ServerInv, Commit, isReset, NULL
<1>2. ExactUnlessFaulty => [ResetOK]_ledgerVars
    BY <1>1
<1> QED
    BY <1>2, ExactAlways, PTL DEF ResetOnlyAfterWipe
-----------------------------------------------------------------------------
(* The result path                                                         *)

(* The files: numbered from one, never empty, and the records in the order *)
(* they were appended, within a file and from one to the next.             *)
FilesOrdered ==
    /\ appended \in Nat
    /\ DOMAIN segs \subseteq Nat \ {0}
    /\ \E n \in Nat : \A q \in DOMAIN segs : q < n
    /\ \A q \in DOMAIN segs : segs[q] \in Seq(Nat) /\ segs[q] # <<>>
    /\ \A q \in DOMAIN segs : \A k \in 1..Len(segs[q]) : segs[q][k] \in 1..appended
    /\ \A q \in DOMAIN segs : \A k, l \in 1..Len(segs[q]) : k < l => segs[q][k] < segs[q][l]
    /\ \A p, q \in DOMAIN segs : p < q =>
          \A k \in 1..Len(segs[p]), l \in 1..Len(segs[q]) : segs[p][k] < segs[q][l]

(* The numbers the spool keeps in memory.                                  *)
NumbersFit ==
    /\ nextSeq \in Nat \ {0} /\ activeSeq \in Nat /\ activeSeq < nextSeq
    /\ readSeq \in Nat /\ readSeq < nextSeq /\ readOffset \in Nat
    /\ alive => \A q \in DOMAIN segs : q < nextSeq
    /\ activeOpen => activeSeq \in DOMAIN segs /\ \A q \in DOMAIN segs : q <= activeSeq
    /\ ~activeOpen => activeSeq \notin DOMAIN segs
    /\ ~alive => readSeq = 0 /\ activeSeq = 0 /\ batch = NoBatch

(* What lies before the read position was inserted.                        *)
PositionFits ==
    readSeq \in DOMAIN segs =>
        /\ readOffset <= Len(segs[readSeq])
        /\ \A k \in 1..readOffset : segs[readSeq][k] \in rows

(* What the batch says of a file is still true of it: an ack deletes or    *)
(* skips only what the batch carries or the server has.                    *)
ConsumedFits(c) ==
    /\ c.seq \in Nat /\ c.seq < nextSeq /\ c.end \in Nat
    /\ c.complete => c.seq # activeSeq
    /\ c.seq \in DOMAIN segs =>
          /\ c.end <= Len(segs[c.seq])
          /\ \A k \in 1..c.end : segs[c.seq][k] \in rows \cup batch.recs
          /\ c.complete => c.end = Len(segs[c.seq])

BatchFits ==
    /\ batch.recs \subseteq 1..appended
    /\ \A c \in batch.consumed : ConsumedFits(c)
    /\ OldestFirst
    /\ push \in {"committed", "reported"} => batch.recs \subseteq rows
    /\ pusher # "pushing" => push = "none"

Accounted == gone \in Nat /\ spooled \subseteq 1..appended /\ missing \subseteq dropped

SpoolInv == FilesOrdered /\ NumbersFit /\ PositionFits /\ BatchFits /\ Accounted

(* The records of a file from some point on, in number.                    *)
LEMMA TailCardinality ==
    ASSUME NEW s \in Seq(Nat), NEW a \in 0..Len(s),
           \A k, l \in 1..Len(s) : k < l => s[k] < s[l]
    PROVE  LET T == {s[k] : k \in (a + 1)..Len(s)}
           IN  IsFiniteSet(T) /\ Cardinality(T) = Len(s) - a
<1> DEFINE T == {s[k] : k \in (a + 1)..Len(s)}
           D == (a + 1)..Len(s)
           f == [k \in D |-> s[k]]
<1>1. /\ Len(s) \in Nat /\ a \in Nat /\ D \subseteq 1..Len(s)
      /\ \A k \in D : s[k] \in Nat
    OBVIOUS
<1>2. ASSUME NEW k \in D, NEW l \in D, k # l PROVE s[k] # s[l]
    <2>1. k < l \/ l < k
        BY <1>1, <1>2
    <2>2. s[k] \in Nat /\ s[l] \in Nat
        BY <1>1
    <2> QED
        BY <1>1, <2>1, <2>2
<1>3. f \in Bijection(D, T)
    BY <1>2 DEF Bijection, Injection, Surjection, IsInjective
<1>4. IsFiniteSet(D) /\ Cardinality(D) = Len(s) - a
    <2>1. a + 1 \in Int /\ Len(s) \in Int /\ a <= Len(s)
        BY <1>1
    <2>2. IsFiniteSet(D) /\ Cardinality(D) = IF a + 1 > Len(s) THEN 0 ELSE Len(s) - (a + 1) + 1
        BY <2>1, FS_Interval
    <2> HIDE DEF D
    <2> QED
        BY <1>1, <2>1, <2>2
<1> QED
    BY <1>3, <1>4, FS_Bijection DEF ExistsBijection

(* What a step does to the records on disk.                                *)
Appends == \E aged, due \in BOOLEAN : AppendRecord(aged, due)

Others ==
    \/ AppendUnspoolable \/ WithinBounds \/ PersistCounters \/ PersistError \/ CrashAgent \/ OpenSpool
    \/ Push \/ IngestBatch \/ PushError \/ AckDroppedBatch \/ Acknowledge \/ UNCHANGED vars

DiskMoves ==
    \/ Appends /\ OnDisk' = OnDisk \cup {appended + 1}
    \/ /\ DropOldest /\ Min(DOMAIN segs) \in DOMAIN segs
       /\ OnDisk' \subseteq OnDisk /\ OnDisk \subseteq OnDisk' \cup recsOf(Min(DOMAIN segs))
    \/ Others /\ OnDisk' \subseteq OnDisk /\ OnDisk \subseteq OnDisk' \cup rows

(* SpoolInv is inductive; a file disappears only by a drop, or because the *)
(* server has all its records.                                             *)
LEMMA SpoolStep ==
    /\ Init => SpoolInv
    /\ SpoolInv /\ [Next]_vars => SpoolInv' /\ DiskMoves
    /\ SpoolInv /\ DOMAIN segs # {} => Min(DOMAIN segs) \in DOMAIN segs
<1> USE StoreForwardAssumption
<1>init. Init => SpoolInv
    <2> SUFFICES ASSUME Init PROVE SpoolInv
        OBVIOUS
    <2>1. DOMAIN segs = {} /\ ~alive /\ appended = 0 /\ gone = 0
        BY DEF Init, LedgerInit, alive
    <2>2. FilesOrdered
        BY <2>1 DEF FilesOrdered
    <2>3. NumbersFit /\ PositionFits
        BY <2>1 DEF Init, NumbersFit, PositionFits
    <2>4. BatchFits
        BY <2>1 DEF Init, LedgerInit, BatchFits, OldestFirst, NoBatch
    <2> QED
        BY <2>1, <2>2, <2>3, <2>4 DEF Init, SpoolInv, Accounted, missing
\* The least and the greatest number of a file.
<1>min. ASSUME NEW S \in SUBSET Nat, S # {} PROVE \E x \in S : \A y \in S : x <= y
    <2> DEFINE R == OpToRel(<, Nat)
    <2>1. \E x \in S : \A y \in S : <<y, x>> \notin R
        <3> HIDE DEF R
        <3>1. IsWellFoundedOn(R, Nat)
            BY NatLessThanWellFounded DEF R
        <3> QED
            BY <1>min, <3>1, WFMin
    <2>2. \A x, y \in Nat : <<y, x>> \in R <=> y < x
        BY DEF OpToRel
    <2> HIDE DEF R
    <2>3. PICK x \in S : \A y \in S : <<y, x>> \notin R
        BY <2>1
    <2>4. \A y \in S : ~(y < x)
        BY <2>2, <2>3, Zenon
    <2> QED
        BY <2>4
<1>oldest. ASSUME FilesOrdered, DOMAIN segs # {} PROVE Min(DOMAIN segs) \in DOMAIN segs
    <2>1. DOMAIN segs \in SUBSET Nat
        BY <1>oldest DEF FilesOrdered
    <2> QED
        BY <1>oldest, <1>min, <2>1 DEF Min
<1>newest. ASSUME FilesOrdered, DOMAIN segs # {}
           PROVE  Max(DOMAIN segs) \in DOMAIN segs /\ \A q \in DOMAIN segs : q <= Max(DOMAIN segs)
    <2> DEFINE D == DOMAIN segs
               B == {n \in Nat : \A q \in D : q < n}
    <2>1. D \subseteq Nat /\ B # {} /\ B \in SUBSET Nat
        BY <1>newest DEF FilesOrdered
    <2>2. PICK m \in B : \A n \in B : m <= n
        BY <1>min, <2>1
    <2>3. m \in Nat /\ \A q \in D : q < m
        BY <2>2
    <2>4. m # 0
        BY <1>newest, <2>1, <2>3
    <2>5. m - 1 \notin B
        BY <2>2, <2>3, <2>4
    <2>6. \E q \in D : ~(q < m - 1)
        BY <2>3, <2>4, <2>5
    <2>7. \E q \in D : \A p \in D : q >= p
        BY <2>1, <2>3, <2>6
    <2>8. Max(D) \in D /\ \A p \in D : Max(D) >= p
        BY <2>7, Zenon DEF Max
    <2> QED
        BY <2>1, <2>8
\* A step that leaves the spool, the batch and the rows alone.
<1>quiet. ASSUME SpoolInv, alive' = alive,
                 UNCHANGED <<segs, activeSeq, activeOpen, nextSeq, readSeq, readOffset, batch, rows,
                             appended, spooled, dropped, gone>>,
                 push' \in {"committed", "reported"} => batch.recs \subseteq rows,
                 pusher' # "pushing" => push' = "none"
          PROVE  SpoolInv'
    <2>1. OnDisk' = OnDisk /\ FilesOrdered' /\ NumbersFit' /\ PositionFits'
        BY <1>quiet DEF SpoolInv, FilesOrdered, NumbersFit, PositionFits, OnDisk, recsOf
    <2>2. \A c \in batch.consumed : ConsumedFits(c)'
        BY <1>quiet DEF SpoolInv, BatchFits, ConsumedFits
    <2>3. BatchFits'
        BY <1>quiet, <2>1, <2>2 DEF SpoolInv, BatchFits, OldestFirst
    <2>4. Accounted'
        BY <1>quiet, <2>1 DEF SpoolInv, Accounted, missing
    <2> QED
        BY <2>1, <2>3, <2>4 DEF SpoolInv
\* Files disappear, and nothing else moves but the read position and the batch.
<1>fewer. ASSUME FilesOrdered, NEW qs, segs' = without(qs), UNCHANGED appended
          PROVE  /\ FilesOrdered' /\ DOMAIN segs' = DOMAIN segs \ qs
                 /\ \A q \in DOMAIN segs' : q \in DOMAIN segs /\ segs'[q] = segs[q]
                 /\ OnDisk' \subseteq OnDisk
    <2>1. DOMAIN segs' = DOMAIN segs \ qs /\ \A q \in DOMAIN segs' : q \in DOMAIN segs /\ segs'[q] = segs[q]
        BY <1>fewer DEF without
    <2>2. FilesOrdered'
        <3>1. /\ appended' \in Nat /\ DOMAIN segs' \subseteq Nat \ {0}
              /\ \E n \in Nat : \A q \in DOMAIN segs' : q < n
            BY <1>fewer, <2>1 DEF FilesOrdered
        <3>2. \A q \in DOMAIN segs' :
                 /\ segs'[q] \in Seq(Nat) /\ segs'[q] # <<>>
                 /\ \A k \in 1..Len(segs'[q]) : segs'[q][k] \in 1..appended'
            BY <1>fewer, <2>1 DEF FilesOrdered
        <3>3. \A q \in DOMAIN segs' : \A k, l \in 1..Len(segs'[q]) : k < l => segs'[q][k] < segs'[q][l]
            BY <1>fewer, <2>1 DEF FilesOrdered
        <3>4. ASSUME NEW p \in DOMAIN segs', NEW q \in DOMAIN segs', p < q,
                     NEW k \in 1..Len(segs'[p]), NEW l \in 1..Len(segs'[q])
              PROVE  segs'[p][k] < segs'[q][l]
            <4>1. p \in DOMAIN segs /\ q \in DOMAIN segs /\ segs'[p] = segs[p] /\ segs'[q] = segs[q]
                BY <2>1
            <4>2. k \in 1..Len(segs[p]) /\ l \in 1..Len(segs[q])
                BY <4>1
            <4>3. segs[p][k] < segs[q][l]
                BY <1>fewer, <3>4, <4>1, <4>2 DEF FilesOrdered
            <4> QED
                BY <4>1, <4>3
        <3> QED
            BY <3>1, <3>2, <3>3, <3>4 DEF FilesOrdered
    <2>3. OnDisk' \subseteq OnDisk
        BY <2>1 DEF OnDisk, recsOf
    <2> QED
        BY <2>1, <2>2, <2>3
<1>append. ASSUME SpoolInv, NEW aged \in BOOLEAN, NEW due \in BOOLEAN, AppendRecord(aged, due)
           PROVE  SpoolInv' /\ OnDisk' = OnDisk \cup {appended + 1}
    <2> DEFINE r == appended + 1
               fits == activeOpen /\ ~aged /\ Len(segs[activeSeq]) < SegMax
               at == IF fits THEN activeSeq ELSE nextSeq
               old == IF at \in DOMAIN segs THEN segs[at] ELSE <<>>
    <2>1. /\ mode = "up" /\ appended' = r /\ spooled' = spooled \cup {r}
          /\ UNCHANGED <<ledgerVars, readSeq, readOffset, pusher, batch, rows, dropped>>
          /\ fits => segs' = with(activeSeq, Append(segs[activeSeq], r))
                     /\ UNCHANGED <<activeSeq, activeOpen, nextSeq>>
          /\ ~fits => /\ segs' = with(nextSeq, <<r>>)
                      /\ activeSeq' = nextSeq /\ activeOpen' = TRUE /\ nextSeq' = nextSeq + 1
        BY <1>append DEF AppendRecord
    <2>2. /\ UNCHANGED <<mode, push, gone>> /\ alive /\ alive'
        BY <2>1 DEF alive, ledgerVars, agentVars, pushVars, ghostVars
    <2>3. /\ appended \in Nat /\ nextSeq \in Nat \ {0} /\ DOMAIN segs \subseteq Nat \ {0}
          /\ \A q \in DOMAIN segs : q < nextSeq
          /\ \A q \in DOMAIN segs : segs[q] \in Seq(Nat) /\ segs[q] # <<>>
          /\ \A q \in DOMAIN segs : \A k \in 1..Len(segs[q]) : segs[q][k] \in 1..appended
        BY <1>append, <2>2 DEF SpoolInv, FilesOrdered, NumbersFit
    <2>4. /\ at \in Nat \ {0} /\ old \in Seq(Nat) /\ \A k \in 1..Len(old) : old[k] \in 1..appended
          /\ \A q \in DOMAIN segs : q <= at
          /\ at \in DOMAIN segs => at = activeSeq /\ activeOpen
          /\ segs' = with(at, Append(old, r))
        <3>1. CASE fits
            <4>1. activeSeq \in DOMAIN segs /\ \A q \in DOMAIN segs : q <= activeSeq
                BY <1>append, <3>1 DEF SpoolInv, NumbersFit
            <4> QED
                BY <2>1, <2>3, <3>1, <4>1
        <3>2. CASE ~fits
            <4>1. nextSeq \notin DOMAIN segs /\ \A q \in DOMAIN segs : q <= nextSeq
                BY <2>3
            <4>2. Append(<<>>, r) = <<r>>
                BY <2>3
            <4>3. at = nextSeq /\ old = <<>>
                BY <3>2, <4>1
            <4>4. at \in Nat \ {0} /\ at \notin DOMAIN segs /\ segs' = with(at, Append(old, r))
                BY <2>1, <2>3, <3>2, <4>1, <4>2, <4>3
            <4> QED
                BY <4>1, <4>3, <4>4
        <3> QED
            BY <3>1, <3>2
    <2>5. /\ activeSeq' = at /\ activeOpen' /\ nextSeq' \in Nat \ {0} /\ at < nextSeq' /\ nextSeq <= nextSeq'
        BY <1>append, <2>1, <2>3 DEF SpoolInv, NumbersFit
    <2> HIDE DEF r, fits, at, old
    <2>6. /\ DOMAIN segs' = DOMAIN segs \cup {at} /\ segs'[at] = Append(old, r)
          /\ \A q \in DOMAIN segs \ {at} : segs'[q] = segs[q]
        BY <2>4 DEF with
    <2>7. /\ r \in Nat /\ \A x \in 1..appended : x < r /\ x \in 1..r
          /\ r \in 1..r
        BY <2>3 DEF r
    <2>8. /\ Append(old, r) \in Seq(Nat) /\ Len(Append(old, r)) = Len(old) + 1 /\ Len(old) \in Nat
          /\ \A k \in 1..Len(old) : Append(old, r)[k] = old[k] /\ old[k] \in 1..appended
          /\ Append(old, r)[Len(old) + 1] = r
        BY <2>4, <2>7
    <2>9. \A q \in DOMAIN segs \ {at} : q < at
        BY <2>3, <2>4
    <2>10. FilesOrdered'
        <3>1. appended' \in Nat /\ DOMAIN segs' \subseteq Nat \ {0}
            BY <2>1, <2>3, <2>4, <2>6, <2>7
        <3>2. \E n \in Nat : \A q \in DOMAIN segs' : q < n
            <4>1. nextSeq' \in Nat /\ \A q \in DOMAIN segs' : q < nextSeq'
                BY <2>3, <2>4, <2>5, <2>6
            <4> QED
                BY <4>1
        <3>3. /\ \A q \in DOMAIN segs' : segs'[q] \in Seq(Nat) /\ segs'[q] # <<>>
              /\ \A q \in DOMAIN segs' : \A k \in 1..Len(segs'[q]) : segs'[q][k] \in 1..r
            <4> SUFFICES ASSUME NEW q \in DOMAIN segs'
                         PROVE  /\ segs'[q] \in Seq(Nat) /\ segs'[q] # <<>>
                                /\ \A k \in 1..Len(segs'[q]) : segs'[q][k] \in 1..r
                OBVIOUS
            <4>1. CASE q # at
                BY <2>3, <2>6, <2>7, <4>1
            <4>2. CASE q = at
                <5>1. \A k \in 1..(Len(old) + 1) : k = Len(old) + 1 \/ k \in 1..Len(old)
                    BY <2>8
                <5> QED
                    BY <2>6, <2>7, <2>8, <4>2, <5>1
            <4> QED
                BY <4>1, <4>2
        <3>4. ASSUME NEW q \in DOMAIN segs', NEW k \in 1..Len(segs'[q]), NEW l \in 1..Len(segs'[q]), k < l
              PROVE  segs'[q][k] < segs'[q][l]
            <4>1. CASE q # at
                BY <1>append, <2>6, <3>4, <4>1 DEF SpoolInv, FilesOrdered
            <4>2. CASE q = at /\ l = Len(old) + 1
                <5>1. segs'[q] = Append(old, r) /\ Len(old) \in Nat /\ k \in 1..Len(segs'[q])
                    BY <2>6, <2>8, <3>4, <4>2
                <5>2. k \in 1..Len(old)
                    BY <2>8, <3>4, <4>2, <5>1
                <5> QED
                    BY <2>7, <2>8, <4>2, <5>1, <5>2
            <4>3. CASE q = at /\ l # Len(old) + 1
                <5>1. k \in 1..Len(old) /\ l \in 1..Len(old)
                    <6>1. segs'[q] = Append(old, r) /\ k \in 1..(Len(old) + 1) /\ l \in 1..(Len(old) + 1)
                        BY <2>6, <2>8, <4>3
                    <6>2. Len(old) \in Nat /\ k < l /\ l # Len(old) + 1
                        BY <2>8, <3>4, <4>3
                    <6> QED
                        BY <6>1, <6>2
                <5>2. at \in DOMAIN segs /\ old = segs[at]
                    BY <5>1 DEF old
                <5>3. old[k] < old[l]
                    BY <1>append, <3>4, <5>1, <5>2 DEF SpoolInv, FilesOrdered
                <5>4. segs'[q] = Append(old, r) /\ Append(old, r)[k] = old[k] /\ Append(old, r)[l] = old[l]
                    BY <2>6, <2>8, <4>3, <5>1
                <5> QED
                    BY <5>3, <5>4
            <4> QED
                BY <2>6, <2>8, <4>1, <4>2, <4>3
        <3>5. ASSUME NEW p \in DOMAIN segs', NEW q \in DOMAIN segs', p < q,
                     NEW k \in 1..Len(segs'[p]), NEW l \in 1..Len(segs'[q])
              PROVE  segs'[p][k] < segs'[q][l]
            <4>1. p # at /\ p \in DOMAIN segs /\ segs'[p] = segs[p]
                BY <2>3, <2>4, <2>6, <2>9, <3>5
            <4>2. segs[p][k] \in 1..appended
                BY <2>3, <3>5, <4>1
            <4>3. CASE q # at
                BY <1>append, <2>6, <3>5, <4>1, <4>3 DEF SpoolInv, FilesOrdered
            <4>4. CASE q = at /\ l = Len(old) + 1
                BY <2>6, <2>7, <2>8, <4>1, <4>2, <4>4
            <4>5. CASE q = at /\ l # Len(old) + 1
                <5>1. l \in 1..Len(old)
                    BY <2>6, <2>8, <4>5
                <5>2. at \in DOMAIN segs /\ old = segs[at]
                    BY <5>1 DEF old
                <5> QED
                    BY <1>append, <2>6, <2>8, <3>5, <4>1, <4>5, <5>1, <5>2 DEF SpoolInv, FilesOrdered
            <4> QED
                BY <2>6, <4>3, <4>4, <4>5
        <3> QED
            BY <2>1, <3>1, <3>2, <3>3, <3>4, <3>5 DEF FilesOrdered
    <2>11. \A q \in DOMAIN segs : /\ q \in DOMAIN segs' /\ Len(segs[q]) <= Len(segs'[q])
                                  /\ \A k \in 1..Len(segs[q]) : segs'[q][k] = segs[q][k]
                                  /\ q # activeSeq => segs'[q] = segs[q]
        <3> SUFFICES ASSUME NEW q \in DOMAIN segs
                     PROVE  /\ q \in DOMAIN segs' /\ Len(segs[q]) <= Len(segs'[q])
                            /\ \A k \in 1..Len(segs[q]) : segs'[q][k] = segs[q][k]
                            /\ q # activeSeq => segs'[q] = segs[q]
            OBVIOUS
        <3>1. CASE q = at
            <4>1. old = segs[at] /\ q = activeSeq
                BY <2>4, <3>1 DEF old
            <4>2. segs'[q] = Append(segs[q], r) /\ q \in DOMAIN segs'
                BY <2>6, <3>1, <4>1
            <4>3. Len(segs'[q]) = Len(segs[q]) + 1 /\ Len(segs[q]) \in Nat
                BY <2>8, <3>1, <4>1, <4>2
            <4>4. \A k \in 1..Len(segs[q]) : segs'[q][k] = segs[q][k]
                BY <2>8, <3>1, <4>1, <4>2
            <4> QED
                BY <4>1, <4>2, <4>3, <4>4
        <3>2. CASE q # at
            BY <2>3, <2>6, <3>2
        <3> QED
            BY <3>1, <3>2
    <2>12. NumbersFit'
        <3>1. \A q \in DOMAIN segs' : q <= at /\ q < nextSeq'
            BY <2>3, <2>4, <2>5, <2>6
        <3>2. readSeq' \in Nat /\ readSeq' < nextSeq' /\ readOffset' \in Nat
            BY <1>append, <2>1, <2>3, <2>5 DEF SpoolInv, NumbersFit
        <3>3. at \in DOMAIN segs'
            BY <2>6
        <3> QED
            BY <2>2, <2>4, <2>5, <3>1, <3>2, <3>3 DEF NumbersFit
    <2>13. OnDisk' = OnDisk \cup {r} /\ OnDisk \subseteq 1..appended
        <3>1. ASSUME NEW x \in OnDisk PROVE x \in OnDisk' /\ x \in 1..appended
            <4>1. PICK q \in DOMAIN segs : \E k \in 1..Len(segs[q]) : x = segs[q][k]
                BY DEF OnDisk, recsOf
            <4>2. PICK k \in 1..Len(segs[q]) : x = segs[q][k]
                BY <4>1
            <4>3. q \in DOMAIN segs' /\ segs'[q][k] = x /\ Len(segs[q]) <= Len(segs'[q])
                BY <2>11, <4>2
            <4>4. segs[q] \in Seq(Nat) /\ segs'[q] \in Seq(Nat)
                BY <2>3, <2>10, <4>3 DEF FilesOrdered
            <4>5. k \in 1..Len(segs'[q])
                BY <4>3, <4>4
            <4> QED
                BY <2>3, <4>2, <4>3, <4>5 DEF OnDisk, recsOf
        <3>2. r \in OnDisk'
            BY <2>6, <2>8 DEF OnDisk, recsOf
        <3>3. ASSUME NEW x \in OnDisk' PROVE x \in OnDisk \/ x = r
            <4>0. PICK q \in DOMAIN segs' : \E k \in 1..Len(segs'[q]) : x = segs'[q][k]
                BY DEF OnDisk, recsOf
            <4>1. PICK k \in 1..Len(segs'[q]) : x = segs'[q][k]
                BY <4>0
            <4>2. CASE q # at
                BY <2>6, <4>1, <4>2 DEF OnDisk, recsOf
            <4>3. CASE q = at /\ k # Len(old) + 1
                <5>1. k \in 1..Len(old)
                    BY <2>6, <2>8, <4>3
                <5>2. at \in DOMAIN segs /\ old = segs[at]
                    BY <5>1 DEF old
                <5> QED
                    <6>1. x = segs[at][k] /\ k \in 1..Len(segs[at])
                        BY <2>6, <2>8, <4>1, <4>3, <5>1, <5>2
                    <6> QED
                        BY <5>2, <6>1 DEF OnDisk, recsOf
            <4> QED
                BY <2>6, <2>8, <4>1, <4>2, <4>3
        <3> QED
            BY <3>1, <3>2, <3>3
    <2>14. PositionFits'
        <3> SUFFICES ASSUME readSeq' \in DOMAIN segs'
                     PROVE  readOffset' <= Len(segs'[readSeq']) /\ \A k \in 1..readOffset' : segs'[readSeq'][k] \in rows'
            BY DEF PositionFits
        <3>1. readSeq' = readSeq /\ readOffset' = readOffset /\ rows' = rows /\ readOffset \in Nat
              /\ readSeq < nextSeq
            BY <1>append, <2>1 DEF SpoolInv, NumbersFit
        <3>2. readSeq \in DOMAIN segs
            BY <2>3, <2>6, <2>1, <3>1, <1>append DEF at, fits, SpoolInv, NumbersFit
        <3>3. Len(segs[readSeq]) \in Nat /\ Len(segs'[readSeq]) \in Nat
            BY <2>3, <2>10, <2>11, <3>2 DEF FilesOrdered
        <3> QED
            BY <1>append, <2>11, <3>1, <3>2, <3>3 DEF SpoolInv, PositionFits
    <2>15. \A c \in batch.consumed : ConsumedFits(c)'
        <3> SUFFICES ASSUME NEW c \in batch.consumed PROVE ConsumedFits(c)'
            OBVIOUS
        <3>1. ConsumedFits(c) /\ c.seq \in Nat /\ c.end \in Nat /\ c.seq < nextSeq /\ (c.complete => c.seq # activeSeq)
            BY <1>append DEF SpoolInv, BatchFits, ConsumedFits
        <3>2. c.seq < nextSeq' /\ (c.complete => c.seq # activeSeq')
            BY <2>1, <2>3, <2>5, <3>1 DEF at
        <3>3. ASSUME c.seq \in DOMAIN segs'
              PROVE  /\ c.end <= Len(segs'[c.seq])
                     /\ \A k \in 1..c.end : segs'[c.seq][k] \in rows' \cup batch'.recs
                     /\ c.complete => c.end = Len(segs'[c.seq])
            <4>1. c.seq \in DOMAIN segs
                BY <1>append, <2>3, <2>6, <3>1, <3>3 DEF at, fits, SpoolInv, NumbersFit
            <4>2. Len(segs[c.seq]) \in Nat /\ Len(segs'[c.seq]) \in Nat
                BY <2>3, <2>10, <3>3, <4>1 DEF FilesOrdered
            <4>3. /\ c.end <= Len(segs[c.seq]) /\ \A k \in 1..c.end : segs[c.seq][k] \in rows \cup batch.recs
                  /\ c.complete => c.end = Len(segs[c.seq])
                BY <3>1, <4>1 DEF ConsumedFits
            <4> QED
                BY <2>1, <2>11, <3>1, <4>1, <4>2, <4>3
        <3> QED
            BY <2>1, <3>1, <3>2, <3>3 DEF ConsumedFits
    <2>16. BatchFits'
        <3>1. batch.recs \subseteq 1..appended /\ OldestFirst
            BY <1>append DEF SpoolInv, BatchFits
        <3>2. OldestFirst'
            BY <2>1, <2>3, <2>7, <2>13, <3>1 DEF OldestFirst
        <3> QED
            BY <1>append, <2>1, <2>2, <2>7, <2>15, <3>1, <3>2 DEF SpoolInv, BatchFits
    <2>17. Accounted'
        BY <1>append, <2>1, <2>2, <2>7, <2>13 DEF SpoolInv, Accounted, missing
    <2> QED
        BY <2>10, <2>12, <2>13, <2>14, <2>16, <2>17 DEF SpoolInv, r
<1>unspoolable. ASSUME SpoolInv, AppendUnspoolable PROVE SpoolInv'
    <2>1. /\ appended' = appended + 1 /\ dropped' = dropped \cup {appended + 1} /\ gone' = gone + 1
          /\ UNCHANGED <<segs, activeSeq, activeOpen, nextSeq, readSeq, readOffset, pusher, batch, rows,
                         spooled, mode, push>>
        BY <1>unspoolable DEF AppendUnspoolable, Drop, spoolVars, pushVars
    <2>2. appended \in Nat /\ alive' = alive /\ OnDisk' = OnDisk /\ \A x \in 1..appended : x \in 1..(appended + 1)
        BY <1>unspoolable, <2>1 DEF SpoolInv, FilesOrdered, alive, OnDisk, recsOf
    <2>3. FilesOrdered'
        BY <1>unspoolable, <2>1, <2>2 DEF SpoolInv, FilesOrdered
    <2>4. NumbersFit' /\ PositionFits'
        BY <1>unspoolable, <2>1, <2>2 DEF SpoolInv, NumbersFit, PositionFits
    <2>5. \A c \in batch.consumed : ConsumedFits(c)'
        BY <1>unspoolable, <2>1 DEF SpoolInv, BatchFits, ConsumedFits
    <2>6. BatchFits'
        BY <1>unspoolable, <2>1, <2>2, <2>5 DEF SpoolInv, BatchFits, OldestFirst
    <2>7. Accounted'
        BY <1>unspoolable, <2>1, <2>2 DEF SpoolInv, Accounted, missing
    <2> QED
        BY <2>3, <2>4, <2>6, <2>7 DEF SpoolInv
<1>drop. ASSUME SpoolInv, DropOldest
         PROVE  /\ SpoolInv' /\ OnDisk' \subseteq OnDisk
                /\ Min(DOMAIN segs) \in DOMAIN segs /\ OnDisk \subseteq OnDisk' \cup recsOf(Min(DOMAIN segs))
    <2> DEFINE oldest == Min(DOMAIN segs)
    <2>1. /\ segs' = without({oldest}) /\ Drop(countRecords(oldest)) /\ DOMAIN segs # {}
          /\ activeOpen' = (activeOpen /\ oldest # activeSeq)
          /\ readSeq' = IF readSeq = oldest THEN 0 ELSE readSeq
          /\ readOffset' = IF readSeq = oldest THEN 0 ELSE readOffset
          /\ dropped' = dropped \cup recsOf(oldest)
          /\ UNCHANGED <<activeSeq, nextSeq, pusher, batch, rows, appended, spooled>>
        BY <1>drop DEF DropOldest
    <2>2. oldest \in DOMAIN segs
        BY <1>drop, <1>oldest, <2>1 DEF SpoolInv
    <2> HIDE DEF oldest
    <2>3. /\ UNCHANGED <<mode, push>> /\ mode = "up" /\ gone' = gone + Len(segs[oldest])
        BY <2>1 DEF Drop, pushVars, countRecords
    <2>4. alive /\ alive'
        BY <2>3 DEF alive
    <2>5. /\ FilesOrdered' /\ DOMAIN segs' = DOMAIN segs \ {oldest}
          /\ \A q \in DOMAIN segs' : q \in DOMAIN segs /\ segs'[q] = segs[q]
          /\ OnDisk' \subseteq OnDisk
        BY <1>drop, <1>fewer, <2>1 DEF SpoolInv
    <2>6. NumbersFit'
        <3>1. /\ activeOpen' => activeSeq \in DOMAIN segs' /\ \A q \in DOMAIN segs' : q <= activeSeq
              /\ ~activeOpen' => activeSeq \notin DOMAIN segs'
            BY <1>drop, <2>1, <2>5 DEF SpoolInv, NumbersFit
        <3>2. readSeq' \in Nat /\ readSeq' < nextSeq /\ readOffset' \in Nat
            BY <1>drop, <2>1 DEF SpoolInv, NumbersFit
        <3> QED
            BY <1>drop, <2>1, <2>4, <2>5, <3>1, <3>2 DEF SpoolInv, NumbersFit
    <2>7. PositionFits'
        BY <1>drop, <2>1, <2>5 DEF SpoolInv, PositionFits, FilesOrdered
    <2>8. \A c \in batch.consumed : ConsumedFits(c)'
        BY <1>drop, <2>1, <2>5 DEF SpoolInv, BatchFits, ConsumedFits
    <2>9. BatchFits'
        BY <1>drop, <2>1, <2>3, <2>5, <2>8 DEF SpoolInv, BatchFits, OldestFirst
    <2>10. OnDisk \subseteq OnDisk' \cup recsOf(oldest)
        BY <2>5 DEF OnDisk, recsOf
    <2>11. gone' \in Nat
        BY <1>drop, <2>2, <2>3 DEF SpoolInv, Accounted, FilesOrdered
    <2>12. Accounted'
        BY <1>drop, <2>1, <2>10, <2>11 DEF SpoolInv, Accounted, missing
    <2> QED
        BY <2>2, <2>5, <2>6, <2>7, <2>9, <2>10, <2>12 DEF SpoolInv, oldest
<1>crash. ASSUME SpoolInv, CrashAgent PROVE SpoolInv'
    <2>1. /\ activeSeq' = 0 /\ activeOpen' = FALSE /\ nextSeq' = 1 /\ readSeq' = 0 /\ readOffset' = 0
          /\ batch' = NoBatch /\ push' = "none" /\ mode' = "down"
          /\ UNCHANGED <<segs, rows, appended, spooled, dropped, gone>>
        BY <1>crash DEF CrashAgent, Crash
    <2>2. ~alive' /\ OnDisk' = OnDisk /\ batch'.recs = {} /\ batch'.consumed = {}
        BY <2>1 DEF alive, OnDisk, recsOf, NoBatch
    <2>3. FilesOrdered' /\ 0 \notin DOMAIN segs
        BY <1>crash, <2>1 DEF SpoolInv, FilesOrdered
    <2>4. NumbersFit' /\ PositionFits'
        BY <2>1, <2>2, <2>3 DEF NumbersFit, PositionFits
    <2>5. BatchFits'
        BY <2>1, <2>2 DEF BatchFits, OldestFirst
    <2>6. Accounted'
        BY <1>crash, <2>1, <2>2 DEF SpoolInv, Accounted, missing
    <2> QED
        BY <2>3, <2>4, <2>5, <2>6 DEF SpoolInv
<1>open. ASSUME SpoolInv, OpenSpool PROVE SpoolInv'
    <2>1. /\ nextSeq' = IF DOMAIN segs = {} THEN 1 ELSE Max(DOMAIN segs) + 1
          /\ mode = "down" /\ mode' = "up"
          /\ UNCHANGED <<segs, activeSeq, activeOpen, readSeq, readOffset, pusher, batch, rows, appended,
                         spooled, dropped, gone, push>>
        BY <1>open DEF OpenSpool, Open, pushVars, ghostVars
    <2>2. ~alive /\ alive' /\ OnDisk' = OnDisk
        BY <2>1 DEF alive, OnDisk, recsOf
    <2>3. /\ readSeq = 0 /\ activeSeq = 0 /\ batch.recs = {} /\ batch.consumed = {} /\ readOffset \in Nat
          /\ 0 \notin DOMAIN segs /\ DOMAIN segs \subseteq Nat
        BY <1>open, <2>2 DEF SpoolInv, NumbersFit, FilesOrdered, NoBatch
    <2>4. nextSeq' \in Nat \ {0} /\ \A q \in DOMAIN segs : q < nextSeq'
        <3>1. CASE DOMAIN segs = {}
            BY <2>1, <3>1
        <3>2. CASE DOMAIN segs # {}
            <4>1. Max(DOMAIN segs) \in DOMAIN segs /\ \A q \in DOMAIN segs : q <= Max(DOMAIN segs)
                BY <1>open, <1>newest, <3>2 DEF SpoolInv
            <4> DEFINE m == Max(DOMAIN segs)
            <4> HIDE DEF m
            <4>2. m \in DOMAIN segs /\ (\A q \in DOMAIN segs : q <= m) /\ nextSeq' = m + 1
                BY <2>1, <3>2, <4>1 DEF m
            <4> QED
                BY <2>3, <4>2
        <3> QED
            BY <3>1, <3>2
    <2>5. FilesOrdered'
        BY <1>open, <2>1 DEF SpoolInv, FilesOrdered
    <2>6. NumbersFit' /\ PositionFits'
        BY <1>open, <2>1, <2>2, <2>3, <2>4 DEF SpoolInv, NumbersFit, PositionFits
    <2>7. BatchFits'
        BY <1>open, <2>1, <2>2, <2>3 DEF SpoolInv, BatchFits, OldestFirst
    <2>8. Accounted'
        BY <1>open, <2>1, <2>2 DEF SpoolInv, Accounted, missing
    <2> QED
        BY <2>5, <2>6, <2>7, <2>8 DEF SpoolInv
<1>ingest. ASSUME SpoolInv, IngestBatch PROVE SpoolInv'
    <2>1. /\ rows' = rows \cup batch.recs /\ push = "sent"
          /\ UNCHANGED <<segs, activeSeq, activeOpen, nextSeq, readSeq, readOffset, pusher, batch, appended,
                         spooled, dropped, gone, mode>>
        BY <1>ingest DEF IngestBatch, Commit, spoolVars, agentVars
    <2>2. alive' = alive /\ OnDisk' = OnDisk
        BY <2>1 DEF alive, OnDisk, recsOf
    <2>3. FilesOrdered' /\ NumbersFit' /\ PositionFits'
        BY <1>ingest, <2>1, <2>2 DEF SpoolInv, FilesOrdered, NumbersFit, PositionFits
    <2>4. \A c \in batch.consumed : ConsumedFits(c)'
        BY <1>ingest, <2>1 DEF SpoolInv, BatchFits, ConsumedFits
    <2>5. BatchFits'
        BY <1>ingest, <2>1, <2>2, <2>4 DEF SpoolInv, BatchFits, OldestFirst
    <2>6. Accounted'
        BY <1>ingest, <2>1, <2>2 DEF SpoolInv, Accounted, missing
    <2> QED
        BY <2>3, <2>5, <2>6 DEF SpoolInv
<1>error. ASSUME SpoolInv, PushError PROVE SpoolInv'
    <2>1. /\ batch' = NoBatch /\ push' = "none"
          /\ UNCHANGED <<segs, activeSeq, activeOpen, nextSeq, readSeq, readOffset, rows, appended,
                         spooled, dropped, gone, mode>>
        BY <1>error DEF PushError, PushFails, spoolVars, agentVars, ghostVars
    <2>2. alive' = alive /\ OnDisk' = OnDisk /\ batch'.recs = {} /\ batch'.consumed = {}
        BY <2>1 DEF alive, OnDisk, recsOf, NoBatch
    <2>3. FilesOrdered' /\ NumbersFit' /\ PositionFits'
        BY <1>error, <2>1, <2>2 DEF SpoolInv, FilesOrdered, NumbersFit, PositionFits
    <2>4. BatchFits'
        BY <2>1, <2>2 DEF BatchFits, OldestFirst
    <2>5. Accounted'
        BY <1>error, <2>1, <2>2 DEF SpoolInv, Accounted, missing
    <2> QED
        BY <2>3, <2>4, <2>5 DEF SpoolInv
\* Next reads whole files before it goes on to the next one.
<1>read. ASSUME SpoolInv, alive PROVE /\ \A q \in DOMAIN segs : start(q) \in 0..Len(segs[q])
                                      /\ \A q \in DOMAIN segs : \A k \in 1..start(q) : segs[q][k] \in rows
                                      /\ \A q \in visited : taken(q) \in 0..(Len(segs[q]) - start(q))
                                      /\ \A q \in visited : \A p \in DOMAIN segs :
                                            p < q => p \in visited /\ taken(p) = Len(segs[p]) - start(p)
    <2>f. FilesOrdered /\ appended \in Nat /\ DOMAIN segs \subseteq Nat
        BY <1>read DEF SpoolInv, FilesOrdered
    <2>1. \A q \in DOMAIN segs : segs[q] \in Seq(Nat) /\ Len(segs[q]) \in Nat
        BY <2>f DEF FilesOrdered
    <2>2. \A q \in DOMAIN segs : start(q) \in 0..Len(segs[q]) /\ \A k \in 1..start(q) : segs[q][k] \in rows
        <3> SUFFICES ASSUME NEW q \in DOMAIN segs
                     PROVE  start(q) \in 0..Len(segs[q]) /\ \A k \in 1..start(q) : segs[q][k] \in rows
            OBVIOUS
        <3>1. CASE q = readSeq
            BY <1>read, <2>1, <3>1 DEF SpoolInv, NumbersFit, PositionFits, start
        <3>2. CASE q # readSeq
            BY <2>1, <3>2 DEF start
        <3> QED
            BY <3>1, <3>2
    <2>3. \A q \in DOMAIN segs : IsFiniteSet(unread(q)) /\ Cardinality(unread(q)) = Len(segs[q]) - start(q)
        <3> SUFFICES ASSUME NEW q \in DOMAIN segs
                     PROVE  IsFiniteSet(unread(q)) /\ Cardinality(unread(q)) = Len(segs[q]) - start(q)
            OBVIOUS
        <3> DEFINE f == segs[q]
                   a == start(q)
        <3>1. f \in Seq(Nat) /\ a \in 0..Len(f) /\ \A k, l \in 1..Len(f) : k < l => f[k] < f[l]
            BY <2>f, <2>1, <2>2 DEF FilesOrdered
        <3>2. unread(q) = {f[k] : k \in (a + 1)..Len(f)}
            BY DEF unread
        <3> HIDE DEF f, a
        <3>3. LET T == {f[k] : k \in (a + 1)..Len(f)} IN IsFiniteSet(T) /\ Cardinality(T) = Len(f) - a
            BY <3>1, TailCardinality
        <3> QED
            BY <3>2, <3>3 DEF f, a
    <2> DEFINE below(q) == UNION {unread(p) : p \in {p \in DOMAIN segs : p < q}}
    <2>4. \A q \in DOMAIN segs : \A x \in unread(q) : x \in 1..appended /\ \E k \in 1..Len(segs[q]) : x = segs[q][k]
        BY <2>f, <2>1, <2>2 DEF unread, FilesOrdered
    <2>5. \A q \in DOMAIN segs : IsFiniteSet(below(q)) /\ before(q) = Cardinality(below(q)) /\ before(q) \in Nat
        <3> SUFFICES ASSUME NEW q \in DOMAIN segs
                     PROVE  IsFiniteSet(below(q)) /\ before(q) = Cardinality(below(q)) /\ before(q) \in Nat
            OBVIOUS
        <3>1. below(q) \in SUBSET (1..appended)
            BY <2>4
        <3>2. before(q) = Cardinality(below(q))
            BY DEF before
        <3> HIDE DEF below
        <3>3. IsFiniteSet(1..appended)
            BY <2>f, FS_Interval
        <3>4. IsFiniteSet(below(q))
            BY <3>1, <3>3, FS_Subset
        <3> QED
            BY <3>2, <3>4, FS_CardinalityType
    <2>6. \A q \in visited : taken(q) \in 0..(Len(segs[q]) - start(q))
        <3> SUFFICES ASSUME NEW q \in visited PROVE taken(q) \in 0..(Len(segs[q]) - start(q))
            OBVIOUS
        <3>1. /\ q \in DOMAIN segs /\ before(q) < BatchSize /\ before(q) \in Nat /\ BatchSize \in Nat
              /\ Cardinality(unread(q)) = Len(segs[q]) - start(q)
              /\ start(q) \in 0..Len(segs[q]) /\ Len(segs[q]) \in Nat
            BY <2>1, <2>2, <2>3, <2>5 DEF visited
        <3> QED
            BY <3>1 DEF taken, min
    <2>7. ASSUME NEW q \in visited, NEW p \in DOMAIN segs, p < q
          PROVE  p \in visited /\ taken(p) = Len(segs[p]) - start(p)
        <3>1. q \in DOMAIN segs /\ before(q) < BatchSize /\ BatchSize \in Nat
            BY DEF visited
        <3>2. below(p) \cup unread(p) \subseteq below(q)
            BY <2>f, <2>7, <3>1
        <3>3. ASSUME NEW x \in below(p) \cap unread(p) PROVE FALSE
            <4>1. PICK o \in DOMAIN segs : o < p /\ x \in unread(o)
                OBVIOUS
            <4>2. PICK k \in 1..Len(segs[o]) : x = segs[o][k]
                BY <2>4, <4>1
            <4>3. PICK l \in 1..Len(segs[p]) : x = segs[p][l]
                BY <2>4
            <4>4. segs[o][k] < segs[p][l]
                BY <2>f, <4>1 DEF FilesOrdered
            <4>5. x \in Nat
                BY <2>4
            <4> QED
                BY <4>2, <4>3, <4>4, <4>5
        <3>4. below(p) \cap unread(p) = {}
            BY <3>3
        <3> HIDE DEF below
        <3>5. /\ IsFiniteSet(below(p)) /\ IsFiniteSet(unread(p)) /\ IsFiniteSet(below(q))
              /\ before(p) = Cardinality(below(p)) /\ before(q) = Cardinality(below(q))
              /\ before(p) \in Nat /\ before(q) \in Nat
              /\ Cardinality(unread(p)) = Len(segs[p]) - start(p)
              /\ Len(segs[p]) - start(p) \in Nat
            BY <2>1, <2>2, <2>3, <2>5, <3>1
        <3>6. Cardinality(below(p) \cup unread(p)) = Cardinality(below(p)) + Cardinality(unread(p)) - Cardinality({})
            BY <3>4, <3>5, FS_Union
        <3>7. Cardinality(below(p) \cup unread(p)) <= Cardinality(below(q))
            BY <3>2, <3>5, FS_Subset
        <3>8. Cardinality({}) = 0
            BY FS_EmptySet
        <3>9. before(p) + (Len(segs[p]) - start(p)) <= before(q)
            BY <3>5, <3>6, <3>7, <3>8
        <3> QED
            BY <3>1, <3>5, <3>9 DEF visited, taken, min
    <2> QED
        BY <2>2, <2>6, <2>7
<1>next. ASSUME SpoolInv, Next_ PROVE SpoolInv'
    <2>1. /\ UNCHANGED <<segs, activeSeq, activeOpen, nextSeq, readSeq, readOffset, rows, appended,
                         spooled, dropped, gone, mode, push>>
          /\ mode \in {"up", "failing"} /\ pusher = "drain"
          /\ \/ batch' = batch /\ pusher' = "top"
             \/ batch' = nextBatch /\ pusher' = "read"
        BY <1>next DEF Next_, running, alive, ledgerVars, agentVars, pushVars, ghostVars
    <2>2. alive /\ alive' /\ OnDisk' = OnDisk /\ push = "none"
        BY <1>next, <2>1 DEF alive, OnDisk, recsOf, SpoolInv, BatchFits
    <2>3. CASE batch' = batch /\ pusher' = "top"
        BY <1>next, <1>quiet, <2>1, <2>2, <2>3
    <2>4. CASE batch' = nextBatch /\ pusher' = "read"
        <3>f. FilesOrdered /\ appended \in Nat /\ DOMAIN segs \subseteq Nat \ {0}
            BY <1>next DEF SpoolInv, FilesOrdered
        <3>r. /\ \A q \in DOMAIN segs : start(q) \in 0..Len(segs[q])
              /\ \A q \in DOMAIN segs : \A k \in 1..start(q) : segs[q][k] \in rows
              /\ \A q \in visited : q \in DOMAIN segs /\ taken(q) \in 0..(Len(segs[q]) - start(q))
              /\ \A q \in visited : \A p \in DOMAIN segs :
                    p < q => p \in visited /\ taken(p) = Len(segs[p]) - start(p)
              /\ \A q \in DOMAIN segs : Len(segs[q]) \in Nat
            BY <1>next, <1>read, <2>2, <3>f DEF visited, FilesOrdered
        <3>1. \A q \in visited : \A k \in 1..(start(q) + taken(q)) :
                /\ k \in 1..Len(segs[q]) /\ segs[q][k] \in rows \cup nextBatch.recs
            <4> SUFFICES ASSUME NEW q \in visited, NEW k \in 1..(start(q) + taken(q))
                         PROVE  k \in 1..Len(segs[q]) /\ segs[q][k] \in rows \cup nextBatch.recs
                OBVIOUS
            <4>1. /\ q \in DOMAIN segs /\ start(q) \in Nat /\ taken(q) \in Nat /\ Len(segs[q]) \in Nat
                  /\ start(q) + taken(q) <= Len(segs[q])
                BY <3>r
            <4>2. k \in 1..Len(segs[q])
                BY <4>1
            <4>3. CASE k <= start(q)
                BY <3>r, <4>1, <4>3
            <4>4. CASE k > start(q)
                <5>0. k - start(q) \in 1..taken(q) /\ k = start(q) + (k - start(q))
                    BY <4>1, <4>4
                <5>1. PICK j \in 1..taken(q) : k = start(q) + j
                    BY <5>0
                <5> QED
                    BY <4>2, <5>1 DEF nextBatch
            <4> QED
                BY <4>1, <4>2, <4>3, <4>4
        <3>2. ASSUME NEW b \in nextBatch.recs
              PROVE  \E q \in visited : \E k \in 1..(start(q) + taken(q)) : b = segs[q][k]
            <4>1. PICK q \in visited : \E k \in 1..taken(q) : b = segs[q][start(q) + k]
                BY DEF nextBatch
            <4>2. PICK k \in 1..taken(q) : b = segs[q][start(q) + k]
                BY <4>1
            <4>3. start(q) \in Nat /\ taken(q) \in Nat
                BY <3>r
            <4>4. start(q) + k \in 1..(start(q) + taken(q))
                BY <4>3
            <4> QED
                BY <4>2, <4>4
        <3>3. nextBatch.recs \subseteq 1..appended
            <4> SUFFICES ASSUME NEW b \in nextBatch.recs PROVE b \in 1..appended
                OBVIOUS
            <4>1. PICK q \in visited : \E k \in 1..(start(q) + taken(q)) : b = segs[q][k]
                BY <3>2
            <4>2. PICK k \in 1..(start(q) + taken(q)) : b = segs[q][k]
                BY <4>1
            <4> QED
                BY <3>f, <3>r, <3>1, <4>2 DEF FilesOrdered
        <3>4. OldestFirst'
            <4> SUFFICES ASSUME NEW b \in nextBatch.recs, NEW r \in OnDisk, r < b PROVE r \in nextBatch.recs \cup rows
                BY <2>1, <2>2, <2>4 DEF OldestFirst
            <4>1. PICK q \in visited : \E k \in 1..(start(q) + taken(q)) : b = segs[q][k]
                BY <3>2
            <4>2. PICK k \in 1..(start(q) + taken(q)) : b = segs[q][k]
                BY <4>1
            <4>3. PICK p \in DOMAIN segs : \E l \in 1..Len(segs[p]) : r = segs[p][l]
                BY DEF OnDisk, recsOf
            <4>4. PICK l \in 1..Len(segs[p]) : r = segs[p][l]
                BY <4>3
            <4>5. q \in DOMAIN segs /\ k \in 1..Len(segs[q]) /\ b \in 1..appended /\ r \in 1..appended
                BY <3>f, <3>r, <3>1, <4>2, <4>4 DEF FilesOrdered
            <4>6. ~(q < p)
                BY <3>f, <4>2, <4>4, <4>5, SMTT(30) DEF FilesOrdered
            <4>7. CASE p = q
                <5>1. ~(k < l) /\ k # l
                    BY <3>f, <4>2, <4>4, <4>5, <4>7, SMTT(30) DEF FilesOrdered
                <5>2. l \in 1..(start(q) + taken(q))
                    BY <3>r, <4>5, <4>7, <5>1
                <5> QED
                    BY <3>1, <4>4, <4>7, <5>2
            <4>8. CASE p < q
                <5>1. p \in visited /\ taken(p) = Len(segs[p]) - start(p)
                    BY <3>r, <4>8
                <5>2. l \in 1..(start(p) + taken(p))
                    BY <3>r, <5>1
                <5> QED
                    BY <3>1, <4>4, <5>1, <5>2
            <4> QED
                BY <3>f, <4>5, <4>6, <4>7, <4>8
        <3>5. ASSUME NEW c \in nextBatch.consumed PROVE ConsumedFits(c)'
            <4>1. PICK q \in visited : c = consumedSeg(q)
                BY DEF nextBatch
            <4>2. /\ c.seq = q /\ c.end = start(q) + taken(q)
                  /\ c.complete => c.end >= Len(segs[q]) /\ q # activeSeq
                BY <4>1 DEF consumedSeg
            <4>3. /\ q \in DOMAIN segs /\ q < nextSeq /\ q \in Nat /\ c.end \in Nat
                  /\ c.end <= Len(segs[q]) /\ Len(segs[q]) \in Nat
                BY <1>next, <2>2, <3>f, <3>r, <4>2 DEF SpoolInv, NumbersFit
            <4>4. \A k \in 1..c.end : segs[q][k] \in rows \cup nextBatch.recs
                BY <3>1, <4>2
            <4> QED
                BY <2>1, <2>4, <4>2, <4>3, <4>4 DEF ConsumedFits
        <3>6. BatchFits'
            BY <2>1, <2>2, <2>4, <3>3, <3>4, <3>5 DEF BatchFits
        <3>7. FilesOrdered' /\ NumbersFit' /\ PositionFits'
            BY <1>next, <2>1, <2>2 DEF SpoolInv, FilesOrdered, NumbersFit, PositionFits
        <3>8. Accounted'
            BY <1>next, <2>1, <2>2 DEF SpoolInv, Accounted, missing
        <3> QED
            BY <3>6, <3>7, <3>8 DEF SpoolInv
    <2> QED
        BY <2>1, <2>3, <2>4
<1>ack. ASSUME SpoolInv, NEW failed, AckBatch(failed)
        PROVE  SpoolInv' /\ OnDisk' \subseteq OnDisk /\ OnDisk \subseteq OnDisk' \cup rows
    <2> DEFINE removed == {c.seq : c \in {d \in batch.consumed : d.complete}} \ failed
               partial == {c \in batch.consumed : ~c.complete}
    <2>1. /\ segs' = without(removed) /\ push = "reported" /\ push' = "none" /\ batch' = NoBatch
          /\ UNCHANGED <<activeSeq, activeOpen, nextSeq, rows, appended, spooled, dropped, gone, mode>>
          /\ mode \in {"up", "failing"}
        BY <1>ack DEF AckBatch, Consume, running, alive, agentVars, ghostVars
    <2>2. \/ \E c \in partial : readSeq' = c.seq /\ readOffset' = c.end
          \/ readSeq \in removed /\ readSeq' = 0 /\ readOffset' = 0
          \/ readSeq \notin removed /\ readSeq' = readSeq /\ readOffset' = readOffset
        <3>1. CASE partial # {}
            <4>1. LET c == CHOOSE d \in partial : TRUE IN readSeq' = c.seq /\ readOffset' = c.end
                BY <1>ack, <3>1 DEF AckBatch
            <4>2. (CHOOSE d \in partial : TRUE) \in partial
                BY <3>1
            <4> QED
                BY <4>1, <4>2
        <3>2. CASE partial = {}
            BY <1>ack, <3>2 DEF AckBatch
        <3> QED
            BY <3>1, <3>2
    <2>3. /\ batch.recs \subseteq rows
          /\ \A c \in batch.consumed : ConsumedFits(c)
        BY <1>ack, <2>1 DEF SpoolInv, BatchFits
    <2>4. \A q \in removed \cap DOMAIN segs : q # activeSeq /\ recsOf(q) \subseteq rows
        BY <2>3 DEF ConsumedFits, recsOf
    <2>5. \A c \in partial : c.seq \in Nat /\ c.seq < nextSeq /\ c.end \in Nat
                             /\ (c.seq \in DOMAIN segs => c.end <= Len(segs[c.seq])
                                                           /\ \A k \in 1..c.end : segs[c.seq][k] \in rows)
        BY <2>3 DEF ConsumedFits
    <2> HIDE DEF removed, partial
    <2>6. /\ FilesOrdered' /\ DOMAIN segs' = DOMAIN segs \ removed
          /\ \A q \in DOMAIN segs' : q \in DOMAIN segs /\ segs'[q] = segs[q]
          /\ OnDisk' \subseteq OnDisk
        BY <1>ack, <1>fewer, <2>1 DEF SpoolInv
    <2>7. alive /\ alive' /\ batch'.recs = {} /\ batch'.consumed = {} /\ 0 \notin DOMAIN segs
        BY <1>ack, <2>1 DEF alive, NoBatch, SpoolInv, FilesOrdered
    <2>8. readSeq' \in Nat /\ readSeq' < nextSeq /\ readOffset' \in Nat
        BY <1>ack, <2>2, <2>5 DEF SpoolInv, NumbersFit
    <2>9. NumbersFit'
        <3>1. /\ activeOpen => activeSeq \in DOMAIN segs' /\ \A q \in DOMAIN segs' : q <= activeSeq
              /\ ~activeOpen => activeSeq \notin DOMAIN segs'
            BY <1>ack, <2>4, <2>6 DEF SpoolInv, NumbersFit
        <3> QED
            BY <1>ack, <2>1, <2>6, <2>7, <2>8, <3>1 DEF SpoolInv, NumbersFit
    <2>10. PositionFits'
        <3> SUFFICES ASSUME readSeq' \in DOMAIN segs'
                     PROVE  readOffset' <= Len(segs'[readSeq']) /\ \A k \in 1..readOffset' : segs'[readSeq'][k] \in rows
            BY <2>1 DEF PositionFits
        <3>1. CASE \E c \in partial : readSeq' = c.seq /\ readOffset' = c.end
            BY <2>5, <2>6, <3>1
        <3>2. CASE readSeq' = 0
            BY <2>6, <2>7, <3>2
        <3>3. CASE readSeq' = readSeq /\ readOffset' = readOffset
            BY <1>ack, <2>6, <3>3 DEF SpoolInv, PositionFits
        <3> QED
            BY <2>2, <3>1, <3>2, <3>3
    <2>11. BatchFits'
        BY <2>1, <2>7 DEF BatchFits, OldestFirst
    <2>12. OnDisk \subseteq OnDisk' \cup rows
        BY <2>4, <2>6 DEF OnDisk, recsOf
    <2>13. Accounted'
        BY <1>ack, <2>1, <2>12 DEF SpoolInv, Accounted, missing
    <2> QED
        BY <2>6, <2>9, <2>10, <2>11, <2>12, <2>13 DEF SpoolInv
<1>1. ASSUME SpoolInv, [Next]_vars PROVE SpoolInv' /\ DiskMoves
    <2>1. CASE Appends
        BY <1>1, <1>append, <2>1 DEF Appends, DiskMoves
    <2>2. CASE DropOldest
        BY <1>1, <1>drop, <2>2 DEF DiskMoves
    <2>3. CASE Acknowledge
        BY <1>1, <1>ack, <2>3 DEF Acknowledge, DiskMoves, Others
    <2>4. ASSUME segs' = segs, Others, SpoolInv' PROVE SpoolInv' /\ DiskMoves
        BY <2>4 DEF DiskMoves, OnDisk, recsOf
    <2>5. CASE AppendUnspoolable \/ CrashAgent \/ OpenSpool \/ IngestBatch \/ PushError \/ Next_
        <3>1. SpoolInv'
            BY <1>1, <1>unspoolable, <1>crash, <1>open, <1>ingest, <1>error, <1>next, <2>5
        <3>2. segs' = segs /\ Others
            BY <2>5 DEF AppendUnspoolable, CrashAgent, OpenSpool, IngestBatch, PushError, Next_, Others, Push
        <3> QED
            BY <2>4, <3>1, <3>2
    <2>6. CASE WithinBounds \/ PersistCounters \/ PersistError \/ Wake \/ CollectSignal \/ CollectDone
               \/ SendBatch \/ BackoffOver \/ AckDroppedBatch \/ UNCHANGED vars
        <3>1. /\ UNCHANGED <<segs, activeSeq, activeOpen, nextSeq, readSeq, readOffset, batch, rows,
                             appended, spooled, dropped, gone>>
              /\ alive' = alive /\ Others
            <4>1. CASE WithinBounds
                BY <4>1 DEF WithinBounds, Others, ledgerVars, agentVars, ghostVars, alive
            <4>2. CASE PersistCounters \/ PersistError
                BY <4>2 DEF PersistCounters, PersistUnacked, PersistState, PersistError, PersistFails,
                            Others, pathVars, spoolVars, ghostVars, alive
            <4>3. CASE Wake \/ CollectSignal \/ CollectDone \/ SendBatch \/ BackoffOver
                BY <4>3 DEF Wake, CollectSignal, CollectDone, SendBatch, Send, BackoffOver, Push, Others,
                            spoolVars, ledgerVars, agentVars, ghostVars, alive
            <4>4. CASE AckDroppedBatch \/ UNCHANGED vars
                BY <4>4 DEF AckDroppedBatch, AckDropped, Others, vars, pathVars, spoolVars, ledgerVars,
                            agentVars, ghostVars, alive
            <4> QED
                BY <2>6, <4>1, <4>2, <4>3, <4>4
        <3>2. /\ push' \in {"committed", "reported"} => push \in {"committed", "reported"}
              /\ pusher' # "pushing" => (pusher # "pushing" /\ push' = push)
            <4>1. CASE WithinBounds
                BY <4>1 DEF WithinBounds, ledgerVars, pushVars
            <4>2. CASE PersistCounters \/ PersistError
                BY <4>2 DEF PersistCounters, PersistUnacked, PersistState, PersistError, PersistFails,
                            pathVars, pushVars
            <4>3. CASE Wake \/ CollectSignal \/ CollectDone \/ SendBatch \/ BackoffOver
                BY <4>3 DEF Wake, CollectSignal, CollectDone, SendBatch, Send, BackoffOver, ledgerVars, pushVars
            <4>4. CASE AckDroppedBatch \/ UNCHANGED vars
                <5>1. push = "committed" => pusher = "pushing"
                    BY <1>1 DEF SpoolInv, BatchFits
                <5> QED
                    BY <4>4, <5>1 DEF AckDroppedBatch, AckDropped, vars, pathVars, ledgerVars, pushVars
            <4> QED
                BY <2>6, <4>1, <4>2, <4>3, <4>4
        <3>3. SpoolInv'
            BY <1>1, <1>quiet, <3>1, <3>2 DEF SpoolInv, BatchFits
        <3> QED
            BY <2>4, <3>1, <3>3
    <2> QED
        BY <1>1, <2>1, <2>2, <2>3, <2>5, <2>6 DEF Next, Produce, Enforce, Push, Appends
<1> QED
    BY <1>init, <1>oldest, <1>1 DEF SpoolInv

(* What the spool, the pusher and the server do together is, for the       *)
(* counters, the loss ledger: whatever holds of every behaviour of         *)
(* DropLedger holds of the result path.                                    *)
THEOREM PathKeepsLedger == Spec => LedgerSpec
<1> USE StoreForwardAssumption, MaxDroppedAssumption
<1>1. Init => LedgerInit
    BY DEF Init
<1>2. ASSUME SpoolInv, Next PROVE LedgerNext \/ UNCHANGED ledgerVars
    <2>1. CASE AppendUnspoolable
        <3>1. Drop(1) /\ gone \in Nat /\ gone + 1 <= MaxDropped
            BY <1>2, <2>1 DEF AppendUnspoolable, Drop, SpoolInv, Accounted
        <3>2. 1 \in 1..MaxDropped
            BY <3>1
        <3> QED
            BY <3>1, <3>2 DEF LedgerNext
    <2>2. CASE DropOldest
        <3> DEFINE n == countRecords(Min(DOMAIN segs))
        <3>1. Min(DOMAIN segs) \in DOMAIN segs
            BY <1>2, <2>2, SpoolStep DEF DropOldest
        <3>2. n \in Nat /\ n # 0
            BY <1>2, <3>1 DEF SpoolInv, FilesOrdered, countRecords
        <3>3. Drop(n)
            BY <2>2 DEF DropOldest
        <3> HIDE DEF n
        <3>4. gone + n <= MaxDropped /\ gone \in Nat
            BY <1>2, <3>3 DEF Drop, SpoolInv, Accounted
        <3>5. n \in 1..MaxDropped
            BY <3>2, <3>4
        <3> QED
            BY <3>3, <3>5 DEF LedgerNext
    <2> QED
        BY <1>2, <2>1, <2>2
           DEF Next, Produce, AppendRecord, Enforce, WithinBounds, PersistCounters, PersistError, CrashAgent,
               OpenSpool, Push, Wake, CollectSignal, CollectDone, Next_, SendBatch, BackoffOver, IngestBatch,
               PushError, AckDroppedBatch, Acknowledge, AckBatch, LedgerNext
<1>3. SpoolInv /\ [Next]_vars => [LedgerNext]_ledgerVars
    BY <1>2 DEF vars
<1> QED
    BY <1>1, <1>3, SpoolStep, PTL DEF Spec, LedgerSpec

lost == 1..appended \ (rows \cup OnDisk)

accounted == durable + uncounted + uncountedNow

CountInv == uncounted \in Nat /\ Cardinality(lost) <= accounted

(* For any number of results, files, crashes, failing writes and failing   *)
(* deletes: a result that is neither inserted nor on disk is in the        *)
(* ledger, Next neither skips nor overtakes a record the server does not   *)
(* have, and what the agent takes for acknowledged is counted.             *)
THEOREM NoSilentLossAlways == Spec => []NoSilentLoss
<1> USE StoreForwardAssumption
<1>fin. SpoolInv => IsFiniteSet(lost) /\ Cardinality(lost) \in Nat /\ OnDisk \subseteq 1..appended
    <2> SUFFICES ASSUME SpoolInv PROVE IsFiniteSet(lost) /\ Cardinality(lost) \in Nat /\ OnDisk \subseteq 1..appended
        OBVIOUS
    <2>1. appended \in Nat /\ OnDisk \subseteq 1..appended
        BY DEF SpoolInv, FilesOrdered, OnDisk, recsOf
    <2>2. IsFiniteSet(1..appended) /\ lost \in SUBSET (1..appended)
        BY <2>1, FS_Interval DEF lost
    <2>3. IsFiniteSet(lost)
        BY <2>2, FS_Subset
    <2> QED
        BY <2>1, <2>3, FS_CardinalityType
<1>finNext. SpoolInv' => (IsFiniteSet(lost) /\ Cardinality(lost) \in Nat /\ OnDisk \subseteq 1..appended)'
    BY <1>fin, PTL
\* The loss grows by at most n, and so does what is accounted for.
<1>grow. ASSUME NEW L, NEW M, NEW X, NEW n \in Nat, NEW a \in Nat, NEW b \in Nat,
                IsFiniteSet(L), IsFiniteSet(X), Cardinality(X) <= n, M \subseteq L \cup X,
                Cardinality(L) <= a, b >= a + n
         PROVE  Cardinality(M) <= b
    <2>1. Cardinality(L) \in Nat /\ Cardinality(X) \in Nat
        BY <1>grow, FS_CardinalityType
    <2>2. /\ IsFiniteSet(L \cup X)
          /\ Cardinality(L \cup X) = Cardinality(L) + Cardinality(X) - Cardinality(L \cap X)
        BY <1>grow, FS_Union
    <2>3. IsFiniteSet(L \cap X)
        BY <1>grow, FS_Intersection
    <2>4. Cardinality(L \cap X) \in Nat /\ Cardinality(L \cup X) \in Nat
        BY <2>2, <2>3, FS_CardinalityType
    <2>5. IsFiniteSet(M) /\ Cardinality(M) <= Cardinality(L \cup X)
        BY <1>grow, <2>2, FS_Subset
    <2>6. Cardinality(M) \in Nat
        BY <2>5, FS_CardinalityType
    <2> QED
        BY <1>grow, <2>1, <2>2, <2>4, <2>5, <2>6
<1>1. Init => CountInv
    <2> SUFFICES ASSUME Init PROVE CountInv
        OBVIOUS
    <2>1. lost = {} /\ uncounted = 0 /\ accounted = 0
        BY DEF Init, LedgerInit, lost, uncountedNow, accounted
    <2> QED
        BY <2>1, FS_EmptySet DEF CountInv
<1>2. ASSUME SpoolInv, AckedInv, AckedInv', CountInv, [Next]_vars PROVE CountInv'
    <2>t. /\ durable \in Nat /\ counting \in Nat /\ durable' \in Nat /\ counting' \in Nat
          /\ uncounted \in Nat /\ appended \in Nat
        BY <1>2 DEF AckedInv, LedgerTypeOK, CountInv, SpoolInv, FilesOrdered
    <2>u. uncountedNow \in Nat /\ uncountedNow' \in Nat
        BY <2>t DEF uncountedNow
    <2>s. SpoolInv' /\ DiskMoves
        BY <1>2, SpoolStep
    <2>a. PICK d, u, w, d1, w1 \in Nat :
             d = durable /\ u = uncounted /\ w = uncountedNow /\ d1 = durable' /\ w1 = uncountedNow'
        BY <2>t, <2>u
    <2>b. accounted = d + u + w /\ IsFiniteSet(lost) /\ Cardinality(lost) <= d + u + w
        BY <1>2, <1>fin, <2>a DEF accounted, CountInv
    \* A step that loses X, and accounts for it.
    <2>loses. ASSUME NEW n \in Nat, NEW X, IsFiniteSet(X), Cardinality(X) <= n, lost' \subseteq lost \cup X,
                     NEW u1 \in Nat, uncounted' = u1, d1 + u1 + w1 >= d + u + w + n
              PROVE  CountInv'
        <3>1. accounted' = d1 + u1 + w1
            BY <2>a, <2>loses DEF accounted
        <3>2. d + u + w \in Nat /\ d1 + u1 + w1 \in Nat
            OBVIOUS
        <3>3. Cardinality(lost') <= d1 + u1 + w1
            BY <1>grow, <2>b, <2>loses, <3>2
        <3> QED
            BY <2>loses, <3>1, <3>3 DEF CountInv
    <2>none. ASSUME lost' \subseteq lost, NEW u1 \in Nat, uncounted' = u1, d1 + u1 + w1 >= d + u + w
             PROVE  CountInv'
        <3>1. IsFiniteSet({}) /\ Cardinality({}) <= 0 /\ lost' \subseteq lost \cup {}
            BY <2>none, FS_EmptySet
        <3>2. d1 + u1 + w1 >= d + u + w + 0 /\ 0 \in Nat
            BY <2>none
        <3> QED
            BY <2>loses, <2>none, <3>1, <3>2
    <2>1. CASE Appends /\ OnDisk' = OnDisk \cup {appended + 1}
        <3>1. UNCHANGED <<durable, uncounted, rows, persist, cause, counting>> /\ appended' = appended + 1
            BY <2>1 DEF Appends, AppendRecord, ledgerVars, ghostVars, agentVars
        <3>2. uncountedNow' = uncountedNow
            BY <3>1 DEF uncountedNow
        <3>3. lost' \subseteq lost
            BY <2>1, <2>t, <3>1 DEF lost
        <3> QED
            BY <2>a, <2>none, <3>1, <3>2, <3>3
    <2>2. CASE DropOldest /\ Min(DOMAIN segs) \in DOMAIN segs /\ OnDisk \subseteq OnDisk' \cup recsOf(Min(DOMAIN segs))
        <3> DEFINE q == Min(DOMAIN segs)
                   n == Len(segs[q])
        <3>1. /\ q \in DOMAIN segs /\ OnDisk \subseteq OnDisk' \cup recsOf(q)
              /\ Drop(n) /\ UNCHANGED <<rows, uncounted, appended>>
            BY <2>2 DEF DropOldest, countRecords
        <3> HIDE DEF q
        <3>2. n \in Nat /\ IsFiniteSet(recsOf(q)) /\ Cardinality(recsOf(q)) <= n
            <4> DEFINE f == segs[q]
                       T == {f[k] : k \in (0 + 1)..Len(f)}
            <4>1. f \in Seq(Nat) /\ Len(f) \in Nat /\ \A k, l \in 1..Len(f) : k < l => f[k] < f[l]
                BY <1>2, <3>1 DEF SpoolInv, FilesOrdered
            <4>2. recsOf(q) = T
                BY DEF recsOf
            <4> HIDE DEF f
            <4>3. 0 \in 0..Len(f)
                BY <4>1
            <4>4. IsFiniteSet(T) /\ Cardinality(T) = Len(f) - 0
                BY <4>1, <4>3, TailCardinality
            <4> HIDE DEF T
            <4> QED
                BY <4>1, <4>2, <4>4 DEF f
        <3> HIDE DEF n
        <3>3. /\ uncountedNow = 0 /\ uncountedNow' = n /\ durable' = durable
            BY <3>1 DEF Drop, uncountedNow
        <3>4. lost' \subseteq lost \cup recsOf(q)
            BY <3>1 DEF lost
        <3>5. uncounted' = u /\ d1 = d /\ w = 0 /\ w1 = n
            BY <2>a, <3>1, <3>3
        <3>6. d1 + u + w1 >= d + u + w + n
            BY <3>2, <3>5
        <3> QED
            BY <2>loses, <3>2, <3>4, <3>5, <3>6
    <2>3. CASE Others /\ OnDisk \subseteq OnDisk' \cup rows
        <3>1. CASE AppendUnspoolable
            <4>1. /\ Drop(1) /\ UNCHANGED <<rows, uncounted, segs>> /\ appended' = appended + 1
                BY <3>1 DEF AppendUnspoolable
            <4>2. uncountedNow = 0 /\ uncountedNow' = 1 /\ durable' = durable
                BY <4>1 DEF Drop, uncountedNow
            <4>3. lost' \subseteq lost \cup {appended + 1}
                BY <2>3, <2>t, <4>1 DEF lost
            <4>4. IsFiniteSet({appended + 1}) /\ Cardinality({appended + 1}) <= 1
                <5> DEFINE x == appended + 1
                <5> HIDE DEF x
                <5>1. IsFiniteSet({x}) /\ Cardinality({x}) = 1
                    BY FS_Singleton
                <5> QED
                    BY <5>1 DEF x
            <4>5. uncounted' = u /\ d1 + u + w1 >= d + u + w + 1
                BY <2>a, <4>1, <4>2
            <4> QED
                BY <2>loses, <4>3, <4>4, <4>5
        <3>2. CASE ~AppendUnspoolable
            <4>1. appended' = appended /\ rows \subseteq rows'
                BY <2>3, <3>2
                   DEF Others, WithinBounds, PersistCounters, PersistError, CrashAgent, OpenSpool,
                       Push, Wake, CollectSignal, CollectDone, Next_, SendBatch, BackoffOver, IngestBatch,
                       PushError, AckDroppedBatch, Acknowledge, AckBatch, vars, pathVars
            <4>2. lost' \subseteq lost
                BY <2>3, <4>1 DEF lost
            <4>3. \E u1 \in Nat : uncounted' = u1 /\ d1 + u1 + w1 >= d + u + w
                <5>1. CASE PersistError \/ CrashAgent
                    <6>1. uncounted' = uncounted + uncountedNow /\ durable' = durable /\ persist' = "idle"
                        BY <5>1 DEF PersistError, PersistFails, CrashAgent, Crash, ghostVars
                    <6>2. uncountedNow' = 0
                        BY <6>1 DEF uncountedNow
                    <6>3. uncounted' = u + w /\ d1 = d /\ w1 = 0 /\ u + w \in Nat
                        BY <2>a, <6>1, <6>2
                    <6> QED
                        BY <6>3
                <5>2. CASE PersistCounters
                    <6>1. uncounted' = u /\ (PersistUnacked \/ PersistState)
                        BY <2>a, <5>2 DEF PersistCounters, pathVars
                    <6>2. CASE PersistUnacked
                        <7>1. uncountedNow' = 0 /\ uncountedNow = IF cause = "drop" THEN counting ELSE 0
                            BY <6>2 DEF PersistUnacked, uncountedNow
                        <7>2. durable' = IF cause = "drop" THEN durable + counting ELSE durable
                            BY <6>2 DEF PersistUnacked
                        <7>3. w1 = 0 /\ d1 = d + w
                            BY <2>a, <2>t, <7>1, <7>2
                        <7> QED
                            BY <6>1, <7>3
                    <6>3. CASE PersistState
                        <7>1. uncountedNow' = 0 /\ uncountedNow = 0 /\ durable' = durable
                            BY <6>3 DEF PersistState, uncountedNow, ghostVars
                        <7> QED
                            BY <2>a, <6>1, <7>1
                    <6> QED
                        BY <6>1, <6>2, <6>3
                <5>3. CASE OpenSpool \/ AckDroppedBatch
                    <6>1. uncounted' = u /\ (Open \/ AckDropped)
                        BY <2>a, <5>3 DEF OpenSpool, AckDroppedBatch, pathVars
                    <6>2. uncountedNow = 0 /\ durable' = durable
                        BY <1>2, <6>1 DEF Open, AckDropped, uncountedNow, AckedInv, alive, ghostVars
                    <6>3. w = 0 /\ d1 = d
                        BY <2>a, <6>2
                    <6>4. d1 + u + w1 >= d + u + w
                        BY <6>3
                    <6> QED
                        BY <6>1, <6>4
                <5>4. CASE WithinBounds \/ Push \/ IngestBatch \/ PushError \/ Acknowledge \/ UNCHANGED vars
                    <6>1. uncounted' = uncounted /\ UNCHANGED <<durable, persist, cause, counting>>
                        BY <5>4
                           DEF WithinBounds, Push, Wake, CollectSignal, CollectDone, Next_, SendBatch, Send,
                               BackoffOver, IngestBatch, Commit, PushError, PushFails, Acknowledge, AckBatch,
                               Consume, vars, pathVars, ledgerVars, agentVars, ghostVars
                    <6>2. uncountedNow' = uncountedNow
                        BY <6>1 DEF uncountedNow
                    <6> QED
                        BY <2>a, <6>1, <6>2
                <5> QED
                    BY <2>3, <3>2, <5>1, <5>2, <5>3, <5>4 DEF Others
            <4> QED
                BY <2>none, <4>2, <4>3
        <3> QED
            BY <3>1, <3>2
    <2> QED
        BY <2>1, <2>2, <2>3, <2>s DEF DiskMoves
<1>3. SpoolInv /\ CountInv /\ AckedIsCounted => NoSilentLoss
    <2> SUFFICES ASSUME SpoolInv, CountInv, AckedIsCounted PROVE NoSilentLoss
        OBVIOUS
    <2>1. LossIsAccounted
        BY DEF SpoolInv, Accounted, CountInv, LossIsAccounted, lost, accounted
    <2>2. ReadPositionDelivered
        <3> SUFFICES ASSUME NEW q \in DOMAIN segs, NEW k \in 1..Len(segs[q]), segs[q][k] \notin unread(q)
                     PROVE  segs[q][k] \in rows
            BY DEF ReadPositionDelivered, recsOf
        <3>1. readOffset \in Nat /\ Len(segs[q]) \in Nat
            BY DEF SpoolInv, NumbersFit, FilesOrdered
        <3>2. start(q) \in Nat /\ ~(k \in (start(q) + 1)..Len(segs[q]))
            BY <3>1 DEF start, unread
        <3>3. k \in 1..start(q)
            BY <3>1, <3>2
        <3> QED
            BY <3>3 DEF start, SpoolInv, PositionFits
    <2> QED
        BY <2>1, <2>2 DEF NoSilentLoss, SpoolInv, BatchFits
<1> QED
    BY <1>1, <1>2, <1>3, SpoolStep, PathKeepsLedger, AckedInvAlways, AckedIsCountedAlways, PTL DEF Spec

(* Between operations the byte estimate covers the files and is in bounds. *)
BytesCovered ==
    totalBytes \in Nat /\ (mode = "up" /\ op = "none" => Size <= totalBytes /\ totalBytes <= MaxBytes)

(* Although the byte count is an estimate and the directory is scanned     *)
(* only when it says so, the spool is within max_bytes whenever Append and *)
(* Open have returned, for every max_bytes.                                *)
THEOREM WithinMaxBytesAlways == Spec => []WithinMaxBytes
<1> USE StoreForwardAssumption
<1>fin. SpoolInv => IsFiniteSet(OnDisk) /\ Size \in Nat
    <2> SUFFICES ASSUME SpoolInv PROVE IsFiniteSet(OnDisk) /\ Size \in Nat
        OBVIOUS
    <2>1. appended \in Nat /\ OnDisk \in SUBSET (1..appended)
        BY DEF SpoolInv, FilesOrdered, OnDisk, recsOf
    <2>2. IsFiniteSet(1..appended)
        BY <2>1, FS_Interval
    <2>3. IsFiniteSet(OnDisk)
        BY <2>1, <2>2, FS_Subset
    <2> QED
        BY <2>3, FS_CardinalityType DEF Size
<1>finNext. SpoolInv' => (IsFiniteSet(OnDisk) /\ Size \in Nat)'
    BY <1>fin, PTL
<1>1. Init => BytesCovered
    BY DEF Init, LedgerInit, BytesCovered
<1>2. ASSUME SpoolInv, BytesCovered, [Next]_vars PROVE BytesCovered'
    <2>s. SpoolInv' /\ DiskMoves
        BY <1>2, SpoolStep
    <2>f. IsFiniteSet(OnDisk) /\ Size \in Nat /\ IsFiniteSet(OnDisk') /\ Size' \in Nat /\ totalBytes \in Nat
        BY <1>2, <1>fin, <1>finNext, <2>s DEF BytesCovered
    <2>1. CASE Appends /\ OnDisk' = OnDisk \cup {appended + 1}
        <3>1. /\ mode = "up" /\ op = "none" /\ totalBytes' = totalBytes + 1
              /\ op' = "none" => ~(totalBytes' > MaxBytes)
            BY <2>1 DEF Appends, AppendRecord
        <3>2. Cardinality(OnDisk \cup {appended + 1}) <= Cardinality(OnDisk) + 1
            <4>1. Cardinality(OnDisk \cup {appended + 1})
                      = IF appended + 1 \in OnDisk THEN Cardinality(OnDisk) ELSE Cardinality(OnDisk) + 1
                BY <2>f, FS_AddElement
            <4>2. Cardinality(OnDisk) \in Nat
                BY <2>f DEF Size
            <4> QED
                BY <4>1, <4>2
        <3>3. Size' <= Size + 1
            BY <2>1, <3>2 DEF Size
        <3>4. Size <= totalBytes
            BY <1>2, <3>1 DEF BytesCovered
        <3> QED
            BY <2>f, <3>1, <3>3, <3>4 DEF BytesCovered
    <2>2. CASE OnDisk' \subseteq OnDisk /\ (DropOldest \/ Others)
        <3>1. Cardinality(OnDisk') <= Cardinality(OnDisk)
            BY <2>2, <2>f, FS_Subset
        <3>2. Size' <= Size
            BY <3>1 DEF Size
        <3>3. CASE WithinBounds
            <4>1. totalBytes' = Size /\ Size <= MaxBytes
                BY <3>3 DEF WithinBounds, resync
            <4> QED
                BY <2>f, <3>2, <4>1 DEF BytesCovered
        <3>4. CASE CrashAgent
            <4>1. totalBytes' = 0 /\ mode' = "down"
                BY <3>4 DEF CrashAgent, Crash
            <4> QED
                BY <4>1 DEF BytesCovered
        <3>5. ASSUME totalBytes' = totalBytes, mode' = "up" /\ op' = "none" => mode = "up" /\ op = "none"
              PROVE  BytesCovered'
            BY <1>2, <2>f, <3>2, <3>5 DEF BytesCovered
        <3>6. CASE OpenSpool \/ DropOldest
            <4>1. totalBytes' = totalBytes /\ op' # "none"
                BY <3>6 DEF OpenSpool, DropOldest
            <4> QED
                BY <3>5, <4>1
        <3>7. CASE Others /\ ~WithinBounds /\ ~CrashAgent /\ ~OpenSpool
            <4>1. UNCHANGED <<totalBytes, op>> /\ (mode' = "up" => mode = "up")
                BY <3>7
                   DEF Others, AppendUnspoolable, Drop, PersistCounters, PersistUnacked, PersistState,
                       PersistError, PersistFails, Push, Wake, CollectSignal, CollectDone, Next_, SendBatch,
                       Send, BackoffOver, IngestBatch, Commit, PushError, PushFails, AckDroppedBatch,
                       AckDropped, Acknowledge, AckBatch, Consume, vars, pathVars, spoolVars, ledgerVars, agentVars
            <4> QED
                BY <3>5, <4>1
        <3> QED
            BY <2>2, <3>3, <3>4, <3>6, <3>7
    <2> QED
        BY <2>1, <2>2, <2>s DEF DiskMoves
<1>3. SpoolInv /\ BytesCovered => WithinMaxBytes
    <2> SUFFICES ASSUME SpoolInv, BytesCovered, mode = "up", muFree PROVE Size <= MaxBytes
        BY DEF WithinMaxBytes
    <2>1. op = "none"
        BY DEF muFree
    <2> QED
        BY <1>fin, <2>1 DEF BytesCovered
<1> QED
    BY <1>1, <1>2, <1>3, SpoolStep, PTL DEF Spec
=============================================================================
