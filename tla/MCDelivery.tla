----------------------------- MODULE MCDelivery -----------------------------
(***************************************************************************)
(* What the server learns of an agent in the end, checked in one run: the  *)
(* results its spool holds (StoreForward), or that it has fallen silent    *)
(* (AgentOffline).  A behaviour is one of either, chosen at the start.     *)
(***************************************************************************)
EXTENDS StoreForward, AgentOffline

VARIABLE part

MCInit ==
    /\ part \in {"results", "silence"}
    /\ Init /\ OfflineInit
    /\ part = "results" => minInterval = 0

MCNext ==
    /\ UNCHANGED part
    /\ \/ part = "results" /\ Next /\ UNCHANGED offlineVars
       \/ part = "silence" /\ OfflineNext /\ UNCHANGED vars

\* The fairness of FairSpec and OfflineFairSpec, in the behaviours of each part.
MCFairness ==
    /\ WF_vars(part = "results" /\ Enforce)
    /\ WF_vars(part = "results" /\ PersistCounters)
    /\ WF_vars(part = "results" /\ OpenSpool)
    /\ WF_vars(part = "results" /\ Wake)
    /\ WF_vars(part = "results" /\ CollectDone)
    /\ WF_vars(part = "results" /\ Next_)
    /\ WF_vars(part = "results" /\ SendBatch)
    /\ WF_vars(part = "results" /\ BackoffOver)
    /\ SF_vars(part = "results" /\ IngestBatch)
    /\ SF_vars(part = "results" /\ AckDroppedBatch)
    /\ WF_vars(part = "results" /\ Acknowledge)
    /\ WF_offlineVars(part = "silence" /\ OfflineTick)
    /\ WF_offlineVars(part = "silence" /\ TouchAgent)
    /\ WF_offlineVars(part = "silence" /\ Ingest(0))
    /\ \A s \in Sweepers :
         /\ WF_offlineVars(part = "silence" /\ (Sweep(s) \/ Query(s)))
         /\ SF_offlineVars(part = "silence" /\ Write(s))

MCSpec == MCInit /\ [][MCNext]_<<part, vars, offlineVars>> /\ MCFairness
=============================================================================
