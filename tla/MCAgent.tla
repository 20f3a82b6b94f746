------------------------------ MODULE MCAgent ------------------------------
(***************************************************************************)
(* The parts of the agent process, checked in one run: a behaviour         *)
(* exercises the part chosen at the start, its identity, its probe         *)
(* scheduler, its watchdog, its ledger of dropped results or a path MTU    *)
(* search, and leaves the others alone.                                    *)
(***************************************************************************)
EXTENDS AgentIdentity, Scheduler, Watchdog, DropLedger, PathMtu

VARIABLE part

\* The parts that are not exercised start in one fixed state.
MCInit ==
    /\ part \in {"identity", "scheduler", "watchdog", "ledger", "pathMtu"}
    /\ IdentityInit /\ caAlg = "mldsa"
    /\ SchedulerInit
    /\ WatchdogInit
    /\ part # "watchdog" => interval = 0 /\ network /\ server
    /\ LedgerInit
    /\ PathMtuInit
    /\ part # "pathMtu" => path = CHOOSE p \in [local : Locals, first : Routers, second : Routers] : TRUE

MCNext ==
    /\ UNCHANGED part
    /\ \/ /\ part = "identity" /\ IdentityNext
          /\ UNCHANGED <<schedulerVars, watchdogVars, ledgerVars, pathMtuVars>>
       \/ /\ part = "scheduler" /\ SchedulerNext
          /\ UNCHANGED <<identityVars, watchdogVars, ledgerVars, pathMtuVars>>
       \/ /\ part = "watchdog" /\ WatchdogNext
          /\ UNCHANGED <<identityVars, schedulerVars, ledgerVars, pathMtuVars>>
       \/ /\ part = "ledger" /\ LedgerNext
          /\ UNCHANGED <<identityVars, schedulerVars, watchdogVars, pathMtuVars>>
       \/ /\ part = "pathMtu" /\ PathMtuNext
          /\ UNCHANGED <<identityVars, schedulerVars, watchdogVars, ledgerVars>>

MCSpec ==
    /\ MCInit
    /\ [][MCNext]_<<part, identityVars, schedulerVars, watchdogVars, ledgerVars, pathMtuVars>>
    /\ SchedulerFair
=============================================================================
