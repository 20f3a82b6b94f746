----------------------------- MODULE MCControl -----------------------------
(***************************************************************************)
(* What the server keeps for one agent, checked in one run: its            *)
(* certificates (issue, renewal, revocation), the cached verdict on them,  *)
(* its config stream, and the hysteresis of one of its series.  The four   *)
(* share no state; a behaviour is one of theirs, chosen at the start.      *)
(***************************************************************************)
EXTENDS CertIssuance, CertCache, ConfigStream, Hysteresis

VARIABLE part

MCInit ==
    /\ part \in {"issuance", "cache", "config", "series"}
    /\ IssuanceInit /\ CertCacheInit /\ ConfigInit /\ HysteresisInit
    /\ part # "config" => config = CHOOSE c \in {<<v, v>> : v \in Values} : TRUE

MCNext ==
    /\ UNCHANGED part
    /\ \/ /\ part = "issuance" /\ IssuanceNext
          /\ UNCHANGED <<certCacheVars, configVars, hysteresisVars>>
       \/ /\ part = "cache" /\ CertCacheNext
          /\ UNCHANGED <<issuanceVars, configVars, hysteresisVars>>
       \/ /\ part = "config" /\ ConfigNext
          /\ UNCHANGED <<issuanceVars, certCacheVars, hysteresisVars>>
       \/ /\ part = "series" /\ HysteresisNext
          /\ UNCHANGED <<issuanceVars, certCacheVars, configVars>>

\* The fairness is the config stream's: its liveness is asked of the behaviours
\* that are its own.
MCSpec ==
    /\ MCInit
    /\ [][MCNext]_<<part, issuanceVars, certCacheVars, configVars, hysteresisVars>>
    /\ ConfigFairness
=============================================================================
