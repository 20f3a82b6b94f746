----------------------------- MODULE MCAccounts -----------------------------
(* Values for a small instance of Accounts. *)
EXTENDS Accounts

MCPolicies == {[admins |-> {"root"}, rules |-> {}, unmatched |-> "viewer"]}

(* A stricter mapping of the same provider, a switch of provider that does *)
(* not send the tenant fields, and a save that sends no secret.            *)
MCRequests ==
    {[enabled |-> TRUE, prov |-> "idp1", secret |-> FALSE, admins |-> {},
      keepRules |-> FALSE,
      rules |-> {[value |-> "ops", role |-> "network_admin", nets |-> {"n1"}],
                 [value |-> "ops", role |-> "network_viewer", nets |-> {"n1", "n2"}],
                 [value |-> "root", role |-> "network_viewer", nets |-> {"n2"}]},
      keepUnmatched |-> FALSE, unmatched |-> "deny"],
     [enabled |-> TRUE, prov |-> "idp2", secret |-> TRUE, admins |-> {"root"},
      keepRules |-> TRUE, rules |-> {}, keepUnmatched |-> TRUE, unmatched |-> "viewer"],
     [enabled |-> FALSE, prov |-> "idp1", secret |-> FALSE, admins |-> {"root"},
      keepRules |-> TRUE, rules |-> {}, keepUnmatched |-> TRUE, unmatched |-> "viewer"]}

MCClaimSets == {{}, {"ops", "root"}}
=============================================================================
