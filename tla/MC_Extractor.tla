----------------------------- MODULE MC_Extractor ----------------------------
(***************************************************************************)
(* Deployments that use no, some or all of the gas, that destroy their own *)
(* contract, and that fail.                                                *)
(***************************************************************************)
EXTENDS ExtractorTests

Deployed(gas_used, value, selfdestructed) ==
    [outcome |-> "Success", gas_used |-> gas_used, code |-> "code",
     storage |-> [s \in Slots |-> value], selfdestructed |-> selfdestructed]

Undeployed(outcome, gas_used) ==
    [Deployed(gas_used, Zero, FALSE) EXCEPT !.outcome = outcome]

MCDeployments ==
    {Deployed(g, 1, FALSE) : g \in 0..DEPLOYMENT_GAS_LIMIT}
        \cup {Deployed(1, 1, TRUE), Undeployed("Failed", DEPLOYMENT_GAS_LIMIT), Undeployed("Error", 0)}
==============================================================================
