---------------------------- MODULE MC_MultiForkDb ---------------------------
(***************************************************************************)
(* A slot of the assertion contract and one of its adopter, which the      *)
(* transaction changed.                                                    *)
(***************************************************************************)
EXTENDS MultiForkDb

MCPreTxDb  == [loc \in Locations |-> 0]
MCPostTxDb == [loc \in Locations |-> 1]
MCDeployed == [loc \in Locations |-> 0]
==============================================================================
