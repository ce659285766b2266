----------------------------- MODULE MC_Executor -----------------------------
(***************************************************************************)
(* Two adopters with an assertion each, and transactions that write, write *)
(* back, call in vain, move balance, revert, destroy and cannot be run.    *)
(* The destruction of x credits y, whose assertion has a function for      *)
(* balance changes that it does not trigger; a contract that is created    *)
(* and destroyed in the same transaction credits x in the same way.        *)
(***************************************************************************)
EXTENDS ExecutorTests

Op(kind, at, key, value)     == [kind |-> kind, at |-> at, key |-> key, value |-> value, reverted |-> FALSE]
Undone(kind, at, key, value) == [Op(kind, at, key, value) EXCEPT !.reverted = TRUE]
Tx(outcome, ops)             == [caller |-> "sender", outcome |-> outcome, ops |-> ops]

MCTxs == {
    Tx("Success", <<Op("call", "x", "f", None), Op("sstore", "x", "s", 1), Undone("call", "y", "g", None),
                    Undone("sstore", "y", "s", 1), Op("sstore", "x", "s", 2)>>),
    Tx("Success", <<Op("call", "x", None, None), Op("transfer", "sender", "x", None), Op("call", "y", "g", None),
                    Op("sload", "y", "s", None), Op("sstore", "y", "s", 1), Op("sstore", "y", "s", 0)>>),
    Tx("Success", <<Op("call", "x", None, None), Op("sstore", "x", "t", 3), Op("destroy", "x", "y", None)>>),
    Tx("Success", <<Op("transfer", "sender", "new", None), Op("transfer", "sender", "x", None),
                    Op("transfer", "x", "y", None), Undone("destroy", "new", "y", None),
                    Op("destroy", "new", "x", None)>>),
    Tx("Revert",  <<Op("call", "x", "f", None), Op("sstore", "x", "s", 3)>>),
    Tx("Error", <<>>) }

MCValues == 0..4

MCInnerDb ==
    [basic   |-> [a \in Addresses |-> IF a \in {"x", "sender"}
                    THEN [nonce |-> 0, balance |-> 2, code_hash |-> NoCode, code |-> None] ELSE None],
     storage |-> [a \in Addresses |-> [s \in Slots |-> IF a = "x" /\ s = "s" THEN 4 ELSE 0]],
     code    |-> [h \in Hashes |-> None]]

MCDeployed == [id \in Ids |->
    [code_hash |-> IF id = "p" THEN "hp" ELSE "hq", code |-> id, selfdestructed |-> FALSE,
     storage   |-> [s \in Slots |-> IF id = "p" /\ s = "s" THEN 1 ELSE None]]]

MCRecorder == [id \in Ids |-> [t \in Triggers |->
    CASE id = "p" /\ t = "AllCalls"      -> {"p1"}
      [] id = "p" /\ t = "BalanceChange" -> {"p2"}
      [] id = "q" /\ t = "s"             -> {"q1"}
      [] id = "q" /\ t = "BalanceChange" -> {"q2"}
      [] OTHER                           -> {}]]

MCPendingMods == {
    [kind |-> "Add", adopter |-> "x", id |-> "p", at |-> 1],
    [kind |-> "Add", adopter |-> "y", id |-> "q", at |-> 1],
    [kind |-> "Remove", adopter |-> "x", id |-> "p", at |-> 1] }
==============================================================================
