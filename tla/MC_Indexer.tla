------------------------------ MODULE MC_Indexer -----------------------------
(***************************************************************************)
(* The chains that the indexer is checked on: a genesis block, a branch a  *)
(* and a branch b that leaves it at a1, two adopters.  Block b2 carries no *)
(* events where a2 does, a3 none where b3 does.                            *)
(*                                                                         *)
(*      a0 -- a1 -- a2 -- a3 -- a4          (a4 and b4 in the long chain)  *)
(*             \                                                           *)
(*              b2 -- b3 -- b4                                             *)
(***************************************************************************)
EXTENDS Indexer

LongBlocks  == {"a0", "a1", "a2", "a3", "a4", "b2", "b3", "b4"}
ShortBlocks == LongBlocks \ {"a4", "b4"}
LineBlocks  == {"a0", "a1", "a2", "a3", "a4"}

TreeParent == [a0 |-> "a0", a1 |-> "a0", a2 |-> "a1", a3 |-> "a2", a4 |-> "a3",
               b2 |-> "a1", b3 |-> "b2", b4 |-> "b3"]
TreeNumber == [a0 |-> 0, a1 |-> 1, a2 |-> 2, a3 |-> 3, a4 |-> 4,
               b2 |-> 2, b3 |-> 3, b4 |-> 4]
TreeTouches == [a0 |-> {}, a1 |-> {"x"}, a2 |-> {"x", "y"}, a3 |-> {}, a4 |-> {"x"},
                b2 |-> {}, b3 |-> {"y"}, b4 |-> {"x"}]

MCParent  == [b \in Blocks |-> TreeParent[b]]
MCNumber  == [b \in Blocks |-> TreeNumber[b]]
MCTouches == [b \in Blocks |-> TreeTouches[b]]
==============================================================================
