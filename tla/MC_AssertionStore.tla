-------------------------- MODULE MC_AssertionStore --------------------------
(***************************************************************************)
(* Two adopters, two assertions, two writers.  The batches add, remove and *)
(* re-add the same assertion, touch both adopters at once, remove an       *)
(* unknown assertion, and meet start and end at the same block.            *)
(***************************************************************************)
EXTENDS StoreTests

Adds(aa, id, at)    == [kind |-> "Add", adopter |-> aa, id |-> id, at |-> at]
Removes(aa, id, at) == [kind |-> "Remove", adopter |-> aa, id |-> id, at |-> at]

MCBatches == {
    <<Adds("x", "p", 1), Adds("y", "p", 2)>>,
    <<Removes("x", "p", 2), Adds("x", "q", 3)>>,
    <<Adds("x", "p", 3), Removes("x", "p", 3)>>,
    <<Removes("y", "q", 1), Removes("y", "p", 3)>> }

MCStates == {[id |-> "p", active_at_block |-> 0, inactive_at_block |-> None],
             [id |-> "q", active_at_block |-> 1, inactive_at_block |-> 2]}

MCRecorder == [id \in Ids |-> [t \in Triggers |->
    CASE id = "p" /\ t = "AllCalls" -> {"f"}
      [] id = "q" /\ t = "call"     -> {"g"}
      [] OTHER                      -> {}]]
==============================================================================
