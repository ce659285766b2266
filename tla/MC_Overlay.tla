------------------------------ MODULE MC_Overlay -----------------------------
(***************************************************************************)
(* An OverlayDb and an ActiveOverlay over two databases that differ in     *)
(* their accounts and slots.                                               *)
(***************************************************************************)
EXTENDS OverlayTests

MCAnswer == [d \in Databases |-> [k \in TableKey |->
    CASE k.table = "Basic"   -> IF d = "old" THEN None ELSE 1
      [] k.table = "Storage" -> IF d = "old" THEN 0 ELSE 1
      [] k.table = "BlockHash" -> IF d = "old" THEN 1 ELSE None
      [] OTHER               -> None]]

AccountOf(info, code, value, touched, selfdestructed) ==
    [address |-> "a", info |-> info, code_hash |-> "h", code |-> code,
     storage |-> [s \in Slots |-> value], touched |-> touched,
     selfdestructed |-> selfdestructed]

MCChangeSets == {
    {AccountOf(2, 2, 2, TRUE, FALSE)},        \* a contract with its code
    {AccountOf(3, None, 3, TRUE, FALSE)},
    {AccountOf(0, None, None, TRUE, TRUE)},   \* destroyed
    {AccountOf(3, None, 2, FALSE, FALSE)} }   \* loaded only
==============================================================================
