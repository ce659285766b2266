----------------------------- MODULE AtomicStore -----------------------------
(***************************************************************************)
(* What the assertion store promises its writers: the modifications that a *)
(* caller of apply_pending_modifications has for one adopter take effect   *)
(* in one step, on the list as it is at that moment, and so does an insert.*)
(* A caller may fail after some of its adopters and before others.         *)
(***************************************************************************)
CONSTANTS
    Adopters, Writers, Batches, States, None,
    ModificationsOf(_, _),   \* the modifications in a batch for an adopter
    ApplyAll(_, _),          \* an adopter's list after a group of modifications
    InsertState(_, _)        \* an adopter's list after an insert

VARIABLES db, groups

OrEmpty(entry) == IF entry = None THEN <<>> ELSE entry

\* No modification is left to apply.
NoGroups == [aa \in Adopters |-> <<>>]

Init ==
    /\ db = [aa \in Adopters |-> None]
    /\ groups = [w \in Writers |-> NoGroups]

Submit(w) ==
    /\ groups[w] = NoGroups
    /\ \E batch \in Batches :
        groups' = [groups EXCEPT ![w] =
                    [aa \in Adopters |-> ModificationsOf(batch, aa)]]
    /\ UNCHANGED db

ApplyGroup(w, aa) ==
    /\ groups[w][aa] # <<>>
    /\ db' = [db EXCEPT ![aa] = ApplyAll(OrEmpty(db[aa]), groups[w][aa])]
    /\ groups' = [groups EXCEPT ![w][aa] = <<>>]

Abort(w) ==
    /\ groups' = [groups EXCEPT ![w] = NoGroups]
    /\ UNCHANGED db

Insert(aa, state) ==
    /\ db' = [db EXCEPT ![aa] = InsertState(OrEmpty(db[aa]), state)]
    /\ UNCHANGED groups

Next ==
    \/ \E w \in Writers : Submit(w) \/ Abort(w)
    \/ \E w \in Writers, aa \in Adopters : ApplyGroup(w, aa)
    \/ \E aa \in Adopters, state \in States : Insert(aa, state)

Spec == Init /\ [][Next]_<<db, groups>>
==============================================================================
