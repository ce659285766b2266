---------------------------- MODULE Modifications ----------------------------
(***************************************************************************)
(* The data of the assertion store (store/assertion_store.rs, store/mod.rs)*)
(* and the functions on one adopter's list of assertions: what a pending   *)
(* modification, an insert and a read do to it.                            *)
(*                                                                         *)
(* An assertion contract stands for its id; the triggers that its          *)
(* triggers() function records are determined by the contract.             *)
(***************************************************************************)
EXTENDS Naturals, Sequences

CONSTANTS
    Ids,               \* assertion contract ids
    CallTriggers,      \* TriggerType::Call of each selector
    StorageTriggers,   \* TriggerType::StorageChange of each slot
    Selectors,         \* assertion function selectors
    Recorder,          \* id -> trigger -> selectors (TriggerRecorder.triggers)
    None

Triggers == CallTriggers \cup StorageTriggers
                \cup {"BalanceChange", "AllCalls", "AllStorageChanges"}

ASSUME RecorderAssumption == Recorder \in [Ids -> [Triggers -> SUBSET Selectors]]

\* An element of AssertionStoreInner's list of an adopter.
AssertionState == [id : Ids, active_at_block : Nat, inactive_at_block : Nat \cup {None}]

\* The share of an adopter in what apply_pending_modifications is called with:
\* each modification is pushed to the group of its adopter, in order.
ModificationsOf(batch, aa) ==
    LET group[n \in 0..Len(batch)] ==
            IF n = 0 THEN <<>>
            ELSE IF batch[n].adopter = aa THEN Append(group[n - 1], batch[n])
            ELSE group[n - 1]
    IN  group[Len(batch)]

\* Positions of the assertion `iter().find' and `iter().position' return: the
\* first one with that id, if there is one.
Find(assertions, id) ==
    {n \in DOMAIN assertions :
        /\ assertions[n].id = id
        /\ \A m \in DOMAIN assertions : assertions[m].id = id => n <= m}

\* Mutant: a Remove of an unknown assertion is stored without a start, which is
\* one reading of the comment that ApplyOne speaks of.
ApplyOne_RecordsRemove(assertions, modification) ==
    LET found == Find(assertions, modification.id)
        Update(state) ==
            IF modification.kind = "Add"
            THEN [state EXCEPT !.active_at_block = modification.at]
            ELSE [state EXCEPT !.inactive_at_block = modification.at]
        added == modification.kind = "Add"
    IN  IF found = {}
        THEN Append(assertions, [id |-> modification.id,
                    active_at_block   |-> IF added THEN modification.at ELSE None,
                    inactive_at_block |-> IF added THEN None ELSE modification.at])
        ELSE [n \in DOMAIN assertions |->
                IF n \in found THEN Update(assertions[n]) ELSE assertions[n]]

\* The body of apply_pending_modification's loop.  An Add of a known assertion
\* only moves its start; a Remove of an unknown one is logged and dropped.  The
\* comment in that branch says otherwise ("The assertion was not found, so we
\* add it with the inactive_at_block set."); the code adds nothing, and the
\* error it logs agrees with the code ("Assertion not found for removal").
ApplyOne(assertions, modification) ==
    LET found == Find(assertions, modification.id)
        Update(state) ==
            IF modification.kind = "Add"
            THEN [state EXCEPT !.active_at_block = modification.at]
            ELSE [state EXCEPT !.inactive_at_block = modification.at]
    IN  IF found = {} /\ modification.kind = "Add"
        THEN Append(assertions, [id |-> modification.id,
                                 active_at_block |-> modification.at,
                                 inactive_at_block |-> None])
        ELSE [n \in DOMAIN assertions |->
                IF n \in found THEN Update(assertions[n]) ELSE assertions[n]]

\* The whole loop of apply_pending_modification.
ApplyAll(assertions, modifications) ==
    LET after[n \in 0..Len(modifications)] ==
            IF n = 0 THEN assertions ELSE ApplyOne(after[n - 1], modifications[n])
    IN  after[Len(modifications)]

\* Mutant: insert does not look for the assertion.
InsertState_Pushes(assertions, state) == Append(assertions, state)

\* insert: replace the whole state of a known assertion, or add it.
InsertState(assertions, state) ==
    LET found == Find(assertions, state.id)
    IN  IF found = {} THEN Append(assertions, state)
        ELSE [n \in DOMAIN assertions |-> IF n \in found THEN state ELSE assertions[n]]

\* Mutant: still active in the block that ends it.
ActiveAt_Inclusive(state, block) ==
    /\ state.active_at_block <= block
    /\ \/ state.inactive_at_block = None
       \/ state.inactive_at_block < state.active_at_block
       \/ block <= state.inactive_at_block

\* The filter of read_adopter: an end below the start is ignored.
ActiveAt(state, block) ==
    /\ state.active_at_block <= block
    /\ \/ state.inactive_at_block = None
       \/ state.inactive_at_block < state.active_at_block
       \/ block < state.inactive_at_block

\* The selectors read_adopter collects for the triggers of a transaction.
MatchingSelectors(id, triggers) ==
    (UNION {Recorder[id][t] : t \in triggers})
        \cup (IF triggers \cap CallTriggers # {} THEN Recorder[id]["AllCalls"] ELSE {})
        \cup (IF triggers \cap StorageTriggers # {}
              THEN Recorder[id]["AllStorageChanges"] ELSE {})

\* read_adopter, on the adopter's list (None: no entry in the db).
ReadAdopter(entry, triggers, block) ==
    IF entry = None THEN {}
    ELSE {[id |-> entry[n].id, selectors |-> MatchingSelectors(entry[n].id, triggers)] :
            n \in {m \in DOMAIN entry : ActiveAt(entry[m], block)}}

\* A missing entry reads as an empty list.
OrEmpty(entry) == IF entry = None THEN <<>> ELSE entry
==============================================================================
