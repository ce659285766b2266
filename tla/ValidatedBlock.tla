---------------------------- MODULE ValidatedBlock ---------------------------
(***************************************************************************)
(* What the executor promises: transactions are validated one after the    *)
(* other, each as a whole.  A transaction changes the state iff all the    *)
(* assertion functions that its triggers call for pass.  Which assertions  *)
(* an adopter has is taken from the store at some moment of the            *)
(* validation, not the same one for every adopter.                         *)
(***************************************************************************)
CONSTANTS
    Addresses, Txs, Blocks, PendingMods, None,
    StorageAfter(_, _),        \* the storage that a transaction leaves
    TxTriggers(_, _, _),       \* what it does to an account that triggers name
    ReadAdopter(_, _, _),      \* the functions to run, of an adopter's list
    Updated(_, _)              \* an adopter's list after a modification

VARIABLES
    state,           \* account -> slot -> value
    store,           \* adopter -> list of assertions, or None
    current,         \* [tx, block] that is validated, or None
    window,          \* adopter -> what the store has had for it meanwhile
    verdict          \* of the last validation

vars == <<state, store, current, window, verdict>>

\* The functions to run if the store has assertions[a] for each adopter a.
Demanded(assertions) ==
    UNION {UNION {{[adopter |-> a, id |-> found.id, selector |-> selector] :
                        selector \in found.selectors} :
                    found \in ReadAdopter(assertions[a], TxTriggers(current.tx, state, a),
                                          current.block)} :
            a \in {b \in Addresses : TxTriggers(current.tx, state, b) # {}}}

\* What a reader that takes one adopter after the other can have found.
Observed == {assertions \in [Addresses -> UNION {window[a] : a \in Addresses}] :
                \A a \in Addresses : assertions[a] \in window[a]}

Called(runs) == {[adopter |-> run.adopter, id |-> run.id, selector |-> run.selector] : run \in runs}

NoVerdict == [kind |-> "None", valid |-> FALSE, runs |-> {}]

Init ==
    /\ store = [a \in Addresses |-> None]
    /\ current = None
    /\ window = [a \in Addresses |-> {}]
    /\ verdict = NoVerdict

Begin(tx, block) ==
    /\ current = None
    /\ current' = [tx |-> tx, block |-> block]
    /\ window' = [a \in Addresses |-> {store[a]}]
    /\ verdict' = NoVerdict
    /\ UNCHANGED <<state, store>>

Write(m) ==
    /\ store' = [store EXCEPT ![m.adopter] = Updated(@, m)]
    /\ window' = [window EXCEPT ![m.adopter] = @ \cup {Updated(store[m.adopter], m)}]
    /\ UNCHANGED <<state, current, verdict>>

Return == current # None /\ current' = None /\ UNCHANGED <<store, window>>

\* The transaction, or one of the functions, cannot be executed.
Fail == Return /\ verdict' = [kind |-> "Err", valid |-> FALSE, runs |-> {}] /\ UNCHANGED state

\* A transaction that fails is valid; no assertion is run.
Skip ==
    /\ Return /\ current.tx.outcome = "Revert"
    /\ verdict' = [kind |-> "Ok", valid |-> TRUE, runs |-> {}]
    /\ UNCHANGED state

\* All the functions that the transaction calls for are run, and it takes
\* effect iff they pass.
Decide ==
    /\ Return /\ current.tx.outcome = "Success"
    /\ verdict'.kind = "Ok"
    /\ verdict'.valid = (\A run \in verdict'.runs : run.outcome = "Success")
    /\ \E assertions \in Observed : Called(verdict'.runs) = Demanded(assertions)
    /\ state' = IF verdict'.valid THEN StorageAfter(current.tx, state) ELSE state

Next ==
    \/ \E tx \in Txs, block \in Blocks : Begin(tx, block)
    \/ \E m \in PendingMods : Write(m)
    \/ Fail \/ Skip \/ Decide

Spec == Init /\ [][Next]_vars
==============================================================================
