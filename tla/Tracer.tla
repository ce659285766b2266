-------------------------------- MODULE Tracer -------------------------------
(***************************************************************************)
(* The call tracer (inspectors/tracer.rs) and the precompiles that answer  *)
(* from what it recorded (inspectors/precompiles/).                        *)
(*                                                                         *)
(* TriggerType::Call is given by its selector and StorageChange by its     *)
(* slot; the two are told apart by their names.                            *)
(***************************************************************************)
EXTENDS Evm

CONSTANTS DefaultSelector    \* FixedBytes::default()

\* The first 4 bytes of a call's input, or the default.
SelectorOf(call) == IF call.key = None THEN DefaultSelector ELSE call.key

\* record_call: every call is recorded when it is made, undone later or not.
CallInputs(tx) ==
    [n \in {m \in DOMAIN tx.ops : tx.ops[m].kind = "call"} |-> tx.ops[n]]

\* The CallTracer after the transaction: its calls, and the journaled state as
\* it is before it is finalized.  journaled says that there is one.
Trace(tx, db) ==
    [call_inputs     |-> CallInputs(tx),
     journaled       |-> TRUE,
     journaled_state |-> [journal |-> Journal(tx, db.storage), state |-> StateAfter(tx, db)]]

\* CallTracer::calls
Calls(tracer) == {tracer.call_inputs[n].at : n \in DOMAIN tracer.call_inputs}

\* The triggers that calls of an account set off, and those that changes do.
CallTriggersOn(calls, a) ==
    {SelectorOf(calls[n]) : n \in {m \in DOMAIN calls : calls[m].at = a}}

\* Storage changes and balance transfers count; other journal entries are
\* ignored, AccountDestroyed, which moves balance as well, among them.
ChangeTriggersOn(journal, a) ==
    {journal[n].key : n \in {m \in DOMAIN journal :
            journal[m].kind = "sstore" /\ journal[m].at = a}}
        \cup {"BalanceChange" : n \in {m \in DOMAIN journal :
            journal[m].kind = "transfer" /\ a \in {journal[m].at, journal[m].key}}}

\* Mutant: balance changes are added to the triggers of called accounts only.
TriggersOn_Called(tracer, a) ==
    CallTriggersOn(tracer.call_inputs, a)
        \cup (IF tracer.journaled
              THEN ChangeTriggersOn(tracer.journaled_state.journal, a)
                    \ (IF CallTriggersOn(tracer.call_inputs, a) = {} THEN {"BalanceChange"} ELSE {})
              ELSE {})

\* CallTracer::triggers, of one account.
TriggersOn(tracer, a) ==
    CallTriggersOn(tracer.call_inputs, a)
        \cup (IF tracer.journaled THEN ChangeTriggersOn(tracer.journaled_state.journal, a)
              ELSE {})

(***************************************************************************)
(* getCallInputs and getStateChanges.                                      *)
(***************************************************************************)
\* Some operations in the order in which they ran: the i-th is the one with i
\* of them up to it.
InOrder(N) ==
    [i \in 1..Cardinality(N) |-> CHOOSE n \in N : Cardinality({m \in N : m <= n}) = i]

\* get_call_inputs: the calls of the target with the selector, in order.
GetCallInputs(tracer, target, selector) ==
    LET when == InOrder({n \in DOMAIN tracer.call_inputs :
                            /\ tracer.call_inputs[n].at = target
                            /\ SelectorOf(tracer.call_inputs[n]) = selector})
    IN  [i \in DOMAIN when |-> tracer.call_inputs[when[i]]]

Ok(values)  == [error |-> None, values |-> values]
Err(error)  == [error |-> error, values |-> <<>>]

\* The values that a slot had before each of its changes.
HadValues(journal, a, s) ==
    LET when == InOrder({n \in DOMAIN journal :
                    journal[n].kind = "sstore" /\ journal[n].at = a /\ journal[n].key = s})
    IN  [i \in DOMAIN when |-> journal[when[i]].had]

\* get_differences: the values the slot had, then its present value.
GetDifferences(js, a, s) ==
    LET had == HadValues(js.journal, a, s)
    IN  IF had = <<>> THEN Ok(<<>>)
        ELSE IF js.state[a] = None THEN Err("AccountNotFound")
        ELSE IF js.state[a].storage[s] = None THEN Err("SlotNotFound")
        ELSE Ok(Append(had, js.state[a].storage[s]))

\* get_state_changes
GetStateChanges(tracer, a, s) ==
    IF tracer.journaled THEN GetDifferences(tracer.journaled_state, a, s)
    ELSE Err("JournaledStateMissing")
==============================================================================
