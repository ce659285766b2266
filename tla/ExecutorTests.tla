---------------------------- MODULE ExecutorTests ----------------------------
(***************************************************************************)
(* The unit tests of the fork database, of BlockChanges, of the call       *)
(* tracer and its precompiles and of the executor's helpers, replayed on   *)
(* the operators that Executor is built from.  TLC evaluates them when it  *)
(* checks Executor.                                                        *)
(***************************************************************************)
EXTENDS Executor

TestSlots == {"s0", "s1", "s2", "s3"}

Fork == INSTANCE ForkDb WITH Addresses <- 0..3, Slots <- TestSlots, Hashes <- {"h0", "h1", "h2"}, Zero <- 0

Traced == INSTANCE Tracer WITH Addresses <- 0..3, Slots <- TestSlots, Hashes <- {"h0", "h1", "h2"},
                               Zero <- 0, NoCode <- "h0", DefaultSelector <- "0x00000000"

InfoOf(balance, nonce) == [Traced!DefaultInfo EXCEPT !.balance = balance, !.nonce = nonce]
WithCode(hash, code)   == [Traced!DefaultInfo EXCEPT !.code_hash = hash, !.code = code]

\* Slots from a function on some of them.
StorageOf(values) == [s \in TestSlots |-> IF s \in DOMAIN values THEN values[s] ELSE None]
NoSlots == StorageOf(<<>>)
One(s, value) == StorageOf([r \in {s} |-> value])

AccountOf(info, storage, touched, selfdestructed) ==
    [info |-> info, storage |-> storage, touched |-> touched, selfdestructed |-> selfdestructed]

\* Changes of one account.
ChangesOf(a, account) == [b \in 0..3 |-> IF b = a THEN account ELSE None]

(***************************************************************************)
(* ForkDb over an OverlayDb that has an account with a slot and a code.    *)
(***************************************************************************)
OverlayDb ==
    [basic   |-> [a \in 0..3 |-> IF a = 0 THEN InfoOf(1000, 0) ELSE None],
     storage |-> [a \in 0..3 |-> [s \in TestSlots |-> IF a = 0 /\ s = "s0" THEN 1 ELSE 0]],
     code    |-> [h \in {"h0", "h1", "h2"} |-> IF h = "h1" THEN "code" ELSE None]]

\* A fork has what is below it until something is committed to it.
Forked(account) == Fork!Commit(Fork!Empty, ChangesOf(0, account))

test_basic ==
    /\ Fork!BasicRef(Fork!Empty, OverlayDb, 0).balance = 1000
    /\ Fork!BasicRef(Forked(AccountOf(InfoOf(2000, 0), NoSlots, TRUE, FALSE)), OverlayDb, 0).balance = 2000

test_storage ==
    /\ Fork!StorageRef(Fork!Empty, OverlayDb, 0, "s0") = 1
    /\ Fork!StorageRef(Forked(AccountOf(InfoOf(0, 0), One("s0", 2), TRUE, FALSE)), OverlayDb, 0, "s0") = 2

test_code_by_hash ==
    /\ Fork!CodeByHashRef(Fork!Empty, OverlayDb, "h1") = "code"
    /\ Fork!CodeByHashRef(Forked(AccountOf(WithCode("h2", "other"), NoSlots, TRUE, FALSE)), OverlayDb, "h2")
        = "other"

test_commit_self_destruct ==
    /\ Fork!StorageRef(Fork!Empty, OverlayDb, 0, "s0") = 1
    /\ Fork!StorageRef(Forked(AccountOf(InfoOf(0, 0), NoSlots, TRUE, TRUE)), OverlayDb, 0, "s0") = 0

(***************************************************************************)
(* BlockChanges::merge_state.                                              *)
(***************************************************************************)
Untouched(balance, nonce, storage) == AccountOf(InfoOf(balance, nonce), storage, FALSE, FALSE)

test_merge_storage_changes ==
    LET state0 == ChangesOf(1, Untouched(100, 1, StorageOf([s0 |-> 10, s1 |-> 20])))
        state1 == ChangesOf(1, Untouched(200, 2, StorageOf([s1 |-> 25, s2 |-> 30])))
        state2 == ChangesOf(1, Untouched(300, 3, StorageOf([s2 |-> 35, s3 |-> 40])))
    IN  Fork!MergeState(Fork!MergeState(state0, state1), state2)
            = ChangesOf(1, Untouched(300, 3, [s0 |-> 10, s1 |-> 25, s2 |-> 35, s3 |-> 40]))

test_merge_status_changes ==
    Fork!MergeState(ChangesOf(1, Untouched(100, 1, NoSlots)), ChangesOf(1, Untouched(200, 2, NoSlots)))[1].info
        = InfoOf(200, 2)

test_merge_new_accounts ==
    LET merged == Fork!MergeState(ChangesOf(1, Untouched(100, 1, NoSlots)),
                    [ChangesOf(1, Untouched(200, 2, NoSlots)) EXCEPT ![2] = Untouched(300, 1, NoSlots)])
    IN  merged[1].info = InfoOf(200, 2) /\ merged[2].info = InfoOf(300, 1)

(***************************************************************************)
(* CallTracer::triggers.                                                   *)
(***************************************************************************)
Operation(kind, at, key, value) ==
    [kind |-> kind, at |-> at, key |-> key, value |-> value, reverted |-> FALSE]
Transaction(ops) == [caller |-> 0, outcome |-> "Success", ops |-> ops]

EmptyDb == [basic   |-> [a \in 0..3 |-> None],
            storage |-> [a \in 0..3 |-> [s \in TestSlots |-> 0]],
            code    |-> [h \in {"h0", "h1", "h2"} |-> None]]

\* An account calls itself 32 times.
call_tracing ==
    Traced!Calls(Traced!Trace(Transaction([n \in 1..33 |-> Operation("call", 1, None, None)]), EmptyDb)) = {1}

\* trigger() of TriggerContract writes two slots and sends balance back.
extract_triggers ==
    Traced!TriggersOn(
        Traced!Trace(Transaction(<<Operation("call", 1, "trigger()", None), Operation("sstore", 1, "s0", 1),
                                   Operation("sstore", 1, "s1", 2), Operation("call", 0, None, None),
                                   Operation("transfer", 1, 0, None)>>), EmptyDb), 1)
        = {"trigger()", "s0", "s1", "BalanceChange"}

\* A tracer that was filled by hand.
StorageChanged(a, s, had) == [kind |-> "sstore", at |-> a, key |-> s, had |-> had]

test_triggers_all_types ==
    LET tracer == [call_inputs |-> <<Operation("call", 1, "f", None), Operation("call", 2, "g", None)>>,
                   journaled |-> TRUE,
                   journaled_state |-> [journal |-> <<[kind |-> "transfer", at |-> 1, key |-> 2, had |-> None],
                                            StorageChanged(2, "s1", 0), StorageChanged(3, "s2", 5)>>]]
    IN  /\ Traced!TriggersOn(tracer, 1) = {"f", "BalanceChange"}
        /\ Traced!TriggersOn(tracer, 2) = {"g", "BalanceChange", "s1"}
        /\ Traced!TriggersOn(tracer, 3) = {"s2"}

test_triggers_no_journal_state ==
    Traced!TriggersOn([call_inputs |-> <<Operation("call", 1, "f", None)>>, journaled |-> FALSE, journaled_state |-> None], 1) = {"f"}

(***************************************************************************)
(* getStateChanges and getCallInputs.                                      *)
(***************************************************************************)
\* create_journaled_state_with_changes: old values of slot s0, and the account.
ChangedState(a, old, account) ==
    [call_inputs |-> <<>>,
     journaled |-> TRUE,
     journaled_state |-> [journal |-> [n \in DOMAIN old |-> StorageChanged(a, "s0", old[n])],
                          state   |-> ChangesOf(a, account)]]

Slot0(present) == AccountOf(InfoOf(0, 0), One("s0", present), FALSE, FALSE)

test_get_state_changes_success ==
    Traced!GetStateChanges(ChangedState(1, <<100, 200>>, Slot0(300)), 1, "s0") = Traced!Ok(<<100, 200, 300>>)

test_get_state_changes_no_changes ==
    Traced!GetStateChanges(ChangedState(1, <<>>, None), 1, "s0") = Traced!Ok(<<>>)

test_get_state_changes_missing_journaled_state ==
    Traced!GetStateChanges([call_inputs |-> <<>>, journaled |-> FALSE, journaled_state |-> None], 1, "s0")
        = Traced!Err("JournaledStateMissing")

test_get_state_changes_account_not_found ==
    Traced!GetStateChanges(ChangedState(1, <<100>>, None), 1, "s0") = Traced!Err("AccountNotFound")

test_get_state_changes_slot_not_found ==
    Traced!GetStateChanges(ChangedState(1, <<100>>, AccountOf(InfoOf(0, 0), NoSlots, FALSE, FALSE)), 1, "s0")
        = Traced!Err("SlotNotFound")

test_get_state_changes_multiple_changes_same_slot ==
    Traced!GetStateChanges(ChangedState(1, <<10, 20, 30, 40>>, Slot0(50)), 1, "s0")
        = Traced!Ok(<<10, 20, 30, 40, 50>>)

test_get_state_changes_different_addresses ==
    Traced!GetStateChanges(ChangedState(2, <<50>>, None), 1, "s0") = Traced!Ok(<<>>)

test_get_differences_function ==
    Traced!GetDifferences(ChangedState(1, <<1, 2>>, Slot0(3)).journaled_state, 1, "s0") = Traced!Ok(<<1, 2, 3>>)

Recorded(calls) == [call_inputs |-> calls, journaled |-> FALSE, journaled_state |-> None]

test_get_call_inputs_success ==
    LET call == Operation("call", 1, "f", "32 bytes")
    IN  Traced!GetCallInputs(Recorded(<<call>>), 1, "f") = <<call>>

test_get_call_inputs_empty_result == Traced!GetCallInputs(Recorded(<<>>), 1, "f") = <<>>

test_get_call_inputs_multiple_results ==
    LET calls == <<Operation("call", 1, "f", "32 bytes"), Operation("call", 1, "f", "64 bytes")>>
    IN  Traced!GetCallInputs(Recorded(calls), 1, "f") = calls

(***************************************************************************)
(* The executor.                                                           *)
(***************************************************************************)
test_deploy_assertion_contract ==
    \A id \in Ids : BasicRef(InsertAssertionContract(Empty, id), InnerDb, AssertionContract).code = Deployed[id].code

\* The counter exists in the caller's database only; the fork gets its slot.
test_execute_forked_tx ==
    LET tx      == Transaction(<<Operation("call", 1, "increment()", None), Operation("sstore", 1, "s0", 1)>>)
        mock_db == [EmptyDb EXCEPT !.basic[1] = WithCode("h1", "code")]
    IN  /\ Traced!Calls(Traced!Trace(tx, mock_db)) = {1}
        /\ Fork!StorageRef(Fork!Commit(Fork!Empty, Traced!StateAfter(tx, mock_db)), EmptyDb, 1, "s0") = 1

\* The model answers as the tests say the code does.
ASSUME ExecutorTestsPass ==
    /\ test_basic /\ test_storage /\ test_code_by_hash /\ test_commit_self_destruct
    /\ test_merge_storage_changes /\ test_merge_status_changes /\ test_merge_new_accounts
    /\ call_tracing /\ extract_triggers /\ test_triggers_all_types /\ test_triggers_no_journal_state
    /\ test_get_state_changes_success /\ test_get_state_changes_no_changes
    /\ test_get_state_changes_missing_journaled_state /\ test_get_state_changes_account_not_found
    /\ test_get_state_changes_slot_not_found /\ test_get_state_changes_multiple_changes_same_slot
    /\ test_get_state_changes_different_addresses /\ test_get_differences_function
    /\ test_get_call_inputs_success /\ test_get_call_inputs_empty_result
    /\ test_get_call_inputs_multiple_results
    /\ test_deploy_assertion_contract /\ test_execute_forked_tx
==============================================================================
