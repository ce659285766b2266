------------------------------ MODULE StoreTests -----------------------------
(***************************************************************************)
(* The unit tests of store/assertion_store.rs, replayed on the operators   *)
(* that the store is modelled with.  TLC evaluates them when it checks     *)
(* AssertionStore.                                                         *)
(***************************************************************************)
EXTENDS AssertionStore, FiniteSets

\* create_test_assertion: no end, and nothing recorded.
TestAssertion(id, active_at) == [id |-> id, active_at_block |-> active_at, inactive_at_block |-> None]

AddOf(aa, id, at)    == [kind |-> "Add", adopter |-> aa, id |-> id, at |-> at]
RemoveOf(aa, id, at) == [kind |-> "Remove", adopter |-> aa, id |-> id, at |-> at]

\* A db after calls of apply_pending_modifications that nothing interferes with.
Applied(entry, batch, aa) ==
    IF ModificationsOf(batch, aa) = <<>> THEN entry
    ELSE ApplyAll(OrEmpty(entry), ModificationsOf(batch, aa))

\* The triggers and the recorder of a test.
Matched(recorded) ==
    INSTANCE Modifications WITH
        CallTriggers    <- {"0x00000000", "0x11223344", "0x12345678", "0xffffffff"},
        StorageTriggers <- {"1", "5", "42", "99", "123", "999"},
        Ids <- {"1", "2"}, Selectors <- 1..5,
        Recorder <- [id \in {"1", "2"} |-> [t \in {"0x00000000", "0x11223344", "0x12345678", "0xffffffff",
                        "1", "5", "42", "99", "123", "999", "BalanceChange", "AllCalls", "AllStorageChanges"} |->
                            IF t \in DOMAIN recorded THEN recorded[t] ELSE {}]]

\* The ids of the assertions that read returns for adopters that were called.
ReadIds(entries, block) ==
    UNION {{found.id : found \in Matched(<<>>)!ReadAdopter(entries[aa], {"0x00000000"}, block)} :
            aa \in DOMAIN entries}

test_insert_and_read ==
    LET entry == InsertState(<<>>, TestAssertion("1", 100))
    IN  ReadIds(<<entry>>, 150) = {"1"} /\ ReadIds(<<entry>>, 50) = {}

test_apply_pending_modifications ==
    LET entry == Applied(None, <<AddOf("x", "1", 100), AddOf("x", "2", 200)>>, "x")
    IN  ReadIds(<<entry>>, 150) = {"1"} /\ ReadIds(<<entry>>, 250) = {"1", "2"}

test_removal_modification ==
    LET entry == Applied(Applied(None, <<AddOf("x", "1", 100)>>, "x"), <<RemoveOf("x", "1", 200)>>, "x")
    IN  ReadIds(<<entry>>, 150) = {"1"} /\ ReadIds(<<entry>>, 250) = {}

test_multiple_assertion_adopters ==
    LET batch == <<AddOf("x", "1", 100), AddOf("y", "2", 100)>>
        of(aa) == Applied(None, batch, aa)
    IN  ReadIds(<<of("x"), of("y")>>, 150) = {"1", "2"} /\ ReadIds(<<of("x")>>, 150) = {"1"}

test_update_same_assertion ==
    LET entry == Applied(InsertState(<<>>, TestAssertion("1", 100)),
                         <<RemoveOf("x", "1", 200), AddOf("x", "1", 300)>>, "x")
    IN  Len(entry) = 1 /\ ReadIds(<<entry>>, 250) = {} /\ ReadIds(<<entry>>, 350) = {"1"}

\* setup_and_match: the selectors that read finds for an adopter that was
\* called and whose journal has further triggers.
SetupAndMatch(recorded, observed) ==
    Matched(recorded)!ReadAdopter(<<TestAssertion("1", 100)>>, observed, 100)

Finds(recorded, observed, selectors) ==
    SetupAndMatch(recorded, observed) = {[id |-> "1", selectors |-> selectors]}

test_read_adopter_with_all_triggers ==
    Finds([AllCalls |-> {1, 3}, AllStorageChanges |-> {2, 3}], {"0x00000000", "1"}, {1, 2, 3})

test_read_adopter_with_specific_triggers ==
    Finds([t \in {"0x00000000", "1", "BalanceChange"} |->
            CASE t = "0x00000000" -> {1} [] t = "1" -> {2} [] OTHER -> {3}],
          {"0x00000000", "1", "BalanceChange"}, {1, 2, 3})

test_read_adopter_only_match_call_trigger ==
    Finds([t \in {"0x00000000", "AllStorageChanges", "BalanceChange"} |->
            CASE t = "0x00000000" -> {1} [] t = "BalanceChange" -> {3} [] OTHER -> {2}],
          {"0x00000000"}, {1})

test_all_trigger_types_comprehensive ==
    Finds([t \in {"0x12345678", "AllCalls", "42", "AllStorageChanges", "BalanceChange"} |->
            CASE t = "0x12345678" -> {1} [] t = "AllCalls" -> {2} [] t = "42" -> {3}
              [] t = "AllStorageChanges" -> {4} [] OTHER -> {5}],
          {"0x12345678", "42", "99", "BalanceChange"}, 1..5)

test_no_matching_triggers ==
    Finds([t \in {"0xffffffff", "999"} |-> IF t = "999" THEN {2} ELSE {1}],
          {"0x00000000", "123", "BalanceChange"}, {})

test_partial_trigger_matching ==
    Finds([t \in {"0x11223344", "5", "BalanceChange"} |->
            CASE t = "0x11223344" -> {1} [] t = "5" -> {2} [] OTHER -> {3}],
          {"0x00000000", "5", "BalanceChange"}, {2, 3})

\* The model answers as the tests say the code does.
ASSUME StoreTestsPass ==
    /\ test_insert_and_read /\ test_apply_pending_modifications /\ test_removal_modification
    /\ test_multiple_assertion_adopters /\ test_update_same_assertion
    /\ test_read_adopter_with_all_triggers /\ test_read_adopter_with_specific_triggers
    /\ test_read_adopter_only_match_call_trigger /\ test_all_trigger_types_comprehensive
    /\ test_no_matching_triggers /\ test_partial_trigger_matching
==============================================================================
