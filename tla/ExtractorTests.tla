---------------------------- MODULE ExtractorTests ---------------------------
(***************************************************************************)
(* The unit tests of inspectors/trigger_recorder.rs, replayed on the       *)
(* operators that Extractor is built from.  TLC evaluates them when it     *)
(* checks Extractor.                                                       *)
(***************************************************************************)
EXTENDS Extractor
LOCAL INSTANCE SequencesExt

Test == INSTANCE Extractor WITH CallTriggers <- {"call"}, StorageTriggers <- {"slot"}, Selectors <- 1..5

Register(kind, arg, selector) == [kind |-> kind, arg |-> arg, selector |-> selector]

\* The recorder after the calls of a triggers() function.
RecorderAfter(registrations) ==
    FoldLeft(LAMBDA recorded, r : Test!AddTrigger(recorded, Test!TypeOf(r), r.selector),
             Test!NoTriggers, registrations)

\* A recorder that has the selectors given and no others.
Recording(expected) ==
    [t \in Test!Triggers |-> IF t \in DOMAIN expected THEN expected[t] ELSE {}]

record_trigger_on_any ==
    RecorderAfter(<<Register("Call", None, 1), Register("StorageChange", None, 1), Register("BalanceChange", None, 1)>>)
        = Recording([AllCalls |-> {1}, AllStorageChanges |-> {1}, BalanceChange |-> {1}])

record_trigger_on_specific ==
    RecorderAfter(<<Register("Call", "call", 1), Register("StorageChange", "slot", 1)>>)
        = Recording([call |-> {1}, slot |-> {1}])

test_all_trigger_types_manual ==
    RecorderAfter(<<Register("Call", None, 1), Register("Call", "call", 2), Register("StorageChange", None, 3),
                    Register("StorageChange", "slot", 4), Register("BalanceChange", None, 5)>>)
        = Recording([AllCalls |-> {1}, call |-> {2}, AllStorageChanges |-> {3}, slot |-> {4}, BalanceChange |-> {5}])

test_multiple_selectors_same_trigger ==
    RecorderAfter([n \in 1..3 |-> Register("Call", None, n)]) = Recording([AllCalls |-> 1..3])

\* What the two contracts of the test register arrives in the recorder.
test_extract_all_trigger_types == record_trigger_on_any /\ record_trigger_on_specific

\* The model answers as the tests say the code does.
ASSUME ExtractorTestsPass ==
    /\ record_trigger_on_any /\ record_trigger_on_specific /\ test_all_trigger_types_manual
    /\ test_multiple_selectors_same_trigger /\ test_extract_all_trigger_types
==============================================================================
