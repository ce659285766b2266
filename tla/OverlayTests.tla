----------------------------- MODULE OverlayTests ----------------------------
(***************************************************************************)
(* The unit tests of db/overlay/mod.rs and db/overlay/active_overlay.rs,   *)
(* replayed on the model: what they assert of the code must hold of the    *)
(* operators that the actions of Overlay are built from.  TLC evaluates    *)
(* them when it checks Overlay.                                            *)
(*                                                                         *)
(* A value stands for an account's info, for a code, a slot's value or a   *)
(* block's hash.  The tests of the two kinds of handle differ in nothing   *)
(* that the model tells apart but the database below.                      *)
(***************************************************************************)
EXTENDS Overlay

\* MockDb: what the tests insert into it.  A slot that was not inserted is
\* zero; of anything else there is none.
MockDb(inserted) == [k \in [table : {"Basic"}, of : 1..3]
                        \cup [table : {"CodeByHash"}, of : 1..2]
                        \cup [table : {"Storage"}, of : 1..2, slot : 1..3]
                        \cup [table : {"BlockHash"}, of : 100..101] |->
    IF \E i \in inserted : i[1] = k THEN (CHOOSE i \in inserted : i[1] = k)[2]
    ELSE IF k.table = "Storage" THEN 0 ELSE None]

MockDbs == [
    one   |-> MockDb({<<Basic(1), 1>>, <<CodeByHash(1), 3>>, <<Storage(1, 1), 4>>, <<BlockHash(100), 5>>}),
    two   |-> MockDb({<<Basic(2), 2>>}),
    empty |-> MockDb({})]

Test == INSTANCE Overlay WITH
            Addresses <- 1..3, Slots <- 1..3, Hashes <- 1..2, Numbers <- 100..101,
            Values <- 0..9, Zero <- 0, Databases <- DOMAIN MockDbs, Answer <- MockDbs

NoEntries == [k \in Test!TableKey |-> None]

IsCached(cache, k) == cache[k] # None

EntryCount(cache) == Cardinality({k \in Test!TableKey : IsCached(cache, k)})

\* A read calls the database below iff it misses.
Calls(cache, d, k) == IF cache[k] = None /\ d # None THEN 1 ELSE 0

\* A commit that nothing interferes with.
Commit(cache, changes) ==
    LET inserted == UNION {Test!EntriesOf(account) : account \in {c \in changes : c.touched}}
    IN  [k \in Test!TableKey |->
            IF \E write \in inserted : write.key = k
            THEN (CHOOSE write \in inserted : write.key = k).value ELSE cache[k]]

(***************************************************************************)
(* Hits and misses: a key of the database is read twice, then one that it  *)
(* does not have.                                                          *)
(***************************************************************************)
ReadTwice(d, k, value) ==
    LET cache == Test!Filled(NoEntries, d, k) IN
    /\ Calls(NoEntries, d, k) = 1 /\ Test!ReadRef(NoEntries, d, k) = value
    /\ IsCached(cache, k)
    /\ Calls(cache, d, k) = 0 /\ Test!ReadRef(cache, d, k) = value

ReadMissing(d, k, answer, cached) ==
    /\ Calls(NoEntries, d, k) = 1 /\ Test!ReadRef(NoEntries, d, k) = answer
    /\ IsCached(Test!Filled(NoEntries, d, k), k) = cached

test_basic_hit_miss == ReadTwice("one", Basic(1), 1) /\ ReadMissing("one", Basic(2), None, FALSE)

test_storage_hit_miss ==
    /\ ReadTwice("one", Storage(1, 1), 4)
    /\ ReadMissing("one", Storage(1, 2), 0, TRUE) /\ ReadTwice("one", Storage(1, 2), 0)

test_code_hit_miss ==
    ReadTwice("one", CodeByHash(1), 3) /\ ReadMissing("one", CodeByHash(2), "NotFoundError", FALSE)

test_block_hash_hit_miss ==
    ReadTwice("one", BlockHash(100), 5) /\ ReadMissing("one", BlockHash(101), "NotFoundError", FALSE)

test_active_basic_hit_miss == test_basic_hit_miss
test_active_storage_hit_miss == test_storage_hit_miss
test_active_code_hit_miss == test_code_hit_miss
test_active_block_hash_hit_miss == test_block_hash_hit_miss

test_no_underlying_db ==
    /\ Test!ReadRef(NoEntries, None, Basic(1)) = None
    /\ Test!ReadRef(NoEntries, None, Storage(1, 1)) = 0
    /\ Test!ReadRef(NoEntries, None, CodeByHash(1)) = "NotFoundError"
    /\ Test!ReadRef(NoEntries, None, BlockHash(100)) = "NotFoundError"
    /\ \A k \in Test!TableKey : Test!Filled(NoEntries, None, k) = NoEntries

test_invalidate_all ==
    /\ EntryCount(Test!Filled(NoEntries, "one", Basic(1))) = 1
    /\ EntryCount(NoEntries) = 0
    /\ ReadTwice("one", Basic(1), 1)

\* What was read stays when the database below is replaced, until it is
\* invalidated.
test_replace_underlying ==
    LET first  == Test!Filled(NoEntries, "one", Basic(1))
        second == Test!Filled(first, "two", Basic(2))
    IN  /\ Test!ReadRef(first, "two", Basic(1)) = 1 /\ Calls(first, "two", Basic(1)) = 0
        /\ Test!ReadRef(first, "two", Basic(2)) = 2 /\ Calls(first, "two", Basic(2)) = 1
        /\ IsCached(second, Basic(1)) /\ IsCached(second, Basic(2))
        /\ ReadMissing("two", Basic(1), None, FALSE) /\ ReadTwice("two", Basic(2), 2)

\* Two handles over different databases read each other's fills.
test_active_shared_cache ==
    LET first  == Test!Filled(NoEntries, "one", Basic(1))
        second == Test!Filled(first, "two", Basic(2))
    IN  /\ EntryCount(first) = 1 /\ EntryCount(second) = 2
        /\ Calls(first, "two", Basic(2)) = 1
        /\ Test!ReadRef(second, "two", Basic(1)) = 1 /\ Calls(second, "two", Basic(1)) = 0
        /\ Test!ReadRef(second, "one", Basic(2)) = 2 /\ Calls(second, "one", Basic(2)) = 0

(***************************************************************************)
(* Commits.                                                                *)
(***************************************************************************)
TestAccount(a, info, code, storage, touched) ==
    [address |-> a, info |-> info, code_hash |-> IF code = None THEN 2 ELSE 1, code |-> code,
     storage |-> [s \in 1..3 |-> IF s \in DOMAIN storage THEN storage[s] ELSE None],
     touched |-> touched, selfdestructed |-> FALSE]

\* A contract with two slots, an account with one, and, if untouched, a third.
TestChanges(untouched) ==
    {TestAccount(1, 6, 7, <<1, 2>>, TRUE), TestAccount(2, 8, None, [s \in {3} |-> 9], TRUE)}
        \cup {TestAccount(3, 9, None, <<>>, FALSE) : n \in {m \in {1} : untouched}}

\* Every reader of the cache finds what was committed, and no more.
CommittedAnd(d, cache) ==
    /\ Test!ReadRef(cache, d, Basic(1)) = 6 /\ Test!ReadRef(cache, d, CodeByHash(1)) = 7
    /\ Test!ReadRef(cache, d, Storage(1, 1)) = 1 /\ Test!ReadRef(cache, d, Storage(1, 2)) = 2
    /\ Test!ReadRef(cache, d, Basic(2)) = 8 /\ Test!ReadRef(cache, d, Storage(2, 3)) = 9
    /\ \A k \in {Basic(1), CodeByHash(1), Storage(1, 1), Basic(2), Storage(2, 3)} :
        Calls(cache, d, k) = 0
    /\ ~ IsCached(cache, Basic(3)) /\ EntryCount(cache) = 6

test_database_commit == CommittedAnd(None, Commit(NoEntries, TestChanges(TRUE)))

test_active_database_commit == CommittedAnd("empty", Commit(NoEntries, TestChanges(TRUE)))

test_active_overlay_commit_propagates_to_parent ==
    \A reader \in {None, "empty"} : CommittedAnd(reader, Commit(NoEntries, TestChanges(FALSE)))

test_active_database_commit_shared_cache ==
    LET first == Commit(NoEntries, {TestAccount(1, 1, None, <<4>>, TRUE)})
        both  == Commit(first, {TestAccount(2, 2, None, [s \in {2} |-> 5], TRUE)})
    IN  /\ Test!ReadRef(both, "empty", Basic(1)) = 1 /\ Test!ReadRef(both, "empty", Basic(2)) = 2
        /\ Test!ReadRef(both, "empty", Storage(1, 1)) = 4
        /\ Test!ReadRef(both, "empty", Storage(2, 2)) = 5
        /\ EntryCount(both) = 4

\* The model answers as the tests say the code does.
ASSUME OverlayTestsPass ==
    /\ test_basic_hit_miss /\ test_storage_hit_miss /\ test_code_hit_miss
    /\ test_block_hash_hit_miss /\ test_active_basic_hit_miss /\ test_active_storage_hit_miss
    /\ test_active_code_hit_miss /\ test_active_block_hash_hit_miss
    /\ test_no_underlying_db /\ test_invalidate_all /\ test_replace_underlying
    /\ test_active_shared_cache /\ test_database_commit /\ test_active_database_commit
    /\ test_active_overlay_commit_propagates_to_parent
    /\ test_active_database_commit_shared_cache
==============================================================================
