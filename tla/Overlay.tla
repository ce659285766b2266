------------------------------- MODULE Overlay -------------------------------
(***************************************************************************)
(* The overlay cache (db/overlay/mod.rs, db/overlay/active_overlay.rs):    *)
(* OverlayDb and ActiveOverlay handles in several threads, over databases  *)
(* of their own, share one bounded cache.  A read that misses the cache    *)
(* asks the handle's database and inserts the answer; a commit inserts its *)
(* entries one by one.  Nothing is locked in between.                      *)
(*                                                                         *)
(* A database is a fixed snapshot, given by what it answers for a key;     *)
(* None stands for an account that does not exist, and for code and block  *)
(* hashes that it does not have.                                           *)
(***************************************************************************)
EXTENDS Naturals, FiniteSets

CONSTANTS
    Threads,         \* each with a handle of its own
    ActiveOverlays,  \* those whose handle is an ActiveOverlay
    Addresses, Slots, Hashes, Numbers,
    Values, Zero,
    Databases,
    Answer,          \* database -> key -> value or None
    ChangeSets,      \* what commit may be called with: sets of accounts
    MaxCapacity,
    MaxCommits,      \* bound on commits
    None

Basic(a)       == [table |-> "Basic", of |-> a]
CodeByHash(h)  == [table |-> "CodeByHash", of |-> h]
Storage(a, s)  == [table |-> "Storage", of |-> a, slot |-> s]
BlockHash(n)   == [table |-> "BlockHash", of |-> n]

TableKey == {Basic(a) : a \in Addresses} \cup {CodeByHash(h) : h \in Hashes}
                \cup {Storage(a, s) : a \in Addresses, s \in Slots}
                \cup {BlockHash(n) : n \in Numbers}

\* An account as commit receives it: what it inserts, and its status flags.
Account == [address : Addresses, info : Values, code_hash : Hashes, code : Values \cup {None},
            storage : [Slots -> Values \cup {None}],
            touched : BOOLEAN, selfdestructed : BOOLEAN]

ASSUME OverlayAssumption ==
    /\ ActiveOverlays \subseteq Threads
    /\ None \notin Values /\ None \notin TableKey /\ Zero \in Values
    /\ Answer \in [Databases -> [TableKey -> Values \cup {None}]]
    /\ ChangeSets \subseteq SUBSET Account

VARIABLES
    overlay,        \* the cache: key -> value or None
    underlying,     \* thread -> the database below its handle, or None
    pc,             \* thread -> "idle", "miss" or "commit"
    reading,        \* thread -> the key it missed
    accounts,       \* thread -> accounts that it still has to commit
    writes,         \* thread -> entries of the current account still to insert
    commits,
    committed,      \* key -> the value committed last, or None
    excused         \* keys whose committed value may have been lost

vars == <<overlay, underlying, pc, reading, accounts, writes, commits, committed, excused>>

Init ==
    /\ overlay = [k \in TableKey |-> None]
    /\ underlying \in [Threads -> Databases \cup {None}]
    /\ \A t \in ActiveOverlays : underlying[t] # None
    /\ pc = [t \in Threads |-> "idle"]
    /\ reading = [t \in Threads |-> None]
    /\ accounts = [t \in Threads |-> {}]
    /\ writes = [t \in Threads |-> {}]
    /\ commits = 0
    /\ committed = [k \in TableKey |-> None]
    /\ excused = {}

(***************************************************************************)
(* Reads: basic_ref, code_by_hash_ref, storage_ref, block_hash_ref.        *)
(***************************************************************************)
\* What a read answers that finds neither an entry nor a value below: no
\* account, a slot that is zero, or NotFoundError.
Default(k) == CASE k.table = "Basic"   -> None
                [] k.table = "Storage" -> Zero
                [] OTHER               -> "NotFoundError"

\* What a read through the handle over database d answers.
ReadRef(cache, d, k) ==
    IF cache[k] # None THEN cache[k]
    ELSE IF d # None /\ Answer[d][k] # None THEN Answer[d][k]
    ELSE Default(k)

\* The cache after the read: a value that was found below is kept.
Filled(cache, d, k) ==
    IF cache[k] = None /\ d # None /\ Answer[d][k] # None
    THEN [cache EXCEPT ![k] = Answer[d][k]] ELSE cache

\* Mutant: the cache is not looked at first.
Miss_Always(t, k) ==
    /\ pc[t] = "idle" /\ underlying[t] # None
    /\ pc' = [pc EXCEPT ![t] = "miss"]
    /\ reading' = [reading EXCEPT ![t] = k]
    /\ UNCHANGED <<overlay, underlying, accounts, writes, commits, committed, excused>>

\* overlay.get misses.  A hit, and a miss without a database, end the read
\* with no change.
Miss(t, k) ==
    /\ pc[t] = "idle" /\ overlay[k] = None /\ underlying[t] # None
    /\ pc' = [pc EXCEPT ![t] = "miss"]
    /\ reading' = [reading EXCEPT ![t] = k]
    /\ UNCHANGED <<overlay, underlying, accounts, writes, commits, committed, excused>>

EndRead(t) ==
    /\ pc[t] = "miss"
    /\ pc' = [pc EXCEPT ![t] = "idle"]
    /\ reading' = [reading EXCEPT ![t] = None]
    /\ UNCHANGED <<underlying, accounts, writes, commits, committed, excused>>

\* Mutant: the absence of an account is cached, as an empty account.
Fill_CachesAbsence(t) ==
    LET value == Answer[underlying[t]][reading[t]] IN
    /\ EndRead(t)
    /\ overlay' = IF value = None /\ reading[t].table # "Basic" THEN overlay
                  ELSE [overlay EXCEPT ![reading[t]] = IF value # None THEN value ELSE Zero]

\* The database has a value: it is inserted, whatever the cache holds by now.
Fill(t) ==
    LET value == Answer[underlying[t]][reading[t]] IN
    /\ EndRead(t) /\ value # None
    /\ overlay' = [overlay EXCEPT ![reading[t]] = value]

\* The database has no value, or fails: nothing is cached.
NotFound(t) == EndRead(t) /\ UNCHANGED overlay

(***************************************************************************)
(* DatabaseCommit::commit, on either kind of handle.                       *)
(***************************************************************************)
\* The entries of an account: its info, its code if it has any, its slots.
\* Whether the account was destroyed makes no difference to what is inserted.
EntriesOf(account) ==
    LET Entry(k, v) == [key |-> k, value |-> v, destroyed |-> account.selfdestructed]
    IN  {Entry(Basic(account.address), account.info)}
            \cup {Entry(CodeByHash(account.code_hash), c) : c \in {account.code} \ {None}}
            \cup {Entry(Storage(account.address, s), account.storage[s]) :
                    s \in {r \in Slots : account.storage[r] # None}}

\* Info before code before slots; the slots in the order of a HashMap.
Precedes(k, l) ==
    \/ k.table = "Basic" /\ l.table # "Basic"
    \/ k.table = "CodeByHash" /\ l.table = "Storage"

CommitBegin(t, changes) ==
    /\ pc[t] = "idle" /\ commits < MaxCommits
    /\ accounts' = [accounts EXCEPT ![t] = {account \in changes : account.touched}]
    /\ pc' = [pc EXCEPT ![t] = "commit"]
    /\ commits' = commits + 1
    /\ UNCHANGED <<overlay, underlying, reading, writes, committed, excused>>

\* The next account, in the arbitrary order of a HashMap.  What it promises
\* of its storage if it was destroyed (every slot is zero) is not kept.
CommitAccount(t) ==
    /\ pc[t] = "commit" /\ writes[t] = {}
    /\ \E account \in accounts[t] :
        /\ accounts' = [accounts EXCEPT ![t] = @ \ {account}]
        /\ writes' = [writes EXCEPT ![t] = EntriesOf(account)]
        /\ excused' = excused \cup
                {Storage(account.address, s) : s \in {r \in Slots : account.selfdestructed}}
    /\ UNCHANGED <<overlay, underlying, pc, reading, commits, committed>>

\* An insert that does not last: a read of the key is under way that has
\* missed it, or it is a slot of an account that was destroyed.
Lost(write) ==
    \/ \E u \in Threads : pc[u] = "miss" /\ reading[u] = write.key
    \/ write.destroyed /\ write.key.table = "Storage"

\* Mutant: an entry that is there is left as it is.
CommitInsert_IfAbsent(t) ==
    /\ pc[t] = "commit"
    /\ \E write \in writes[t] :
        /\ \A other \in writes[t] : ~ Precedes(other.key, write.key)
        /\ overlay' = [overlay EXCEPT ![write.key] = IF @ = None THEN write.value ELSE @]
        /\ writes' = [writes EXCEPT ![t] = @ \ {write}]
        /\ committed' = [committed EXCEPT ![write.key] = write.value]
        /\ excused' = IF Lost(write) THEN excused \cup {write.key}
                      ELSE excused \ {write.key}
    /\ UNCHANGED <<underlying, pc, reading, accounts, commits>>

\* One insert.  From here on readers should find the value, if it is not lost.
CommitInsert(t) ==
    /\ pc[t] = "commit"
    /\ \E write \in writes[t] :
        /\ \A other \in writes[t] : ~ Precedes(other.key, write.key)
        /\ overlay' = [overlay EXCEPT ![write.key] = write.value]
        /\ writes' = [writes EXCEPT ![t] = @ \ {write}]
        /\ committed' = [committed EXCEPT ![write.key] = write.value]
        /\ excused' = IF Lost(write) THEN excused \cup {write.key}
                      ELSE excused \ {write.key}
    /\ UNCHANGED <<underlying, pc, reading, accounts, commits>>

CommitEnd(t) ==
    /\ pc[t] = "commit" /\ accounts[t] = {} /\ writes[t] = {}
    /\ pc' = [pc EXCEPT ![t] = "idle"]
    /\ UNCHANGED <<overlay, underlying, reading, accounts, writes, commits, committed, excused>>

(***************************************************************************)
(* The rest of OverlayDb.                                                  *)
(***************************************************************************)
\* The cache drops an entry when it holds more than it may.
Evict(k) ==
    /\ Cardinality({l \in TableKey : overlay[l] # None}) > MaxCapacity
    /\ overlay[k] # None
    /\ overlay' = [overlay EXCEPT ![k] = None]
    /\ excused' = excused \cup {k}
    /\ UNCHANGED <<underlying, pc, reading, accounts, writes, commits, committed>>

\* Nothing that was committed is left to be seen.
InvalidateAll ==
    /\ overlay' = [k \in TableKey |-> None]
    /\ committed' = [k \in TableKey |-> None]
    /\ excused' = {}
    /\ UNCHANGED <<underlying, pc, reading, accounts, writes, commits>>

\* Mutant: the database is replaced while the handle is read.
ReplaceUnderlying_Shared(t, d) ==
    /\ t \notin ActiveOverlays
    /\ underlying' = [underlying EXCEPT ![t] = d]
    /\ UNCHANGED <<overlay, pc, reading, accounts, writes, commits, committed, excused>>

\* replace_underlying takes the handle exclusively.
ReplaceUnderlying(t, d) ==
    /\ t \notin ActiveOverlays /\ pc[t] = "idle"
    /\ underlying' = [underlying EXCEPT ![t] = d]
    /\ UNCHANGED <<overlay, pc, reading, accounts, writes, commits, committed, excused>>

ThreadStep(t) ==
    \/ \E k \in TableKey : Miss(t, k)
    \/ Fill(t) \/ NotFound(t)
    \/ \E changes \in ChangeSets : CommitBegin(t, changes)
    \/ CommitAccount(t) \/ CommitInsert(t) \/ CommitEnd(t)
    \/ \E d \in Databases \cup {None} : ReplaceUnderlying(t, d)

Next ==
    \/ \E t \in Threads : ThreadStep(t)
    \/ \E k \in TableKey : Evict(k)
    \/ InvalidateAll

Spec == Init /\ [][Next]_vars

(***************************************************************************)
(* Properties.                                                             *)
(***************************************************************************)
Write == [key : TableKey, value : Values, destroyed : BOOLEAN]

\* The type invariant: a read that is under way has a key and a database.
TypeOK ==
    /\ overlay \in [TableKey -> Values \cup {None}]
    /\ underlying \in [Threads -> Databases \cup {None}]
    /\ pc \in [Threads -> {"idle", "miss", "commit"}]
    /\ reading \in [Threads -> TableKey \cup {None}]
    /\ \A t \in Threads : pc[t] = "miss" => reading[t] # None /\ underlying[t] # None
    /\ accounts \in [Threads -> SUBSET Account]
    /\ writes \in [Threads -> SUBSET Write]
    /\ commits \in Nat
    /\ committed \in [TableKey -> Values \cup {None}]
    /\ excused \subseteq TableKey

\* "Changes committed to the ActiveOverlay will be visible in this OverlayDb"
\* and in every other handle: the cache holds what was committed last, so
\* every read through any handle returns it.  Three cases are excused: the
\* entry was evicted; a read of the same key had missed it before it was
\* inserted and fills in the database's older value; the account was
\* destroyed, and its slots keep the values they had.
CommittedIsVisible ==
    \A k \in TableKey : committed[k] # None /\ k \notin excused =>
        \A t \in Threads : ReadRef(overlay, underlying[t], k) = committed[k]

\* Why: no fill of such a key is under way.
NoFillUnderWay ==
    \A k \in TableKey : committed[k] # None /\ k \notin excused =>
        /\ overlay[k] = committed[k]
        /\ \A t \in Threads : ~ (pc[t] = "miss" /\ reading[t] = k)

\* A handle's view of a key that no commit has touched changes by a read only
\* if the reading handle's database differs from its own there: a fill is not
\* visible to those who share the database, and absence is not cached.
Uncommitted(k) == committed[k] = None /\ committed'[k] = None

FillsAreInvisible ==
    [][\A t \in Threads, u \in Threads, k \in TableKey :
        /\ pc[t] = "miss" /\ pc'[t] = "idle" /\ reading[t] = k /\ Uncommitted(k)
        /\ underlying[u] = underlying[t]
        /\ overlay[k] \in {None, Answer[underlying[t]][k]}
        => ReadRef(overlay', underlying'[u], k) = ReadRef(overlay, underlying[u], k)]_vars
==============================================================================
