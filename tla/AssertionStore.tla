---------------------------- MODULE AssertionStore ---------------------------
(***************************************************************************)
(* The assertion store under concurrent callers (store/assertion_store.rs).*)
(* The mutex is held for one db operation at a time: apply_pending_        *)
(* modification reads an adopter's entry, releases the lock, computes, and *)
(* writes with a compare-and-swap on the entry's value, starting over when *)
(* it fails.  insert holds the lock from its read to its write.            *)
(***************************************************************************)
EXTENDS Modifications

CONSTANTS
    Adopters,
    Writers,        \* callers of apply_pending_modifications
    Batches,        \* what they may be called with: sequences of modifications
    States,         \* what insert may be called with
    MaxCalls,       \* bound on calls of apply_pending_modifications
    MaxInserts,     \* bound on calls of insert
    MaxFaults,      \* bound on failed db operations
    MaxBlock        \* bound on the block numbers at which reads are compared

\* PendingModification (store/assertion_store.rs).
PendingModification == [kind : {"Add", "Remove"}, adopter : Adopters, id : Ids, at : Nat]

ASSUME StoreAssumption ==
    /\ Batches \subseteq Seq(PendingModification)
    /\ States \subseteq AssertionState
    /\ None \notin Seq(AssertionState)
    /\ MaxBlock \in Nat

VARIABLES
    db,             \* adopter -> list of assertion states, or None
    groups,         \* writer -> adopter -> modifications not yet applied
    pc,             \* writer -> "idle", "pick", "read" or "cas"
    target,         \* writer -> the adopter it works on
    snapshot,       \* writer -> the entry it read
    history,        \* adopter -> all that took effect on its entry, in order
    calls, inserts, faults

vars == <<db, groups, pc, target, snapshot, history, calls, inserts, faults>>

NoGroups == [aa \in Adopters |-> <<>>]

Init ==
    /\ db = [aa \in Adopters |-> None]
    /\ groups = [w \in Writers |-> NoGroups]
    /\ pc = [w \in Writers |-> "idle"]
    /\ target = [w \in Writers |-> None]
    /\ snapshot = [w \in Writers |-> None]
    /\ history = [aa \in Adopters |-> <<>>]
    /\ calls = 0 /\ inserts = 0 /\ faults = 0

\* apply_pending_modifications groups the modifications by adopter.
ApplyPendingModifications(w) ==
    /\ pc[w] = "idle" /\ calls < MaxCalls
    /\ \E batch \in Batches :
        groups' = [groups EXCEPT ![w] =
                    [aa \in Adopters |-> ModificationsOf(batch, aa)]]
    /\ pc' = [pc EXCEPT ![w] = "pick"]
    /\ calls' = calls + 1
    /\ UNCHANGED <<db, target, snapshot, history, inserts, faults>>

\* The next adopter, in the arbitrary order of a HashMap.
PickAdopter(w) ==
    /\ pc[w] = "pick"
    /\ \E aa \in Adopters : groups[w][aa] # <<>> /\ target' = [target EXCEPT ![w] = aa]
    /\ pc' = [pc EXCEPT ![w] = "read"]
    /\ UNCHANGED <<db, groups, snapshot, history, calls, inserts, faults>>

\* No adopter is left: the call returns.
AllApplied(w) ==
    /\ pc[w] = "pick" /\ groups[w] = NoGroups
    /\ pc' = [pc EXCEPT ![w] = "idle"]
    /\ UNCHANGED <<db, groups, target, snapshot, history, calls, inserts, faults>>

\* apply_pending_modification: read the entry under the lock.
ReadEntry(w) ==
    /\ pc[w] = "read"
    /\ snapshot' = [snapshot EXCEPT ![w] = db[target[w]]]
    /\ pc' = [pc EXCEPT ![w] = "cas"]
    /\ UNCHANGED <<db, groups, target, history, calls, inserts, faults>>

\* The read fails: the error leaves both loops, the other adopters' share of
\* the batch is dropped.
ReadFails(w) ==
    /\ pc[w] = "read" /\ faults < MaxFaults
    /\ faults' = faults + 1
    /\ groups' = [groups EXCEPT ![w] = NoGroups]
    /\ target' = [target EXCEPT ![w] = None]
    /\ pc' = [pc EXCEPT ![w] = "idle"]
    /\ UNCHANGED <<db, snapshot, history, calls, inserts>>

\* Mutant: the entry is overwritten without the comparison.
SwapSucceeds_Overwrites(w) ==
    LET aa == target[w] IN
    /\ pc[w] = "cas"
    /\ db' = [db EXCEPT ![aa] = ApplyAll(OrEmpty(snapshot[w]), groups[w][aa])]
    /\ history' = [history EXCEPT ![aa] = @ \o groups[w][aa]]
    /\ groups' = [groups EXCEPT ![w][aa] = <<>>]
    /\ target' = [target EXCEPT ![w] = None]
    /\ snapshot' = [snapshot EXCEPT ![w] = None]
    /\ pc' = [pc EXCEPT ![w] = "pick"]
    /\ UNCHANGED <<calls, inserts, faults>>

\* The entry is what was read: it is replaced by what the modifications make
\* of it.
SwapSucceeds(w) ==
    LET aa == target[w] IN
    /\ pc[w] = "cas" /\ db[aa] = snapshot[w]
    /\ db' = [db EXCEPT ![aa] = ApplyAll(OrEmpty(snapshot[w]), groups[w][aa])]
    /\ history' = [history EXCEPT ![aa] = @ \o groups[w][aa]]
    /\ groups' = [groups EXCEPT ![w][aa] = <<>>]
    /\ target' = [target EXCEPT ![w] = None]
    /\ snapshot' = [snapshot EXCEPT ![w] = None]
    /\ pc' = [pc EXCEPT ![w] = "pick"]
    /\ UNCHANGED <<calls, inserts, faults>>

\* Mutant: the swap is tried again with the same stale entry.
SwapRetries_Stale(w) ==
    /\ pc[w] = "cas"
    /\ \/ db[target[w]] # snapshot[w] /\ UNCHANGED faults
       \/ faults < MaxFaults /\ faults' = faults + 1
    /\ UNCHANGED <<db, groups, pc, target, snapshot, history, calls, inserts>>

\* The compare-and-swap finds another entry, or fails: start over.
SwapRetries(w) ==
    /\ pc[w] = "cas"
    /\ \/ db[target[w]] # snapshot[w] /\ UNCHANGED faults
       \/ faults < MaxFaults /\ faults' = faults + 1
    /\ snapshot' = [snapshot EXCEPT ![w] = None]
    /\ pc' = [pc EXCEPT ![w] = "read"]
    /\ UNCHANGED <<db, groups, target, history, calls, inserts>>

\* insert, by anyone.
Insert(aa, state) ==
    /\ inserts < MaxInserts
    /\ db' = [db EXCEPT ![aa] = InsertState(OrEmpty(db[aa]), state)]
    /\ history' = [history EXCEPT ![aa] = Append(@, [kind |-> "Insert", id |-> state.id,
                                                     state |-> state])]
    /\ inserts' = inserts + 1
    /\ UNCHANGED <<groups, pc, target, snapshot, calls, faults>>

WriterStep(w) ==
    \/ PickAdopter(w) \/ AllApplied(w)
    \/ ReadEntry(w) \/ ReadFails(w) \/ SwapSucceeds(w) \/ SwapRetries(w)

Next ==
    \/ \E w \in Writers : ApplyPendingModifications(w) \/ WriterStep(w)
    \/ \E aa \in Adopters, state \in States : Insert(aa, state)

Spec == Init /\ [][Next]_vars

\* A caller that is inside apply_pending_modifications goes on.
FairSpec == Spec /\ \A w \in Writers : WF_vars(WriterStep(w))

(***************************************************************************)
(* Properties.                                                             *)
(***************************************************************************)
Modification == UNION {{batch[n] : n \in DOMAIN batch} : batch \in Batches}

\* The type invariant.
TypeOK ==
    /\ db \in [Adopters -> Seq(AssertionState) \cup {None}]
    /\ groups \in [Writers -> [Adopters -> Seq(Modification)]]
    /\ pc \in [Writers -> {"idle", "pick", "read", "cas"}]
    /\ target \in [Writers -> Adopters \cup {None}]
    /\ snapshot \in [Writers -> Seq(AssertionState) \cup {None}]
    /\ calls \in Nat /\ inserts \in Nat /\ faults \in Nat

\* No adopter ever has two states for one assertion: find-or-push in
\* apply_pending_modification and in insert never duplicates, even when both
\* start from the same entry.
OneStatePerAssertion ==
    \A aa \in Adopters : db[aa] # None =>
        \A m, n \in DOMAIN db[aa] : db[aa][m].id = db[aa][n].id => m = n

\* The compare-and-swap loop implements atomic application: no modification
\* and no insert that took effect is lost to a concurrent one, none is applied
\* twice by a retry.
Atomic == INSTANCE AtomicStore
ImplementsAtomicStore == Atomic!Spec

\* Reference for reads: what an adopter's history says of an assertion.  It is
\* known from its first Add or Insert on; it starts where the last Add or
\* Insert says; it ends where the last Remove says that came while it was
\* known, unless an Insert set its own end after that.  A Remove that comes
\* before the assertion is known counts for nothing: so the code, where its
\* comment would have the end kept (see Modifications!ApplyOne), which an Add
\* that follows would then start with.
Starts(e) == IF e.kind = "Insert" THEN e.state.active_at_block ELSE e.at
Stops(e)  == IF e.kind = "Insert" THEN e.state.inactive_at_block ELSE e.at

Opens(events, id) == {n \in DOMAIN events : events[n].id = id /\ events[n].kind # "Remove"}

Ends(events, id) ==
    {n \in DOMAIN events :
        /\ events[n].id = id
        /\ \/ events[n].kind = "Insert"
           \/ events[n].kind = "Remove" /\ \E m \in Opens(events, id) : m < n}

Latest(N) == CHOOSE n \in N : \A m \in N : m <= n

\* The assertion's window according to a history: {} if it is not known.
Window(events, id) ==
    LET opens == Opens(events, id)
        ends  == Ends(events, id)
    IN  IF opens = {} THEN {}
        ELSE {[from  |-> Starts(events[Latest(opens)]),
               until |-> IF ends = {} THEN None ELSE Stops(events[Latest(ends)])]}

\* A window holds a block if the block is in it; an end before the start has
\* been overtaken by a later Add.
Holds(window, block) ==
    /\ window.from <= block
    /\ window.until # None /\ window.from <= window.until => block < window.until

\* What the tracer may hand to a read.
ObservedTriggers == SUBSET (CallTriggers \cup StorageTriggers \cup {"BalanceChange"})

\* A trigger that was recorded fires on one that was observed.
Fires(recorded, observed) ==
    \/ recorded = observed
    \/ recorded = "AllCalls" /\ observed \in CallTriggers
    \/ recorded = "AllStorageChanges" /\ observed \in StorageTriggers

\* The selectors of an assertion whose triggers fire.
Fired == [id \in Ids |-> [observed \in ObservedTriggers |->
            {s \in Selectors : \E r \in Triggers, o \in observed :
                s \in Recorder[id][r] /\ Fires(r, o)}]]

\* At every moment read_adopter returns, for any block and any observed
\* triggers, exactly the assertions that the effects so far on that adopter
\* make active there, each with the selectors whose triggers fire.  On a Remove
\* of an unknown assertion this follows the code against the comment at
\* assertion_store.rs:440: the two differ if the assertion is added later with
\* a start below the end that was dropped, which then never takes effect.
ReadsFollowHistory ==
    \A aa \in Adopters, block \in 0..MaxBlock :
        LET active == {id \in Ids : \E window \in Window(history[aa], id) : Holds(window, block)} IN
        \A observed \in ObservedTriggers :
            ReadAdopter(db[aa], observed, block) =
                {[id |-> id, selectors |-> Fired[id][observed]] : id \in active}

\* A call of apply_pending_modifications returns: its retries end.
ApplyReturns == \A w \in Writers : pc[w] # "idle" ~> pc[w] = "idle"
==============================================================================
