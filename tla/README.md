# Verification of the assertion executor

The repository executes *assertions*: contracts that say what a transaction
must not do to a contract that adopted them (the *adopter*). An indexer follows
the events of a state-oracle contract and fills a store with the assertions of
each adopter; an executor runs a transaction, reads the assertions that apply
from the store and runs them against the state before and after it. The TLA+
modules here model the parts where order, failure and concurrency matter.
`PROJECT.json` maps every definition to source lines.

## Inventory

| component | state | operations | talks to |
|---|---|---|---|
| indexer (`store/indexer.rs`, `utils/reorg_utils.rs`) | sled trees `block_hash_tree`, `pending_modifications_tree`, `latest_block_tree`; `is_synced` | `sync_to_head`, `run`, `handle_latest_block`, `sync`, `find_common_ancestor`, `prune_from`, `index_range`, `move_pending_modifications_to_store`, `prune_to` | the node (RPC and block subscription), the DA layer, the extractor, the store |
| assertion store (`store/assertion_store.rs`, `store/mod.rs`) | a sled db: adopter -> list of `AssertionState` | `insert`, `apply_pending_modifications`, `read` | written by the indexer, read by executors in other threads |
| executor (`executor/`) | a fork of the state per block | `validate_transaction_ext_db`, parallel `execute_assertion_fn` | store, tracer, multi-fork db |
| multi-fork db (`db/multi_fork_db.rs`), fork precompiles, PhEvm inspector | active fork, inactive fork with its journaled state | `switch_fork`, reads, commits | revm's journaled state |
| fork db (`db/fork_db.rs`) | mutations over an inner db, "don't read below" flags | `commit`, reads | inner db |
| overlay (`db/overlay/`) | a bounded cache shared by handles | read-through fills, `commit`, eviction | the database below |
| tracer, trigger recorder (`inspectors/`) | calls and journal of a transaction; triggers of an assertion | `record_call`, `triggers`, `record_trigger` | executor, store, extractor |
| extractor (`store/assertion_contract_extractor.rs`) | a private in-memory db for one contract | `extract_assertion_contract` | indexer, trigger recorder |
| read-only precompiles (`inspectors/precompiles/`) | none: they answer from the tracer and the active fork | `getCallInputs`, `getStateChanges`, `load`, `getLogs`, `getAssertionAdopter` | called by assertions |
| EVM construction, serialisation | none of their own | | |

What is hard: the indexer takes many separate calls and writes per block, while
the chain may reorganise, calls fail, the process dies and the subscription
overflows; the store is shared between threads and its writers release the lock
between read and write; fork switches happen in the middle of nested calls that
may revert; several handles fill and commit one cache; the executor's fork has
to keep up with a database that others commit to, by other rules than its own.
`PROJECT.json` lists these hazards at their lines.

What makes each part correct: the store is handed exactly the finalized events,
in order and once (indexer); concurrent updates are atomic and reads follow
from what was applied (store); a transaction is committed iff all assertions
that apply pass, and the fork follows the caller's database (executor); what is
accepted is the contract as deployed, what it registered is what is selected,
and extracting it ends (extractor, trigger recorder); each fork is isolated except for the persistent
accounts (multi-fork db); what was committed is seen by every handle (overlay).

## Modules

### Indexer

`Indexer` models `store/indexer.rs` with `utils/reorg_utils.rs`. Every await
and every write to a sled tree is an action of its own; `pc` says which comes
next. The trees are sets of blocks, keyed by `Number`: a block stands for its
hash in `block_hash_tree` and for its ordered events in
`pending_modifications_tree`. `latest_block_tree` holds a number *and* a hash,
because the code may store a pair that is not a block (`InsertLastAncestor`,
line 464). `store` records, per adopter, the blocks whose events were applied.

| code | actions |
|---|---|
| `sync_to_head`, `run`, `handle_latest_block` | `SyncToHead`, `Subscribe`, `Recv`, `RecvPending`, `RecvLagged` |
| `sync`, `check_if_reorged`, `find_common_ancestor` | `SyncFromGenesis`, `SyncSameChain`, `SyncReorg`, `SyncError`, `InsertLastAncestor`, `SyncNothingToIndex` |
| `prune_from` | `PruneFromPop`, `PruneFromPending` |
| `index_range`, `extract_pending_modifications` | `GetLogs`, `InsertPending`, `GetBlock`, `GetBlockMissing`, `InsertLast`, `WriteHashes`, `GetTag`, `IndexRangeDone` |
| `move_pending_modifications_to_store`, `prune_to` | `PruneToPop`, `PruneToPending`, `PruneToDone`, `Apply` |
| an error at an await, a crash | `Fail` |
| the node (external) | `Advance`, `Reorg`, `Finalize` |

The walks of `check_if_reorged` and `find_common_ancestor` are one step each:
they look blocks up by hash and read a tree nobody else writes, so their result
does not depend on when they look. Nodes keep blocks they have served, and
always have a latest block. Events that cannot be extracted are treated as absent
(`Touches`); a failing DA request or decoding is a `Fail` at the step of
`get_logs`. Each sled operation is taken to be durable when it returns: the
loss of an unflushed suffix in a crash is not modelled.

`FinalizedLog` is the abstract specification: each adopter receives the events
of the finalized chain, in order, none left out, none twice.

### Assertion store

`Modifications` has the data and the functions on one adopter's list
(`ApplyOne`, `InsertState`, `ActiveAt`, `MatchingSelectors`, `ReadAdopter`).
`AssertionStore` has the concurrent writers: `ReadEntry` and the swap
(`SwapSucceeds`, `SwapRetries`) are separate steps, since the mutex is released
between them; `Insert` is one step, since it holds it. `history` is a history
variable: what took effect on each adopter. The compare-and-swap compares
lists; the code compares their bytes, which may differ for equal lists
(`HashMap` order), in which case it starts over with an equal list.
`AtomicStore` is the abstract specification: a caller's modifications for one
adopter take effect in one step; a caller may fail between adopters.

The code represents "no end" as `u64::MAX`; the model has no end at all, which
differs for that block number only.

A `Remove` of an assertion the adopter does not have is dropped, as the code
does (see *Where comments and code differ*); the run's batches have one, and one
that is followed by the `Add`.

### Multi-fork database

`MultiForkDb` models one assertion function: `switch_fork` with
`update_journaled_state` and `merge_journaled_state_data`
(`db/multi_fork_db.rs`), reached through the fork precompiles, in the middle of
calls that return or revert. The journaled state, its journal and its
checkpoints are revm's and are modelled from how the code uses them
(external): `checkpoint` opens a part of the journal, a revert undoes the
entries from a call's checkpoint on and cuts the journal there. The precompile
call itself opens no checkpoint, because the inspector answers it.

| code | definitions |
|---|---|
| `MultiForkDb::new`, `insert_assertion_contract`, `execute_assertion_fn` | `Init`, `DbValue`, `Transact` |
| `switch_fork` | `SwitchFork`, `TargetState` |
| `update_journaled_state`, `merge_journaled_state_data` | `UpdateJournaledState`, `Padded`, `Merged` |
| revm (external) | `Read`, `Write`, `Call`, `Return`, `Revert` and the operators they use |

A location is a slot of an account, and a value carries the fork on which it
was read or written; balances, nonces and code are left out. `Persistent` are
the slots of the assertion contract, the caller and the precompile: the active
`ForkDb` keeps those and does not read below for them, on either fork. The
model journals a write of an equal value, which revm leaves out; undoing it
changes nothing. `expected` and `saved` are history variables: what a reader
should see, now and before each open call. `torn` marks a case the code leaves open:
a call switches forks and is then reverted, which undoes nothing on the fork it
left.

### Executor

`Executor` models `executor/mod.rs`, and composes it with the tracer, the fork
databases and the store. A caller submits one transaction after the other, as
a block builder does; store writers act at any moment.

| code | definitions |
|---|---|
| `execute_forked_tx_ext_db` | `Execute`, `NewMultiForkDb` |
| `validate_transaction_ext_db` | `Execute`, `ReturnError`, `ReturnReverted`, `ReadDone`, `RunDone`, `Verdict` |
| `execute_assertions`, `AssertionStore::read` | `ReadOne` (an adopter), `ReadError`, `ReadDone` |
| `run_assertion_contract`, `insert_assertion_contract` | `RunContract`, `InsertAssertionContract`, `RunError`, `RunDone` |
| `execute_assertion_fn` | `ExecuteFn`, with any of the outcomes `"Success"`, `"Revert"`, `"Error"` |
| the caller; `BlockChanges::merge_state` | `CallerCommits`, `MergeState` |
| writers of the store | `WriteStore` |

Its parts are modules of operators:

* `ForkDb` (`db/fork_db.rs`): a layer of infos, slots, code and "don't read
  below" flags; `Commit`, the reads, and what a database reads through a layer
  (`Over`).
* `Tracer` (`inspectors/tracer.rs`, `precompiles/calls.rs`,
  `precompiles/state_changes.rs`): the calls and the journal that are recorded,
  the triggers of an account, `getCallInputs`, `getStateChanges`. `load` is
  `LoadExternalSlot` of `Executor`.
* `Evm` is revm (external): what a transaction, given by its operations and by
  which of them are undone, leaves in the journal and in the changes that
  `transact` returns; and how the caller's database commits changes. A
  destruction moves the account's balance to its beneficiary (`Moved`) and is
  journaled as one entry, `AccountDestroyed`, with no `BalanceTransfer`. That
  Cancun keeps an account that was not created in the same transaction is left
  out: its balance moves in the same way.

Contracts and functions run in any order, as rayon may schedule them; the
contracts' databases are copies, so only what each of them starts from
(`active_dbs`) and the outcomes (`runs`) are kept. An error ends a validation
when the contract it belongs to is done, whatever the others do: `collect`
of the contracts' results may stop early. Gas and the counts of functions run
are left out. `window`, `stale` and `unmerged` are history variables.

`ValidatedBlock` is the abstract specification: a transaction is accepted with
all its effects or leaves none, and is accepted iff every function called for
passes. What is called for follows from what the transaction does
(`TxTriggers`, stated on its operations and not on the tracer's records) and
from the store, of which each adopter is seen as it was at some moment of the
validation, not all at the same moment. It is instantiated with the storage
read through the executor's fork and with the result that is returned.

`ForkFollowsExternal` and `BlockChangesAddUp` excuse what the code does not
keep: the infos of accounts that a reverted transaction touched (valid, so the
caller commits it, but the fork never sees its nonce and fees) or that were
destroyed (gone for the caller, kept by the fork with an empty info); and
accounts whose status `merge_state` replaced by that of a later, mere load.

`BalanceChangesTrigger` says that an account whose balance is not after the
transaction what it was before is observed with `BalanceChange`. It compares balances
(`Balances`, account by account through all operations), not journal entries. It
excuses the accounts of a destruction (`MovedByDestruction`), because the
tracer passes over `AccountDestroyed`; `TxTriggers` likewise asks for
`BalanceChange` on transfers only. Fees are not modelled: revm takes and pays
them outside the journal.

### Overlay

`Overlay` models `db/overlay/mod.rs` and `db/overlay/active_overlay.rs`: threads
with a handle each, over databases of their own, share one bounded cache. A
read is two steps: the miss (`Miss`) and the insert of the database's answer
(`Fill`, or `NotFound`); a commit is `CommitBegin`, then for each touched account
`CommitAccount` and one `CommitInsert` per entry, then `CommitEnd`. Nothing is
locked between them. `Evict`, `InvalidateAll` and `ReplaceUnderlying` are the
rest; the last needs the handle exclusively (`&mut self`), so no read of it is
under way. A hit changes nothing and has no action. Keys are the variants of
`TableKey`; a database is a fixed snapshot.

`committed` and `excused` are history variables: the value committed last, and
the keys whose value may not be found. A key is excused when it is evicted,
when a read that had missed it is under way at the insert and fills in the
older value, or when it is a slot of a destroyed account (`commit` ignores
`is_selfdestructed`); it is no longer excused when it is committed again.

### Extractor and trigger recorder

`Extractor` models `extract_assertion_contract` and the `TriggerRecorder`. A
deployment is an input: its outcome, the gas used, the code and storage it left
and whether the constructor destroyed the contract. `triggers()` is any
sequence of writes, calls that return or revert, and registrations
(`RecordTrigger`, or `RecordError` for arguments that cannot be decoded), as
long as there is gas. Every `FnSelectorExtractorError` is an action or a branch
but `AssertionContractNotFound`: a creation that succeeds returns the account
it created. `RegisteredIsMatched` composes the recorder with the matching of the store,
`Modifications!MatchingSelectors`.

The recorder is called in place of a contract and says itself how much gas is
left; `triggers()` is anyone's code and the indexer waits for it.
`ExtractionEnds` says that the extraction nevertheless returns.

### Replayed unit tests

`StoreTests`, `ExecutorTests`, `OverlayTests` and `ExtractorTests` state unit tests
of the repository about the operators of the model, with the tests' inputs and
expected values; each ends in an `ASSUME` that TLC evaluates with the run
of that component. They tie the model to what the code is known to do.

## Runs

The indexer runs use two adopters and the chains of `MC_Indexer`: a branch `a`
and a branch `b` that leaves it at block 1, with three (`ShortBlocks`) or four
blocks (`LongBlocks`) above genesis, or `a` alone (`LineBlocks`). Block `b2`
has no events where `a2` has and vice versa for `b3`, so that stale events
would show. Chunks are of two blocks and the subscription holds two headers, so
that chunk ends and overflows occur. `ReorgWhen` says when the chain may
reorganise, `CrashAnywhere` whether the process may die between two writes and
not only at an await, `MaxFailures` how often.

| run | instance | shows |
|---|---|---|
| `indexer_crash` | short chain, reorgs at any step, 2 failures or crashes anywhere | `TypeOK`, `AppliedInOrder`, and the inductive invariant `OrderInv` |
| `indexer_reorg` | long chain, reorgs between updates, no failures | `OnlyFinalizedApplied`, `NoFalseReorg`, and the refinement `ImplementsFinalizedLog` |
| `indexer_failures` | long chain, reorgs between updates, 2 failed calls | `NoEventLost` |
| `indexer_liveness` | line, one crash, fairness | `AnnouncedIsIndexed`, `FinalizedIsApplied` |
| `indexer_orphan_retry` | violation | events of an orphaned block reach the store after a failed call |
| `indexer_false_reorg` | violation | a reorg is reported on an unchanged chain after a failed call |
| `indexer_gap` | violation | `NoCommonAncestor` although the tree holds one |
| `store_concurrent` | 2 writers, 3 calls, 1 insert, 1 db failure, fairness | `TypeOK`, `OneStatePerAssertion`, `ReadsFollowHistory`, `ImplementsAtomicStore`, `ApplyReturns` |
| `executor_validation` | 6 transactions (writes, undone calls, a write back, transfers, destructions that credit the other adopter, a revert, an error), 3 validations, 2 store writes, 2 assertions of 4 functions | `TypeOK`, `ForkFollowsExternal`, `StateChangesSpanForks`, `OwnDeployment`, `BlockChangesAddUp`, `BalanceChangesTrigger`, `ImplementsValidatedBlock` |
| `overlay_shared` | an `OverlayDb` and an `ActiveOverlay`, 2 databases, one key of each table, capacity 2, 2 commits | `TypeOK`, `CommittedIsVisible`, `NoFillUnderWay`, `FillsAreInvisible` |
| `extractor_triggers` | gas limit 5, 2 nested calls, 9 deployments, fairness | `TypeOK`, `ExtractedAsDeployed`, `RegisteredIsMatched`, `ExtractionEnds` |
| `multifork_switches` | a persistent and another slot, 2 values, 3 open calls, 6 steps besides returns and reverts | `TypeOK`, `CheckpointsCovered`, `ForksAreIsolated`, `ReadsAsExpected` |

`OnlyFinalizedApplied` also fails with no failure at all when the chain
reorganises between `get_logs` and `get_block` (`ReorgWhen = "any"`): the
events are those of one branch, the hash is that of the other. `NoEventLost`
fails with `CrashAnywhere`: after a crash between `InsertLast` and
`WriteHashes` the range counts as indexed, but no key leads to its events. The
two runs that pass state these conditions in their constants for that reason,
so they do not show the code safe from these two hazards: it is not.

In the store run the deadlock check is off: when the bound on calls is used up
and all callers are idle nothing is left to do. Block numbers up to 3 (`MaxBlock`)
are enough for reads, as no batch has a larger one.

Six steps suffice for two switches with a write and a nested call before or
between them, which is what the padding of the journal and the journaled state
kept for the other fork are for; deeper nesting is covered by the proof.

Three validations let an account be changed, then destroyed or loaded only, and
then be used again, which is what the flags of `ForkDb` and the statuses of
`merge_state` are about; two store writes let an assertion be added and
removed, or two adopters be changed, during one validation. Each assertion has
a function for balance changes alone, so that whether `BalanceChange` was
observed decides what is run. In the executor
and the extractor run the deadlock check is off: they end when the bound on
validations is used up, and when the contract is extracted.

Four keys with a capacity of two make evictions happen in every phase; two
commits let a value be overwritten and an excused key become visible again.
The gas limit of five leaves `triggers()` anything from no gas at all to four
steps, enough for a registration inside a nested call that reverts.

The mutants in `PROJECT.json` are defined next to what they change; each breaks
the property it is listed with.

## Fairness

`FairSpec` of the indexer assumes weak fairness of its own steps as a whole:
the task is polled, calls return or fail, and whoever runs the indexer starts
it again after an error (`SyncToHead` from `"down"`). The node is never obliged
to do anything. `FairSpec` of the store assumes that a caller inside
`apply_pending_modifications` goes on. Retries end because every retry is due
to another writer's success or to a failed db operation, of which there are
finitely many. `FairSpec` of the extractor assumes that it goes on until it
returns: it is one synchronous call in which only the EVM runs.

## Proofs

`IndexerProofs` proves, for every block tree, set of adopters, tag, chunk size,
channel capacity and pattern of reorgs, failures and crashes:

* `TypeCorrect`: `Spec => []TypeOK`;
* `OrderInvariant`: `Spec => []OrderInv`;
* `AppliedOnceInOrder`: `Spec => []AppliedInOrder`.

`AppliedInOrder` is not inductive: that the next application is above the
earlier ones depends on what waits in the trees and on what will be indexed.
`OrderInv` strengthens it to a chain of bounds: applied < popped <
the keys of `block_hash_tree` <= the last indexed number < the range that is being
indexed. `MovesInOrder` is the part about what leaves the trees,
`IndexesUpwards` the part about what enters them. It survives a crash because
no bound mentions the locals without the `pc` at which they are meaningful,
and a reorg because `prune_from` starts above an ancestor that is still in the tree.

The other properties of the indexer hold under conditions, which are
hypotheses of the theorems and not assumptions of the module. `Calm` is
"reorgs come between updates, and the process dies only at an await";
`Undisturbed` is "reorgs come between updates, and no call fails":

* `NoEventIsLost`: `Calm => (Spec => []NoEventLost)`, for any number of failures;
* `ReorgsAreReal`: `Undisturbed => (Spec => []NoFalseReorg)`;
* `OnlyFinalizedReachesStore`: `OnlyFinalizedApplied`, `Undisturbed` and with await tag `Finalized`;
* `IndexerRefinesLog`: `ImplementsFinalizedLog`, under the same conditions.

The code does not guarantee these conditions; the runs that expect a violation, and the
remarks on `ReorgWhen` and `CrashAnywhere` under *Runs*, show what happens
outside them. The proofs are for every block tree, of any branching and
length. `Chain` is the least set closed under `Parent`, so facts about chains
(they are linear, have one block per number and one of every number below
their last) are proved by giving a closed set or a least counterexample, not by
induction on an operator. `ChainInv` then has three parts: `FetchesRange` (what
`index_range` has fetched is canonical and complete), `HashesOneChain`
(`block_hash_tree` is part of the chain of the last indexed block, which is
canonical once the update was compared with it) and `KeepsEvents` (the events of
an indexed block are applied, on their way, or in both trees). `RecordsHash`
says that the recorded hash belongs to the recorded number except between
`InsertLastAncestor` and the next `InsertLast`, which without a failure always
comes before the next comparison. `PendingSettled` says that pending events belong to
hashes in the tree, `MovesFinalized` and `MovesTagged` bound what is moved by the
finalized block. For the refinement an `Apply` is `Deliver` with the lower of the
tag's number and the last indexed one.
Assumptions: `ChainAssumption` (block numbers count parents) and
`ConfigAssumption` (a positive chunk size and capacity).

`AssertionStoreProofs` proves for any number of writers, adopters, batches and inserts:

* `StoreIsAtomic`: `Spec => ImplementsAtomicStore`. `ControlInv` says where each
  writer is: idle writers have nothing left, and a writer inside the loop works
  on an adopter that has modifications. A successful swap is `ApplyGroup`,
  because the entry equals the snapshot; everything between is a stuttering step;
* `StoreTypes` and `NoDuplicateStates`: `TypeOK` and `OneStatePerAssertion`;
* `ReadsFollowEffects`: `ReadsFollowHistory`.

`StoreInv` is the invariant of the last three: the list of an adopter *follows*
its history (`Follows`), that is, every state in it has the window that the whole
history gives its assertion, and an assertion without a state has no window.
`ModificationsProofs` has the lemmas on one list: `ApplyAll` is the last of the
lists that the loop makes, each from the one before by `ApplyOne` (`ApplyRun`),
and `ApplyOne` and `InsertState` keep one state per assertion. A batch may have any
length: the induction over positions is stated on sets of numbers (`Induction`, from the
well-foundedness of the naturals), which needs no operator parameter.
`StoreAssumption` gives the types of the batches and inserts.

`MultiForkDbProofs` proves `OpenCheckpointsCovered`, `ForksIsolated` and
`ForkTypeCorrect` for any set of accounts, any two states and any nesting of
calls and switches. `ForkInv`, the conjunction of the three properties, is
inductive: a revert cuts the journal at the checkpoint of the innermost call,
which lies above those of the outer calls because checkpoints ascend; a switch
pads the target's journal to the length of the active one, so no open
checkpoint is left uncovered; and what a revert restores was recorded on the
same fork (`UndoneIs`, which needs that the undone entries have a first one).
`EveryReadAsExpected` proves `ReadsAsExpected`. Its invariant `ReadsInv` says
that the persistent locations are alike on both forks and, unless a call is
torn, that the active fork reads as `expected`, the one that was left likewise, and that
reverting any open call that has not switched gives what was `saved` before
it. It rests on what a revert restores: the value that the
first undone entry of a location recorded, so that reverting to one checkpoint and then
to a lower one is reverting to the lower one. Assumptions: `DbAssumption`
(the databases give every location a value) and `NoneAssumption` (the model value
`None` is no value or state).

`ExecutorProofs` proves `ExecutorValidates`, the refinement of `ValidatedBlock`,
`ForkFollows` and `BalanceChangesObserved`, for any transactions, store contents and databases.
`ExecutorInv` has five parts: `ControlInv` (the locals are those of the current
transaction, executed on the caller's database), `FollowInv` (the fork answers
as the caller's database, or, after a verdict, as it will once the caller has
committed), `WindowInv` (what the store has was in it during the validation),
`ReadInv` (the assertions read of an adopter are those of one entry of its
window) and `RunInv` (what ran was read). The lemmas behind them say that
`Commit` on a layer is `Committed` on what is read through it, that a
transaction on the caller's database leaves `StorageAfter`, and that the
tracer's triggers are `TxTriggers`; for `BalanceChangesObserved`, that the
balance of an account that no operation in effect moves is the one it had
(`BalancesKept`, by induction over the operations). Assumption: `ExecutorAssumption` (types of
the database and of the operations).

`ExecutorForksProofs` proves the executor's other properties: `ExecutorTypes`
(`TypeOK`), `EachItsOwnDeployment` (`OwnDeployment`), `MergedChangesAddUp`
(`BlockChangesAddUp`) and `ChangesSpanForks` (`StateChangesSpanForks`).
`ForksInv` adds to `ExecutorInv` the type of the store (`StoreTyped`), that the fork has no
slot at the assertion contract's address and the multi-fork database is made of it
(`LayerInv`), that each contract under way has that database with its own
deployment inserted (`ActiveInv`), and that the merged changes, committed at once,
leave the caller's storage (`MergeInv`). For
`StateChangesSpanForks` the values the journal recorded of a slot are taken in
their order, the first and the last of which are the least and greatest position.
`DeploymentAssumption` says what the code makes sure of elsewhere: the
assertion contract's address is the one that `CALLER` creates at nonce 0
(`ASSERTION_CONTRACT`), a hash for which nobody has a key, so no code of a
transaction runs there and reads or writes its slots; a
deployment is one that the extractor accepted, so it was not destroyed
(`AcceptedAsDeployed`).

`OverlayProofs` proves `OverlayTypeCorrect`, `NoFillUnderWayInvariant`,
`CommittedVisible` and the action property `FillsInvisible` for any number of handles, keys, databases and commits and
any eviction. `CommittedIsVisible` is not inductive, since a fill that is under way
would break it in the next step; `NoFillUnderWay` says that there is none,
because a committed key is in the cache, and only a miss begins a fill.

`ExtractorProofs` proves `ExtractorTypeCorrect`, `AcceptedAsDeployed`,
`RegisteredMatched` and `ExtractionBounded` for any deployments, gas limit and triggers. Besides
the types, `ExtractorInv` says that the account kept is the deployment's and
that a destroyed contract has registered nothing (`DeployedInv`), what a result
is (`ResultInv`), and that the recorder holds what was
registered by its type (`RecorderInv`), from which the matching follows with
`TriggersAssumption`: the trigger types are distinct. `ExtractionBounded` is what
of `ExtractionEnds` the prover can reach: `StepsLeft`, twice the gas and the open
calls, is lowered by every step and never goes below zero, so no extraction has
more than twice the gas limit and four steps. That a deployment uses no more than the limit is
revm's promise, in `ExtractorAssumption`; without it the subtraction of line 137 could underflow.

Only model-checked: the liveness properties (`AnnouncedIsIndexed`,
`FinalizedIsApplied`, `ApplyReturns`, `ExtractionEnds`), which are beyond the prover. Every
other property of a passing run is also a theorem. The unit tests that the test modules replay
are evaluations, and the violations are counterexamples.

## Where comments and code differ

Three differences are runs that expect a violation, and findings in
`PROJECT.json`. Two more are modelled as the code has them, and the properties
follow the code:

* `store/assertion_store.rs:440`, where a `Remove` names an assertion that is not
  found: "so we add it with the inactive_at_block set". The code adds nothing
  and only logs an error; a later `Add` of the assertion is active
  without an end. `ReadsFollowHistory` and its reference `Window` drop the
  `Remove`. What the comment says is the mutant `ApplyOne_RecordsRemove`; such
  a state would have an end and no beginning, which `TypeOK` rules out.
* `inspectors/trigger_recorder.rs:52`: "BalanceChange - Triggers when the contract's
  ETH balance changes". `triggers` (`inspectors/tracer.rs:80-111`) looks at
  `BalanceTransfer` and ignores `AccountDestroyed`, so an adopter that is destroyed, or that is
  credited by a destruction, has its balance changed with no `BalanceChange`,
  and its assertions for that trigger do not run. In `executor_validation` the destruction of
  `x` credits `y` in this way. `BalanceChangesTrigger` without
  its excuse is violated there; with it, it says that this is the only way (fees apart).

Some properties excuse what the code is known not to keep. They limit
the damage to what they excuse and do not guard against it: the keys in
`excused` (`CommittedIsVisible`, `NoFillUnderWay`), the accounts in `stale`
(`ForkFollowsExternal`) and `unmerged` (`BlockChangesAddUp`), torn calls (`ReadsAsExpected`).

## Plan

1. Done: the indexer, the store, their abstract specifications and proofs.
2. Done: `MultiForkDb` and its proofs.
3. Done: `Executor` with `ForkDb`, `Tracer` and `Evm`, its abstract specification
   `ValidatedBlock`, and the proof that it implements it.
4. Done: `Overlay` and `Extractor`, with proofs of their invariants.
5. Done: the proofs of the indexer's conditional properties and of its
   refinement of `FinalizedLog`, of what the store's reads return, of the
   multi-fork database's reads and of the executor's forks and merged changes.
6. Left: what holds of the indexer when calls fail and the chain reorganises
   during an update, as theorems weaker than those under `Calm` and `Undisturbed`.

## Not modelled

* `getLogs` and `getAssertionAdopter` copy an input of the inspector to the
  output; ABI decoding and encoding of all precompiles.
* The construction of the EVM (`build_evm.rs`): handler registration and the
  repricing of gas are calls of revm without state of their own. That the tracer gets
  the journaled state before it is finalized is part of `Tracer`.
* Serialisation of the sled trees' keys and values, and the configuration structures.
* Gas of assertion functions, and the counts of functions run: they are
  reported, and nothing depends on them.
* Balances, nonces and code in `MultiForkDb`; what an assertion function
  computes in `Executor`. Each stands for what the other leaves out: a
  function's fork switches are the behaviours of `MultiForkDb`.
* The sizes that the overlay's cache gives its entries, and its eviction
  policy: any entry may be evicted once there are too many.
