------------------------------- MODULE Indexer -------------------------------
(***************************************************************************)
(* The indexer of the state oracle's events (store/indexer.rs with         *)
(* utils/reorg_utils.rs).                                                  *)
(*                                                                         *)
(* The indexer follows the head of a chain that may reorganise.  Events of *)
(* the blocks it indexes wait in pending_modifications_tree, the hashes of *)
(* those blocks in block_hash_tree; when the block that await_tag names    *)
(* has passed them they are popped off both trees and applied to the       *)
(* assertion store.  Every await and every write to a sled tree is a step  *)
(* of its own, so that the chain may move, a call may fail and the process *)
(* may die between any two of them.                                        *)
(*                                                                         *)
(* A block stands for its hash and for the ordered list of its events.     *)
(* The store is represented by what was applied to it: per adopter, the    *)
(* sequence of the blocks whose events were applied.                       *)
(***************************************************************************)
EXTENDS Naturals, Sequences, FiniteSets

CONSTANTS
    Blocks,            \* every block the node may ever serve
    Genesis,           \* the block of number 0
    Parent,            \* Blocks -> Blocks (Genesis, which has none, maps to itself)
    Number,            \* Blocks -> Nat
    Adopters,          \* assertion adopters
    Touches,           \* Blocks -> SUBSET Adopters: whose events the block carries
    AwaitTag,          \* BlockTag: "Latest", "Safe" or "Finalized"
    MaxBlocksPerCall,  \* MAX_BLOCKS_PER_CALL
    StreamCap,         \* capacity of the broadcast channel of subscribe_blocks
    ReorgWhen,         \* "never", "idle" (the indexer is down or waits for a block), "any"
    CrashAnywhere,     \* the process may die at any step, not only on a failed call
    MaxFailures,       \* bound on failed calls and crashes
    None

ASSUME ChainAssumption ==
    /\ Genesis \in Blocks
    /\ Parent \in [Blocks -> Blocks]
    /\ Number \in [Blocks -> Nat]
    /\ Number[Genesis] = 0
    /\ Parent[Genesis] = Genesis
    /\ \A b \in Blocks \ {Genesis} : Number[b] = Number[Parent[b]] + 1
    /\ Touches \in [Blocks -> SUBSET Adopters]
    /\ None \notin Blocks /\ None \notin [number : Nat, hash : Blocks]

ASSUME ConfigAssumption ==
    /\ AwaitTag \in {"Latest", "Safe", "Finalized"}
    /\ MaxBlocksPerCall \in Nat \ {0}
    /\ StreamCap \in Nat \ {0}
    /\ ReorgWhen \in {"never", "idle", "any"}
    /\ CrashAnywhere \in BOOLEAN
    /\ MaxFailures \in Nat

\* The chain that ends in b: the least set that holds b and, with a block, its parent.
Chain ==
    [b \in Blocks |->
        {a \in Blocks :
            \A S \in SUBSET Blocks :
                (b \in S /\ \A x \in S : Parent[x] \in S) => a \in S}]

VARIABLES
    \* the node
    head,                          \* its canonical head
    final,                         \* its last finalized block
    stream,                        \* headers announced to the subscription, not yet received
    lagged,                        \* the channel overflowed
    failures,                      \* failed calls and crashes so far
    \* the sled trees (survive the process)
    block_hash_tree,               \* set of blocks, keyed by their number
    pending_modifications_tree,    \* set of blocks (their events), keyed by their number
    latest_block_tree,             \* the last indexed [number, hash], or None
    store,                         \* adopter -> blocks whose events were applied, in order
    \* locals of the running indexer
    pc,
    is_synced,
    update_block,
    from, to, i,                   \* current_from, current_to, the loop of index_range
    logs,                          \* blocks whose events get_logs returned
    block_hashes,                  \* block hashes fetched so far
    key,                           \* key popped from block_hash_tree
    block_to_move,                 \* number of the block await_tag names
    popped                         \* adopter -> modifications on their way to the store

node    == <<head, final, stream, lagged, failures>>
trees   == <<block_hash_tree, pending_modifications_tree, latest_block_tree, store>>
indexed == <<update_block, from, to, i, logs, block_hashes>>
moved   == <<key, block_to_move, popped>>
vars    == <<node, trees, pc, is_synced, indexed, moved>>

NothingPopped == [aa \in Adopters |-> <<>>]

Init ==
    /\ head = Genesis /\ final = Genesis
    /\ stream = <<>> /\ lagged = FALSE /\ failures = 0
    /\ block_hash_tree = {} /\ pending_modifications_tree = {}
    /\ latest_block_tree = None
    /\ store = [aa \in Adopters |-> <<>>]
    /\ pc = "down" /\ is_synced = FALSE
    /\ update_block = None /\ from = 0 /\ to = 0 /\ i = 0
    /\ logs = {} /\ block_hashes = {}
    /\ key = 0 /\ block_to_move = 0 /\ popped = NothingPopped

(***************************************************************************)
(* Trees keyed by block number.                                            *)
(***************************************************************************)
HasKey(tree, n) == \E b \in tree : Number[b] = n

\* sled's apply_batch: insert, replacing what was under the same key.
Upsert(tree, batch) == {b \in tree : ~ HasKey(batch, Number[b])} \cup batch

\* The blocks of a range of keys.
From(tree, n) == {b \in tree : Number[b] >= n}
UpTo(tree, n) == {b \in tree : Number[b] <= n}

\* Mutant: pop the last key of the range.
IsLastIn(b, range) == b \in range /\ \A c \in range : Number[c] <= Number[b]

\* b is what pop_first_in_range returns.
IsFirstIn(b, range) == b \in range /\ \A c \in range : Number[b] <= Number[c]

(***************************************************************************)
(* Reorg detection.  Blocks are looked up by hash, so what these walks see *)
(* does not depend on when they look.                                      *)
(***************************************************************************)
StrictAncestors(b) == Chain[b] \ {b}

\* The block check_if_reorged compares with the last indexed one; there is
\* none when the update is older (the walk runs off the genesis block).
ComparedWith(last) ==
    IF Number[update_block] = last.number
    THEN {update_block}
    ELSE {c \in StrictAncestors(update_block) : Number[c] = last.number}

\* find_common_ancestor: walk down from the update's parent through numbers
\* whose hash differs, until one is equal; a number that is not in the tree
\* ends the walk with NoCommonAncestor.
CommonAncestor(b) ==
    {c \in StrictAncestors(b) \cap block_hash_tree :
        \A d \in StrictAncestors(b) :
            Number[d] > Number[c] =>
                d \notin block_hash_tree /\ HasKey(block_hash_tree, Number[d])}

(***************************************************************************)
(* Control.                                                                *)
(***************************************************************************)
\* The locals of sync and of what it calls go out of scope.
DropLocals ==
    /\ update_block' = None /\ from' = 0 /\ to' = 0 /\ i' = 0
    /\ logs' = {} /\ block_hashes' = {}
    /\ key' = 0 /\ block_to_move' = 0 /\ popped' = NothingPopped

\* The handler returns an error, or the process dies: run() ends, the locals
\* and the subscription are gone, the trees stay.
GoDown ==
    /\ pc' = "down" /\ is_synced' = FALSE
    /\ stream' = <<>> /\ lagged' = FALSE
    /\ DropLocals

\* sync returns Ok: sync_to_head marks the indexer synced, run receives again.
SyncReturns ==
    /\ pc' = IF is_synced THEN "recv" ELSE "subscribe"
    /\ is_synced' = TRUE
    /\ DropLocals

\* Mutant: only one chunk is indexed.
IndexRangeReturns_OneChunk == SyncReturns

\* index_range returns Ok: the next chunk of sync's loop, or the end of it.
IndexRangeReturns ==
    IF to = Number[update_block]
    THEN SyncReturns
    ELSE /\ pc' = "index" /\ from' = to + 1
         /\ to' = 0 /\ i' = 0 /\ logs' = {} /\ block_hashes' = {}
         /\ key' = 0 /\ block_to_move' = 0 /\ popped' = NothingPopped
         /\ UNCHANGED <<is_synced, update_block>>

\* new_synced / sync_to_head: take the node's latest block as the update.
SyncToHead ==
    /\ pc = "down"
    /\ update_block' = head
    /\ pc' = "sync"
    /\ UNCHANGED <<node, trees, is_synced, from, to, i, logs, block_hashes, moved>>

\* run: subscribe_blocks, after the sync is over.
Subscribe ==
    /\ pc = "subscribe"
    /\ pc' = "recv"
    /\ stream' = <<>> /\ lagged' = FALSE
    /\ UNCHANGED <<head, final, failures, trees, is_synced, indexed, moved>>

\* run: block_stream.recv() yields the next header.
Recv ==
    /\ pc = "recv" /\ ~ lagged /\ stream # <<>>
    /\ update_block' = Head(stream)
    /\ stream' = Tail(stream)
    /\ pc' = "sync"
    /\ UNCHANGED <<head, final, lagged, failures, trees, is_synced,
                   from, to, i, logs, block_hashes, moved>>

\* run: recv fails with Lagged, and run returns that error.
RecvLagged ==
    /\ pc = "recv" /\ lagged
    /\ GoDown
    /\ UNCHANGED <<head, final, failures, trees>>

\* run: recv stays pending while no header is there.
RecvPending ==
    /\ pc = "recv" /\ ~ lagged /\ stream = <<>>
    /\ UNCHANGED vars

(***************************************************************************)
(* sync: where to index from.                                              *)
(***************************************************************************)
Continue(n) ==
    /\ from' = n
    /\ pc' = "index"
    /\ UNCHANGED <<node, trees, is_synced, update_block, to, i, logs, block_hashes, moved>>

SyncFromGenesis ==
    /\ pc = "sync" /\ latest_block_tree = None
    /\ Continue(0)

\* Mutant: the last indexed block is indexed again.
SyncSameChain_Again ==
    /\ pc = "sync" /\ latest_block_tree # None
    /\ ComparedWith(latest_block_tree) = {latest_block_tree.hash}
    /\ Continue(latest_block_tree.number)

\* Mutant: so is the one below it; at block 0 the subtraction underflows.
SyncSameChain_Underflow ==
    /\ pc = "sync" /\ latest_block_tree # None
    /\ ComparedWith(latest_block_tree) = {latest_block_tree.hash}
    /\ Continue(latest_block_tree.number - 1)

SyncSameChain ==
    /\ pc = "sync" /\ latest_block_tree # None
    /\ ComparedWith(latest_block_tree) = {latest_block_tree.hash}
    /\ Continue(latest_block_tree.number + 1)

\* A reorg; everything above the common ancestor is to be pruned.
SyncReorg ==
    /\ pc = "sync" /\ latest_block_tree # None
    /\ ComparedWith(latest_block_tree) \notin {{}, {latest_block_tree.hash}}
    /\ \E c \in CommonAncestor(update_block) : from' = Number[c] + 1
    /\ pc' = "prune_from"
    /\ UNCHANGED <<node, trees, is_synced, update_block, to, i, logs, block_hashes, moved>>

\* check_if_reorged fails with ParentBlockNotFound, or find_common_ancestor
\* with NoCommonAncestor (or ParentBlockNotFound).
SyncError ==
    /\ pc = "sync" /\ latest_block_tree # None
    /\ \/ ComparedWith(latest_block_tree) = {}
       \/ /\ ComparedWith(latest_block_tree) # {latest_block_tree.hash}
          /\ CommonAncestor(update_block) = {}
    /\ GoDown
    /\ UNCHANGED <<head, final, failures, trees>>

\* prune_from: pop the first hash from `from' on ...
PruneFromPop ==
    /\ pc = "prune_from"
    /\ \E b \in block_hash_tree :
        /\ IsFirstIn(b, From(block_hash_tree, from))
        /\ block_hash_tree' = block_hash_tree \ {b}
        /\ key' = Number[b]
    /\ pc' = "prune_from_pending"
    /\ UNCHANGED <<node, pending_modifications_tree, latest_block_tree, store,
                   is_synced, indexed, block_to_move, popped>>

\* Mutant: the pending modifications stay.
PruneFromPending_Keeps ==
    /\ pc = "prune_from_pending"
    /\ pc' = "prune_from" /\ key' = 0
    /\ UNCHANGED <<node, trees, is_synced, indexed, block_to_move, popped>>

\* ... and remove the pending modifications of that number.
PruneFromPending ==
    /\ pc = "prune_from_pending"
    /\ pending_modifications_tree' = {b \in pending_modifications_tree : Number[b] # key}
    /\ pc' = "prune_from" /\ key' = 0
    /\ UNCHANGED <<node, block_hash_tree, latest_block_tree, store, is_synced, indexed,
                   block_to_move, popped>>

\* Nothing left to prune: sync records the common ancestor's number with the
\* hash of the update's parent.
InsertLastAncestor ==
    /\ pc = "prune_from"
    /\ \A b \in block_hash_tree : Number[b] < from
    /\ latest_block_tree' = [number |-> from - 1, hash |-> Parent[update_block]]
    /\ pc' = "index"
    /\ UNCHANGED <<node, block_hash_tree, pending_modifications_tree, store,
                   is_synced, indexed, moved>>

(***************************************************************************)
(* sync's loop and index_range.                                            *)
(***************************************************************************)
Min(m, n) == IF m <= n THEN m ELSE n

\* The loop is over: nothing from `from' up to the update.
SyncNothingToIndex ==
    /\ pc = "index" /\ from > Number[update_block]
    /\ SyncReturns
    /\ UNCHANGED <<node, trees>>

\* Mutant: the end of the range is exclusive.
GetLogs_Exclusive ==
    /\ pc = "index" /\ from <= Number[update_block]
    /\ to' = Min(from + MaxBlocksPerCall - 1, Number[update_block])
    /\ logs' = {b \in Chain[head] : Number[b] \in from..(to' - 1) /\ Touches[b] # {}}
    /\ pc' = "insert_pending"
    /\ UNCHANGED <<node, trees, is_synced, update_block, from, i, block_hashes, moved>>

\* get_logs on from..to, by number on the canonical chain of the moment, and
\* the extraction of the modifications from them.
GetLogs ==
    /\ pc = "index" /\ from <= Number[update_block]
    /\ to' = Min(from + MaxBlocksPerCall - 1, Number[update_block])
    /\ logs' = {b \in Chain[head] : Number[b] \in from..to' /\ Touches[b] # {}}
    /\ pc' = "insert_pending"
    /\ UNCHANGED <<node, trees, is_synced, update_block, from, i, block_hashes, moved>>

InsertPending ==
    /\ pc = "insert_pending"
    /\ pending_modifications_tree' = Upsert(pending_modifications_tree, logs)
    /\ logs' = {} /\ i' = from
    /\ pc' = "get_block"
    /\ UNCHANGED <<node, block_hash_tree, latest_block_tree, store, is_synced,
                   update_block, from, to, block_hashes, moved>>

\* get_block on number i, again on the canonical chain of the moment.
GetBlock ==
    /\ pc = "get_block"
    /\ \E b \in Chain[head] : Number[b] = i /\ block_hashes' = block_hashes \cup {b}
    /\ IF i = to THEN pc' = "insert_last" /\ i' = 0
                 ELSE i' = i + 1 /\ UNCHANGED pc
    /\ UNCHANGED <<node, trees, is_synced, update_block, from, to, logs, moved>>

\* The node has no block i (any more): BlockHashMissing.
GetBlockMissing ==
    /\ pc = "get_block" /\ ~ HasKey(Chain[head], i)
    /\ GoDown
    /\ UNCHANGED <<head, final, failures, trees>>

\* Mutant: the hash of the range's first block is recorded.
InsertLast_First ==
    /\ pc = "insert_last"
    /\ \E b \in block_hashes :
        /\ Number[b] = from
        /\ latest_block_tree' = [number |-> to, hash |-> b]
    /\ pc' = "write_hashes"
    /\ UNCHANGED <<node, block_hash_tree, pending_modifications_tree, store,
                   is_synced, indexed, moved>>

InsertLast ==
    /\ pc = "insert_last"
    /\ \E b \in block_hashes :
        /\ Number[b] = to
        /\ latest_block_tree' = [number |-> to, hash |-> b]
    /\ pc' = "write_hashes"
    /\ UNCHANGED <<node, block_hash_tree, pending_modifications_tree, store,
                   is_synced, indexed, moved>>

WriteHashes ==
    /\ pc = "write_hashes"
    /\ block_hash_tree' = Upsert(block_hash_tree, block_hashes)
    /\ block_hashes' = {}
    /\ pc' = "get_tag"
    /\ UNCHANGED <<node, pending_modifications_tree, latest_block_tree, store,
                   is_synced, update_block, from, to, i, logs, moved>>

\* The blocks the node may answer for await_tag.
TaggedBlocks ==
    CASE AwaitTag = "Latest"    -> {head}
      [] AwaitTag = "Finalized" -> {final}
      [] AwaitTag = "Safe"      -> {b \in Chain[head] : Number[b] >= Number[final]}

\* get_block_by_number(await_tag); move_pending_modifications_to_store does
\* nothing for block 0.
GetTag ==
    /\ pc = "get_tag"
    /\ \E b \in TaggedBlocks :
        IF Number[b] = 0
        THEN IndexRangeReturns
        ELSE /\ block_to_move' = Number[b]
             /\ pc' = "prune_to"
             /\ UNCHANGED <<is_synced, indexed, key, popped>>
    /\ UNCHANGED <<node, trees>>

(***************************************************************************)
(* move_pending_modifications_to_store: prune_to(upper_bound + 1), then    *)
(* apply_pending_modifications.                                            *)
(***************************************************************************)
\* Mutants: one block too many is moved, one too few.
PruneToPopUpTo(bound) ==
    /\ pc = "prune_to"
    /\ \E b \in block_hash_tree :
        /\ IsFirstIn(b, UpTo(block_hash_tree, bound))
        /\ block_hash_tree' = block_hash_tree \ {b}
        /\ key' = Number[b]
    /\ pc' = "prune_to_pending"
    /\ UNCHANGED <<node, pending_modifications_tree, latest_block_tree, store,
                   is_synced, indexed, block_to_move, popped>>
PruneToPop_OneMore == PruneToPopUpTo(block_to_move + 1)
PruneToPop_OneLess == PruneToPopUpTo(block_to_move - 1)

PruneToPop ==
    /\ pc = "prune_to"
    /\ \E b \in block_hash_tree :
        /\ IsFirstIn(b, UpTo(block_hash_tree, block_to_move))
        /\ block_hash_tree' = block_hash_tree \ {b}
        /\ key' = Number[b]
    /\ pc' = "prune_to_pending"
    /\ UNCHANGED <<node, pending_modifications_tree, latest_block_tree, store,
                   is_synced, indexed, block_to_move, popped>>

\* Take the modifications pending under the popped key, if there are any.
PruneToPending ==
    /\ pc = "prune_to_pending"
    /\ IF HasKey(pending_modifications_tree, key)
       THEN \E b \in pending_modifications_tree :
              /\ Number[b] = key
              /\ pending_modifications_tree' = pending_modifications_tree \ {b}
              /\ popped' = [aa \in Adopters |->
                              IF aa \in Touches[b] THEN Append(popped[aa], b)
                                                   ELSE popped[aa]]
       ELSE UNCHANGED <<pending_modifications_tree, popped>>
    /\ pc' = "prune_to" /\ key' = 0
    /\ UNCHANGED <<node, block_hash_tree, latest_block_tree, store, is_synced,
                   indexed, block_to_move>>

PruneToDone ==
    /\ pc = "prune_to"
    /\ \A b \in block_hash_tree : Number[b] > block_to_move
    /\ pc' = "apply"
    /\ UNCHANGED <<node, trees, is_synced, indexed, moved>>

\* apply_pending_modifications takes the adopters in an arbitrary order; each
\* one's modifications are applied by one compare-and-swap (AssertionStore).
Apply(aa) ==
    /\ pc = "apply" /\ popped[aa] # <<>>
    /\ store' = [store EXCEPT ![aa] = @ \o popped[aa]]
    /\ popped' = [popped EXCEPT ![aa] = <<>>]
    /\ UNCHANGED <<node, block_hash_tree, pending_modifications_tree, latest_block_tree,
                   pc, is_synced, indexed, key, block_to_move>>

IndexRangeDone ==
    /\ pc = "apply" /\ popped = NothingPopped
    /\ IndexRangeReturns
    /\ UNCHANGED <<node, trees>>

(***************************************************************************)
(* Failures.  A call to the node or to the DA layer fails at an await; a   *)
(* crash may come anywhere.                                                *)
(***************************************************************************)
AwaitPoints == {"sync", "index", "get_block", "get_tag", "subscribe", "recv"}

Fail ==
    /\ pc # "down"
    /\ CrashAnywhere \/ pc \in AwaitPoints
    /\ failures < MaxFailures
    /\ failures' = failures + 1
    /\ GoDown
    /\ UNCHANGED <<head, final, trees>>

(***************************************************************************)
(* The node (external): its head advances, reorganises above the finalized *)
(* block, and finality follows.  New heads are announced to a subscriber.  *)
(***************************************************************************)
Announce(b) ==
    IF pc \in {"down", "subscribe"} \/ ~ is_synced
    THEN UNCHANGED <<stream, lagged>>
    ELSE IF Len(stream) = StreamCap
         THEN lagged' = TRUE /\ UNCHANGED stream
         ELSE stream' = Append(stream, b) /\ UNCHANGED lagged

Advance(b) ==
    /\ b # head /\ Parent[b] = head
    /\ head' = b
    /\ Announce(b)
    /\ UNCHANGED <<final, failures, trees, pc, is_synced, indexed, moved>>

Reorg(b) ==
    /\ \/ ReorgWhen = "any"
       \/ ReorgWhen = "idle" /\ (pc = "down" \/ (pc = "recv" /\ stream = <<>>))
    /\ b \notin Chain[head] /\ head \notin Chain[b]
    /\ final \in Chain[b]
    /\ head' = b
    /\ Announce(b)
    /\ UNCHANGED <<final, failures, trees, pc, is_synced, indexed, moved>>

Finalize(b) ==
    /\ b \in Chain[head] /\ Number[b] > Number[final]
    /\ final' = b
    /\ UNCHANGED <<head, stream, lagged, failures, trees, pc, is_synced, indexed, moved>>

IndexerStep ==
    \/ SyncToHead \/ Subscribe \/ Recv \/ RecvLagged
    \/ SyncFromGenesis \/ SyncSameChain \/ SyncReorg \/ SyncError
    \/ PruneFromPop \/ PruneFromPending \/ InsertLastAncestor
    \/ SyncNothingToIndex \/ GetLogs \/ InsertPending
    \/ GetBlock \/ GetBlockMissing \/ InsertLast \/ WriteHashes \/ GetTag
    \/ PruneToPop \/ PruneToPending \/ PruneToDone
    \/ (\E aa \in Adopters : Apply(aa)) \/ IndexRangeDone

NodeStep ==
    \E b \in Blocks : Advance(b) \/ Reorg(b) \/ Finalize(b)

Next == IndexerStep \/ RecvPending \/ Fail \/ NodeStep

Spec == Init /\ [][Next]_vars

(***************************************************************************)
(* Properties.                                                             *)
(***************************************************************************)
Steps == {"down", "subscribe", "recv", "sync", "prune_from", "prune_from_pending",
          "index", "insert_pending", "get_block", "insert_last", "write_hashes",
          "get_tag", "prune_to", "prune_to_pending", "apply"}

\* The type invariant.
TypeOK ==
    /\ head \in Blocks /\ final \in Blocks
    /\ stream \in Seq(Blocks) /\ lagged \in BOOLEAN /\ failures \in Nat
    /\ block_hash_tree \subseteq Blocks
    /\ pending_modifications_tree \subseteq Blocks
    /\ latest_block_tree \in [number : Nat, hash : Blocks] \cup {None}
    /\ store \in [Adopters -> Seq(Blocks)]
    /\ pc \in Steps /\ is_synced \in BOOLEAN
    /\ update_block \in Blocks \cup {None}
    /\ pc \notin {"down", "subscribe", "recv"} => update_block \in Blocks
    /\ from \in Nat /\ to \in Nat /\ i \in Nat
    /\ pc \in {"prune_from", "prune_from_pending"} => from > 0
    /\ logs \subseteq Blocks /\ block_hashes \subseteq Blocks
    /\ key \in Nat /\ block_to_move \in Nat
    /\ popped \in [Adopters -> Seq(Blocks)]

Ascending(s) == \A m, n \in DOMAIN s : m < n => Number[s[m]] < Number[s[n]]

\* What move_pending_modifications_to_store applied for an adopter is in
\* strictly ascending block order: no block's events are applied twice, nor
\* after those of a later block, whatever reorgs, failed calls and crashes
\* come between the writes of index_range, prune_to and prune_from.
AppliedInOrder == \A aa \in Adopters : Ascending(store[aa])

\* Block numbers of the events that left the trees: applied, or on their way.
AppliedNumbers(aa) == {Number[store[aa][n]] : n \in DOMAIN store[aa]}
PoppedNumbers(aa)  == {Number[popped[aa][n]] : n \in DOMAIN popped[aa]}
MovedBelow(bound) ==
    \A aa \in Adopters : \A n \in AppliedNumbers(aa) \cup PoppedNumbers(aa) : n < bound

\* The number index_range must continue with.
NextNumber == IF latest_block_tree = None THEN 0 ELSE latest_block_tree.number + 1

OnePerNumber(tree) == \A b, c \in tree : Number[b] = Number[c] => b = c

\* What leaves the trees is ordered: applied below popped, popped below what is
\* still in block_hash_tree.
MovesInOrder ==
    /\ \A aa \in Adopters :
        /\ Ascending(store[aa]) /\ Ascending(popped[aa])
        /\ \A m \in AppliedNumbers(aa), n \in PoppedNumbers(aa) : m < n
    /\ OnePerNumber(block_hash_tree) /\ OnePerNumber(block_hashes)
    /\ \A b \in block_hash_tree : MovedBelow(Number[b])
    /\ pc = "prune_to_pending" =>
        /\ MovedBelow(key) /\ key < NextNumber
        /\ \A b \in block_hash_tree : key < Number[b]
    /\ pc \notin {"prune_to", "prune_to_pending", "apply"} => popped = NothingPopped

\* Nothing was ever indexed above the last indexed block, and what index_range
\* is about to add is above all that is in block_hash_tree or has left it.
IndexesUpwards ==
    /\ MovedBelow(NextNumber)
    /\ \A b \in block_hash_tree : Number[b] < NextNumber
    /\ pc \in {"prune_from", "prune_from_pending"} => MovedBelow(from)
    /\ pc \in {"index", "insert_pending", "get_block", "insert_last"} => from = NextNumber
    /\ \A b \in block_hashes :
        /\ pc \in {"get_block", "insert_last", "write_hashes"}
        /\ Number[b] \in from..to
        /\ pc = "get_block" => Number[b] < i
    /\ pc \in {"insert_pending", "get_block", "insert_last"} => from <= to
    /\ pc = "get_block" => i \in from..to
    /\ pc = "write_hashes" =>
        /\ MovedBelow(from)
        /\ \A b \in block_hash_tree : Number[b] < from
    /\ pc \in {"write_hashes", "get_tag", "prune_to", "prune_to_pending", "apply"} =>
        NextNumber = to + 1

\* The inductive invariant behind AppliedInOrder: what was applied, what was
\* popped, the keys left in block_hash_tree and the range being indexed follow
\* one another, through reorgs, failed calls and crashes.
OrderInv == MovesInOrder /\ IndexesUpwards

\* The store holds events of finalized blocks only ("Writes finalized pending
\* modifications to the Assertion Store"), for await_tag Finalized.
OnlyFinalizedApplied ==
    \A aa \in Adopters : \A n \in DOMAIN store[aa] : store[aa][n] \in Chain[final]

\* The blocks whose events must have reached a tree or the store: the last
\* indexed block and what is below it.
IndexedBlocks ==
    IF latest_block_tree = None THEN {}
    ELSE {b \in Chain[latest_block_tree.hash] : Number[b] <= latest_block_tree.number}

\* Between two updates (also after an error) the events of every indexed block
\* are, for each adopter, either applied or still to be moved: pending, with
\* the block's hash in block_hash_tree so that prune_to will find them.
NoEventLost ==
    pc \in {"down", "recv"} =>
        \A b \in IndexedBlocks : \A aa \in Touches[b] :
            \/ \E n \in DOMAIN store[aa] : store[aa][n] = b
            \/ b \in pending_modifications_tree /\ b \in block_hash_tree

\* check_if_reorged reports a reorg only if the update left the chain that was
\* indexed: if the update's chain holds, at the last indexed number, the block
\* whose hash is in block_hash_tree, it is "part of the same chain".
NoFalseReorg ==
    pc = "sync" /\ latest_block_tree # None =>
        (ComparedWith(latest_block_tree) \cap block_hash_tree # {}
            => ComparedWith(latest_block_tree) = {latest_block_tree.hash})

\* find_common_ancestor finds a common ancestor whenever block_hash_tree holds
\* one ("Traverses from the cursor backwords until it finds a common ancestor
\* in the block_hashes tree").
FindsCommonAncestor ==
    (/\ pc = "sync" /\ latest_block_tree # None
     /\ ComparedWith(latest_block_tree) \notin {{}, {latest_block_tree.hash}}
     /\ StrictAncestors(update_block) \cap block_hash_tree # {})
        => CommonAncestor(update_block) # {}

\* The abstract specification, with the same finalized block and store.
Log == INSTANCE FinalizedLog

\* The indexer implements the log of finalized events: what reaches the store
\* is, per adopter, always a gapless prefix of the finalized events in order.
ImplementsFinalizedLog == Log!Spec

(***************************************************************************)
(* Liveness.  The running task is polled, its calls return or fail, and    *)
(* whoever runs the indexer starts it again after it went down.            *)
(***************************************************************************)
Fairness == WF_vars(IndexerStep)

FairSpec == Spec /\ Fairness

\* A header that run() has been sent is eventually indexed, even if a crash
\* or a lagging channel loses it: sync_to_head makes up for it.
AnnouncedIsIndexed ==
    \A b \in Blocks :
        (\E n \in DOMAIN stream : stream[n] = b) ~> (b \in IndexedBlocks)

\* Events of a finalized block reach the store once another header is handled,
\* for await_tag Finalized and unless a call fails or the process dies.
FinalizedIsApplied ==
    \A b \in Blocks : \A aa \in Touches[b] :
        (b \in Chain[final] /\ stream # <<>>)
            ~> ((\E n \in DOMAIN store[aa] : store[aa][n] = b) \/ failures > 0)

==============================================================================
