---------------------------- MODULE IndexerProofs ----------------------------
(***************************************************************************)
(* Type correctness of the indexer, and the order in which it applies      *)
(* events, for every block tree, adopter set, await tag and chunk size,    *)
(* and under any interleaving of reorgs, failed calls and crashes.         *)
(***************************************************************************)
EXTENDS Indexer, SequenceTheorems, WellFoundedInduction, TLAPS

\* Every action's unchanged tuples are made of these.
USE DEF node, trees, indexed, moved

\* A chain is made of blocks.
LEMMA ChainType == \A b \in Blocks : Chain[b] \subseteq Blocks
BY DEF Chain

\* No modification is on its way, for any adopter.
LEMMA NothingPoppedType == NothingPopped \in [Adopters -> Seq(Blocks)]
BY DEF NothingPopped

\* Init establishes the types.
LEMMA InitType == Init => TypeOK
<1> SUFFICES ASSUME Init PROVE TypeOK
  OBVIOUS
<1>1. store \in [Adopters -> Seq(Blocks)] /\ popped \in [Adopters -> Seq(Blocks)]
  BY NothingPoppedType DEF Init, NothingPopped
<1>2. stream \in Seq(Blocks)
  BY DEF Init
<1>3. lagged \in BOOLEAN /\ is_synced \in BOOLEAN
  BY Zenon DEF Init
<1>4. QED BY <1>1, <1>2, <1>3, ChainAssumption DEF Init, TypeOK, Steps

\* Leaving sync, with or without an error, keeps the types.
LEMMA GoDownType ==
    ASSUME TypeOK, GoDown, UNCHANGED <<head, final, trees>>, failures' \in Nat
    PROVE  TypeOK'
<1>1. stream' \in Seq(Blocks)
  BY DEF GoDown
<1>2. lagged' \in BOOLEAN /\ is_synced' \in BOOLEAN
  BY Zenon DEF GoDown
<1>3. QED BY <1>1, <1>2, NothingPoppedType DEF TypeOK, GoDown, DropLocals, Steps

LEMMA SyncReturnsType ==
    ASSUME TypeOK, SyncReturns, UNCHANGED <<node, trees>>
    PROVE  TypeOK'
BY NothingPoppedType DEF TypeOK, SyncReturns, DropLocals, Steps

LEMMA IndexRangeReturnsType ==
    ASSUME TypeOK, IndexRangeReturns, pc \in {"get_tag", "apply"}, UNCHANGED <<node, trees>>
    PROVE  TypeOK'
<1>1. CASE to = Number[update_block]
  BY <1>1, SyncReturnsType DEF IndexRangeReturns
<1>2. CASE to # Number[update_block]
  BY <1>2, NothingPoppedType DEF IndexRangeReturns, TypeOK, Steps
<1>3. QED BY <1>1, <1>2

\* Every step keeps the types.
LEMMA NextType == TypeOK /\ [Next]_vars => TypeOK'
<1> SUFFICES ASSUME TypeOK, [Next]_vars PROVE TypeOK'
  OBVIOUS
<1> USE ChainAssumption, ConfigAssumption
<1>1. CASE SyncToHead
  BY <1>1 DEF SyncToHead, TypeOK, Steps
<1>2. CASE Subscribe
  <2>1. stream' \in Seq(Blocks)
    BY <1>2 DEF Subscribe
  <2>2. QED BY <1>2, <2>1 DEF Subscribe, TypeOK, Steps
<1>3. CASE Recv
  <2>1. update_block' \in Blocks /\ stream' \in Seq(Blocks)
    BY <1>3, HeadTailProperties DEF Recv, TypeOK
  <2>2. QED BY <1>3, <2>1 DEF Recv, TypeOK, Steps
<1>4. CASE RecvLagged
  BY <1>4, GoDownType DEF RecvLagged, TypeOK
<1>5. CASE SyncFromGenesis
  BY <1>5 DEF SyncFromGenesis, Continue, TypeOK, Steps
<1>6. CASE SyncSameChain
  BY <1>6 DEF SyncSameChain, Continue, TypeOK, Steps
<1>7. CASE SyncReorg
  <2>1. PICK c \in block_hash_tree : from' = Number[c] + 1
    BY <1>7 DEF SyncReorg, CommonAncestor
  <2>2. from' \in Nat /\ from' > 0
    BY <2>1 DEF TypeOK
  <2>3. QED BY <1>7, <2>2 DEF SyncReorg, TypeOK, Steps
<1>8. CASE SyncError
  BY <1>8, GoDownType DEF SyncError, TypeOK
<1>9. CASE PruneFromPop
  BY <1>9 DEF PruneFromPop, IsFirstIn, From, UpTo, TypeOK, Steps
<1>10. CASE PruneFromPending
  BY <1>10 DEF PruneFromPending, TypeOK, Steps
<1>11. CASE InsertLastAncestor
  BY <1>11 DEF InsertLastAncestor, TypeOK, Steps
<1>12. CASE SyncNothingToIndex
  BY <1>12, SyncReturnsType DEF SyncNothingToIndex
<1>13. CASE GetLogs
  BY <1>13, ChainType DEF GetLogs, Min, TypeOK, Steps
<1>14. CASE InsertPending
  BY <1>14 DEF InsertPending, Upsert, TypeOK, Steps
<1>15. CASE GetBlock
  BY <1>15, ChainType DEF GetBlock, TypeOK, Steps
<1>16. CASE GetBlockMissing
  BY <1>16, GoDownType DEF GetBlockMissing, TypeOK
<1>17. CASE InsertLast
  BY <1>17 DEF InsertLast, TypeOK, Steps
<1>18. CASE WriteHashes
  BY <1>18 DEF WriteHashes, Upsert, TypeOK, Steps
<1>19. CASE GetTag
  <2>1. PICK b \in TaggedBlocks :
          IF Number[b] = 0 THEN IndexRangeReturns
          ELSE /\ block_to_move' = Number[b]
               /\ pc' = "prune_to"
               /\ UNCHANGED <<is_synced, indexed, key, popped>>
    BY <1>19 DEF GetTag
  <2>2. b \in Blocks
    BY ChainType DEF TaggedBlocks, TypeOK
  <2>3. CASE Number[b] = 0
    BY <1>19, <2>1, <2>3, IndexRangeReturnsType DEF GetTag
  <2>4. CASE Number[b] # 0
    BY <1>19, <2>1, <2>2, <2>4 DEF GetTag, TypeOK, Steps
  <2>5. QED BY <2>3, <2>4
<1>20. CASE PruneToPop
  BY <1>20 DEF PruneToPop, IsFirstIn, From, UpTo, TypeOK, Steps
<1>21. CASE PruneToPending
  <2>1. popped' \in [Adopters -> Seq(Blocks)]
    <3>1. ASSUME NEW b \in Blocks, NEW aa \in Adopters
          PROVE  Append(popped[aa], b) \in Seq(Blocks)
      BY <3>1, AppendProperties DEF TypeOK
    <3>2. CASE UNCHANGED popped
      BY <3>2 DEF TypeOK
    <3>3. ASSUME NEW b \in pending_modifications_tree,
                 popped' = [aa \in Adopters |->
                              IF aa \in Touches[b] THEN Append(popped[aa], b)
                                                   ELSE popped[aa]]
          PROVE  popped' \in [Adopters -> Seq(Blocks)]
      BY <3>1, <3>3 DEF TypeOK
    <3>4. QED BY <1>21, <3>2, <3>3 DEF PruneToPending
  <2>2. pending_modifications_tree' \subseteq Blocks
    BY <1>21 DEF PruneToPending, TypeOK
  <2>3. QED BY <1>21, <2>1, <2>2 DEF PruneToPending, TypeOK, Steps
<1>22. CASE PruneToDone
  BY <1>22 DEF PruneToDone, TypeOK, Steps
<1>23. CASE \E aa \in Adopters : Apply(aa)
  BY <1>23 DEF Apply, TypeOK, Steps
<1>24. CASE IndexRangeDone
  BY <1>24, IndexRangeReturnsType DEF IndexRangeDone
<1>25. CASE RecvPending
  BY <1>25 DEF RecvPending, vars, TypeOK
<1>26. CASE Fail
  BY <1>26, GoDownType DEF Fail, TypeOK
<1>27. CASE NodeStep
  <2>1. PICK b \in Blocks : Advance(b) \/ Reorg(b) \/ Finalize(b)
    BY <1>27 DEF NodeStep
  <2>a. Announce(b) => stream' \in Seq(Blocks)
    <3>1. Append(stream, b) \in Seq(Blocks)
      BY AppendProperties DEF TypeOK
    <3>2. QED BY <3>1 DEF Announce, TypeOK
  <2>b. Announce(b) => lagged' \in BOOLEAN
    BY Zenon DEF Announce, TypeOK
  <2>2. CASE Advance(b)
    BY <2>2, <2>a, <2>b DEF Advance, TypeOK
  <2>3. CASE Reorg(b)
    BY <2>3, <2>a, <2>b DEF Reorg, TypeOK
  <2>4. CASE Finalize(b)
    BY <2>4 DEF Finalize, TypeOK
  <2>5. QED BY <2>1, <2>2, <2>3, <2>4
<1>28. CASE UNCHANGED vars
  BY <1>28 DEF vars, TypeOK
<1>29. QED
  BY <1>1, <1>2, <1>3, <1>4, <1>5, <1>6, <1>7, <1>8, <1>9, <1>10, <1>11, <1>12, <1>13,
     <1>14, <1>15, <1>16, <1>17, <1>18, <1>19, <1>20, <1>21, <1>22, <1>23, <1>24, <1>25,
     <1>26, <1>27, <1>28
  DEF Next, IndexerStep

\* The indexer's variables keep their types: no error path, reorg or crash
\* leaves a tree or a local without a proper value.
THEOREM TypeCorrect == Spec => []TypeOK
BY InitType, NextType, PTL DEF Spec

(***************************************************************************)
(* The order of application.                                               *)
(***************************************************************************)

\* Init establishes the invariant.
LEMMA InitOrder == Init => OrderInv
<1> SUFFICES ASSUME Init PROVE OrderInv
  OBVIOUS
<1>1. \A aa \in Adopters : store[aa] = <<>> /\ popped[aa] = <<>>
  BY DEF Init, NothingPopped
<1>2. \A aa \in Adopters : AppliedNumbers(aa) = {} /\ PoppedNumbers(aa) = {}
  BY <1>1 DEF AppliedNumbers, PoppedNumbers
<1>3. \A aa \in Adopters : Ascending(store[aa]) /\ Ascending(popped[aa])
  BY <1>1 DEF Ascending
<1>4. MovesInOrder
  BY <1>2, <1>3 DEF Init, MovesInOrder, MovedBelow, OnePerNumber
<1>5. IndexesUpwards
  BY <1>2 DEF Init, IndexesUpwards, MovedBelow
<1>6. QED BY <1>4, <1>5 DEF OrderInv

\* With nothing popped there is nothing on its way.
LEMMA NothingPoppedFacts ==
    ASSUME popped = NothingPopped
    PROVE  \A aa \in Adopters : PoppedNumbers(aa) = {} /\ Ascending(popped[aa])
BY DEF NothingPopped, PoppedNumbers, Ascending

\* When the locals go out of scope the invariant reduces to the trees.
LEMMA DropLocalsOrder ==
    ASSUME TypeOK, OrderInv, DropLocals, UNCHANGED trees,
           pc' \in {"down", "subscribe", "recv"}
    PROVE  OrderInv'
<1>1. popped' = NothingPopped /\ block_hashes' = {}
  BY DEF DropLocals
<1>2. \A aa \in Adopters : PoppedNumbers(aa)' = {} /\ Ascending(popped[aa])'
  BY <1>1 DEF NothingPopped, PoppedNumbers, Ascending
<1>3. \A aa \in Adopters : AppliedNumbers(aa)' = AppliedNumbers(aa)
  BY DEF AppliedNumbers
<1>4. \A n : MovedBelow(n) => MovedBelow(n)'
  BY <1>2, <1>3 DEF MovedBelow
<1>5. NextNumber' = NextNumber
  BY DEF NextNumber
<1>6. MovesInOrder'
  BY <1>1, <1>2, <1>3, <1>4 DEF OrderInv, MovesInOrder, OnePerNumber, Ascending
<1>7. IndexesUpwards'
  BY <1>1, <1>4, <1>5 DEF OrderInv, IndexesUpwards
<1>8. QED BY <1>6, <1>7 DEF OrderInv

\* Nothing moves: what is below a bound stays below it.
LEMMA MovedFrame ==
    ASSUME UNCHANGED <<store, popped>>
    PROVE  /\ \A n : MovedBelow(n)' <=> MovedBelow(n)
           /\ \A aa : AppliedNumbers(aa)' = AppliedNumbers(aa)
           /\ \A aa : PoppedNumbers(aa)' = PoppedNumbers(aa)
           /\ \A aa : Ascending(store[aa])' <=> Ascending(store[aa])
           /\ \A aa : Ascending(popped[aa])' <=> Ascending(popped[aa])
BY DEF MovedBelow, AppliedNumbers, PoppedNumbers, Ascending

\* Steps that change neither what was moved nor block_hash_tree nor the hashes
\* being collected, and do not enter prune_to_pending, keep MovesInOrder.
LEMMA MovesFrame ==
    ASSUME OrderInv, UNCHANGED <<store, popped, block_hash_tree, block_hashes>>,
           pc' # "prune_to_pending",
           pc' \in {"prune_to", "apply"} \/ pc \notin {"prune_to", "prune_to_pending", "apply"}
    PROVE  MovesInOrder'
BY MovedFrame DEF OrderInv, MovesInOrder, OnePerNumber

\* A step of sync up to the start of index_range.
LEMMA SyncOrder ==
    ASSUME TypeOK, OrderInv, SyncFromGenesis \/ SyncSameChain \/ SyncReorg
    PROVE  OrderInv'
<1> USE ChainAssumption
<1>1. MovesInOrder'
  BY MovesFrame DEF SyncFromGenesis, SyncSameChain, SyncReorg, Continue
<1>2. UNCHANGED <<store, popped, block_hash_tree, block_hashes, latest_block_tree>>
  BY DEF SyncFromGenesis, SyncSameChain, SyncReorg, Continue
<1>3. CASE SyncFromGenesis \/ SyncSameChain
  <2>1. from' = NextNumber' /\ pc' = "index" /\ pc = "sync"
    BY <1>3 DEF SyncFromGenesis, SyncSameChain, Continue, NextNumber
  <2>2. IndexesUpwards'
    BY <1>2, <2>1, MovedFrame DEF OrderInv, IndexesUpwards, NextNumber
  <2>3. QED BY <1>1, <2>2 DEF OrderInv
<1>4. CASE SyncReorg
  <2>1. PICK c \in block_hash_tree : from' = Number[c] + 1
    BY <1>4 DEF SyncReorg, CommonAncestor
  <2>2. MovedBelow(Number[c])
    BY DEF OrderInv, MovesInOrder
  <2>3. \A aa \in Adopters :
            AppliedNumbers(aa) \subseteq Nat /\ PoppedNumbers(aa) \subseteq Nat
    BY DEF AppliedNumbers, PoppedNumbers, TypeOK
  <2>4. MovedBelow(Number[c] + 1)
    BY <2>2, <2>3 DEF MovedBelow, TypeOK
  <2>5. MovedBelow(from)'
    BY <1>2, <2>1, <2>4 DEF MovedBelow, AppliedNumbers, PoppedNumbers
  <2>6. IndexesUpwards'
    BY <1>2, <1>4, <2>5, MovedFrame DEF OrderInv, IndexesUpwards, NextNumber, SyncReorg
  <2>7. QED BY <1>1, <2>6 DEF OrderInv
<1>5. QED BY <1>3, <1>4

\* Pruning a reorged branch and recording the common ancestor.
LEMMA PruneFromOrder ==
    ASSUME TypeOK, OrderInv, PruneFromPop \/ PruneFromPending \/ InsertLastAncestor
    PROVE  OrderInv'
<1> USE ChainAssumption
<1>1. UNCHANGED <<store, popped, block_hashes, from>>
  BY DEF PruneFromPop, PruneFromPending, InsertLastAncestor
<1>2. block_hash_tree' \subseteq block_hash_tree
  BY DEF PruneFromPop, PruneFromPending, InsertLastAncestor
<1>3. pc \in {"prune_from", "prune_from_pending"}
      /\ pc' \in {"prune_from", "prune_from_pending", "index"}
  BY DEF PruneFromPop, PruneFromPending, InsertLastAncestor
<1>4. MovesInOrder'
  BY <1>1, <1>2, <1>3, MovedFrame DEF OrderInv, MovesInOrder, OnePerNumber
<1>5. CASE PruneFromPop \/ PruneFromPending
  <2>1. latest_block_tree' = latest_block_tree /\ pc' # "index"
    BY <1>5 DEF PruneFromPop, PruneFromPending
  <2>2. IndexesUpwards'
    BY <1>1, <1>2, <1>3, <2>1, MovedFrame DEF OrderInv, IndexesUpwards, NextNumber
  <2>3. QED BY <1>4, <2>2 DEF OrderInv
<1>6. CASE InsertLastAncestor
  <2>1. latest_block_tree' # None
    <3>1. latest_block_tree' \in [number : Nat, hash : Blocks]
      BY <1>3, <1>6 DEF InsertLastAncestor, TypeOK
    <3>2. QED BY <3>1
  <2>2. NextNumber' = from' /\ pc' = "index" /\ \A b \in block_hash_tree' : Number[b] < from
    BY <1>1, <1>3, <1>6, <2>1 DEF InsertLastAncestor, NextNumber, TypeOK
  <2>3. IndexesUpwards'
    BY <1>1, <1>3, <2>2, MovedFrame DEF OrderInv, IndexesUpwards
  <2>4. QED BY <1>4, <2>3 DEF OrderInv
<1>7. QED BY <1>5, <1>6

\* The steps of index_range up to the block hashes.
LEMMA FetchOrder ==
    ASSUME TypeOK, OrderInv, GetLogs \/ InsertPending \/ GetBlock
    PROVE  OrderInv'
<1> USE ChainAssumption, ConfigAssumption
<1>1. UNCHANGED <<store, popped, block_hash_tree, latest_block_tree, from>>
  BY DEF GetLogs, InsertPending, GetBlock
<1>2. NextNumber' = NextNumber
  BY <1>1 DEF NextNumber
<1>3. CASE GetLogs \/ InsertPending
  <2>1. UNCHANGED block_hashes /\ pc \in {"index", "insert_pending"}
        /\ pc' \in {"insert_pending", "get_block"}
    BY <1>3 DEF GetLogs, InsertPending
  <2>2. block_hashes = {}
    BY <2>1 DEF OrderInv, IndexesUpwards
  <2>3. MovesInOrder'
    BY <1>1, <2>1, MovesFrame
  <2>4. from' <= to' /\ (pc' = "get_block" => i' \in from'..to')
    BY <1>1, <1>3, <2>1 DEF GetLogs, InsertPending, Min, OrderInv, IndexesUpwards, TypeOK
  <2>5. IndexesUpwards'
    BY <1>1, <1>2, <2>1, <2>2, <2>4, MovedFrame DEF OrderInv, IndexesUpwards
  <2>6. QED BY <2>3, <2>5 DEF OrderInv
<1>4. CASE GetBlock
  <2>1. PICK b \in Blocks : Number[b] = i /\ block_hashes' = block_hashes \cup {b}
    BY <1>4, ChainType DEF GetBlock, TypeOK
  <2>2. /\ pc = "get_block" /\ to' = to
        /\ \/ i = to /\ pc' = "insert_last"
           \/ i # to /\ pc' = "get_block" /\ i' = i + 1
    BY <1>4 DEF GetBlock
  <2>3. i \in from..to /\ \A c \in block_hashes : Number[c] \in from..to /\ Number[c] < i
    BY <2>2 DEF OrderInv, IndexesUpwards
  <2>4. OnePerNumber(block_hashes')
    BY <2>1, <2>3 DEF OrderInv, MovesInOrder, OnePerNumber, TypeOK
  <2>5. MovesInOrder'
    BY <1>1, <2>2, <2>4, MovedFrame DEF OrderInv, MovesInOrder, OnePerNumber
  <2>6. \A c \in block_hashes' :
            Number[c] \in from..to /\ (pc' = "get_block" => Number[c] < i')
    BY <2>1, <2>2, <2>3 DEF TypeOK
  <2>7. pc' = "get_block" => i' \in from..to
    BY <2>2, <2>3 DEF TypeOK
  <2>8. IndexesUpwards'
    BY <1>1, <1>2, <2>2, <2>3, <2>6, <2>7, MovedFrame DEF OrderInv, IndexesUpwards
  <2>9. QED BY <2>5, <2>8 DEF OrderInv
<1>5. QED BY <1>3, <1>4

\* The last indexed block is recorded, then the hashes are written.
LEMMA RecordOrder ==
    ASSUME TypeOK, OrderInv, InsertLast \/ WriteHashes
    PROVE  OrderInv'
<1> USE ChainAssumption
<1>1. UNCHANGED <<store, popped, from, to>>
  BY DEF InsertLast, WriteHashes
<1>2. CASE InsertLast
  <2>1. latest_block_tree' \in [number : Nat, hash : Blocks] /\ latest_block_tree'.number = to
    BY <1>2 DEF InsertLast, TypeOK
  <2>2. NextNumber' = to + 1
    BY <2>1 DEF NextNumber
  <2>3. from = NextNumber /\ from <= to
    BY <1>2 DEF InsertLast, OrderInv, IndexesUpwards
  <2>4. MovesInOrder'
    BY <1>1, <1>2, MovesFrame DEF InsertLast
  <2>5. \A n \in Nat : n < from => n < to + 1
    BY <2>3 DEF TypeOK
  <2>6. MovedBelow(from) /\ \A b \in block_hash_tree : Number[b] < from
    BY <2>3 DEF OrderInv, IndexesUpwards
  <2>7. \A aa \in Adopters :
            AppliedNumbers(aa) \subseteq Nat /\ PoppedNumbers(aa) \subseteq Nat
    BY DEF AppliedNumbers, PoppedNumbers, TypeOK
  <2>8. MovedBelow(to + 1)
    BY <2>5, <2>6, <2>7 DEF MovedBelow
  <2>9. \A b \in block_hash_tree : Number[b] < to + 1
    BY <2>5, <2>6 DEF TypeOK
  <2>10. IndexesUpwards'
    BY <1>1, <1>2, <2>2, <2>6, <2>8, <2>9, MovedFrame
    DEF OrderInv, IndexesUpwards, InsertLast
  <2>11. QED BY <2>4, <2>10 DEF OrderInv
<1>3. CASE WriteHashes
  <2>1. /\ block_hash_tree' \subseteq block_hash_tree \cup block_hashes
        /\ block_hashes' = {} /\ pc = "write_hashes" /\ pc' = "get_tag"
        /\ UNCHANGED latest_block_tree
    BY <1>3 DEF WriteHashes, Upsert
  <2>2. /\ MovedBelow(from) /\ NextNumber = to + 1
        /\ \A b \in block_hash_tree : Number[b] < from
        /\ \A b \in block_hashes : Number[b] \in from..to
    BY <2>1 DEF OrderInv, IndexesUpwards
  <2>3. OnePerNumber(block_hash_tree')
    BY <2>1, <2>2 DEF OrderInv, MovesInOrder, OnePerNumber, TypeOK
  <2>4. \A aa \in Adopters :
            AppliedNumbers(aa) \subseteq Nat /\ PoppedNumbers(aa) \subseteq Nat
    BY DEF AppliedNumbers, PoppedNumbers, TypeOK
  <2>5. \A b \in block_hashes : MovedBelow(Number[b])
    BY <2>2, <2>4 DEF MovedBelow, TypeOK
  <2>6. MovesInOrder'
    BY <1>1, <2>1, <2>3, <2>5, MovedFrame DEF OrderInv, MovesInOrder, OnePerNumber
  <2>7. \A b \in block_hash_tree' : Number[b] < to + 1
    BY <2>1, <2>2 DEF OrderInv, IndexesUpwards, TypeOK
  <2>8. NextNumber' = NextNumber
    BY <2>1 DEF NextNumber
  <2>9. IndexesUpwards'
    BY <1>1, <2>1, <2>2, <2>7, <2>8, MovedFrame DEF OrderInv, IndexesUpwards
  <2>10. QED BY <2>6, <2>9 DEF OrderInv
<1>4. QED BY <1>2, <1>3

\* The next chunk, or the end of sync.
LEMMA IndexRangeReturnsOrder ==
    ASSUME TypeOK, OrderInv, IndexRangeReturns, UNCHANGED trees,
           pc \in {"get_tag", "apply"}, popped = NothingPopped
    PROVE  OrderInv'
<1>1. CASE to = Number[update_block]
  BY <1>1, DropLocalsOrder DEF IndexRangeReturns, SyncReturns
<1>2. CASE to # Number[update_block]
  <2>1. /\ pc' = "index" /\ from' = to + 1 /\ popped' = popped /\ block_hashes' = {}
        /\ NextNumber' = NextNumber /\ NextNumber = to + 1
    BY <1>2 DEF IndexRangeReturns, NextNumber, OrderInv, IndexesUpwards
  <2>2. MovesInOrder'
    BY <2>1, MovedFrame DEF OrderInv, MovesInOrder, OnePerNumber
  <2>3. IndexesUpwards'
    BY <2>1, MovedFrame DEF OrderInv, IndexesUpwards
  <2>4. QED BY <2>2, <2>3 DEF OrderInv
<1>3. QED BY <1>1, <1>2

\* Steps of move_pending_modifications_to_store that move nothing.
LEMMA MoveFrameOrder ==
    ASSUME TypeOK, OrderInv, GetTag \/ PruneToDone \/ IndexRangeDone
    PROVE  OrderInv'
<1>1. CASE PruneToDone \/ (GetTag /\ ~ IndexRangeReturns)
  <2>1. /\ UNCHANGED <<trees, popped, block_hashes, from, to>>
        /\ pc \in {"get_tag", "prune_to"} /\ pc' \in {"prune_to", "apply"}
    BY <1>1 DEF PruneToDone, GetTag
  <2>2. MovesInOrder'
    BY <2>1, MovesFrame
  <2>3. NextNumber' = NextNumber
    BY <2>1 DEF NextNumber
  <2>4. IndexesUpwards'
    BY <2>1, <2>3, MovedFrame DEF OrderInv, IndexesUpwards
  <2>5. QED BY <2>2, <2>4 DEF OrderInv
<1>2. CASE IndexRangeDone \/ (GetTag /\ IndexRangeReturns)
  <2>1. IndexRangeReturns /\ UNCHANGED trees /\ pc \in {"get_tag", "apply"}
    BY <1>2 DEF IndexRangeDone, GetTag
  <2>2. popped = NothingPopped
    BY <1>2 DEF IndexRangeDone, GetTag, OrderInv, MovesInOrder
  <2>3. QED BY <2>1, <2>2, IndexRangeReturnsOrder
<1>3. QED BY <1>1, <1>2

\* prune_to takes the first hash off the tree.
LEMMA PruneToPopOrder ==
    ASSUME TypeOK, OrderInv, PruneToPop
    PROVE  OrderInv'
<1> USE ChainAssumption
<1>1. PICK b \in block_hash_tree :
        /\ IsFirstIn(b, UpTo(block_hash_tree, block_to_move))
        /\ block_hash_tree' = block_hash_tree \ {b}
        /\ key' = Number[b]
  BY DEF PruneToPop
<1>2. UNCHANGED <<store, popped, latest_block_tree, block_hashes, from, to>>
      /\ pc = "prune_to" /\ pc' = "prune_to_pending"
  BY DEF PruneToPop
<1>3. \A c \in block_hash_tree' : Number[b] < Number[c]
  <2>1. Number[b] <= block_to_move
        /\ \A c \in block_hash_tree : Number[c] <= block_to_move => Number[b] <= Number[c]
    BY <1>1 DEF IsFirstIn, From, UpTo
  <2>2. OnePerNumber(block_hash_tree)
    BY DEF OrderInv, MovesInOrder
  <2>3. block_to_move \in Nat /\ \A c \in block_hash_tree : Number[c] \in Nat
    BY DEF TypeOK
  <2>4. QED BY <1>1, <2>1, <2>2, <2>3 DEF OnePerNumber
<1>4. MovedBelow(Number[b]) /\ Number[b] < NextNumber
  BY DEF OrderInv, MovesInOrder, IndexesUpwards
<1>5. NextNumber' = NextNumber
  BY <1>2 DEF NextNumber
<1>6. MovedBelow(key)'
  BY <1>1, <1>2, <1>4 DEF MovedBelow, AppliedNumbers, PoppedNumbers
<1>7. MovesInOrder'
  BY <1>1, <1>2, <1>3, <1>4, <1>5, <1>6, MovedFrame DEF OrderInv, MovesInOrder, OnePerNumber
<1>8. IndexesUpwards'
  BY <1>1, <1>2, <1>5, MovedFrame DEF OrderInv, IndexesUpwards
<1>9. QED BY <1>7, <1>8 DEF OrderInv

\* A sequence of blocks below n, with one of number n after it.
LEMMA AppendAscending ==
    ASSUME NEW s \in Seq(Blocks), NEW b \in Blocks, Ascending(s),
           \A n \in DOMAIN s : Number[s[n]] < Number[b]
    PROVE  Ascending(Append(s, b))
<1>1. Len(Append(s, b)) = Len(s) + 1 /\ Append(s, b)[Len(s) + 1] = b
      /\ \A n \in 1..Len(s) : Append(s, b)[n] = s[n]
  BY AppendProperties
<1>2. DOMAIN s = 1..Len(s) /\ DOMAIN Append(s, b) = 1..(Len(s) + 1) /\ Len(s) \in Nat
  BY <1>1, AppendProperties, LenProperties
<1>3. QED BY <1>1, <1>2 DEF Ascending

\* Two ascending sequences of blocks, all of the first below all of the second.
LEMMA ConcatAscending ==
    ASSUME NEW s \in Seq(Blocks), NEW t \in Seq(Blocks), Ascending(s), Ascending(t),
           \A m \in DOMAIN s, n \in DOMAIN t : Number[s[m]] < Number[t[n]]
    PROVE  Ascending(s \o t)
<1>1. Len(s \o t) = Len(s) + Len(t)
      /\ \A n \in 1..(Len(s) + Len(t)) :
            (s \o t)[n] = IF n <= Len(s) THEN s[n] ELSE t[n - Len(s)]
  BY ConcatProperties
<1>2. /\ DOMAIN s = 1..Len(s) /\ DOMAIN t = 1..Len(t) /\ Len(s) \in Nat /\ Len(t) \in Nat
      /\ DOMAIN (s \o t) = 1..(Len(s) + Len(t))
  BY <1>1, ConcatProperties, LenProperties
<1> SUFFICES ASSUME NEW m \in 1..(Len(s) + Len(t)), NEW n \in 1..(Len(s) + Len(t)), m < n
               PROVE  Number[(s \o t)[m]] < Number[(s \o t)[n]]
  BY <1>2 DEF Ascending
<1>4. CASE n <= Len(s)
  BY <1>1, <1>2, <1>4 DEF Ascending
<1>5. CASE m > Len(s)
  <2>1. m - Len(s) \in DOMAIN t /\ n - Len(s) \in DOMAIN t /\ m - Len(s) < n - Len(s)
    BY <1>2, <1>5
  <2>2. QED BY <1>1, <1>2, <1>5, <2>1 DEF Ascending
<1>6. CASE m <= Len(s) /\ n > Len(s)
  <2>1. m \in DOMAIN s /\ n - Len(s) \in DOMAIN t
    BY <1>2, <1>6
  <2>2. QED BY <1>1, <1>2, <1>6, <2>1
<1>7. QED BY <1>2, <1>4, <1>5, <1>6

\* The block numbers of a sequence of blocks.
Numbers(s) == {Number[s[n]] : n \in DOMAIN s}

\* The numbers of a concatenation are those of its parts.
LEMMA ConcatNumbers ==
    ASSUME NEW s \in Seq(Blocks), NEW t \in Seq(Blocks)
    PROVE  Numbers(s \o t) \subseteq Numbers(s) \cup Numbers(t)
<1>1. Len(s \o t) = Len(s) + Len(t)
      /\ \A n \in 1..(Len(s) + Len(t)) :
            (s \o t)[n] = IF n <= Len(s) THEN s[n] ELSE t[n - Len(s)]
  BY ConcatProperties
<1>2. /\ DOMAIN s = 1..Len(s) /\ DOMAIN t = 1..Len(t) /\ Len(s) \in Nat /\ Len(t) \in Nat
      /\ DOMAIN (s \o t) = 1..(Len(s) + Len(t))
  BY <1>1, ConcatProperties, LenProperties
<1>3. ASSUME NEW n \in DOMAIN (s \o t)
      PROVE  Number[(s \o t)[n]] \in Numbers(s) \cup Numbers(t)
  <2>1. CASE n <= Len(s)
    BY <1>1, <1>2, <2>1 DEF Numbers
  <2>2. CASE n > Len(s)
    <3>1. n - Len(s) \in DOMAIN t
      BY <1>2, <2>2
    <3>2. QED BY <1>1, <1>2, <2>2, <3>1 DEF Numbers
  <2>3. QED BY <1>2, <2>1, <2>2
<1>4. QED BY <1>3 DEF Numbers

\* prune_to takes the modifications pending under the popped key.
LEMMA PruneToPendingOrder ==
    ASSUME TypeOK, OrderInv, PruneToPending
    PROVE  OrderInv'
<1> USE ChainAssumption
<1>1. /\ UNCHANGED <<store, block_hash_tree, latest_block_tree, block_hashes, from, to>>
      /\ pc = "prune_to_pending" /\ pc' = "prune_to"
  BY DEF PruneToPending
<1>2. NextNumber' = NextNumber
  BY <1>1 DEF NextNumber
<1>3. MovedBelow(key) /\ key < NextNumber /\ \A b \in block_hash_tree : key < Number[b]
  BY <1>1 DEF OrderInv, MovesInOrder
<1>4. CASE UNCHANGED popped
  <2>1. MovesInOrder'
    BY <1>1, <1>4, MovesFrame
  <2>2. IndexesUpwards'
    BY <1>1, <1>2, <1>4, MovedFrame DEF OrderInv, IndexesUpwards
  <2>3. QED BY <2>1, <2>2 DEF OrderInv
<1>5. ASSUME NEW b \in pending_modifications_tree, Number[b] = key,
             popped' = [aa \in Adopters |->
                          IF aa \in Touches[b] THEN Append(popped[aa], b) ELSE popped[aa]]
      PROVE  OrderInv'
  <2>1. b \in Blocks
    BY DEF TypeOK
  <2>2. ASSUME NEW aa \in Adopters
        PROVE  /\ AppliedNumbers(aa)' = AppliedNumbers(aa)
               /\ PoppedNumbers(aa)' \subseteq PoppedNumbers(aa) \cup {key}
               /\ Ascending(popped[aa])'
    <3>1. popped[aa] \in Seq(Blocks) /\ Ascending(popped[aa])
      BY DEF TypeOK, OrderInv, MovesInOrder
    <3>2. \A n \in DOMAIN popped[aa] : Number[popped[aa][n]] < Number[b]
      BY <1>3, <1>5 DEF MovedBelow, PoppedNumbers
    <3>3. AppliedNumbers(aa)' = AppliedNumbers(aa)
      BY <1>1 DEF AppliedNumbers
    <3>4. CASE aa \notin Touches[b]
      <4>1. popped'[aa] = popped[aa]
        BY <1>5, <3>4
      <4>2. QED BY <3>1, <3>3, <4>1 DEF PoppedNumbers, Ascending
    <3>5. CASE aa \in Touches[b]
      <4>1. popped'[aa] = Append(popped[aa], b)
        BY <1>5, <3>5
      <4>2. Ascending(popped[aa])'
        BY <2>1, <3>1, <3>2, <4>1, AppendAscending DEF Ascending
      <4>3. /\ DOMAIN popped[aa] = 1..Len(popped[aa]) /\ Len(popped[aa]) \in Nat
            /\ DOMAIN popped'[aa] = 1..(Len(popped[aa]) + 1)
            /\ popped'[aa][Len(popped[aa]) + 1] = b
            /\ \A n \in 1..Len(popped[aa]) : popped'[aa][n] = popped[aa][n]
        BY <2>1, <3>1, <4>1, AppendProperties, LenProperties
      <4>4. PoppedNumbers(aa)' \subseteq PoppedNumbers(aa) \cup {key}
        <5>1. SUFFICES ASSUME NEW n \in DOMAIN popped'[aa]
                       PROVE  Number[popped'[aa][n]] \in PoppedNumbers(aa) \cup {key}
          BY DEF PoppedNumbers
        <5>2. CASE n = Len(popped[aa]) + 1
          BY <1>5, <4>3, <5>2
        <5>3. CASE n \in 1..Len(popped[aa])
          BY <4>3, <5>3 DEF PoppedNumbers
        <5>4. QED BY <4>3, <5>1, <5>2, <5>3
      <4>5. QED BY <3>3, <4>2, <4>4
    <3>6. QED BY <3>4, <3>5
  <2>3. \A n \in Nat : key < n /\ MovedBelow(n) => MovedBelow(n)'
    BY <2>2 DEF MovedBelow
  <2>4. NextNumber \in Nat /\ key \in Nat /\ \A c \in block_hash_tree : Number[c] \in Nat
    BY DEF NextNumber, TypeOK
  <2>5. \A aa \in Adopters : \A m \in AppliedNumbers(aa)', n \in PoppedNumbers(aa)' : m < n
    BY <1>3, <2>2 DEF OrderInv, MovesInOrder, MovedBelow
  <2>6. \A aa \in Adopters : Ascending(store[aa])'
    BY <1>1 DEF OrderInv, MovesInOrder, Ascending
  <2>7. MovesInOrder'
    BY <1>1, <1>3, <2>2, <2>3, <2>4, <2>5, <2>6 DEF OrderInv, MovesInOrder, OnePerNumber
  <2>8. IndexesUpwards'
    BY <1>1, <1>2, <1>3, <2>3, <2>4 DEF OrderInv, IndexesUpwards
  <2>9. QED BY <2>7, <2>8 DEF OrderInv
<1>6. QED BY <1>4, <1>5 DEF PruneToPending

\* One adopter's modifications are applied.
LEMMA ApplyOrder ==
    ASSUME TypeOK, OrderInv, NEW aa \in Adopters, Apply(aa)
    PROVE  OrderInv'
<1> USE ChainAssumption
<1>1. /\ UNCHANGED <<block_hash_tree, latest_block_tree, block_hashes, from, to, pc>>
      /\ pc = "apply"
  BY DEF Apply
<1>2. /\ store' = [store EXCEPT ![aa] = @ \o popped[aa]]
      /\ popped' = [popped EXCEPT ![aa] = <<>>]
  BY DEF Apply
<1>3. store[aa] \in Seq(Blocks) /\ popped[aa] \in Seq(Blocks)
      /\ store'[aa] = store[aa] \o popped[aa] /\ popped'[aa] = <<>>
  BY <1>2 DEF TypeOK
<1>4. ASSUME NEW x \in Adopters, x # aa
      PROVE  store'[x] = store[x] /\ popped'[x] = popped[x]
  BY <1>2, <1>4 DEF TypeOK
<1>5. \A m \in DOMAIN store[aa], n \in DOMAIN popped[aa] :
          Number[store[aa][m]] < Number[popped[aa][n]]
  BY DEF OrderInv, MovesInOrder, AppliedNumbers, PoppedNumbers
<1>6. Ascending(store[aa]) /\ Ascending(popped[aa])
  BY DEF OrderInv, MovesInOrder
<1>7. Ascending(store[aa] \o popped[aa])
  BY <1>3, <1>5, <1>6, ConcatAscending
<1>8. AppliedNumbers(aa)' \subseteq AppliedNumbers(aa) \cup PoppedNumbers(aa)
  <2>1. Numbers(store[aa] \o popped[aa]) \subseteq Numbers(store[aa]) \cup Numbers(popped[aa])
    BY <1>3, ConcatNumbers
  <2>2. AppliedNumbers(aa)' = Numbers(store[aa] \o popped[aa])
    BY <1>3 DEF AppliedNumbers, Numbers
  <2>3. AppliedNumbers(aa) = Numbers(store[aa]) /\ PoppedNumbers(aa) = Numbers(popped[aa])
    BY DEF AppliedNumbers, PoppedNumbers, Numbers
  <2>4. QED BY <2>1, <2>2, <2>3
<1>9. PoppedNumbers(aa)' = {} /\ Ascending(popped[aa])'
  BY <1>3 DEF PoppedNumbers, Ascending
<1>10. \A x \in Adopters : x # aa =>
          /\ AppliedNumbers(x)' = AppliedNumbers(x) /\ PoppedNumbers(x)' = PoppedNumbers(x)
          /\ Ascending(store[x])' /\ Ascending(popped[x])'
  BY <1>4 DEF AppliedNumbers, PoppedNumbers, Ascending, OrderInv, MovesInOrder
<1>11. \A n : MovedBelow(n) => MovedBelow(n)'
  BY <1>8, <1>9, <1>10 DEF MovedBelow
<1>12. \A x \in Adopters : Ascending(store[x])' /\ Ascending(popped[x])'
  BY <1>3, <1>7, <1>9, <1>10 DEF Ascending
<1>13. MovesInOrder'
  BY <1>1, <1>9, <1>10, <1>11, <1>12 DEF OrderInv, MovesInOrder, OnePerNumber
<1>14. IndexesUpwards'
  BY <1>1, <1>11 DEF OrderInv, IndexesUpwards, NextNumber
<1>15. QED BY <1>13, <1>14 DEF OrderInv

\* Steps outside index_range: the node's, the subscription's, a new update.
LEMMA OutsideOrder ==
    ASSUME OrderInv, UNCHANGED <<trees, from, to, i, logs, block_hashes, moved>>,
           \/ UNCHANGED pc
           \/ pc \in {"down", "subscribe", "recv"} /\ pc' \in {"sync", "recv"}
    PROVE  OrderInv'
<1>1. MovesInOrder'
  BY MovedFrame DEF OrderInv, MovesInOrder, OnePerNumber, NextNumber, MovedBelow,
                    AppliedNumbers, PoppedNumbers
<1>2. NextNumber' = NextNumber
  BY DEF NextNumber
<1>3. IndexesUpwards'
  BY <1>2, MovedFrame DEF OrderInv, IndexesUpwards, MovedBelow, AppliedNumbers, PoppedNumbers
<1>4. QED BY <1>1, <1>3 DEF OrderInv

\* Every step keeps the invariant.
LEMMA NextOrder == TypeOK /\ OrderInv /\ [Next]_vars => OrderInv'
<1> SUFFICES ASSUME TypeOK, OrderInv, [Next]_vars PROVE OrderInv'
  OBVIOUS
<1>1. CASE SyncToHead \/ Subscribe \/ Recv
  BY <1>1, OutsideOrder DEF SyncToHead, Subscribe, Recv
<1>2. CASE RecvLagged \/ SyncError \/ GetBlockMissing \/ Fail
  BY <1>2, DropLocalsOrder DEF RecvLagged, SyncError, GetBlockMissing, Fail, GoDown
<1>3. CASE SyncNothingToIndex
  BY <1>3, DropLocalsOrder DEF SyncNothingToIndex, SyncReturns
<1>4. CASE SyncFromGenesis \/ SyncSameChain \/ SyncReorg
  BY <1>4, SyncOrder
<1>5. CASE PruneFromPop \/ PruneFromPending \/ InsertLastAncestor
  BY <1>5, PruneFromOrder
<1>6. CASE GetLogs \/ InsertPending \/ GetBlock
  BY <1>6, FetchOrder
<1>7. CASE InsertLast \/ WriteHashes
  BY <1>7, RecordOrder
<1>8. CASE GetTag \/ PruneToDone \/ IndexRangeDone
  BY <1>8, MoveFrameOrder
<1>9. CASE PruneToPop
  BY <1>9, PruneToPopOrder
<1>10. CASE PruneToPending
  BY <1>10, PruneToPendingOrder
<1>11. CASE \E aa \in Adopters : Apply(aa)
  BY <1>11, ApplyOrder
<1>12. CASE NodeStep
  BY <1>12, OutsideOrder DEF NodeStep, Advance, Reorg, Finalize
<1>13. CASE RecvPending \/ UNCHANGED vars
  BY <1>13, OutsideOrder DEF RecvPending, vars
<1>14. QED
  BY <1>1, <1>2, <1>3, <1>4, <1>5, <1>6, <1>7, <1>8, <1>9, <1>10, <1>11, <1>12, <1>13
  DEF Next, IndexerStep

\* Applied, popped, still hashed and being indexed blocks always follow one
\* another in number, whatever interrupts sync, prune_from and prune_to.
THEOREM OrderInvariant == Spec => []OrderInv
<1>1. TypeOK /\ OrderInv /\ [Next]_vars => OrderInv'
  BY NextOrder
<1>2. QED BY <1>1, InitOrder, TypeCorrect, PTL DEF Spec

\* Events are applied to the store in strictly ascending block order, hence at
\* most once each, for every chain and under every reorg, failure and crash.
THEOREM AppliedOnceInOrder == Spec => []AppliedInOrder
<1>1. OrderInv => AppliedInOrder
  BY DEF OrderInv, MovesInOrder, AppliedInOrder
<1>2. QED BY <1>1, OrderInvariant, PTL

(***************************************************************************)
(* Chains.  Chain[b] is the least set that holds b and, with a block, its  *)
(* parent: what holds of b and passes to parents holds of the whole chain. *)
(***************************************************************************)
LEMMA ChainIs ==
    ASSUME NEW b \in Blocks
    PROVE  Chain[b] = {a \in Blocks :
                \A S \in SUBSET Blocks : (b \in S /\ \A x \in S : Parent[x] \in S) => a \in S}
BY DEF Chain

LEMMA ChainLeast ==
    ASSUME NEW b \in Blocks, NEW S \in SUBSET Blocks, b \in S, \A x \in S : Parent[x] \in S
    PROVE  Chain[b] \subseteq S
BY ChainIs

LEMMA ChainSelf == \A b \in Blocks : b \in Chain[b]
BY ChainIs

LEMMA ChainParent ==
    ASSUME NEW b \in Blocks, NEW a \in Chain[b]
    PROVE  Parent[a] \in Chain[b]
<1>1. a \in Blocks /\ Parent[a] \in Blocks
  BY ChainType, ChainAssumption
<1>2. ASSUME NEW S \in SUBSET Blocks, b \in S, \A x \in S : Parent[x] \in S
      PROVE  Parent[a] \in S
  BY <1>2, ChainLeast
<1>3. QED
  BY <1>1, <1>2, ChainIs

LEMMA ChainTrans ==
    ASSUME NEW b \in Blocks, NEW a \in Chain[b]
    PROVE  Chain[a] \subseteq Chain[b]
<1>1. a \in Blocks /\ Chain[b] \in SUBSET Blocks
  BY ChainType
<1>2. \A x \in Chain[b] : Parent[x] \in Chain[b]
  BY ChainParent
<1>3. QED
  BY <1>1, <1>2, ChainLeast

\* A chain is its last block and the chain of that block's parent.
LEMMA ChainUnfold ==
    ASSUME NEW b \in Blocks
    PROVE  Chain[b] = {b} \cup Chain[Parent[b]]
<1>1. Parent[b] \in Blocks
  BY ChainAssumption
<1>2. Parent[b] \in Chain[b]
  BY ChainSelf, ChainParent
<1>3. Chain[Parent[b]] \subseteq Chain[b]
  BY <1>2, ChainTrans
<1> DEFINE S == {b} \cup Chain[Parent[b]]
<1>4. S \in SUBSET Blocks /\ b \in S
  BY <1>1, ChainType
<1>5. \A x \in S : Parent[x] \in S
  BY <1>1, ChainSelf, ChainParent
<1> HIDE DEF S
<1>6. Chain[b] \subseteq S
  BY <1>4, <1>5, ChainLeast
<1>7. QED
  BY <1>3, <1>6, ChainSelf DEF S

\* Below its last block a chain has smaller numbers only.
LEMMA ChainNumber ==
    ASSUME NEW b \in Blocks, NEW a \in Chain[b]
    PROVE  /\ a \in Blocks /\ Number[a] \in Nat /\ Number[b] \in Nat
           /\ Number[a] <= Number[b]
           /\ Number[a] = Number[b] => a = b
           /\ a # b => a \in Chain[Parent[b]] /\ Number[a] < Number[b]
<1> USE ChainAssumption
<1>1. a \in Blocks /\ Number[a] \in Nat /\ Number[b] \in Nat
  BY ChainType
<1>2. ASSUME NEW c \in Blocks, NEW x \in Chain[c] PROVE Number[x] <= Number[c]
  <2> DEFINE S == {y \in Blocks : Number[y] <= Number[c]}
  <2>1. S \in SUBSET Blocks /\ c \in S
    OBVIOUS
  <2>2. \A y \in S : Parent[y] \in S
    OBVIOUS
  <2> HIDE DEF S
  <2>3. Chain[c] \subseteq S
    BY <2>1, <2>2, ChainLeast
  <2>4. QED
    BY <2>3 DEF S
<1>3. ASSUME a # b PROVE a \in Chain[Parent[b]] /\ Number[a] < Number[b]
  <2>1. a \in Chain[Parent[b]]
    BY <1>3, ChainUnfold
  <2>2. b # Genesis
    <3>1. CASE b = Genesis
      <4> DEFINE S == {Genesis}
      <4>1. S \in SUBSET Blocks /\ b \in S /\ \A y \in S : Parent[y] \in S
        BY <3>1
      <4> HIDE DEF S
      <4>2. Chain[b] \subseteq S
        BY <4>1, ChainLeast
      <4>3. QED
        BY <1>3, <3>1, <4>2 DEF S
    <3>2. QED
      BY <3>1
  <2>3. Number[a] <= Number[Parent[b]] /\ Number[b] = Number[Parent[b]] + 1
    BY <1>2, <2>1, <2>2
  <2>4. QED
    BY <1>1, <2>1, <2>3
<1>4. QED
  BY <1>1, <1>2, <1>3

\* Of two blocks of a chain the lower one is on the chain of the higher one.
LEMMA ChainLinear ==
    ASSUME NEW b \in Blocks, NEW a \in Chain[b], NEW c \in Chain[b], Number[a] <= Number[c]
    PROVE  a \in Chain[c]
<1> DEFINE S == {x \in Chain[b] : c \in Chain[x] \/ x \in Chain[c]}
<1>1. c \in Blocks /\ a \in Blocks
  BY ChainType
<1>2. S \in SUBSET Blocks /\ b \in S
  BY ChainType, ChainSelf
<1>3. ASSUME NEW x \in S PROVE Parent[x] \in S
  <2>1. x \in Chain[b] /\ x \in Blocks /\ Parent[x] \in Chain[b]
    BY ChainType, ChainParent
  <2>2. CASE x \in Chain[c]
    BY <1>1, <2>1, <2>2, ChainParent
  <2>3. CASE c \in Chain[x]
    BY <1>1, <2>1, <2>2, <2>3, ChainUnfold, ChainSelf
  <2>4. QED
    BY <2>2, <2>3
<1> HIDE DEF S
<1>4. a \in S
  BY <1>2, <1>3, ChainLeast
<1>5. CASE a \in Chain[c]
  BY <1>5
<1>6. CASE c \in Chain[a]
  <2>1. c = a
    BY <1>1, <1>6, ChainNumber
  <2>2. QED
    BY <1>1, <2>1, ChainSelf
<1>7. QED
  BY <1>4, <1>5, <1>6 DEF S

LEMMA ChainOnePerNumber == \A b \in Blocks : OnePerNumber(Chain[b])
<1> SUFFICES ASSUME NEW b \in Blocks, NEW a \in Chain[b], NEW c \in Chain[b],
                    Number[a] = Number[c]
             PROVE  a = c
  BY DEF OnePerNumber
<1>1. a \in Blocks /\ c \in Blocks /\ Number[a] \in Nat
  BY ChainType, ChainAssumption
<1>2. a \in Chain[c]
  BY <1>1, ChainLinear
<1>3. QED
  BY <1>1, <1>2, ChainNumber

LEMMA LeastNumber ==
    ASSUME NEW S \in SUBSET Nat, S # {}
    PROVE  \E n \in S : \A m \in S : n <= m
<1>1. PICK n \in S : \A m \in S : ~ (<<m, n>> \in OpToRel(<, Nat))
  BY NatLessThanWellFounded, WFMin
<1>2. \A m \in S : ~ (m < n)
  BY <1>1 DEF OpToRel
<1>3. QED
  BY <1>2

\* A chain has a block of every number up to that of its last one.
LEMMA ChainHasNumber ==
    ASSUME NEW b \in Blocks, NEW n \in Nat, n <= Number[b]
    PROVE  HasKey(Chain[b], n)
<1> USE ChainAssumption
<1> DEFINE K == {Number[x] : x \in {y \in Chain[b] : Number[y] >= n}}
<1>1. \A x \in Chain[b] : x \in Blocks /\ Number[x] \in Nat /\ Parent[x] \in Chain[b]
  BY ChainType, ChainParent
<1>2. K \in SUBSET Nat /\ K # {}
  BY <1>1, ChainSelf
<1>3. PICK k \in K : \A m \in K : k <= m
  BY <1>2, LeastNumber
<1>4. PICK x \in Chain[b] : Number[x] = k /\ k >= n
  OBVIOUS
<1>5. k = n
  <2> SUFFICES ASSUME k # n PROVE FALSE
    OBVIOUS
  <2>1. x \in Blocks /\ x # Genesis /\ Number[x] = Number[Parent[x]] + 1
        /\ Parent[x] \in Chain[b] /\ Number[Parent[x]] \in Nat
    BY <1>1, <1>4
  <2>2. Number[Parent[x]] >= n
    BY <1>4, <2>1
  <2>3. Number[Parent[x]] \in K
    BY <2>1, <2>2
  <2> HIDE DEF K
  <2>4. k <= Number[Parent[x]]
    BY <1>3, <2>3
  <2>5. QED
    BY <1>4, <2>1, <2>4
<1>6. QED
  BY <1>4, <1>5 DEF HasKey

\* The chain of a block that follows head adds that block to head's chain.
LEMMA ChainNext ==
    ASSUME NEW a \in Blocks, NEW b \in Blocks, b # a, Parent[b] = a
    PROVE  /\ Chain[a] \subseteq Chain[b]
           /\ \A x \in Chain[b] : Number[x] <= Number[a] => x \in Chain[a]
<1>1. Chain[b] = {b} \cup Chain[a]
  BY ChainUnfold
<1>2. b # Genesis
  BY ChainAssumption
<1>3. Number[b] = Number[a] + 1
  BY <1>2, ChainAssumption
<1>4. Number[a] \in Nat
  BY ChainAssumption
<1>5. QED
  BY <1>1, <1>3, <1>4

(***************************************************************************)
(* What the indexer holds of the canonical chain, when the chain does not  *)
(* reorganise while an update is being handled and calls fail only where   *)
(* the code awaits them.                                                   *)
(***************************************************************************)
Calm == ReorgWhen # "any" /\ (~ CrashAnywhere \/ MaxFailures = 0)

Waiting == pc \in {"down", "subscribe", "recv"}
Pruning == pc \in {"prune_from", "prune_from_pending"}

\* The update's chain is settled: from here on the trees are brought up to it.
Indexing == pc \notin {"down", "subscribe", "recv", "sync", "prune_from", "prune_from_pending"}

\* The blocks that index_range must find events in.
RangeEvents == {b \in Chain[head] : Number[b] \in from..to /\ Touches[b] # {}}

\* The announced headers and the update are canonical.
FollowsNode ==
    /\ final \in Chain[head]
    /\ \A n \in DOMAIN stream : stream[n] \in Chain[head]
    /\ pc = "down" => stream = <<>>
    /\ ~ Waiting => update_block \in Chain[head]

\* What index_range has fetched is canonical and complete.
FetchesRange ==
    /\ Pruning => from <= Number[update_block]
    /\ Indexing /\ pc # "index" => to <= Number[update_block]
    /\ block_hashes \subseteq Chain[head]
    /\ pc = "insert_pending" => logs = RangeEvents
    /\ pc # "insert_pending" => logs = {}
    /\ pc = "get_block" => \A n \in from..(i - 1) : HasKey(block_hashes, n)
    /\ pc \in {"insert_last", "write_hashes"} => \A n \in from..to : HasKey(block_hashes, n)

\* block_hash_tree is part of one chain, the one that ends in the last indexed
\* block; that chain is canonical once the update was compared with it.
HashesOneChain ==
    /\ latest_block_tree # None =>
        /\ latest_block_tree.number <= Number[latest_block_tree.hash]
        /\ Indexing => latest_block_tree.hash \in Chain[head]
    /\ block_hash_tree \subseteq IndexedBlocks
    /\ Pruning => \E c \in block_hash_tree \cap StrictAncestors(update_block) :
                    Number[c] = from - 1

InTrees(b) ==
    /\ b \in pending_modifications_tree
    /\ \/ b \in block_hash_tree
       \/ pc = "prune_to_pending" /\ Number[b] = key
       \/ pc = "write_hashes" /\ b \in block_hashes

Kept(aa, b) ==
    \/ \E n \in DOMAIN store[aa] : store[aa][n] = b
    \/ \E n \in DOMAIN popped[aa] : popped[aa][n] = b
    \/ InTrees(b)

\* The events of the indexed blocks are applied, on their way, or in the trees.
KeepsEvents ==
    /\ OnePerNumber(pending_modifications_tree)
    /\ pc = "prune_from_pending" => key >= from
    /\ pc \in {"get_block", "insert_last", "write_hashes"} =>
        RangeEvents \subseteq pending_modifications_tree
    /\ \A b \in IndexedBlocks : (Pruning => Number[b] < from) =>
        \A aa \in Touches[b] : Kept(aa, b)

ChainInv == FetchesRange /\ HashesOneChain /\ KeepsEvents

\* A new head leaves the chain below it as it was.
LEMMA AdvanceChain ==
    ASSUME TypeOK, NEW b \in Blocks, Advance(b)
    PROVE  /\ Chain[head] \subseteq Chain[head']
           /\ \A x \in Chain[head'] : Number[x] <= Number[head] => x \in Chain[head]
BY ChainNext DEF Advance, TypeOK

LEMMA FollowsInit == Init => FollowsNode
BY ChainSelf, ChainAssumption DEF Init, FollowsNode, Waiting

\* Steps that leave the node alone.
LEMMA FollowsFrame ==
    ASSUME FollowsNode, UNCHANGED <<head, final, stream>>, pc' # "down",
           Waiting' \/ (~ Waiting /\ UNCHANGED update_block)
    PROVE  FollowsNode'
BY DEF FollowsNode, Waiting

LEMMA GoDownFollows ==
    ASSUME FollowsNode, UNCHANGED <<head, final>>, GoDown
    PROVE  FollowsNode'
BY DEF FollowsNode, Waiting, GoDown

LEMMA IndexRangeReturnsFollows ==
    ASSUME TypeOK, FollowsNode, UNCHANGED <<head, final, stream>>, ~ Waiting, IndexRangeReturns
    PROVE  FollowsNode'
<1>1. CASE to = Number[update_block]
  BY <1>1, FollowsFrame DEF IndexRangeReturns, SyncReturns, Waiting
<1>2. CASE to # Number[update_block]
  BY <1>2, FollowsFrame DEF IndexRangeReturns, Waiting
<1>3. QED
  BY <1>1, <1>2

LEMMA FollowsStep ==
    ASSUME ReorgWhen # "any", TypeOK, FollowsNode, [Next]_vars
    PROVE  FollowsNode'
<1>1. CASE SyncToHead
  BY <1>1, ChainSelf DEF SyncToHead, FollowsNode, Waiting, TypeOK
<1>2. CASE Subscribe
  BY <1>2 DEF Subscribe, FollowsNode, Waiting
<1>3. CASE Recv
  <2>1. /\ stream # <<>> /\ stream \in Seq(Blocks) /\ stream' = Tail(stream)
        /\ UNCHANGED <<head, final>>
        /\ update_block' = Head(stream) /\ pc' = "sync"
    BY <1>3 DEF Recv, TypeOK
  <2>2. /\ Len(stream) \in Nat \ {0} /\ DOMAIN stream = 1..Len(stream)
        /\ Head(stream) = stream[1]
        /\ Tail(stream) \in Seq(Blocks) /\ Len(Tail(stream)) = Len(stream) - 1
        /\ \A n \in 1..(Len(stream) - 1) : Tail(stream)[n] = stream[n + 1]
    BY <2>1, EmptySeq, LenProperties, HeadTailProperties
  <2>3. DOMAIN stream' = 1..(Len(stream) - 1)
    BY <2>1, <2>2, LenProperties
  <2>4. \A n \in DOMAIN stream' : stream'[n] \in Chain[head]
    BY <2>1, <2>2, <2>3 DEF FollowsNode
  <2>5. update_block' \in Chain[head]
    BY <2>1, <2>2 DEF FollowsNode
  <2>6. QED
    BY <2>1, <2>4, <2>5 DEF FollowsNode
<1>4. CASE RecvLagged \/ SyncError \/ GetBlockMissing \/ Fail
  BY <1>4, GoDownFollows DEF RecvLagged, SyncError, GetBlockMissing, Fail
<1>5. CASE SyncFromGenesis \/ SyncSameChain \/ SyncReorg
  BY <1>5, FollowsFrame DEF SyncFromGenesis, SyncSameChain, SyncReorg, Continue, Waiting
<1>6. CASE PruneFromPop \/ PruneFromPending \/ InsertLastAncestor
  BY <1>6, FollowsFrame DEF PruneFromPop, PruneFromPending, InsertLastAncestor, Waiting
<1>7. CASE SyncNothingToIndex
  BY <1>7, FollowsFrame DEF SyncNothingToIndex, SyncReturns, Waiting
<1>8. CASE GetLogs \/ InsertPending \/ GetBlock
  BY <1>8, FollowsFrame DEF GetLogs, InsertPending, GetBlock, Waiting
<1>9. CASE InsertLast \/ WriteHashes
  BY <1>9, FollowsFrame DEF InsertLast, WriteHashes, Waiting
<1>10. CASE GetTag
  <2>1. CASE IndexRangeReturns
    BY <1>10, <2>1, IndexRangeReturnsFollows DEF GetTag, Waiting
  <2>2. CASE ~ IndexRangeReturns
    BY <1>10, <2>2, FollowsFrame DEF GetTag, Waiting
  <2>3. QED
    BY <2>1, <2>2
<1>11. CASE PruneToPop \/ PruneToPending \/ PruneToDone
  BY <1>11, FollowsFrame DEF PruneToPop, PruneToPending, PruneToDone, Waiting
<1>12. CASE \E aa \in Adopters : Apply(aa)
  BY <1>12, FollowsFrame DEF Apply, Waiting
<1>13. CASE IndexRangeDone
  BY <1>13, IndexRangeReturnsFollows DEF IndexRangeDone, Waiting
<1>14. CASE RecvPending \/ UNCHANGED vars
  BY <1>14 DEF RecvPending, vars, FollowsNode, Waiting
<1>15. CASE NodeStep
  <2>1. PICK b \in Blocks : Advance(b) \/ Reorg(b) \/ Finalize(b)
    BY <1>15 DEF NodeStep
  <2>2. stream \in Seq(Blocks) /\ head \in Blocks
    BY DEF TypeOK
  <2>3. ASSUME Announce(b), NEW c, \A n \in DOMAIN stream : stream[n] \in Chain[c], b \in Chain[c]
        PROVE  /\ \A n \in DOMAIN stream' : stream'[n] \in Chain[c]
               /\ pc = "down" => UNCHANGED stream
    <3>1. CASE stream' = stream
      BY <2>3, <3>1
    <3>2. CASE stream' = Append(stream, b)
      <4>1. /\ Len(stream') = Len(stream) + 1 /\ stream' \in Seq(Blocks)
            /\ stream'[Len(stream) + 1] = b
            /\ \A n \in 1..Len(stream) : stream'[n] = stream[n]
        BY <2>2, <3>2, AppendProperties
      <4>2. /\ DOMAIN stream' = 1..(Len(stream) + 1) /\ Len(stream) \in Nat
            /\ DOMAIN stream = 1..Len(stream)
        BY <2>2, <4>1, LenProperties
      <4>3. \A n \in 1..(Len(stream) + 1) : n \in 1..Len(stream) \/ n = Len(stream) + 1
        BY <4>2
      <4>4. QED
        BY <2>3, <4>1, <4>2, <4>3 DEF Announce
    <3>3. QED
      BY <2>3, <3>1, <3>2 DEF Announce
  <2>4. CASE Advance(b)
    <3>1. Chain[head] \subseteq Chain[b] /\ head' = b /\ b \in Chain[b]
      BY <2>4, AdvanceChain, ChainSelf DEF Advance
    <3>2. QED
      BY <2>3, <2>4, <3>1 DEF Advance, FollowsNode, Waiting
  <2>5. CASE Reorg(b)
    <3>1. pc \in {"down", "recv"} /\ stream = <<>>
      BY <2>5, ConfigAssumption DEF Reorg, FollowsNode
    <3>2. head' = b /\ b \in Chain[b] /\ final' = final /\ final \in Chain[b] /\ pc' = pc
      BY <2>5, ChainSelf DEF Reorg
    <3>3. DOMAIN stream = {}
      BY <3>1
    <3>4. QED
      BY <2>3, <2>5, <3>1, <3>2, <3>3 DEF Reorg, FollowsNode, Waiting
  <2>6. CASE Finalize(b)
    BY <2>6 DEF Finalize, FollowsNode, Waiting
  <2>7. QED
    BY <2>1, <2>4, <2>5, <2>6
<1>16. QED
  BY <1>1, <1>2, <1>3, <1>4, <1>5, <1>6, <1>7, <1>8, <1>9, <1>10, <1>11, <1>12, <1>13,
     <1>14, <1>15 DEF Next, IndexerStep

LEMMA FollowsInvariant == ReorgWhen # "any" => (Spec => []FollowsNode)
<1> SUFFICES ASSUME ReorgWhen # "any" PROVE Spec => []FollowsNode
  OBVIOUS
<1>1. TypeOK /\ FollowsNode /\ [Next]_vars => FollowsNode'
  BY FollowsStep
<1>2. QED
  BY <1>1, FollowsInit, TypeCorrect, PTL DEF Spec

\* The indexed blocks are part of the chain of the last one, downwards closed.
LEMMA IndexedIs ==
    ASSUME TypeOK
    PROVE  /\ IndexedBlocks \subseteq Blocks
           /\ \A b \in IndexedBlocks : /\ latest_block_tree # None
                                       /\ latest_block_tree.hash \in Blocks
                                       /\ latest_block_tree.number \in Nat
                                       /\ b \in Chain[latest_block_tree.hash]
                                       /\ Number[b] <= latest_block_tree.number
                                       /\ Number[b] < NextNumber
           /\ \A b \in IndexedBlocks : Chain[b] \subseteq IndexedBlocks
<1> DEFINE last == latest_block_tree
<1>1. CASE last = None
  BY <1>1 DEF IndexedBlocks
<1>2. CASE last # None
  <2>1. last.hash \in Blocks /\ last.number \in Nat
    BY <1>2 DEF TypeOK
  <2>2. IndexedBlocks = {b \in Chain[last.hash] : Number[b] <= last.number}
        /\ NextNumber = last.number + 1
    BY <1>2 DEF IndexedBlocks, NextNumber
  <2> HIDE DEF last
  <2>3. \A b \in Chain[last.hash] : b \in Blocks /\ Number[b] \in Nat
    BY <2>1, ChainNumber
  <2>4. ASSUME NEW b \in IndexedBlocks, NEW a \in Chain[b] PROVE a \in IndexedBlocks
    <3>1. b \in Chain[last.hash] /\ b \in Blocks /\ Number[b] <= last.number /\ Number[b] \in Nat
      BY <2>2, <2>3
    <3>2. a \in Chain[last.hash] /\ Number[a] <= Number[b] /\ Number[a] \in Nat
      BY <2>1, <3>1, ChainTrans, ChainNumber
    <3>3. QED
      BY <2>1, <2>2, <3>1, <3>2
  <2>5. \A b \in IndexedBlocks : Number[b] < NextNumber
    BY <2>1, <2>2, <2>3
  <2>6. QED
    BY <1>2, <2>1, <2>2, <2>3, <2>4, <2>5 DEF last
<1>3. QED
  BY <1>1, <1>2

\* While index_range runs they are the canonical blocks below NextNumber.
LEMMA IndexedCanonical ==
    ASSUME TypeOK, HashesOneChain, Indexing
    PROVE  \A b : b \in IndexedBlocks <=> b \in Chain[head] /\ Number[b] < NextNumber
<1> DEFINE last == latest_block_tree
<1> SUFFICES ASSUME NEW b
             PROVE  b \in IndexedBlocks <=> b \in Chain[head] /\ Number[b] < NextNumber
  OBVIOUS
<1>1. CASE last = None
  <2>1. IndexedBlocks = {} /\ NextNumber = 0
    BY <1>1 DEF IndexedBlocks, NextNumber
  <2>2. b \in Chain[head] => Number[b] \in Nat
    BY ChainNumber DEF TypeOK
  <2>3. QED
    BY <2>1, <2>2
<1>2. CASE last # None
  <2>1. /\ last.hash \in Blocks /\ last.number \in Nat /\ head \in Blocks
        /\ last.hash \in Chain[head] /\ last.number <= Number[last.hash]
    BY <1>2 DEF TypeOK, HashesOneChain
  <2>2. IndexedBlocks = {x \in Chain[last.hash] : Number[x] <= last.number}
        /\ NextNumber = last.number + 1
    BY <1>2 DEF IndexedBlocks, NextNumber
  <2> HIDE DEF last
  <2>3. ASSUME b \in IndexedBlocks PROVE b \in Chain[head] /\ Number[b] < NextNumber
    <3>1. b \in Chain[head] /\ Number[b] \in Nat
      BY <2>1, <2>2, <2>3, ChainTrans, ChainNumber
    <3>2. QED
      BY <2>1, <2>2, <2>3, <3>1
  <2>4. ASSUME b \in Chain[head], Number[b] < NextNumber PROVE b \in IndexedBlocks
    <3>1. Number[b] \in Nat /\ Number[last.hash] \in Nat
      BY <2>1, <2>4, ChainNumber
    <3>2. Number[b] <= last.number /\ Number[b] <= Number[last.hash]
      BY <2>1, <2>2, <2>4, <3>1
    <3>3. b \in Chain[last.hash]
      BY <2>1, <2>4, <3>2, ChainLinear
    <3>4. QED
      BY <2>2, <3>2, <3>3
  <2>5. QED
    BY <2>3, <2>4
<1>3. QED
  BY <1>1, <1>2

LEMMA ChainInvInit == Init => ChainInv
<1> SUFFICES ASSUME Init PROVE ChainInv
  OBVIOUS
<1>1. IndexedBlocks = {}
  BY DEF Init, IndexedBlocks
<1>2. QED
  BY <1>1 DEF Init, ChainInv, FetchesRange, HashesOneChain, KeepsEvents, Pruning, Indexing,
              OnePerNumber

\* Steps outside sync: the subscription's, a new update, Finalize.
LEMMA OutsideChain ==
    ASSUME ChainInv, UNCHANGED <<head, trees, from, to, i, logs, block_hashes, moved>>,
           \/ UNCHANGED <<pc, update_block>>
           \/ Waiting /\ pc' \in {"sync", "recv"}
    PROVE  ChainInv'
<1>1. IndexedBlocks' = IndexedBlocks /\ RangeEvents' = RangeEvents
  BY DEF IndexedBlocks, RangeEvents
<1>2. FetchesRange'
  BY <1>1 DEF ChainInv, FetchesRange, Pruning, Indexing, Waiting
<1>3. HashesOneChain'
  BY <1>1 DEF ChainInv, HashesOneChain, Pruning, Indexing, Waiting, StrictAncestors
<1>4. KeepsEvents'
  BY <1>1 DEF ChainInv, KeepsEvents, Pruning, Waiting, Kept, InTrees
<1>5. QED
  BY <1>2, <1>3, <1>4 DEF ChainInv

\* The locals go out of scope where nothing is on its way.
LEMMA DropLocalsChain ==
    ASSUME TypeOK, OrderInv, ChainInv, DropLocals, UNCHANGED <<head, trees>>, Waiting',
           pc \in AwaitPoints \/ (pc = "apply" /\ popped = NothingPopped)
    PROVE  ChainInv'
<1>1. IndexedBlocks' = IndexedBlocks
  BY DEF IndexedBlocks
<1>2. block_hashes' = {} /\ logs' = {} /\ popped' = NothingPopped /\ popped = NothingPopped
  BY DEF DropLocals, OrderInv, MovesInOrder, AwaitPoints
<1>3. FetchesRange'
  BY <1>2 DEF FetchesRange, Pruning, Indexing, Waiting
<1>4. HashesOneChain'
  BY <1>1 DEF ChainInv, HashesOneChain, Pruning, Indexing, Waiting
<1>5. KeepsEvents'
  <2>1. ASSUME NEW b \in IndexedBlocks, NEW aa \in Touches[b] PROVE Kept(aa, b)'
    <3>1. Kept(aa, b)
      BY <2>1 DEF ChainInv, KeepsEvents, Pruning, AwaitPoints
    <3>2. QED
      BY <1>2, <3>1 DEF Kept, InTrees, AwaitPoints
  <2>2. OnePerNumber(pending_modifications_tree)'
    BY DEF ChainInv, KeepsEvents, OnePerNumber
  <2>3. QED
    BY <1>1, <2>1, <2>2 DEF KeepsEvents, Waiting
<1>6. QED
  BY <1>3, <1>4, <1>5 DEF ChainInv

\* The start of index_range, or of prune_from.
LEMMA SyncChain ==
    ASSUME TypeOK, OrderInv, FollowsNode, ChainInv, SyncFromGenesis \/ SyncSameChain \/ SyncReorg
    PROVE  ChainInv'
<1>1. /\ UNCHANGED <<node, trees, update_block, to, i, logs, block_hashes, moved>>
      /\ pc = "sync" /\ pc' \in {"index", "prune_from"}
  BY DEF SyncFromGenesis, SyncSameChain, SyncReorg, Continue
<1>2. IndexedBlocks' = IndexedBlocks
  BY <1>1 DEF IndexedBlocks
<1>3. update_block \in Chain[head] /\ head \in Blocks /\ update_block \in Blocks
  BY <1>1 DEF FollowsNode, Waiting, TypeOK
<1>4. /\ block_hashes = {} /\ logs = {}
      /\ \A b \in IndexedBlocks : \A aa \in Touches[b] : Kept(aa, b)
  BY <1>1 DEF OrderInv, IndexesUpwards, ChainInv, FetchesRange, KeepsEvents, Pruning
<1>5. KeepsEvents'
  BY <1>1, <1>2, <1>4 DEF ChainInv, KeepsEvents, OnePerNumber, Kept, InTrees
<1>6. CASE SyncFromGenesis \/ SyncSameChain
  <2>1. pc' = "index"
    BY <1>6 DEF SyncFromGenesis, SyncSameChain, Continue
  <2>2. latest_block_tree # None => latest_block_tree.hash \in Chain[head]
    <3> SUFFICES ASSUME latest_block_tree # None PROVE latest_block_tree.hash \in Chain[head]
      OBVIOUS
    <3>1. ComparedWith(latest_block_tree) = {latest_block_tree.hash}
      BY <1>6 DEF SyncFromGenesis, SyncSameChain
    <3>2. ComparedWith(latest_block_tree) \subseteq Chain[update_block]
      BY <1>3, ChainSelf DEF ComparedWith, StrictAncestors
    <3>3. QED
      BY <1>3, <3>1, <3>2, ChainTrans
  <2>3. HashesOneChain'
    BY <1>1, <1>2, <2>1, <2>2 DEF ChainInv, HashesOneChain, Pruning
  <2>4. FetchesRange'
    BY <1>1, <1>4, <2>1 DEF FetchesRange, Pruning
  <2>5. QED
    BY <1>5, <2>3, <2>4 DEF ChainInv
<1>7. CASE SyncReorg
  <2>1. pc' = "prune_from"
    BY <1>7 DEF SyncReorg
  <2>2. PICK c \in block_hash_tree \cap StrictAncestors(update_block) : from' = Number[c] + 1
    BY <1>7 DEF SyncReorg, CommonAncestor
  <2>3. Number[c] < Number[update_block] /\ Number[c] \in Nat /\ Number[update_block] \in Nat
    BY <1>3, <2>2, ChainNumber DEF StrictAncestors
  <2>4. from' <= Number[update_block] /\ Number[c] = from' - 1
    BY <2>2, <2>3
  <2>5. HashesOneChain'
    BY <1>1, <1>2, <2>1, <2>2, <2>4 DEF ChainInv, HashesOneChain, Indexing, StrictAncestors
  <2>6. FetchesRange'
    BY <1>1, <1>4, <2>1, <2>4 DEF FetchesRange, Indexing
  <2>7. QED
    BY <1>5, <2>5, <2>6 DEF ChainInv
<1>8. QED
  BY <1>6, <1>7

\* Pruning takes off what is above the common ancestor, from both trees.
LEMMA PruneFromChain ==
    ASSUME TypeOK, OrderInv, FollowsNode, ChainInv, PruneFromPop \/ PruneFromPending
    PROVE  ChainInv'
<1> USE ChainAssumption
<1>1. /\ UNCHANGED <<node, latest_block_tree, store, update_block, from, to, i, logs, block_hashes,
                     block_to_move, popped>>
      /\ Pruning /\ Pruning' /\ block_hash_tree' \subseteq block_hash_tree
      /\ pending_modifications_tree' \subseteq pending_modifications_tree
  BY DEF PruneFromPop, PruneFromPending, Pruning
<1>2. IndexedBlocks' = IndexedBlocks
  BY <1>1 DEF IndexedBlocks
<1>3. FetchesRange'
  BY <1>1 DEF ChainInv, FetchesRange, Pruning, Indexing
<1>4. from \in Nat /\ key \in Nat /\ \A b \in Blocks : Number[b] \in Nat
  BY DEF TypeOK
<1>5. IndexedBlocks \subseteq Blocks /\ block_hash_tree \subseteq Blocks
  BY IndexedIs DEF TypeOK
<1>6. /\ \A b \in Blocks : Number[b] < from /\ b \in block_hash_tree => b \in block_hash_tree'
      /\ \A b \in Blocks : Number[b] < from /\ b \in pending_modifications_tree
                              => b \in pending_modifications_tree'
      /\ pc' = "prune_from_pending" => key' >= from
  <2>1. CASE PruneFromPop
    <3>1. PICK b \in block_hash_tree : /\ Number[b] >= from
                                       /\ block_hash_tree' = block_hash_tree \ {b}
                                       /\ key' = Number[b]
      BY <2>1 DEF PruneFromPop, IsFirstIn, From
    <3>2. UNCHANGED pending_modifications_tree
      BY <2>1 DEF PruneFromPop
    <3>3. QED
      BY <1>4, <1>5, <3>1, <3>2
  <2>2. CASE PruneFromPending
    <3>1. /\ pc = "prune_from_pending" /\ pc' = "prune_from" /\ UNCHANGED block_hash_tree
          /\ pending_modifications_tree' = {b \in pending_modifications_tree : Number[b] # key}
      BY <2>2 DEF PruneFromPending
    <3>2. key >= from
      BY <3>1 DEF ChainInv, KeepsEvents
    <3>3. QED
      BY <1>4, <3>1, <3>2
  <2>3. QED
    BY <2>1, <2>2
<1>7. HashesOneChain'
  <2>1. PICK c \in block_hash_tree \cap StrictAncestors(update_block) : Number[c] = from - 1
    BY <1>1 DEF ChainInv, HashesOneChain
  <2>2. c \in block_hash_tree'
    BY <1>4, <1>5, <1>6, <2>1
  <2>3. QED
    BY <1>1, <1>2, <2>1, <2>2 DEF ChainInv, HashesOneChain, Pruning, Indexing, StrictAncestors
<1>8. KeepsEvents'
  <2>1. ASSUME NEW b \in IndexedBlocks, Number[b] < from, NEW aa \in Touches[b]
        PROVE  Kept(aa, b)'
    <3>1. Kept(aa, b) /\ b \in Blocks
      BY <1>1, <1>5, <2>1 DEF ChainInv, KeepsEvents
    <3>2. InTrees(b) => InTrees(b)'
      BY <1>1, <1>6, <2>1, <3>1 DEF InTrees, Pruning
    <3>3. QED
      BY <1>1, <3>1, <3>2 DEF Kept
  <2>2. OnePerNumber(pending_modifications_tree)'
    BY <1>1 DEF ChainInv, KeepsEvents, OnePerNumber
  <2>3. QED
    BY <1>1, <1>2, <1>6, <2>1, <2>2 DEF KeepsEvents, Pruning
<1>9. QED
  BY <1>3, <1>7, <1>8 DEF ChainInv

\* The common ancestor is recorded: what is left in block_hash_tree is on its
\* chain, and its chain was indexed.
LEMMA InsertLastAncestorChain ==
    ASSUME TypeOK, OrderInv, FollowsNode, ChainInv, InsertLastAncestor
    PROVE  ChainInv'
<1> USE ChainAssumption
<1>1. /\ UNCHANGED <<node, block_hash_tree, pending_modifications_tree, store, update_block,
                     from, to, i, logs, block_hashes, moved>>
      /\ pc = "prune_from" /\ pc' = "index"
      /\ \A b \in block_hash_tree : Number[b] < from
      /\ latest_block_tree' = [number |-> from - 1, hash |-> Parent[update_block]]
  BY DEF InsertLastAncestor
<1>2. /\ update_block \in Chain[head] /\ head \in Blocks /\ update_block \in Blocks
      /\ Parent[update_block] \in Blocks /\ from \in Nat /\ from > 0
  BY <1>1 DEF FollowsNode, Waiting, TypeOK
<1>3. PICK c \in block_hash_tree \cap StrictAncestors(update_block) : Number[c] = from - 1
  BY <1>1 DEF ChainInv, HashesOneChain, Pruning
<1>4. c \in Chain[Parent[update_block]] /\ c \in Blocks
  BY <1>2, <1>3, ChainNumber DEF StrictAncestors
<1>5. Parent[update_block] \in Chain[head]
  BY <1>2, ChainParent
<1>6. Number[c] <= Number[Parent[update_block]] /\ Number[c] \in Nat
  BY <1>2, <1>4, ChainNumber
<1>7. latest_block_tree' # None /\ latest_block_tree'.number = from - 1
      /\ latest_block_tree'.hash = Parent[update_block]
  <2>1. latest_block_tree' \in [number : Nat, hash : Blocks]
    BY <1>1, <1>2
  <2>2. QED
    BY <1>1, <2>1
<1>8. IndexedBlocks' = {b \in Chain[Parent[update_block]] : Number[b] <= from - 1}
  BY <1>7 DEF IndexedBlocks
<1>9. c \in IndexedBlocks
  BY <1>3 DEF ChainInv, HashesOneChain
<1>10. IndexedBlocks' \subseteq Chain[c]
  <2> SUFFICES ASSUME NEW b \in IndexedBlocks' PROVE b \in Chain[c]
    OBVIOUS
  <2>1. b \in Chain[Parent[update_block]] /\ Number[b] <= Number[c]
    BY <1>3, <1>8
  <2>2. QED
    BY <1>2, <1>4, <2>1, ChainLinear
<1>11. Chain[c] \subseteq IndexedBlocks
  BY <1>9, IndexedIs
<1>12. block_hash_tree \subseteq IndexedBlocks'
  <2> SUFFICES ASSUME NEW b \in block_hash_tree PROVE b \in IndexedBlocks'
    OBVIOUS
  <2> DEFINE last == latest_block_tree.hash
  <2>1. b \in IndexedBlocks /\ Number[b] < from /\ Number[b] \in Nat
    BY <1>1 DEF ChainInv, HashesOneChain, TypeOK
  <2>2. last \in Blocks /\ b \in Chain[last] /\ c \in Chain[last]
    BY <1>9, <2>1, IndexedIs
  <2> HIDE DEF last
  <2>3. Number[b] <= Number[c] /\ Number[b] <= from - 1
    BY <1>2, <1>3, <2>1
  <2>4. b \in Chain[c]
    BY <2>2, <2>3, ChainLinear
  <2>5. b \in Chain[Parent[update_block]]
    BY <1>2, <1>4, <2>4, ChainTrans
  <2>6. QED
    BY <1>8, <2>3, <2>5
<1>13. HashesOneChain'
  BY <1>1, <1>3, <1>5, <1>6, <1>7, <1>12 DEF HashesOneChain, Pruning
<1>14. FetchesRange'
  BY <1>1 DEF ChainInv, FetchesRange, Pruning
<1>15. KeepsEvents'
  <2>1. ASSUME NEW b \in IndexedBlocks', NEW aa \in Touches[b] PROVE Kept(aa, b)'
    <3>1. b \in IndexedBlocks /\ Number[b] <= from - 1 /\ Number[b] \in Nat
      BY <1>8, <1>10, <1>11, IndexedIs
    <3>2. Number[b] < from
      BY <1>2, <3>1
    <3>3. Kept(aa, b)
      BY <3>1, <3>2, <2>1 DEF ChainInv, KeepsEvents
    <3>4. QED
      BY <1>1, <3>3 DEF Kept, InTrees
  <2>2. QED
    BY <1>1, <2>1 DEF ChainInv, KeepsEvents, OnePerNumber
<1>16. QED
  BY <1>13, <1>14, <1>15 DEF ChainInv

\* The steps of index_range up to the block hashes.
LEMMA FetchChain ==
    ASSUME TypeOK, OrderInv, FollowsNode, ChainInv, GetLogs \/ InsertPending \/ GetBlock
    PROVE  ChainInv'
<1> USE ChainAssumption, ConfigAssumption
<1>1. /\ UNCHANGED <<node, block_hash_tree, latest_block_tree, store, update_block, from, moved>>
      /\ pc \in {"index", "insert_pending", "get_block"}
      /\ pc' \in {"insert_pending", "get_block", "insert_last"}
  BY DEF GetLogs, InsertPending, GetBlock
<1>2. IndexedBlocks' = IndexedBlocks
  BY <1>1 DEF IndexedBlocks
<1>3. Indexing /\ Indexing' /\ ~ Pruning /\ ~ Pruning'
  BY <1>1 DEF Indexing, Pruning
<1>4. HashesOneChain'
  BY <1>1, <1>2, <1>3 DEF ChainInv, HashesOneChain
<1>5. /\ from \in Nat /\ to \in Nat /\ i \in Nat /\ head \in Blocks /\ update_block \in Blocks
      /\ Number[update_block] \in Nat /\ Chain[head] \subseteq Blocks
  BY <1>1, ChainType DEF TypeOK
<1>6. OnePerNumber(pending_modifications_tree) /\ OnePerNumber(Chain[head])
  BY <1>5, ChainOnePerNumber DEF ChainInv, KeepsEvents
<1>7. ASSUME NEW b \in IndexedBlocks, NEW aa \in Touches[b]
      PROVE  Kept(aa, b) /\ Number[b] < NextNumber /\ b \in Blocks
  BY <1>3, <1>7, IndexedIs DEF ChainInv, KeepsEvents
<1>8. CASE GetLogs
  <2>1. /\ pc = "index" /\ pc' = "insert_pending"
        /\ UNCHANGED <<pending_modifications_tree, block_hashes>>
        /\ to' = Min(from + MaxBlocksPerCall - 1, Number[update_block])
        /\ logs' = {b \in Chain[head] : Number[b] \in from..to' /\ Touches[b] # {}}
    BY <1>8 DEF GetLogs
  <2>2. to' <= Number[update_block]
    BY <1>5, <2>1 DEF Min
  <2>3. logs' = RangeEvents'
    BY <1>1, <2>1 DEF RangeEvents
  <2>4. FetchesRange'
    BY <1>1, <1>3, <2>1, <2>2, <2>3 DEF ChainInv, FetchesRange
  <2>5. KeepsEvents'
    BY <1>1, <1>2, <1>6, <1>7, <2>1 DEF KeepsEvents, OnePerNumber, Kept, InTrees
  <2>6. QED
    BY <1>4, <2>4, <2>5 DEF ChainInv
<1>9. CASE InsertPending
  <2>1. /\ pc = "insert_pending" /\ pc' = "get_block"
        /\ UNCHANGED <<to, block_hashes>> /\ logs' = {} /\ i' = from
        /\ pending_modifications_tree' = Upsert(pending_modifications_tree, logs)
    BY <1>9 DEF InsertPending
  <2>2. RangeEvents' = RangeEvents /\ logs = RangeEvents
    BY <1>1, <2>1 DEF RangeEvents, ChainInv, FetchesRange
  <2>3. FetchesRange'
    <3>1. \A n \in from'..(i' - 1) : HasKey(block_hashes', n)
      BY <1>1, <1>5, <2>1
    <3>2. QED
      BY <1>1, <1>3, <2>1, <3>1 DEF ChainInv, FetchesRange, Indexing
  <2>4. OnePerNumber(pending_modifications_tree')
    <3>1. logs \subseteq Chain[head]
      BY <2>2 DEF RangeEvents
    <3>2. QED
      BY <1>6, <2>1, <3>1 DEF OnePerNumber, Upsert, HasKey
  <2>5. from = NextNumber
    BY <2>1 DEF OrderInv, IndexesUpwards
  <2>6. ASSUME NEW b \in IndexedBlocks, NEW aa \in Touches[b] PROVE Kept(aa, b)'
    <3>1. Kept(aa, b) /\ Number[b] < from /\ Number[b] \in Nat
      BY <1>7, <2>5, <2>6
    <3>2. ~ HasKey(logs, Number[b])
      BY <1>5, <2>2, <3>1 DEF HasKey, RangeEvents
    <3>3. b \in pending_modifications_tree => b \in pending_modifications_tree'
      BY <2>1, <3>2 DEF Upsert
    <3>4. QED
      BY <1>1, <2>1, <3>1, <3>3 DEF Kept, InTrees
  <2>7. RangeEvents' \subseteq pending_modifications_tree'
    BY <2>1, <2>2 DEF Upsert
  <2>8. KeepsEvents'
    BY <1>2, <2>1, <2>4, <2>6, <2>7 DEF KeepsEvents, OnePerNumber
  <2>9. QED
    BY <1>4, <2>3, <2>8 DEF ChainInv
<1>10. CASE GetBlock
  <2>1. PICK b \in Chain[head] : Number[b] = i /\ block_hashes' = block_hashes \cup {b}
    BY <1>10 DEF GetBlock
  <2>2. /\ pc = "get_block" /\ UNCHANGED <<to, logs, pending_modifications_tree>>
        /\ \/ i = to /\ pc' = "insert_last"
           \/ i # to /\ pc' = "get_block" /\ i' = i + 1
    BY <1>10 DEF GetBlock
  <2>3. \A n \in from..i : HasKey(block_hashes', n)
    <3> SUFFICES ASSUME NEW n \in from..i PROVE HasKey(block_hashes', n)
      OBVIOUS
    <3>1. CASE n = i
      BY <2>1, <3>1 DEF HasKey
    <3>2. CASE n # i
      <4>1. n \in from..(i - 1)
        BY <1>5, <3>2
      <4>2. HasKey(block_hashes, n)
        BY <2>2, <4>1 DEF ChainInv, FetchesRange
      <4>3. QED
        BY <2>1, <4>2 DEF HasKey
    <3>3. QED
      BY <3>1, <3>2
  <2>4. FetchesRange'
    <3>1. pc' = "get_block" => \A n \in from..(i' - 1) : HasKey(block_hashes', n)
      BY <1>5, <2>2, <2>3
    <3>2. pc' = "insert_last" => \A n \in from..to : HasKey(block_hashes', n)
      BY <2>2, <2>3
    <3>3. block_hashes' \subseteq Chain[head]
      BY <2>1 DEF ChainInv, FetchesRange
    <3>4. QED
      BY <1>1, <1>3, <2>2, <3>1, <3>2, <3>3 DEF ChainInv, FetchesRange
  <2>5. RangeEvents' = RangeEvents
    BY <1>1, <2>2 DEF RangeEvents
  <2>6. KeepsEvents'
    BY <1>1, <1>2, <1>6, <1>7, <2>2, <2>5 DEF ChainInv, KeepsEvents, OnePerNumber, Kept, InTrees
  <2>7. QED
    BY <1>4, <2>4, <2>6 DEF ChainInv
<1>11. QED
  BY <1>8, <1>9, <1>10

\* The last indexed block is recorded; its chain's events are all there.
LEMMA InsertLastChain ==
    ASSUME TypeOK, OrderInv, FollowsNode, ChainInv, InsertLast
    PROVE  ChainInv'
<1> USE ChainAssumption
<1>1. PICK last \in block_hashes :
        Number[last] = to /\ latest_block_tree' = [number |-> to, hash |-> last]
  BY DEF InsertLast
<1>2. /\ UNCHANGED <<node, block_hash_tree, pending_modifications_tree, store, indexed, moved>>
      /\ pc = "insert_last" /\ pc' = "write_hashes"
  BY DEF InsertLast
<1>3. Indexing /\ Indexing' /\ ~ Pruning /\ ~ Pruning'
  BY <1>2 DEF Indexing, Pruning
<1>4. /\ last \in Chain[head] /\ head \in Blocks /\ to \in Nat /\ last \in Blocks /\ from \in Nat
      /\ from = NextNumber /\ from <= to
  BY <1>2 DEF ChainInv, FetchesRange, TypeOK, OrderInv, IndexesUpwards
<1>5. latest_block_tree' # None
  <2>1. latest_block_tree' \in [number : Nat, hash : Blocks]
    BY <1>1, <1>4
  <2>2. QED
    BY <2>1
<1>6. latest_block_tree'.number = to /\ latest_block_tree'.hash = last
  BY <1>1
<1>7. IndexedBlocks' = {b \in Chain[last] : Number[b] <= to}
  BY <1>5, <1>6 DEF IndexedBlocks
<1>8. \A b \in Chain[head] : b \in Blocks /\ Number[b] \in Nat
  BY <1>4, ChainNumber
<1>9. IndexedBlocks \subseteq IndexedBlocks'
  <2> SUFFICES ASSUME NEW b \in IndexedBlocks PROVE b \in IndexedBlocks'
    OBVIOUS
  <2>1. b \in Chain[head] /\ Number[b] < from /\ Number[b] \in Nat
    BY <1>3, <1>4, <1>8, IndexedCanonical DEF ChainInv
  <2>2. Number[b] <= to /\ Number[b] <= Number[last]
    BY <1>1, <1>4, <2>1
  <2>3. QED
    BY <1>4, <1>7, <2>1, <2>2, ChainLinear
<1>10. HashesOneChain'
  <2>1. latest_block_tree'.number <= Number[latest_block_tree'.hash]
        /\ latest_block_tree'.hash \in Chain[head']
    BY <1>1, <1>2, <1>4, <1>6
  <2>2. block_hash_tree' \subseteq IndexedBlocks'
    BY <1>2, <1>9 DEF ChainInv, HashesOneChain
  <2>3. QED
    BY <1>3, <2>1, <2>2 DEF HashesOneChain
<1>11. RangeEvents' = RangeEvents
  BY <1>2 DEF RangeEvents
<1>12. FetchesRange'
  BY <1>2, <1>3 DEF ChainInv, FetchesRange
<1>13. KeepsEvents'
  <2>1. ASSUME NEW b \in IndexedBlocks', NEW aa \in Touches[b] PROVE Kept(aa, b)'
    <3>1. b \in Chain[head] /\ Number[b] <= to /\ Number[b] \in Nat
      BY <1>4, <1>7, <1>8, ChainTrans
    <3>2. CASE Number[b] < from
      <4>1. b \in IndexedBlocks
        BY <1>3, <1>4, <3>1, <3>2, IndexedCanonical DEF ChainInv
      <4>2. Kept(aa, b)
        BY <1>3, <2>1, <4>1 DEF ChainInv, KeepsEvents
      <4>3. QED
        BY <1>2, <4>2 DEF Kept, InTrees
    <3>3. CASE ~ (Number[b] < from)
      <4>1. Number[b] \in from..to
        BY <1>4, <3>1, <3>3
      <4>2. b \in RangeEvents
        BY <2>1, <3>1, <4>1 DEF RangeEvents
      <4>3. b \in pending_modifications_tree
        BY <1>2, <4>2 DEF ChainInv, KeepsEvents
      <4>4. PICK c \in block_hashes : Number[c] = Number[b]
        BY <1>2, <4>1 DEF ChainInv, FetchesRange, HasKey
      <4>5. c \in Chain[head]
        BY DEF ChainInv, FetchesRange
      <4>6. c = b
        BY <1>4, <3>1, <4>4, <4>5, ChainOnePerNumber DEF OnePerNumber
      <4>7. QED
        BY <1>2, <4>3, <4>4, <4>6 DEF Kept, InTrees
    <3>4. QED
      BY <3>2, <3>3
  <2>2. QED
    BY <1>2, <1>11, <2>1 DEF ChainInv, KeepsEvents, OnePerNumber
<1>14. QED
  BY <1>10, <1>12, <1>13 DEF ChainInv

\* The fetched hashes come on top of block_hash_tree.
LEMMA WriteHashesChain ==
    ASSUME TypeOK, OrderInv, FollowsNode, ChainInv, WriteHashes
    PROVE  ChainInv'
<1> USE ChainAssumption
<1>1. /\ UNCHANGED <<node, pending_modifications_tree, latest_block_tree, store, update_block,
                     from, to, i, logs, moved>>
      /\ pc = "write_hashes" /\ pc' = "get_tag" /\ block_hashes' = {}
      /\ block_hash_tree' = Upsert(block_hash_tree, block_hashes)
  BY DEF WriteHashes
<1>2. Indexing /\ Indexing' /\ ~ Pruning /\ ~ Pruning'
  BY <1>1 DEF Indexing, Pruning
<1>3. IndexedBlocks' = IndexedBlocks
  BY <1>1 DEF IndexedBlocks
<1>4. /\ \A b \in block_hash_tree : Number[b] < from
      /\ \A b \in block_hashes : Number[b] \in from..to
      /\ NextNumber = to + 1 /\ from \in Nat /\ to \in Nat
  BY <1>1 DEF OrderInv, IndexesUpwards, TypeOK
<1>5. block_hash_tree' = block_hash_tree \cup block_hashes
  <2>1. \A b \in block_hash_tree : ~ HasKey(block_hashes, Number[b])
    <3>1. \A b \in block_hash_tree : Number[b] \in Nat
      BY DEF TypeOK
    <3>2. QED
      BY <1>4, <3>1 DEF HasKey
  <2>2. QED
    BY <1>1, <2>1 DEF Upsert
<1>6. block_hashes \subseteq IndexedBlocks
  <2> SUFFICES ASSUME NEW b \in block_hashes PROVE b \in IndexedBlocks
    OBVIOUS
  <2>1. b \in Chain[head] /\ Number[b] < NextNumber
    BY <1>4 DEF ChainInv, FetchesRange, TypeOK
  <2>2. QED
    BY <1>2, <2>1, IndexedCanonical DEF ChainInv
<1>7. HashesOneChain'
  BY <1>1, <1>2, <1>3, <1>5, <1>6 DEF ChainInv, HashesOneChain
<1>8. FetchesRange'
  BY <1>1, <1>2 DEF ChainInv, FetchesRange
<1>9. KeepsEvents'
  <2>1. ASSUME NEW b \in IndexedBlocks, NEW aa \in Touches[b] PROVE Kept(aa, b)'
    <3>1. Kept(aa, b)
      BY <1>2, <2>1 DEF ChainInv, KeepsEvents
    <3>2. QED
      BY <1>1, <1>5, <3>1 DEF Kept, InTrees
  <2>2. QED
    BY <1>1, <1>3, <2>1 DEF ChainInv, KeepsEvents, OnePerNumber
<1>10. QED
  BY <1>7, <1>8, <1>9 DEF ChainInv

\* The next chunk, or the end of sync.
LEMMA IndexRangeReturnsChain ==
    ASSUME TypeOK, OrderInv, ChainInv, IndexRangeReturns, UNCHANGED <<head, trees>>,
           pc \in {"get_tag", "apply"}, popped = NothingPopped
    PROVE  ChainInv'
<1>1. CASE to = Number[update_block]
  BY <1>1, DropLocalsChain DEF IndexRangeReturns, SyncReturns, Waiting, AwaitPoints
<1>2. CASE to # Number[update_block]
  <2>1. /\ pc' = "index" /\ popped' = popped /\ block_hashes' = {} /\ logs' = {}
        /\ UNCHANGED update_block
    BY <1>2 DEF IndexRangeReturns
  <2>2. IndexedBlocks' = IndexedBlocks
    BY DEF IndexedBlocks
  <2>3. FetchesRange'
    BY <2>1 DEF FetchesRange, Pruning
  <2>4. HashesOneChain'
    BY <2>1, <2>2 DEF ChainInv, HashesOneChain, Indexing, Pruning
  <2>5. KeepsEvents'
    BY <2>1, <2>2 DEF ChainInv, KeepsEvents, OnePerNumber, Pruning, Kept, InTrees
  <2>6. QED
    BY <2>3, <2>4, <2>5 DEF ChainInv
<1>3. QED
  BY <1>1, <1>2

\* Steps of move_pending_modifications_to_store that move nothing.
LEMMA MoveFrameChain ==
    ASSUME TypeOK, OrderInv, ChainInv, GetTag \/ PruneToDone \/ IndexRangeDone
    PROVE  ChainInv'
<1>1. CASE PruneToDone \/ (GetTag /\ ~ IndexRangeReturns)
  <2>1. /\ UNCHANGED <<head, trees, indexed, popped>>
        /\ pc \in {"get_tag", "prune_to"} /\ pc' \in {"prune_to", "apply"}
    BY <1>1 DEF PruneToDone, GetTag
  <2>2. IndexedBlocks' = IndexedBlocks
    BY <2>1 DEF IndexedBlocks
  <2>3. FetchesRange'
    BY <2>1 DEF ChainInv, FetchesRange, Pruning, Indexing
  <2>4. HashesOneChain'
    BY <2>1, <2>2 DEF ChainInv, HashesOneChain, Indexing, Pruning
  <2>5. KeepsEvents'
    BY <2>1, <2>2 DEF ChainInv, KeepsEvents, OnePerNumber, Pruning, Kept, InTrees
  <2>6. QED
    BY <2>3, <2>4, <2>5 DEF ChainInv
<1>2. CASE IndexRangeDone \/ (GetTag /\ IndexRangeReturns)
  <2>1. IndexRangeReturns /\ UNCHANGED <<head, trees>> /\ pc \in {"get_tag", "apply"}
    BY <1>2 DEF IndexRangeDone, GetTag
  <2>2. popped = NothingPopped
    BY <1>2 DEF IndexRangeDone, GetTag, OrderInv, MovesInOrder
  <2>3. QED
    BY <2>1, <2>2, IndexRangeReturnsChain
<1>3. QED
  BY <1>1, <1>2

\* The hash that prune_to pops leaves its key behind.
LEMMA PruneToPopChain ==
    ASSUME TypeOK, OrderInv, ChainInv, PruneToPop
    PROVE  ChainInv'
<1>1. PICK b \in block_hash_tree : block_hash_tree' = block_hash_tree \ {b} /\ key' = Number[b]
  BY DEF PruneToPop
<1>2. /\ UNCHANGED <<head, pending_modifications_tree, latest_block_tree, store, indexed, popped>>
      /\ pc = "prune_to" /\ pc' = "prune_to_pending"
  BY DEF PruneToPop
<1>3. IndexedBlocks' = IndexedBlocks
  BY <1>2 DEF IndexedBlocks
<1>4. FetchesRange'
  BY <1>2 DEF ChainInv, FetchesRange, Pruning, Indexing
<1>5. HashesOneChain'
  BY <1>1, <1>2, <1>3 DEF ChainInv, HashesOneChain, Indexing, Pruning
<1>6. ASSUME NEW c \in IndexedBlocks, NEW aa \in Touches[c] PROVE Kept(aa, c)'
  <2>1. Kept(aa, c)
    BY <1>2, <1>6 DEF ChainInv, KeepsEvents, Pruning
  <2>2. InTrees(c) => InTrees(c)'
    BY <1>1, <1>2 DEF InTrees
  <2>3. QED
    BY <1>2, <2>1, <2>2 DEF Kept
<1>7. KeepsEvents'
  BY <1>2, <1>3, <1>6 DEF ChainInv, KeepsEvents, OnePerNumber
<1>8. QED
  BY <1>4, <1>5, <1>7 DEF ChainInv

\* The elements of a sequence that something was appended to.
LEMMA AppendHolds ==
    ASSUME NEW s \in Seq(Blocks), NEW b \in Blocks
    PROVE  /\ \A n \in DOMAIN s : \E m \in DOMAIN Append(s, b) : Append(s, b)[m] = s[n]
           /\ \E n \in DOMAIN Append(s, b) : Append(s, b)[n] = b
           /\ \A n \in DOMAIN Append(s, b) :
                \/ Append(s, b)[n] = b
                \/ \E m \in DOMAIN s : Append(s, b)[n] = s[m]
<1>1. Len(Append(s, b)) = Len(s) + 1 /\ Append(s, b)[Len(s) + 1] = b
      /\ \A n \in 1..Len(s) : Append(s, b)[n] = s[n]
  BY AppendProperties
<1>2. DOMAIN s = 1..Len(s) /\ DOMAIN Append(s, b) = 1..(Len(s) + 1) /\ Len(s) \in Nat
  BY <1>1, AppendProperties, LenProperties
<1>3. /\ \A n \in 1..Len(s) : n \in 1..(Len(s) + 1)
      /\ Len(s) + 1 \in 1..(Len(s) + 1)
      /\ \A n \in 1..(Len(s) + 1) : n \in 1..Len(s) \/ n = Len(s) + 1
  BY <1>2
<1>4. QED
  BY <1>1, <1>2, <1>3

LEMMA ConcatHolds ==
    ASSUME NEW s \in Seq(Blocks), NEW t \in Seq(Blocks)
    PROVE  /\ \A n \in DOMAIN s : \E m \in DOMAIN (s \o t) : (s \o t)[m] = s[n]
           /\ \A n \in DOMAIN t : \E m \in DOMAIN (s \o t) : (s \o t)[m] = t[n]
           /\ \A m \in DOMAIN (s \o t) :
                \/ \E n \in DOMAIN s : (s \o t)[m] = s[n]
                \/ \E n \in DOMAIN t : (s \o t)[m] = t[n]
<1>1. Len(s \o t) = Len(s) + Len(t)
      /\ \A n \in 1..(Len(s) + Len(t)) :
            (s \o t)[n] = IF n <= Len(s) THEN s[n] ELSE t[n - Len(s)]
  BY ConcatProperties
<1>2. /\ DOMAIN s = 1..Len(s) /\ DOMAIN t = 1..Len(t) /\ Len(s) \in Nat /\ Len(t) \in Nat
      /\ DOMAIN (s \o t) = 1..(Len(s) + Len(t))
  BY <1>1, ConcatProperties, LenProperties
<1>3. ASSUME NEW n \in DOMAIN s PROVE \E m \in DOMAIN (s \o t) : (s \o t)[m] = s[n]
  <2>1. n \in 1..(Len(s) + Len(t)) /\ n <= Len(s)
    BY <1>2
  <2>2. QED
    BY <1>1, <1>2, <2>1
<1>4. ASSUME NEW n \in DOMAIN t PROVE \E m \in DOMAIN (s \o t) : (s \o t)[m] = t[n]
  <2>1. /\ n + Len(s) \in 1..(Len(s) + Len(t)) /\ ~ (n + Len(s) <= Len(s))
        /\ n + Len(s) - Len(s) = n
    BY <1>2
  <2>2. (s \o t)[n + Len(s)] = t[n]
    BY <1>1, <2>1
  <2>3. QED
    BY <1>2, <2>1, <2>2
<1>5. ASSUME NEW m \in DOMAIN (s \o t)
      PROVE  \/ \E n \in DOMAIN s : (s \o t)[m] = s[n]
             \/ \E n \in DOMAIN t : (s \o t)[m] = t[n]
  <2>1. CASE m <= Len(s)
    <3>1. m \in DOMAIN s
      BY <1>2, <2>1
    <3>2. QED
      BY <1>1, <1>2, <2>1, <3>1
  <2>2. CASE ~ (m <= Len(s))
    <3>1. m - Len(s) \in DOMAIN t
      BY <1>2, <2>2
    <3>2. QED
      BY <1>1, <1>2, <2>2, <3>1
  <2>3. QED
    BY <2>1, <2>2
<1>6. QED
  BY <1>3, <1>4, <1>5

\* The modifications under the popped key go with it.
LEMMA PruneToPendingChain ==
    ASSUME TypeOK, OrderInv, ChainInv, PruneToPending
    PROVE  ChainInv'
<1> USE ChainAssumption
<1>1. /\ UNCHANGED <<head, block_hash_tree, latest_block_tree, store, indexed>>
      /\ pc = "prune_to_pending" /\ pc' = "prune_to"
      /\ pending_modifications_tree' \subseteq pending_modifications_tree
  BY DEF PruneToPending
<1>2. IndexedBlocks' = IndexedBlocks
  BY <1>1 DEF IndexedBlocks
<1>3. FetchesRange'
  BY <1>1 DEF ChainInv, FetchesRange, Pruning, Indexing
<1>4. HashesOneChain'
  BY <1>1, <1>2 DEF ChainInv, HashesOneChain, Indexing, Pruning
<1>5. OnePerNumber(pending_modifications_tree)
      /\ popped \in [Adopters -> Seq(Blocks)] /\ pending_modifications_tree \subseteq Blocks
  BY DEF ChainInv, KeepsEvents, TypeOK
<1>6. ASSUME NEW c \in IndexedBlocks, NEW aa \in Touches[c] PROVE Kept(aa, c)'
  <2>1. Kept(aa, c)
    BY <1>1, <1>6 DEF ChainInv, KeepsEvents, Pruning
  <2>2. aa \in Adopters
    BY <1>6, IndexedIs
  <2>3. CASE ~ HasKey(pending_modifications_tree, key)
    <3>1. UNCHANGED <<pending_modifications_tree, popped>>
      BY <2>3 DEF PruneToPending
    <3>2. InTrees(c) => InTrees(c)'
      <4>1. c \in pending_modifications_tree => Number[c] # key
        BY <2>3 DEF HasKey
      <4>2. QED
        BY <1>1, <3>1, <4>1 DEF InTrees
    <3>3. QED
      BY <1>1, <2>1, <3>1, <3>2 DEF Kept
  <2>4. CASE HasKey(pending_modifications_tree, key)
    <3>1. PICK b \in pending_modifications_tree :
            /\ Number[b] = key
            /\ pending_modifications_tree' = pending_modifications_tree \ {b}
            /\ popped' = [x \in Adopters |->
                            IF x \in Touches[b] THEN Append(popped[x], b) ELSE popped[x]]
      BY <2>4 DEF PruneToPending
    <3>2. popped[aa] \in Seq(Blocks) /\ b \in Blocks
      BY <1>5, <2>2
    <3>3. \/ popped'[aa] = popped[aa] /\ aa \notin Touches[b]
          \/ popped'[aa] = Append(popped[aa], b)
      BY <2>2, <3>1
    <3>4. (\E n \in DOMAIN popped[aa] : popped[aa][n] = c)
            => \E n \in DOMAIN popped'[aa] : popped'[aa][n] = c
      <4>1. \A n \in DOMAIN popped[aa] : \E m \in DOMAIN Append(popped[aa], b) :
                Append(popped[aa], b)[m] = popped[aa][n]
        BY <3>2, AppendHolds
      <4>2. QED
        BY <3>3, <4>1, Zenon
    <3>5. ASSUME InTrees(c) PROVE Kept(aa, c)'
      <4>1. CASE c = b
        <5>1. \E n \in DOMAIN popped'[aa] : popped'[aa][n] = c
          BY <1>6, <3>2, <3>3, <4>1, AppendHolds
        <5>2. QED
          BY <5>1 DEF Kept
      <4>2. CASE c # b
        <5>1. Number[c] # key
          BY <1>5, <3>1, <3>5, <4>2 DEF InTrees, OnePerNumber
        <5>2. QED
          BY <1>1, <3>1, <3>5, <4>2, <5>1 DEF Kept, InTrees
      <4>3. QED
        BY <4>1, <4>2
    <3>6. QED
      BY <1>1, <2>1, <3>4, <3>5 DEF Kept
  <2>5. QED
    BY <2>3, <2>4
<1>7. KeepsEvents'
  BY <1>1, <1>2, <1>5, <1>6 DEF KeepsEvents, OnePerNumber
<1>8. QED
  BY <1>3, <1>4, <1>7 DEF ChainInv

LEMMA ApplyChain ==
    ASSUME TypeOK, OrderInv, ChainInv, NEW aa \in Adopters, Apply(aa)
    PROVE  ChainInv'
<1> USE ChainAssumption
<1>1. /\ UNCHANGED <<head, block_hash_tree, pending_modifications_tree, latest_block_tree, pc,
                     indexed, key>>
      /\ pc = "apply"
      /\ store' = [store EXCEPT ![aa] = @ \o popped[aa]]
      /\ popped' = [popped EXCEPT ![aa] = <<>>]
  BY DEF Apply
<1>2. IndexedBlocks' = IndexedBlocks
  BY <1>1 DEF IndexedBlocks
<1>3. FetchesRange'
  BY <1>1 DEF ChainInv, FetchesRange, Pruning, Indexing
<1>4. HashesOneChain'
  BY <1>1, <1>2 DEF ChainInv, HashesOneChain, Indexing, Pruning
<1>5. /\ store \in [Adopters -> Seq(Blocks)] /\ popped \in [Adopters -> Seq(Blocks)]
  BY DEF TypeOK
<1>6. ASSUME NEW c \in IndexedBlocks, NEW x \in Touches[c] PROVE Kept(x, c)'
  <2>1. Kept(x, c) /\ x \in Adopters
    BY <1>1, <1>6, IndexedIs DEF ChainInv, KeepsEvents, Pruning
  <2>2. InTrees(c) => InTrees(c)'
    BY <1>1 DEF InTrees
  <2>3. CASE x = aa
    <3>1. store'[aa] = store[aa] \o popped[aa]
      BY <1>1, <1>5
    <3>2. store[aa] \in Seq(Blocks) /\ popped[aa] \in Seq(Blocks)
      BY <1>5
    <3>3. ASSUME \/ \E n \in DOMAIN store[aa] : store[aa][n] = c
                 \/ \E n \in DOMAIN popped[aa] : popped[aa][n] = c
          PROVE  \E n \in DOMAIN (store[aa] \o popped[aa]) : (store[aa] \o popped[aa])[n] = c
      <4>1. /\ \A n \in DOMAIN store[aa] : \E m \in DOMAIN (store[aa] \o popped[aa]) :
                  (store[aa] \o popped[aa])[m] = store[aa][n]
            /\ \A n \in DOMAIN popped[aa] : \E m \in DOMAIN (store[aa] \o popped[aa]) :
                  (store[aa] \o popped[aa])[m] = popped[aa][n]
        BY <3>2, ConcatHolds, Zenon
      <4>2. QED
        BY <3>3, <4>1, Zenon
    <3>4. QED
      BY <2>1, <2>2, <2>3, <3>1, <3>3 DEF Kept
  <2>4. CASE x # aa
    <3>1. store'[x] = store[x] /\ popped'[x] = popped[x]
      BY <1>1, <1>5, <2>1, <2>4
    <3>2. QED
      BY <2>1, <2>2, <3>1 DEF Kept
  <2>5. QED
    BY <2>3, <2>4
<1>7. KeepsEvents'
  BY <1>1, <1>2, <1>6 DEF ChainInv, KeepsEvents, OnePerNumber
<1>8. QED
  BY <1>3, <1>4, <1>7 DEF ChainInv

\* A new head: the range being indexed lies below it.
LEMMA AdvanceChainInv ==
    ASSUME TypeOK, FollowsNode, ChainInv, NEW b \in Blocks, Advance(b)
    PROVE  ChainInv'
<1> USE ChainAssumption
<1>1. UNCHANGED <<trees, pc, indexed, moved>> /\ head' = b
  BY DEF Advance
<1>2. /\ Chain[head] \subseteq Chain[head']
      /\ \A x \in Chain[head'] : Number[x] <= Number[head] => x \in Chain[head]
      /\ head \in Blocks
  BY AdvanceChain DEF TypeOK
<1>3. IndexedBlocks' = IndexedBlocks
  BY <1>1 DEF IndexedBlocks
<1>4. ASSUME Indexing, pc # "index" PROVE RangeEvents' = RangeEvents
  <2>1. to <= Number[update_block] /\ update_block \in Chain[head] /\ from \in Nat /\ to \in Nat
    BY <1>4 DEF ChainInv, FetchesRange, FollowsNode, Indexing, Waiting, TypeOK
  <2>2. Number[update_block] <= Number[head]
        /\ Number[update_block] \in Nat /\ Number[head] \in Nat
    BY <1>2, <2>1, ChainNumber
  <2>3. \A n \in from..to : n <= Number[head]
    BY <2>1, <2>2
  <2>4. QED
    BY <1>1, <1>2, <2>3 DEF RangeEvents
<1>5. FetchesRange'
  BY <1>1, <1>2, <1>4 DEF ChainInv, FetchesRange, Pruning, Indexing
<1>6. HashesOneChain'
  BY <1>1, <1>2, <1>3 DEF ChainInv, HashesOneChain, Pruning, Indexing, StrictAncestors
<1>7. KeepsEvents'
  BY <1>1, <1>3, <1>4 DEF ChainInv, KeepsEvents, OnePerNumber, Pruning, Indexing, Kept, InTrees
<1>8. QED
  BY <1>5, <1>6, <1>7 DEF ChainInv

\* A reorg while the indexer waits touches nothing it relies on.
LEMMA ReorgChainInv ==
    ASSUME ReorgWhen # "any", OrderInv, ChainInv, NEW b \in Blocks, Reorg(b)
    PROVE  ChainInv'
<1>1. UNCHANGED <<trees, pc, indexed, moved>> /\ pc \in {"down", "recv"}
  BY DEF Reorg
<1>2. block_hashes = {} /\ logs = {}
  BY <1>1 DEF OrderInv, IndexesUpwards, ChainInv, FetchesRange
<1>3. IndexedBlocks' = IndexedBlocks
  BY <1>1 DEF IndexedBlocks
<1>4. FetchesRange'
  BY <1>1, <1>2 DEF FetchesRange, Pruning, Indexing
<1>5. HashesOneChain'
  BY <1>1, <1>3 DEF ChainInv, HashesOneChain, Pruning, Indexing
<1>6. KeepsEvents'
  BY <1>1, <1>3 DEF ChainInv, KeepsEvents, OnePerNumber, Pruning, Kept, InTrees
<1>7. QED
  BY <1>4, <1>5, <1>6 DEF ChainInv

LEMMA ChainInvStep ==
    ASSUME Calm, TypeOK, OrderInv, FollowsNode, ChainInv, [Next]_vars
    PROVE  ChainInv'
<1>1. CASE SyncToHead \/ Subscribe \/ Recv
  BY <1>1, OutsideChain DEF SyncToHead, Subscribe, Recv, Waiting
<1>2. CASE RecvLagged \/ SyncError \/ GetBlockMissing
  BY <1>2, DropLocalsChain DEF RecvLagged, SyncError, GetBlockMissing, GoDown, AwaitPoints, Waiting
<1>3. CASE Fail
  <2>1. pc \in AwaitPoints
    BY <1>3, ConfigAssumption DEF Fail, Calm, TypeOK
  <2>2. QED
    BY <1>3, <2>1, DropLocalsChain DEF Fail, GoDown, Waiting
<1>4. CASE SyncNothingToIndex
  BY <1>4, DropLocalsChain DEF SyncNothingToIndex, SyncReturns, AwaitPoints, Waiting
<1>5. CASE SyncFromGenesis \/ SyncSameChain \/ SyncReorg
  BY <1>5, SyncChain
<1>6. CASE PruneFromPop \/ PruneFromPending
  BY <1>6, PruneFromChain
<1>7. CASE InsertLastAncestor
  BY <1>7, InsertLastAncestorChain
<1>8. CASE GetLogs \/ InsertPending \/ GetBlock
  BY <1>8, FetchChain
<1>9. CASE InsertLast
  BY <1>9, InsertLastChain
<1>10. CASE WriteHashes
  BY <1>10, WriteHashesChain
<1>11. CASE GetTag \/ PruneToDone \/ IndexRangeDone
  BY <1>11, MoveFrameChain
<1>12. CASE PruneToPop
  BY <1>12, PruneToPopChain
<1>13. CASE PruneToPending
  BY <1>13, PruneToPendingChain
<1>14. CASE \E aa \in Adopters : Apply(aa)
  BY <1>14, ApplyChain
<1>15. CASE NodeStep
  <2>1. PICK b \in Blocks : Advance(b) \/ Reorg(b) \/ Finalize(b)
    BY <1>15 DEF NodeStep
  <2>2. CASE Finalize(b)
    BY <2>2, OutsideChain DEF Finalize
  <2>3. QED
    BY <2>1, <2>2, AdvanceChainInv, ReorgChainInv DEF Calm
<1>16. CASE RecvPending \/ UNCHANGED vars
  BY <1>16, OutsideChain DEF RecvPending, vars
<1>17. QED
  BY <1>1, <1>2, <1>3, <1>4, <1>5, <1>6, <1>7, <1>8, <1>9, <1>10, <1>11, <1>12, <1>13,
     <1>14, <1>15, <1>16 DEF Next, IndexerStep

LEMMA ChainInvariant == Calm => (Spec => []ChainInv)
<1> SUFFICES ASSUME Calm PROVE Spec => []ChainInv
  OBVIOUS
<1>1. TypeOK /\ OrderInv /\ FollowsNode /\ ChainInv /\ [Next]_vars => ChainInv'
  BY ChainInvStep
<1>2. Spec => []FollowsNode
  BY FollowsInvariant DEF Calm
<1>3. QED
  BY <1>1, <1>2, ChainInvInit, TypeCorrect, OrderInvariant, PTL DEF Spec

\* No event of an indexed block is lost between two updates, for any chain,
\* await tag and chunk size and any number of failed calls, if the chain does
\* not reorganise while an update is handled and the process dies only where
\* an awaited call fails.
THEOREM NoEventIsLost == Calm => (Spec => []NoEventLost)
<1> SUFFICES ASSUME Calm PROVE Spec => []NoEventLost
  OBVIOUS
<1>1. TypeOK /\ OrderInv /\ ChainInv => NoEventLost
  <2> SUFFICES ASSUME TypeOK, OrderInv, ChainInv, pc \in {"down", "recv"},
                      NEW b \in IndexedBlocks, NEW aa \in Touches[b]
               PROVE  \/ \E n \in DOMAIN store[aa] : store[aa][n] = b
                      \/ b \in pending_modifications_tree /\ b \in block_hash_tree
    BY DEF NoEventLost
  <2>1. Kept(aa, b)
    BY DEF ChainInv, KeepsEvents, Pruning
  <2>2. popped = NothingPopped
    BY DEF OrderInv, MovesInOrder
  <2>3. InTrees(b) => b \in pending_modifications_tree /\ b \in block_hash_tree
    BY DEF InTrees
  <2>4. DOMAIN popped[aa] = {}
    BY <2>2, IndexedIs, ChainAssumption DEF NothingPopped
  <2>5. QED
    BY <2>1, <2>3, <2>4 DEF Kept
<1>2. QED
  BY <1>1, ChainInvariant, TypeCorrect, OrderInvariant, PTL

(***************************************************************************)
(* The hash check_if_reorged compares with.  Without failures either, the  *)
(* range that follows an InsertLastAncestor is always indexed, and with it *)
(* the hash that step recorded, the update's parent, is replaced by that   *)
(* of the block it belongs to.                                             *)
(***************************************************************************)
Undisturbed == ReorgWhen # "any" /\ MaxFailures = 0

LastHashRight ==
    latest_block_tree # None =>
        \A b \in block_hash_tree :
            Number[b] = latest_block_tree.number => b = latest_block_tree.hash

RecordsHash ==
    /\ pc \in {"down", "subscribe", "recv", "sync", "get_tag", "prune_to", "prune_to_pending",
               "apply"} => LastHashRight
    /\ pc = "index" => LastHashRight \/ from <= Number[update_block]
    /\ pc = "write_hashes" =>
        /\ from <= to
        /\ \A b \in block_hashes : Number[b] = to => b = latest_block_tree.hash

\* The node has every block that index_range asks for.
LEMMA NothingMissing ==
    ASSUME TypeOK, OrderInv, FollowsNode, ChainInv
    PROVE  ~ GetBlockMissing
<1> SUFFICES ASSUME pc = "get_block" PROVE HasKey(Chain[head], i)
  BY DEF GetBlockMissing
<1>1. /\ update_block \in Chain[head] /\ head \in Blocks
      /\ i \in from..to /\ to <= Number[update_block] /\ i \in Nat /\ from \in Nat /\ to \in Nat
  BY DEF FollowsNode, Waiting, TypeOK, OrderInv, IndexesUpwards, ChainInv, FetchesRange, Indexing
<1>2. /\ Number[update_block] \in Nat /\ Number[head] \in Nat
      /\ Number[update_block] <= Number[head]
  BY <1>1, ChainNumber, ChainAssumption
<1>3. i <= Number[head]
  BY <1>1, <1>2
<1>4. QED
  BY <1>1, <1>3, ChainHasNumber

LEMMA RecordsHashInit == Init => RecordsHash
BY DEF Init, RecordsHash, LastHashRight

LEMMA WriteHashesRecords ==
    ASSUME TypeOK, OrderInv, ChainInv, RecordsHash, WriteHashes
    PROVE  RecordsHash'
<1> DEFINE last == latest_block_tree
<1>1. /\ UNCHANGED latest_block_tree /\ pc' = "get_tag"
      /\ block_hash_tree' = Upsert(block_hash_tree, block_hashes)
  BY DEF WriteHashes
<1>2. /\ from \in Nat /\ to \in Nat /\ from <= to /\ NextNumber = to + 1
      /\ \A b \in block_hash_tree : Number[b] < from
      /\ \A b \in block_hashes : Number[b] = to => b = last.hash
  BY DEF WriteHashes, TypeOK, RecordsHash, OrderInv, IndexesUpwards
<1>3. ASSUME last # None PROVE last.number = to
  <2>1. last.number \in Nat /\ NextNumber = last.number + 1
    BY <1>3 DEF TypeOK, NextNumber
  <2>2. QED
    BY <1>2, <2>1
<1>4. ASSUME last # None, NEW b \in block_hash_tree', Number[b] = last.number
      PROVE  b = last.hash
  <2>1. b \in block_hash_tree \/ b \in block_hashes
    BY <1>1 DEF Upsert
  <2>2. b \notin block_hash_tree
    BY <1>2, <1>3, <1>4
  <2>3. QED
    BY <1>2, <1>3, <1>4, <2>1, <2>2
<1>5. LastHashRight'
  BY <1>1, <1>4 DEF LastHashRight
<1>6. QED
  BY <1>1, <1>5 DEF RecordsHash

LEMMA RecordsHashStep ==
    ASSUME Undisturbed, TypeOK, OrderInv, FollowsNode, ChainInv, RecordsHash, [Next]_vars
    PROVE  RecordsHash'
<1> DEFINE Still == UNCHANGED <<block_hash_tree, latest_block_tree>>
<1>1. Still => LastHashRight' = LastHashRight
  BY DEF LastHashRight
<1>2. CASE SyncToHead \/ Subscribe \/ Recv \/ RecvLagged \/ SyncError \/ RecvPending
  BY <1>2 DEF SyncToHead, Subscribe, Recv, RecvLagged, SyncError, RecvPending, GoDown, vars,
              RecordsHash, LastHashRight, trees
<1>3. CASE SyncFromGenesis \/ SyncSameChain \/ SyncReorg
  BY <1>3 DEF SyncFromGenesis, SyncSameChain, SyncReorg, Continue, RecordsHash, LastHashRight,
              trees
<1>4. CASE PruneFromPop \/ PruneFromPending
  BY <1>4 DEF PruneFromPop, PruneFromPending, RecordsHash
<1>5. CASE InsertLastAncestor
  <2>1. from <= Number[update_block]
    BY <1>5 DEF InsertLastAncestor, ChainInv, FetchesRange, Pruning
  <2>2. QED
    BY <1>5, <2>1 DEF InsertLastAncestor, RecordsHash, indexed
<1>6. CASE SyncNothingToIndex
  <2>1. LastHashRight
    <3>1. Number[update_block] \in Nat /\ from \in Nat /\ from > Number[update_block]
      BY <1>6, ChainAssumption DEF SyncNothingToIndex, TypeOK
    <3>2. QED
      BY <1>6, <3>1 DEF SyncNothingToIndex, RecordsHash
  <2>2. QED
    BY <1>1, <1>6, <2>1 DEF SyncNothingToIndex, SyncReturns, RecordsHash, trees
<1>7. CASE GetLogs \/ InsertPending \/ GetBlock
  BY <1>7 DEF GetLogs, InsertPending, GetBlock, RecordsHash
<1>8. CASE InsertLast
  <2>1. PICK b \in block_hashes :
          Number[b] = to /\ latest_block_tree' = [number |-> to, hash |-> b]
    BY <1>8 DEF InsertLast
  <2>2. \A c \in block_hashes : Number[c] = to => c = b
    BY <2>1 DEF OrderInv, MovesInOrder, OnePerNumber
  <2>3. from <= to
    BY <1>8 DEF InsertLast, OrderInv, IndexesUpwards
  <2>4. QED
    BY <1>8, <2>1, <2>2, <2>3 DEF InsertLast, RecordsHash, indexed
<1>9. CASE WriteHashes
  BY <1>9, WriteHashesRecords
<1>10. CASE GetTag \/ PruneToDone \/ IndexRangeDone
  <2>1. Still /\ pc \in {"get_tag", "prune_to", "apply"}
        /\ pc' \in {"recv", "subscribe", "index", "prune_to", "apply"}
    BY <1>10 DEF GetTag, PruneToDone, IndexRangeDone, IndexRangeReturns, SyncReturns, trees
  <2>2. QED
    BY <1>1, <2>1 DEF RecordsHash
<1>11. CASE PruneToPop
  BY <1>11 DEF PruneToPop, RecordsHash, LastHashRight
<1>12. CASE PruneToPending \/ \E aa \in Adopters : Apply(aa)
  <2>1. Still /\ pc \in {"prune_to_pending", "apply"} /\ pc' \in {"prune_to", "apply"}
    BY <1>12 DEF PruneToPending, Apply
  <2>2. QED
    BY <1>1, <2>1 DEF RecordsHash
<1>13. CASE NodeStep \/ UNCHANGED vars
  <2>1. UNCHANGED <<trees, pc, indexed>>
    BY <1>13 DEF NodeStep, Advance, Reorg, Finalize, vars
  <2>2. QED
    BY <1>1, <2>1 DEF RecordsHash, trees, indexed
<1>14. ~ Fail /\ ~ GetBlockMissing
  BY NothingMissing DEF Fail, TypeOK, Undisturbed
<1>15. QED
  BY <1>2, <1>3, <1>4, <1>5, <1>6, <1>7, <1>8, <1>9, <1>10, <1>11, <1>12, <1>13, <1>14
     DEF Next, IndexerStep

LEMMA UndisturbedInvariant == Undisturbed => (Spec => [](FollowsNode /\ ChainInv))
<1> SUFFICES ASSUME Undisturbed PROVE Spec => [](FollowsNode /\ ChainInv)
  OBVIOUS
<1>1. Spec => []FollowsNode
  BY FollowsInvariant DEF Undisturbed
<1>2. Spec => []ChainInv
  BY ChainInvariant DEF Undisturbed, Calm
<1>3. QED
  BY <1>1, <1>2, PTL

\* check_if_reorged reports no reorg for an update that extends what was
\* indexed, for any chain, await tag and chunk size, while no call fails and
\* the chain does not reorganise while an update is handled.
THEOREM ReorgsAreReal == Undisturbed => (Spec => []NoFalseReorg)
<1> SUFFICES ASSUME Undisturbed PROVE Spec => []NoFalseReorg
  OBVIOUS
<1>1. TypeOK /\ RecordsHash => NoFalseReorg
  <2> DEFINE last == latest_block_tree
  <2> SUFFICES ASSUME TypeOK, RecordsHash, pc = "sync", last # None,
                      NEW x \in ComparedWith(last), x \in block_hash_tree
               PROVE  ComparedWith(last) = {last.hash}
    BY DEF NoFalseReorg
  <2>1. update_block \in Blocks
    BY DEF TypeOK
  <2>2. \A c \in ComparedWith(last) : c \in Chain[update_block] /\ Number[c] = last.number
    BY <2>1, ChainSelf DEF ComparedWith, StrictAncestors
  <2>3. x = last.hash
    BY <2>2 DEF RecordsHash, LastHashRight
  <2>4. \A c \in ComparedWith(last) : c = x
    BY <2>1, <2>2, ChainOnePerNumber DEF OnePerNumber
  <2>5. QED
    BY <2>3, <2>4
<1>2. TypeOK /\ OrderInv /\ FollowsNode /\ ChainInv /\ RecordsHash /\ [Next]_vars => RecordsHash'
  BY RecordsHashStep
<1>3. Spec => [](FollowsNode /\ ChainInv)
  BY UndisturbedInvariant
<1>4. QED
  BY <1>1, <1>2, <1>3, RecordsHashInit, TypeCorrect, OrderInvariant, PTL DEF Spec

(***************************************************************************)
(* What is pending.  The events in pending_modifications_tree belong to    *)
(* blocks whose hash is in block_hash_tree, was just popped off it, or is  *)
(* about to be written to it, so that pruning one tree prunes the other.   *)
(***************************************************************************)
Settled(b) ==
    \/ b \in block_hash_tree
    \/ pc = "prune_from_pending" /\ Number[b] = key
    \/ pc = "prune_to_pending" /\ Number[b] = key /\ b \in Chain[head]
    \/ /\ pc \in {"get_block", "insert_last", "write_hashes"}
       /\ b \in Chain[head] /\ Number[b] \in from..to

PendingSettled == \A b \in pending_modifications_tree : Settled(b)

\* While index_range runs, what is pending is canonical.
LEMMA PendingCanonical ==
    ASSUME TypeOK, HashesOneChain, PendingSettled, Indexing
    PROVE  \A b \in block_hash_tree \cup pending_modifications_tree : b \in Chain[head]
<1>1. \A b \in block_hash_tree : b \in Chain[head]
  BY IndexedCanonical DEF HashesOneChain
<1>2. QED
  BY <1>1 DEF PendingSettled, Settled, Indexing

\* Steps that change neither tree and leave no key behind.
LEMMA SettledFrame ==
    ASSUME PendingSettled, UNCHANGED <<block_hash_tree, pending_modifications_tree>>,
           pc \notin {"prune_from_pending", "prune_to_pending", "get_block", "insert_last",
                      "write_hashes"}
    PROVE  PendingSettled'
BY DEF PendingSettled, Settled

LEMMA WriteHashesSettled ==
    ASSUME TypeOK, OrderInv, ChainInv, PendingSettled, WriteHashes
    PROVE  PendingSettled'
<1>1. /\ UNCHANGED pending_modifications_tree
      /\ block_hash_tree' = Upsert(block_hash_tree, block_hashes)
      /\ pc = "write_hashes"
  BY DEF WriteHashes
<1>2. /\ from \in Nat /\ to \in Nat /\ head \in Blocks
      /\ \A b \in block_hash_tree : Number[b] < from
      /\ \A b \in block_hashes : Number[b] \in from..to
      /\ block_hashes \subseteq Chain[head]
      /\ \A n \in from..to : HasKey(block_hashes, n)
  BY <1>1 DEF TypeOK, OrderInv, IndexesUpwards, ChainInv, FetchesRange
<1>3. ASSUME NEW b \in pending_modifications_tree PROVE b \in block_hash_tree'
  <2>1. CASE b \in block_hash_tree
    <3>1. ~ HasKey(block_hashes, Number[b])
      BY <1>2, <2>1 DEF HasKey
    <3>2. QED
      BY <1>1, <2>1, <3>1 DEF Upsert
  <2>2. CASE b \in Chain[head] /\ Number[b] \in from..to
    <3>1. PICK c \in block_hashes : Number[c] = Number[b]
      BY <1>2, <2>2 DEF HasKey
    <3>2. c = b
      BY <1>2, <2>2, <3>1, ChainOnePerNumber DEF OnePerNumber
    <3>3. QED
      BY <1>1, <3>2 DEF Upsert
  <2>3. QED
    BY <1>1, <1>3, <2>1, <2>2 DEF PendingSettled, Settled
<1>4. QED
  BY <1>1, <1>3 DEF PendingSettled, Settled

LEMMA SettledStep ==
    ASSUME Undisturbed, TypeOK, OrderInv, FollowsNode, ChainInv, PendingSettled, [Next]_vars
    PROVE  PendingSettled'
<1>1. CASE \/ SyncToHead \/ Subscribe \/ Recv \/ RecvLagged \/ SyncError
           \/ SyncFromGenesis \/ SyncSameChain \/ SyncReorg
  BY <1>1, SettledFrame DEF SyncToHead, Subscribe, Recv, RecvLagged, SyncError, GoDown,
              SyncFromGenesis, SyncSameChain, SyncReorg, Continue, trees
<1>2. CASE PruneFromPop
  BY <1>2 DEF PruneFromPop, PendingSettled, Settled
<1>3. CASE PruneFromPending
  BY <1>3 DEF PruneFromPending, PendingSettled, Settled
<1>4. CASE InsertLastAncestor \/ SyncNothingToIndex \/ GetLogs
  BY <1>4, SettledFrame DEF InsertLastAncestor, SyncNothingToIndex, GetLogs, trees
<1>5. CASE InsertPending
  <2>1. pc' = "get_block" /\ UNCHANGED <<head, block_hash_tree, from, to>>
        /\ pending_modifications_tree' = Upsert(pending_modifications_tree, RangeEvents)
        /\ pc = "insert_pending"
    BY <1>5 DEF InsertPending, ChainInv, FetchesRange, node
  <2>2. \A b \in pending_modifications_tree : b \in block_hash_tree
    BY <2>1 DEF PendingSettled, Settled
  <2>3. QED
    BY <2>1, <2>2 DEF PendingSettled, Settled, Upsert, RangeEvents
<1>6. CASE GetBlock \/ InsertLast
  <2>1. /\ UNCHANGED <<head, block_hash_tree, pending_modifications_tree, from, to>>
        /\ pc \in {"get_block", "insert_last"}
        /\ pc' \in {"get_block", "insert_last", "write_hashes"}
    BY <1>6 DEF GetBlock, InsertLast, node, trees, indexed
  <2>2. QED
    BY <2>1 DEF PendingSettled, Settled
<1>7. CASE WriteHashes
  BY <1>7, WriteHashesSettled
<1>8. CASE GetTag \/ PruneToDone \/ IndexRangeDone
  BY <1>8, SettledFrame DEF GetTag, PruneToDone, IndexRangeDone, trees
<1>9. CASE \E aa \in Adopters : Apply(aa)
  BY <1>9, SettledFrame DEF Apply
<1>10. CASE PruneToPop
  <2>1. pc = "prune_to" /\ Indexing
    BY <1>10 DEF PruneToPop, Indexing
  <2>2. \A b \in pending_modifications_tree : b \in Chain[head]
    BY <2>1, PendingCanonical DEF ChainInv
  <2>3. QED
    BY <1>10, <2>1, <2>2 DEF PruneToPop, PendingSettled, Settled, node
<1>11. CASE PruneToPending
  <2>1. pc = "prune_to_pending" /\ UNCHANGED block_hash_tree
    BY <1>11 DEF PruneToPending
  <2>2. \A b \in pending_modifications_tree' : b \in pending_modifications_tree /\ Number[b] # key
    BY <1>11 DEF PruneToPending, HasKey, ChainInv, KeepsEvents, OnePerNumber
  <2>3. QED
    BY <2>1, <2>2 DEF PendingSettled, Settled
<1>12. CASE NodeStep
  <2>1. PICK b \in Blocks : Advance(b) \/ Reorg(b) \/ Finalize(b)
    BY <1>12 DEF NodeStep
  <2>2. UNCHANGED <<block_hash_tree, pending_modifications_tree, pc, key, from, to>>
    BY <2>1 DEF Advance, Reorg, Finalize, trees, moved, indexed
  <2>3. CASE Advance(b)
    <3>1. Chain[head] \subseteq Chain[head']
      BY <2>3, AdvanceChain DEF TypeOK
    <3>2. QED
      BY <2>2, <3>1 DEF PendingSettled, Settled
  <2>4. CASE Reorg(b)
    BY <2>2, <2>4, SettledFrame DEF Reorg, Undisturbed
  <2>5. CASE Finalize(b)
    BY <2>2, <2>5 DEF Finalize, PendingSettled, Settled
  <2>6. QED
    BY <2>1, <2>3, <2>4, <2>5
<1>13. CASE RecvPending \/ UNCHANGED vars
  BY <1>13 DEF RecvPending, vars, node, trees, indexed, moved, PendingSettled, Settled
<1>14. ~ Fail /\ ~ GetBlockMissing
  BY NothingMissing DEF Fail, TypeOK, Undisturbed
<1>15. QED
  BY <1>1, <1>2, <1>3, <1>4, <1>5, <1>6, <1>7, <1>8, <1>9, <1>10, <1>11, <1>12, <1>13, <1>14
     DEF Next, IndexerStep

(***************************************************************************)
(* What is moved, for await_tag Finalized.                                 *)
(***************************************************************************)
AllIn(s, S) == \A n \in DOMAIN s : s[n] \in S

LEMMA AppendAllIn ==
    ASSUME NEW S, NEW s \in Seq(Blocks), NEW b \in Blocks, AllIn(s, S), b \in S
    PROVE  AllIn(Append(s, b), S)
<1>1. \A n \in DOMAIN Append(s, b) :
        \/ Append(s, b)[n] = b
        \/ \E m \in DOMAIN s : Append(s, b)[n] = s[m]
  BY AppendHolds
<1>2. QED
  BY <1>1, Zenon DEF AllIn

LEMMA ConcatAllIn ==
    ASSUME NEW S, NEW s \in Seq(Blocks), NEW t \in Seq(Blocks), AllIn(s, S), AllIn(t, S)
    PROVE  AllIn(s \o t, S)
<1>1. \A m \in DOMAIN (s \o t) :
        \/ \E n \in DOMAIN s : (s \o t)[m] = s[n]
        \/ \E n \in DOMAIN t : (s \o t)[m] = t[n]
  BY ConcatHolds
<1>2. QED
  BY <1>1, Zenon DEF AllIn

MovesFinalized ==
    /\ pc \in {"prune_to", "prune_to_pending"} => block_to_move <= Number[final]
    /\ pc = "prune_to_pending" => key <= Number[final]
    /\ \A aa \in Adopters : AllIn(store[aa], Chain[final]) /\ AllIn(popped[aa], Chain[final])

LEMMA FinalizedInit == Init => PendingSettled /\ MovesFinalized
BY DEF Init, PendingSettled, MovesFinalized, AllIn, NothingPopped

LEMMA FinalFrame ==
    ASSUME MovesFinalized, UNCHANGED <<final, store>>,
           popped' = popped \/ popped' = NothingPopped,
           pc' \notin {"prune_to", "prune_to_pending"}
    PROVE  MovesFinalized'
BY DEF MovesFinalized, AllIn, NothingPopped

LEMMA PruneToPendingFinal ==
    ASSUME TypeOK, FollowsNode, ChainInv, PendingSettled, MovesFinalized, PruneToPending
    PROVE  MovesFinalized'
<1> USE ChainAssumption
<1>1. /\ UNCHANGED <<final, store, block_to_move>> /\ pc = "prune_to_pending" /\ pc' = "prune_to"
      /\ final \in Chain[head] /\ head \in Blocks /\ final \in Blocks
      /\ key <= Number[final] /\ block_to_move <= Number[final]
      /\ popped \in [Adopters -> Seq(Blocks)]
  BY DEF PruneToPending, node, FollowsNode, MovesFinalized, TypeOK
<1>2. CASE UNCHANGED popped
  BY <1>1, <1>2 DEF MovesFinalized
<1>3. CASE ~ UNCHANGED popped
  <2>1. PICK b \in pending_modifications_tree :
          /\ Number[b] = key
          /\ popped' = [aa \in Adopters |->
                          IF aa \in Touches[b] THEN Append(popped[aa], b) ELSE popped[aa]]
    BY <1>3 DEF PruneToPending
  <2>2. b \in Chain[head]
    BY <1>1, PendingCanonical DEF ChainInv, Indexing
  <2>3. b \in Chain[final] /\ b \in Blocks
    BY <1>1, <2>1, <2>2, ChainLinear, ChainType
  <2>4. ASSUME NEW aa \in Adopters PROVE AllIn(popped'[aa], Chain[final])
    <3>1. AllIn(popped[aa], Chain[final]) /\ popped[aa] \in Seq(Blocks)
      BY <1>1 DEF MovesFinalized
    <3>2. AllIn(Append(popped[aa], b), Chain[final])
      BY <2>3, <3>1, AppendAllIn
    <3>3. QED
      BY <2>1, <3>1, <3>2
  <2>5. QED
    BY <1>1, <2>4 DEF MovesFinalized
<1>4. QED
  BY <1>2, <1>3

LEMMA ApplyFinal ==
    ASSUME TypeOK, MovesFinalized, NEW aa \in Adopters, Apply(aa)
    PROVE  MovesFinalized'
<1>1. /\ UNCHANGED <<final, pc>> /\ pc = "apply"
      /\ store' = [store EXCEPT ![aa] = @ \o popped[aa]]
      /\ popped' = [popped EXCEPT ![aa] = <<>>]
      /\ store \in [Adopters -> Seq(Blocks)] /\ popped \in [Adopters -> Seq(Blocks)]
  BY DEF Apply, node, TypeOK
<1>2. AllIn(store[aa] \o popped[aa], Chain[final])
  <2>1. /\ store[aa] \in Seq(Blocks) /\ popped[aa] \in Seq(Blocks)
        /\ AllIn(store[aa], Chain[final]) /\ AllIn(popped[aa], Chain[final])
    BY <1>1 DEF MovesFinalized
  <2>2. QED
    BY <2>1, ConcatAllIn
<1>3. AllIn(<<>>, Chain[final])
  BY DEF AllIn
<1>4. ASSUME NEW x \in Adopters
      PROVE  AllIn(store'[x], Chain[final]) /\ AllIn(popped'[x], Chain[final])
  <2>1. CASE x = aa
    BY <1>1, <1>2, <1>3, <2>1
  <2>2. CASE x # aa
    BY <1>1, <2>2 DEF MovesFinalized
  <2>3. QED
    BY <2>1, <2>2
<1>5. QED
  BY <1>1, <1>4 DEF MovesFinalized

LEMMA FinalizeFinal ==
    ASSUME TypeOK, FollowsNode, MovesFinalized, NEW b \in Blocks, Finalize(b)
    PROVE  MovesFinalized'
<1> USE ChainAssumption
<1>1. /\ UNCHANGED <<store, popped, pc, key, block_to_move>> /\ final' = b
      /\ b \in Chain[head] /\ Number[b] > Number[final]
      /\ final \in Chain[head] /\ head \in Blocks /\ final \in Blocks
      /\ key \in Nat /\ block_to_move \in Nat
  BY DEF Finalize, trees, moved, FollowsNode, TypeOK
<1>2. Chain[final] \subseteq Chain[b] /\ Number[final] \in Nat /\ Number[b] \in Nat
  <2>1. Number[final] \in Nat /\ Number[b] \in Nat
    BY <1>1
  <2>2. final \in Chain[b]
    BY <1>1, <2>1, ChainLinear
  <2>3. QED
    BY <2>1, <2>2, ChainTrans
<1>3. /\ pc \in {"prune_to", "prune_to_pending"} => block_to_move <= Number[b]
      /\ pc = "prune_to_pending" => key <= Number[b]
  BY <1>1, <1>2 DEF MovesFinalized
<1>4. \A aa \in Adopters : AllIn(store[aa], Chain[b]) /\ AllIn(popped[aa], Chain[b])
  BY <1>2 DEF MovesFinalized, AllIn
<1>5. QED
  BY <1>1, <1>3, <1>4 DEF MovesFinalized

LEMMA FinalStep ==
    ASSUME AwaitTag = "Finalized", TypeOK, OrderInv, FollowsNode, ChainInv, PendingSettled,
           MovesFinalized, [Next]_vars
    PROVE  MovesFinalized'
<1> USE ChainAssumption
<1>1. CASE \/ SyncToHead \/ Subscribe \/ Recv \/ RecvLagged \/ SyncError \/ GetBlockMissing \/ Fail
           \/ SyncFromGenesis \/ SyncSameChain \/ SyncReorg
           \/ SyncNothingToIndex \/ IndexRangeDone
  BY <1>1, FinalFrame DEF SyncToHead, Subscribe, Recv, RecvLagged, SyncError, GetBlockMissing,
       Fail, GoDown, SyncFromGenesis, SyncSameChain, SyncReorg, Continue, SyncNothingToIndex,
       IndexRangeDone, IndexRangeReturns, SyncReturns, DropLocals, node, trees, moved
<1>2. CASE \/ PruneFromPop \/ PruneFromPending \/ InsertLastAncestor
           \/ GetLogs \/ InsertPending \/ GetBlock \/ InsertLast \/ WriteHashes \/ PruneToDone
  BY <1>2, FinalFrame DEF PruneFromPop, PruneFromPending, InsertLastAncestor, GetLogs,
       InsertPending, GetBlock, InsertLast, WriteHashes, PruneToDone, node, trees, moved
<1>3. CASE GetTag
  <2>1. TaggedBlocks = {final} /\ UNCHANGED <<final, store>>
    BY <1>3 DEF TaggedBlocks, GetTag, node, trees
  <2>2. CASE Number[final] = 0
    BY <1>3, <2>1, <2>2, FinalFrame DEF GetTag, IndexRangeReturns, SyncReturns, DropLocals
  <2>3. CASE Number[final] # 0
    <3>1. block_to_move' = Number[final] /\ UNCHANGED popped /\ pc' = "prune_to"
      BY <1>3, <2>1, <2>3 DEF GetTag
    <3>2. Number[final] <= Number[final]
      BY DEF TypeOK
    <3>3. QED
      BY <2>1, <3>1, <3>2 DEF MovesFinalized
  <2>4. QED
    BY <2>2, <2>3
<1>4. CASE PruneToPop
  <2>1. PICK b \in block_hash_tree : Number[b] <= block_to_move /\ key' = Number[b]
    BY <1>4 DEF PruneToPop, IsFirstIn, UpTo
  <2>2. /\ UNCHANGED <<final, store, popped, block_to_move>>
        /\ pc = "prune_to" /\ pc' = "prune_to_pending"
    BY <1>4 DEF PruneToPop, node
  <2>3. Number[b] \in Nat /\ block_to_move \in Nat /\ Number[final] \in Nat
    BY <2>1 DEF TypeOK
  <2>4. block_to_move <= Number[final] /\ Number[b] <= Number[final]
    BY <2>1, <2>2, <2>3 DEF MovesFinalized
  <2>5. QED
    BY <2>1, <2>2, <2>4 DEF MovesFinalized
<1>5. CASE PruneToPending
  BY <1>5, PruneToPendingFinal
<1>6. CASE \E aa \in Adopters : Apply(aa)
  BY <1>6, ApplyFinal
<1>7. CASE NodeStep
  <2>1. PICK b \in Blocks : Advance(b) \/ Reorg(b) \/ Finalize(b)
    BY <1>7 DEF NodeStep
  <2>2. CASE Advance(b) \/ Reorg(b)
    BY <2>2 DEF Advance, Reorg, trees, moved, MovesFinalized
  <2>3. QED
    BY <2>1, <2>2, FinalizeFinal
<1>8. CASE RecvPending \/ UNCHANGED vars
  BY <1>8 DEF RecvPending, vars, node, trees, moved, MovesFinalized
<1>9. QED
  BY <1>1, <1>2, <1>3, <1>4, <1>5, <1>6, <1>7, <1>8 DEF Next, IndexerStep

LEMMA FinalizedInvariant ==
    Undisturbed /\ AwaitTag = "Finalized" => (Spec => [](PendingSettled /\ MovesFinalized))
<1> SUFFICES ASSUME Undisturbed, AwaitTag = "Finalized"
             PROVE  Spec => [](PendingSettled /\ MovesFinalized)
  OBVIOUS
<1>1. TypeOK /\ OrderInv /\ FollowsNode /\ ChainInv /\ PendingSettled /\ [Next]_vars
        => PendingSettled'
  BY SettledStep
<1>2. TypeOK /\ OrderInv /\ FollowsNode /\ ChainInv /\ PendingSettled /\ MovesFinalized /\ [Next]_vars
        => MovesFinalized'
  BY FinalStep
<1>3. Spec => [](FollowsNode /\ ChainInv)
  BY UndisturbedInvariant
<1>4. QED
  BY <1>1, <1>2, <1>3, FinalizedInit, TypeCorrect, OrderInvariant, PTL DEF Spec

\* With await_tag Finalized the store receives events of finalized blocks
\* only, for any chain and chunk size, while no call fails and the chain does
\* not reorganise while an update is handled.
THEOREM OnlyFinalizedReachesStore ==
    Undisturbed /\ AwaitTag = "Finalized" => (Spec => []OnlyFinalizedApplied)
<1> SUFFICES ASSUME Undisturbed, AwaitTag = "Finalized" PROVE Spec => []OnlyFinalizedApplied
  OBVIOUS
<1>1. MovesFinalized => OnlyFinalizedApplied
  BY DEF MovesFinalized, AllIn, OnlyFinalizedApplied
<1>2. Spec => [](PendingSettled /\ MovesFinalized)
  BY FinalizedInvariant
<1>3. QED
  BY <1>1, <1>2, PTL

(***************************************************************************)
(* The refinement.  What reaches an adopter's part of the store is the log *)
(* of its finalized events up to the block that the move went up to, or to *)
(* the last indexed one if that is lower.                                  *)
(***************************************************************************)
EventsOf(aa) == {b \in Blocks : aa \in Touches[b]}

MovesTagged ==
    /\ pc = "prune_to_pending" => key <= block_to_move
    /\ pc = "apply" =>
        /\ block_to_move <= Number[final]
        /\ \A b \in block_hash_tree : Number[b] > block_to_move
    /\ \A aa \in Adopters :
        /\ AllIn(store[aa], EventsOf(aa))
        /\ AllIn(popped[aa], EventsOf(aa)) /\ AllIn(popped[aa], UpTo(Blocks, block_to_move))

LEMMA TaggedInit == Init => MovesTagged
BY DEF Init, MovesTagged, AllIn, NothingPopped

\* Steps before a move starts or after it is over.
LEMMA TaggedFrame ==
    ASSUME MovesTagged, UNCHANGED store, popped' = NothingPopped,
           pc' \notin {"prune_to_pending", "apply"}
    PROVE  MovesTagged'
BY DEF MovesTagged, AllIn, NothingPopped

LEMMA PruneToPendingTagged ==
    ASSUME TypeOK, MovesTagged, PruneToPending
    PROVE  MovesTagged'
<1>1. /\ UNCHANGED <<store, block_to_move>> /\ pc = "prune_to_pending" /\ pc' = "prune_to"
      /\ key <= block_to_move /\ popped \in [Adopters -> Seq(Blocks)]
      /\ pending_modifications_tree \subseteq Blocks
  BY DEF PruneToPending, MovesTagged, TypeOK
<1>2. CASE UNCHANGED popped
  BY <1>1, <1>2 DEF MovesTagged
<1>3. CASE ~ UNCHANGED popped
  <2>1. PICK b \in pending_modifications_tree :
          /\ Number[b] = key
          /\ popped' = [aa \in Adopters |->
                          IF aa \in Touches[b] THEN Append(popped[aa], b) ELSE popped[aa]]
    BY <1>3 DEF PruneToPending
  <2>2. b \in Blocks /\ b \in UpTo(Blocks, block_to_move)
    BY <1>1, <2>1 DEF UpTo
  <2>3. ASSUME NEW aa \in Adopters
        PROVE  AllIn(popped'[aa], EventsOf(aa)) /\ AllIn(popped'[aa], UpTo(Blocks, block_to_move))
    <3>1. /\ AllIn(popped[aa], EventsOf(aa)) /\ AllIn(popped[aa], UpTo(Blocks, block_to_move))
          /\ popped[aa] \in Seq(Blocks)
      BY <1>1 DEF MovesTagged
    <3>2. CASE aa \in Touches[b]
      <4>1. b \in EventsOf(aa)
        BY <2>2, <3>2 DEF EventsOf
      <4>2. AllIn(Append(popped[aa], b), EventsOf(aa))
        BY <2>2, <3>1, <4>1, AppendAllIn
      <4>3. AllIn(Append(popped[aa], b), UpTo(Blocks, block_to_move))
        BY <2>2, <3>1, AppendAllIn
      <4>4. QED
        BY <2>1, <3>2, <4>2, <4>3
    <3>3. CASE aa \notin Touches[b]
      BY <2>1, <3>1, <3>3
    <3>4. QED
      BY <3>2, <3>3
  <2>4. QED
    BY <1>1, <2>3 DEF MovesTagged
<1>4. QED
  BY <1>2, <1>3

LEMMA ApplyTagged ==
    ASSUME TypeOK, MovesTagged, NEW aa \in Adopters, Apply(aa)
    PROVE  MovesTagged'
<1>1. /\ UNCHANGED <<final, pc, block_to_move, block_hash_tree>> /\ pc = "apply"
      /\ store' = [store EXCEPT ![aa] = @ \o popped[aa]]
      /\ popped' = [popped EXCEPT ![aa] = <<>>]
      /\ store \in [Adopters -> Seq(Blocks)] /\ popped \in [Adopters -> Seq(Blocks)]
  BY DEF Apply, node, TypeOK
<1>2. AllIn(store[aa] \o popped[aa], EventsOf(aa))
  <2>1. /\ store[aa] \in Seq(Blocks) /\ popped[aa] \in Seq(Blocks)
        /\ AllIn(store[aa], EventsOf(aa)) /\ AllIn(popped[aa], EventsOf(aa))
    BY <1>1 DEF MovesTagged
  <2>2. QED
    BY <2>1, ConcatAllIn
<1>3. \A S : AllIn(<<>>, S)
  BY DEF AllIn
<1>4. ASSUME NEW x \in Adopters
      PROVE  /\ AllIn(store'[x], EventsOf(x))
             /\ AllIn(popped'[x], EventsOf(x)) /\ AllIn(popped'[x], UpTo(Blocks, block_to_move))
  <2>1. CASE x = aa
    BY <1>1, <1>2, <1>3, <2>1
  <2>2. CASE x # aa
    BY <1>1, <2>2 DEF MovesTagged
  <2>3. QED
    BY <2>1, <2>2
<1>5. QED
  BY <1>1, <1>4 DEF MovesTagged

LEMMA TaggedStep ==
    ASSUME TypeOK, OrderInv, MovesFinalized, MovesTagged, [Next]_vars
    PROVE  MovesTagged'
<1> USE ChainAssumption
<1>1. CASE \/ SyncToHead \/ Subscribe \/ Recv \/ RecvLagged \/ SyncError \/ GetBlockMissing \/ Fail
           \/ SyncFromGenesis \/ SyncSameChain \/ SyncReorg
           \/ SyncNothingToIndex \/ IndexRangeDone
  <2>1. popped' = NothingPopped
    BY <1>1 DEF SyncToHead, Subscribe, Recv, RecvLagged, SyncError, GetBlockMissing,
       Fail, GoDown, SyncFromGenesis, SyncSameChain, SyncReorg, Continue, SyncNothingToIndex,
       IndexRangeDone, IndexRangeReturns, SyncReturns, DropLocals, moved, OrderInv, MovesInOrder
  <2>2. UNCHANGED store /\ pc' \notin {"prune_to_pending", "apply"}
    BY <1>1 DEF SyncToHead, Subscribe, Recv, RecvLagged, SyncError, GetBlockMissing,
       Fail, GoDown, SyncFromGenesis, SyncSameChain, SyncReorg, Continue, SyncNothingToIndex,
       IndexRangeDone, IndexRangeReturns, SyncReturns, trees
  <2>3. QED
    BY <2>1, <2>2, TaggedFrame
<1>2. CASE \/ PruneFromPop \/ PruneFromPending \/ InsertLastAncestor
           \/ GetLogs \/ InsertPending \/ GetBlock \/ InsertLast \/ WriteHashes
  <2>1. /\ UNCHANGED <<store, popped>> /\ popped = NothingPopped
        /\ pc' \notin {"prune_to_pending", "apply"}
    BY <1>2 DEF PruneFromPop, PruneFromPending, InsertLastAncestor, GetLogs, InsertPending,
       GetBlock, InsertLast, WriteHashes, trees, moved, OrderInv, MovesInOrder
  <2>2. QED
    BY <2>1, TaggedFrame
<1>3. CASE GetTag
  <2>1. UNCHANGED store /\ popped' = NothingPopped /\ pc' \notin {"prune_to_pending", "apply"}
    BY <1>3 DEF GetTag, IndexRangeReturns, SyncReturns, DropLocals, trees, OrderInv, MovesInOrder
  <2>2. QED
    BY <2>1, TaggedFrame
<1>4. CASE PruneToPop
  <2>1. PICK b \in block_hash_tree : Number[b] <= block_to_move /\ key' = Number[b]
    BY <1>4 DEF PruneToPop, IsFirstIn, UpTo
  <2>2. UNCHANGED <<store, popped, block_to_move>> /\ pc' = "prune_to_pending"
    BY <1>4 DEF PruneToPop
  <2>3. QED
    BY <2>1, <2>2 DEF MovesTagged
<1>5. CASE PruneToPending
  BY <1>5, PruneToPendingTagged
<1>6. CASE PruneToDone
  BY <1>6 DEF PruneToDone, MovesTagged, MovesFinalized, node, trees, moved
<1>7. CASE \E aa \in Adopters : Apply(aa)
  BY <1>7, ApplyTagged
<1>8. CASE NodeStep
  <2>1. PICK b \in Blocks : Advance(b) \/ Reorg(b) \/ Finalize(b)
    BY <1>8 DEF NodeStep
  <2>2. UNCHANGED <<store, popped, pc, key, block_to_move, block_hash_tree>>
    BY <2>1 DEF Advance, Reorg, Finalize, trees, moved
  <2>3. Number[final'] >= Number[final] /\ Number[final] \in Nat /\ Number[final'] \in Nat
        /\ block_to_move \in Nat
    <3>1. final \in Blocks /\ Number[final] \in Nat /\ Number[b] \in Nat /\ block_to_move \in Nat
      BY DEF TypeOK
    <3>2. final' = final \/ (final' = b /\ Number[b] > Number[final])
      BY <2>1 DEF Advance, Reorg, Finalize
    <3>3. QED
      BY <3>1, <3>2
  <2>4. pc = "apply" => block_to_move <= Number[final']
    BY <2>3 DEF MovesTagged
  <2>5. QED
    BY <2>2, <2>4 DEF MovesTagged
<1>9. CASE RecvPending \/ UNCHANGED vars
  BY <1>9 DEF RecvPending, vars, node, trees, moved, MovesTagged
<1>10. QED
  BY <1>1, <1>2, <1>3, <1>4, <1>5, <1>6, <1>7, <1>8, <1>9 DEF Next, IndexerStep

LEMMA PrefixOfConcat ==
    ASSUME NEW s \in Seq(Blocks), NEW t \in Seq(Blocks)
    PROVE  SubSeq(s \o t, 1, Len(s)) = s
<1> DEFINE c == s \o t
           p == SubSeq(c, 1, Len(s))
<1>1. Len(s) \in Nat /\ \A k \in 1..Len(s) : s[k] \in Blocks
  BY LenProperties, ElementOfSeq
<1>2. Len(t) \in Nat
  BY LenProperties
<1>3. \A k \in 1..Len(s) : c[k] = s[k]
  BY <1>1, <1>2, ConcatProperties
<1> HIDE DEF c
<1>4. \A k \in 1..Len(s) : c[k] \in Blocks
  BY <1>1, <1>3
<1>5. /\ p \in Seq(Blocks)
      /\ Len(p) = IF 1 <= Len(s) THEN Len(s) - 1 + 1 ELSE 0
      /\ \A k \in 1..(Len(s) - 1 + 1) : p[k] = c[1 + k - 1]
  BY <1>1, <1>4, SubSeqProperties
<1> HIDE DEF p
<1>6. Len(p) = Len(s) /\ \A k \in 1..Len(s) : p[k] = c[k]
  BY <1>1, <1>5
<1>7. p = s
  BY <1>3, <1>5, <1>6, SeqEqual
<1>8. QED
  BY <1>7 DEF p, c

\* Apply hands an adopter the next part of its log.
LEMMA ApplyDelivers ==
    ASSUME TypeOK, OrderInv, FollowsNode, ChainInv, MovesFinalized, MovesTagged,
           OrderInv', MovesFinalized', MovesTagged', NEW aa \in Adopters, Apply(aa)
    PROVE  Log!Deliver(aa)
<1> USE ChainAssumption
<1> DEFINE s == store[aa]
           t == popped[aa]
           n == Min(block_to_move, to)
<1>1. /\ UNCHANGED <<final, latest_block_tree>> /\ pc = "apply" /\ t # <<>>
      /\ store' = [store EXCEPT ![aa] = s \o t]
      /\ s \in Seq(Blocks) /\ t \in Seq(Blocks) /\ store \in [Adopters -> Seq(Blocks)]
  BY DEF Apply, node, TypeOK
<1>2. store'[aa] = s \o t /\ store' = [store EXCEPT ![aa] = store'[aa]]
  BY <1>1
<1>3. /\ final \in Chain[head] /\ head \in Blocks /\ final \in Blocks
      /\ block_to_move \in Nat /\ to \in Nat /\ Number[final] \in Nat
      /\ NextNumber = to + 1 /\ block_to_move <= Number[final]
  BY <1>1 DEF FollowsNode, TypeOK, OrderInv, IndexesUpwards, MovesTagged
<1>4. n \in 0..Number[final] /\ n \in Nat
  BY <1>3 DEF Min
<1>5. Len(t) \in Nat \ {0} /\ Len(s) \in Nat /\ DOMAIN t = 1..Len(t) /\ DOMAIN s = 1..Len(s)
  BY <1>1, EmptySeq, LenProperties
<1>6. Log!Continues(s \o t, s)
  <2>1. Len(s \o t) = Len(s) + Len(t)
    BY <1>1, <1>5, ConcatProperties
  <2> HIDE DEF s, t
  <2>2. SubSeq(s \o t, 1, Len(s)) = s
    BY <1>1, PrefixOfConcat
  <2>3. Len(s) < Len(s \o t)
    BY <1>5, <2>1
  <2>4. QED
    BY <2>2, <2>3 DEF Log!Continues
<1>7. \A j, k \in DOMAIN (s \o t) : j < k => Number[(s \o t)[j]] < Number[(s \o t)[k]]
  <2>1. Ascending(store'[aa])
    BY DEF OrderInv, MovesInOrder, Ascending
  <2>2. QED
    BY <1>2, <2>1 DEF Ascending
<1>8. ASSUME NEW k \in DOMAIN (s \o t)
      PROVE  LET x == (s \o t)[k] IN
             x \in Chain[final] /\ aa \in Touches[x] /\ Number[x] <= n
  <2> DEFINE x == (s \o t)[k]
  <2>1. x \in Chain[final] /\ x \in EventsOf(aa)
    <3>1. AllIn(store'[aa], Chain[final]) /\ AllIn(store'[aa], EventsOf(aa))
      BY <1>1 DEF MovesFinalized, MovesTagged, EventsOf
    <3>2. QED
      BY <1>2, <3>1 DEF AllIn
  <2>2. x \in Blocks /\ Number[x] \in Nat /\ aa \in Touches[x]
    BY <2>1 DEF EventsOf
  <2>3. Number[x] < to + 1
    <3>1. MovedBelow(NextNumber)'
      BY DEF OrderInv, IndexesUpwards
    <3>2. NextNumber' = to + 1
      BY <1>1, <1>3 DEF NextNumber
    <3>3. Number[x] \in AppliedNumbers(aa)'
      BY <1>2 DEF AppliedNumbers
    <3>4. QED
      BY <3>1, <3>2, <3>3 DEF MovedBelow
  <2>4. \A m \in DOMAIN t : Number[t[m]] <= block_to_move
    BY <1>1 DEF MovesTagged, AllIn, UpTo
  <2>5. \A m \in DOMAIN s : Number[s[m]] <= block_to_move
    <3>1. 1 \in DOMAIN t
      BY <1>5
    <3>2. t[1] \in Blocks /\ \A m \in DOMAIN s : s[m] \in Blocks
      BY <1>1, <1>5, <3>1, ElementOfSeq
    <3>3. \A m \in DOMAIN s : Number[s[m]] < Number[t[1]]
      <4>1. \A m \in AppliedNumbers(aa), q \in PoppedNumbers(aa) : m < q
        BY DEF OrderInv, MovesInOrder
      <4>2. Number[t[1]] \in PoppedNumbers(aa)
        BY <3>1 DEF PoppedNumbers
      <4>3. \A m \in DOMAIN s : Number[s[m]] \in AppliedNumbers(aa)
        BY DEF AppliedNumbers
      <4>4. QED
        BY <4>1, <4>2, <4>3
    <3>4. Number[t[1]] <= block_to_move
      BY <2>4, <3>1
    <3> HIDE DEF s, t
    <3>5. QED
      BY <1>3, <3>2, <3>3, <3>4
  <2>6. \/ \E m \in DOMAIN s : x = s[m]
        \/ \E m \in DOMAIN t : x = t[m]
    <3> HIDE DEF s, t
    <3>1. \A m \in DOMAIN (s \o t) :
            \/ \E j \in DOMAIN s : (s \o t)[m] = s[j]
            \/ \E j \in DOMAIN t : (s \o t)[m] = t[j]
      BY <1>1, ConcatHolds
    <3>2. QED
      BY <3>1, Zenon
  <2>7. Number[x] <= block_to_move
    BY <2>4, <2>5, <2>6
  <2> HIDE DEF x
  <2>8. Number[x] <= n
    BY <1>3, <2>2, <2>3, <2>7 DEF Min
  <2>9. QED
    BY <2>1, <2>2, <2>8 DEF x
<1>9. ASSUME NEW b \in Chain[final], aa \in Touches[b], Number[b] <= n
      PROVE  \E k \in DOMAIN (s \o t) : (s \o t)[k] = b
  <2>1. b \in Chain[head] /\ b \in Blocks /\ Number[b] \in Nat
    BY <1>3, ChainTrans, ChainType
  <2>2. Number[b] < to + 1 /\ Number[b] <= block_to_move
    BY <1>3, <1>9, <2>1 DEF Min
  <2>3. b \in IndexedBlocks
    BY <1>1, <1>3, <2>1, <2>2, IndexedCanonical DEF ChainInv, Indexing
  <2>4. Kept(aa, b)
    BY <1>1, <1>9, <2>3 DEF ChainInv, KeepsEvents, Pruning
  <2>5. ~ InTrees(b)
    <3>1. b \notin block_hash_tree
      BY <1>1, <1>3, <2>1, <2>2 DEF MovesTagged
    <3>2. QED
      BY <1>1, <3>1 DEF InTrees
  <2>6. (\E m \in DOMAIN s : s[m] = b) \/ (\E m \in DOMAIN t : t[m] = b)
    BY <2>4, <2>5 DEF Kept
  <2>7. /\ \A m \in DOMAIN s : \E k \in DOMAIN (s \o t) : (s \o t)[k] = s[m]
        /\ \A m \in DOMAIN t : \E k \in DOMAIN (s \o t) : (s \o t)[k] = t[m]
    BY <1>1, ConcatHolds
  <2>8. QED
    BY <2>6, <2>7, Zenon
<1> HIDE DEF s, t, n
<1>10. {(s \o t)[k] : k \in DOMAIN (s \o t)} =
       {b \in Chain[final] : aa \in Touches[b] /\ Number[b] <= n}
  BY <1>8, <1>9
<1>11. Log!IsLogOf(s \o t, aa, n)
  BY <1>7, <1>10 DEF Log!IsLogOf
<1>12. QED
  BY <1>1, <1>2, <1>4, <1>6, <1>11 DEF s, Log!Deliver

LEMMA LogInit == Init => Log!Init
BY DEF Init, Log!Init

LEMMA LogStep ==
    ASSUME TypeOK, OrderInv, FollowsNode, ChainInv, MovesFinalized, MovesTagged,
           OrderInv', MovesFinalized', MovesTagged', [Next]_vars
    PROVE  [Log!Next]_<<final, store>>
<1>1. CASE \E aa \in Adopters : Apply(aa)
  BY <1>1, ApplyDelivers DEF Log!Next
<1>2. CASE NodeStep
  <2>1. PICK b \in Blocks : Advance(b) \/ Reorg(b) \/ Finalize(b)
    BY <1>2 DEF NodeStep
  <2>2. CASE Advance(b) \/ Reorg(b)
    BY <2>2 DEF Advance, Reorg, trees
  <2>3. CASE Finalize(b)
    <3>1. /\ UNCHANGED store /\ final' = b
          /\ b \in Chain[head] /\ Number[b] > Number[final]
          /\ final \in Chain[head] /\ head \in Blocks /\ final \in Blocks
      BY <2>3 DEF Finalize, trees, FollowsNode, TypeOK
    <3>2. final \in Chain[b]
      BY <3>1, ChainLinear, ChainAssumption
    <3>3. QED
      BY <3>1, <3>2 DEF Log!Next, Log!Finalize
  <2>4. QED
    BY <2>1, <2>2, <2>3
<1>3. CASE \/ SyncToHead \/ Subscribe \/ Recv \/ RecvLagged
           \/ SyncFromGenesis \/ SyncSameChain \/ SyncReorg \/ SyncError
           \/ PruneFromPop \/ PruneFromPending \/ InsertLastAncestor
           \/ SyncNothingToIndex \/ GetLogs \/ InsertPending
  BY <1>3 DEF SyncToHead, Subscribe, Recv, RecvLagged, SyncFromGenesis, SyncSameChain, Continue,
              SyncReorg, SyncError, PruneFromPop, PruneFromPending, InsertLastAncestor,
              SyncNothingToIndex, GetLogs, InsertPending, node, trees
<1>4. CASE \/ GetBlock \/ GetBlockMissing \/ InsertLast \/ WriteHashes \/ GetTag
           \/ PruneToPop \/ PruneToPending \/ PruneToDone \/ IndexRangeDone
           \/ RecvPending \/ Fail \/ UNCHANGED vars
  BY <1>4 DEF GetBlock, GetBlockMissing, InsertLast, WriteHashes, GetTag, PruneToPop,
              PruneToPending, PruneToDone, IndexRangeDone, RecvPending, Fail, vars, node, trees
<1>5. QED
  BY <1>1, <1>2, <1>3, <1>4 DEF Next, IndexerStep

\* With await_tag Finalized the indexer implements the log of finalized
\* events: every compare-and-swap of apply_pending_modifications hands its
\* adopter the events that follow those it already has, gapless and in chain
\* order, for any chain and chunk size, while no call fails and the chain does
\* not reorganise while an update is handled.
THEOREM IndexerRefinesLog ==
    Undisturbed /\ AwaitTag = "Finalized" => (Spec => ImplementsFinalizedLog)
<1> SUFFICES ASSUME Undisturbed, AwaitTag = "Finalized" PROVE Spec => ImplementsFinalizedLog
  OBVIOUS
<1>1. Spec => [](PendingSettled /\ MovesFinalized)
  BY FinalizedInvariant
<1>2. Spec => [](FollowsNode /\ ChainInv)
  BY UndisturbedInvariant
<1>3. TypeOK /\ OrderInv /\ MovesFinalized /\ MovesTagged /\ [Next]_vars => MovesTagged'
  BY TaggedStep
<1>4. TypeOK /\ OrderInv /\ FollowsNode /\ ChainInv /\ MovesFinalized /\ MovesTagged
        /\ OrderInv' /\ MovesFinalized' /\ MovesTagged' /\ [Next]_vars
        => [Log!Next]_<<final, store>>
  BY LogStep
<1>5. QED
  BY <1>1, <1>2, <1>3, <1>4, LogInit, TaggedInit, TypeCorrect, OrderInvariant, PTL
     DEF Spec, ImplementsFinalizedLog, Log!Spec
==============================================================================
