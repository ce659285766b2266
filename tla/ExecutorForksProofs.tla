-------------------------- MODULE ExecutorForksProofs -------------------------
(***************************************************************************)
(* For any transactions, assertions and databases: what the assertions of  *)
(* a transaction find in their forks, and what the caller has collected of *)
(* a block.                                                                *)
(***************************************************************************)
EXTENDS ExecutorProofs

(***************************************************************************)
(* Layers.                                                                 *)
(***************************************************************************)
LEMMA EmptyType == Empty \in Layer
  BY DEF Empty, Layer

\* A commit leaves a layer.
LEMMA CommitType ==
    ASSUME NEW layer \in Layer, NEW changes \in Changes
    PROVE  Commit(layer, changes) \in Layer
<1>1. \A a \in Addresses : Touched(changes, a) =>
        /\ changes[a] \in Account /\ changes[a].info \in Info
        /\ changes[a].storage \in [Slots -> Values \cup {None}]
  BY DEF Changes, Touched, Account
<1>2. \A h \in Hashes : CodesAt(changes, h) \subseteq Codes
  <2> SUFFICES ASSUME NEW h \in Hashes, NEW c \in CodesAt(changes, h) PROVE c \in Codes
    OBVIOUS
  <2>1. PICK a \in Addresses : Kept(changes, a) /\ changes[a].info.code # None /\ c = changes[a].info.code
    BY DEF CodesAt
  <2>2. QED
    BY <1>1, <2>1 DEF Kept, Info
<1> DEFINE new == Commit(layer, changes)
<1>3. \A h \in Hashes : new.code[h] \in Codes \cup {None}
  BY <1>2 DEF Commit, Layer
<1>4. \A a \in Addresses : new.basic[a] \in Info \cup {None}
  BY <1>1 DEF Commit, Layer
<1>5. \A a \in Addresses, s \in Slots : new.map[a][s] \in Values \cup {None}
  BY <1>1 DEF Commit, Layer
<1>6. \A a \in Addresses : new.dont_read_from_inner_db[a] \in BOOLEAN
  BY DEF Commit, Layer, Destroyed, Touched
<1>7. QED
  BY <1>3, <1>4, <1>5, <1>6 DEF Commit, Layer

\* A layer has no slot of the assertion contract.
NoSlots(layer) == \A s \in Slots : layer.map[AssertionContract][s] = None

\* No transaction brings one.
LEMMA CommitNoSlots ==
    ASSUME NEW layer, NoSlots(layer), NEW tx \in Txs, NEW db
    PROVE  NoSlots(Commit(layer, StateAfter(tx, db)))
<1> SUFFICES ASSUME NEW s \in Slots
             PROVE  Commit(layer, StateAfter(tx, db)).map[AssertionContract][s] = None
  BY DEF NoSlots
<1> DEFINE changes == StateAfter(tx, db)
<1>1. ~ IsLoaded(tx, AssertionContract, s)
  BY DeploymentAssumption DEF IsLoaded
<1>2. AssertionContract \in Addresses
  BY DeploymentAssumption
<1>3. changes[AssertionContract] # None => changes[AssertionContract].storage[s] = None
  BY <1>1, <1>2 DEF StateAfter
<1>4. Commit(layer, changes).map[AssertionContract][s] = layer.map[AssertionContract][s]
        \/ Commit(layer, changes).map[AssertionContract][s] = None
  BY <1>2, <1>3 DEF Commit, Touched
<1>5. QED
  BY <1>4 DEF NoSlots

\* The account that insert_assertion_contract writes.
LEMMA ContractAccountsType ==
    ASSUME NEW id \in Ids
    PROVE  /\ ContractAccounts(id)[AssertionContract].touched
           /\ ~ ContractAccounts(id)[AssertionContract].selfdestructed
           /\ ContractAccounts(id)[AssertionContract] # None
           /\ ContractAccounts(id)[AssertionContract].info \in Info
           /\ ContractAccounts(id)[AssertionContract].info.code = Deployed[id].code
           /\ ContractAccounts(id)[AssertionContract].storage = Deployed[id].storage
<1>1. /\ AssertionContract \in Addresses /\ MaxBalance \in Int
      /\ Deployed[id].code_hash \in Hashes /\ Deployed[id].code \in Codes
      /\ Deployed[id].selfdestructed = FALSE
      /\ Deployed[id].storage \in [Slots -> Values \cup {None}]
  BY DeploymentAssumption
<1> DEFINE account == [touched |-> TRUE, selfdestructed |-> Deployed[id].selfdestructed,
                       info    |-> [nonce |-> 1, balance |-> MaxBalance,
                                    code_hash |-> Deployed[id].code_hash, code |-> Deployed[id].code],
                       storage |-> Deployed[id].storage]
<1>2. ContractAccounts(id)[AssertionContract] = account
  BY DeploymentAssumption DEF ContractAccounts
<1>3. account.info \in Info
  BY <1>1 DEF Info
<1>4. account \in Account
  BY <1>1, <1>3 DEF Account
<1>5. account # None
  BY <1>4, ExecutorAssumption
<1>6. QED
  BY <1>1, <1>2, <1>3, <1>5

\* What the functions of an assertion find at the address of its contract.
LEMMA Deploys ==
    ASSUME NEW layer \in Layer, NoSlots(layer), NEW id \in Ids
    PROVE  LET active == InsertAssertionContract(layer, id)
           IN  /\ BasicRef(active, InnerDb, AssertionContract).code = Deployed[id].code
               /\ \A s \in Slots : StorageRef(active, InnerDb, AssertionContract, s)
                    = IF Deployed[id].storage[s] = None THEN Zero ELSE Deployed[id].storage[s]
<1> DEFINE active == InsertAssertionContract(layer, id)
           account == ContractAccounts(id)[AssertionContract]
<1>1. AssertionContract \in Addresses
  BY DeploymentAssumption
<1>2. Touched(ContractAccounts(id), AssertionContract) /\ ~ Destroyed(ContractAccounts(id), AssertionContract)
  BY ContractAccountsType DEF Touched, Destroyed
<1>3. active.basic[AssertionContract] = account.info
  BY <1>1, <1>2 DEF InsertAssertionContract, Commit
<1>4. active.dont_read_from_inner_db[AssertionContract]
  BY <1>1 DEF InsertAssertionContract, Commit
<1>5. \A s \in Slots : active.map[AssertionContract][s] =
        IF account.storage[s] # None THEN account.storage[s] ELSE layer.map[AssertionContract][s]
  BY <1>1, <1>2 DEF InsertAssertionContract, Commit
<1>6. account.info # None
  BY ContractAccountsType, ExecutorAssumption
<1> HIDE DEF active, account
<1>7. BasicRef(active, InnerDb, AssertionContract).code = Deployed[id].code
  BY <1>3, <1>6, ContractAccountsType DEF BasicRef, account
<1>8. \A s \in Slots : StorageRef(active, InnerDb, AssertionContract, s)
                    = IF Deployed[id].storage[s] = None THEN Zero ELSE Deployed[id].storage[s]
  BY <1>4, <1>5, ContractAccountsType DEF StorageRef, NoSlots, account
<1>9. QED
  BY <1>7, <1>8 DEF active

(***************************************************************************)
(* The invariants.                                                         *)
(***************************************************************************)
\* The entries of the store.
StoreTyped == store \in [Addresses -> Lists \cup {None}]

\* The layers, and where the copies come from.
LayerInv ==
    /\ fork_db \in Layer /\ NoSlots(fork_db)
    /\ multi_fork_db = IF pc \in {"reverted", "read", "run"}
                       THEN [pre |-> fork_db, post |-> Commit(fork_db, result_and_state)]
                       ELSE None

\* What is read and what runs.
ActiveInv ==
    /\ to_read \subseteq Addresses /\ (to_read # {} => pc \in {"read", "reverted"})
    /\ \A x \in assertions : x.id \in Ids
    /\ pc # "run" => DOMAIN active_dbs = {}
    /\ DOMAIN active_dbs \subseteq assertions
    /\ \A x \in DOMAIN active_dbs : active_dbs[x] = InsertAssertionContract(multi_fork_db.post, x.id)
    /\ \A run \in runs : \E x \in DOMAIN active_dbs :
        run.adopter = x.adopter /\ run.id = x.id /\ run.selector \in x.selectors

\* A modification leaves a list.
LEMMA UpdatedType ==
    ASSUME NEW entry \in Lists \cup {None}, NEW m \in PendingMods
    PROVE  Updated(entry, m) \in Lists
<1>1. OrEmpty(entry) \in Lists
  BY OrEmptyType
<1>2. \A list \in Lists, n \in PendingMods : ApplyOne(list, n) \in Lists
  BY ApplyOneType, ExecutorAssumption DEF PendingModification
<1>3. <<m>> \in Seq(PendingMods)
  OBVIOUS
<1>4. QED
  BY <1>1, <1>2, <1>3, ApplyAllIn DEF Updated

LEMMA StoreTypedStep ==
    ASSUME StoreTyped, [Next]_vars
    PROVE  StoreTyped'
<1>1. ASSUME NEW m \in PendingMods, WriteStore(m)
      PROVE  StoreTyped'
  <2>1. m.adopter \in Addresses
    BY ExecutorAssumption DEF PendingModification
  <2>2. Updated(store[m.adopter], m) \in Lists
    BY <2>1, UpdatedType DEF StoreTyped
  <2>3. store' = [store EXCEPT ![m.adopter] = Updated(store[m.adopter], m)]
    BY <1>1 DEF WriteStore
  <2>4. QED
    BY <2>1, <2>2, <2>3 DEF StoreTyped
<1>2. ASSUME \/ UNCHANGED vars
             \/ \E tx \in Txs, block \in Blocks : Execute(tx, block)
             \/ ReturnError \/ ReturnReverted \/ ReadDone \/ RunDone \/ CallerCommits
             \/ \E a \in Addresses : ReadOne(a) \/ ReadError(a)
             \/ \E x \in assertions : RunContract(x) \/ RunError(x)
             \/ \E x \in assertions : \E selector \in x.selectors, outcome \in {"Success", "Revert", "Error"} :
                    ExecuteFn(x, selector, outcome)
      PROVE  store' = store
  BY <1>2 DEF vars, Execute, ReturnError, ReturnReverted, ReadDone, RunDone, CallerCommits, ReadOne,
              ReadError, RunContract, RunError, ExecuteFn, Return
<1>3. QED
  BY <1>1, <1>2 DEF Next, StoreTyped

LEMMA LayerStep ==
    ASSUME ControlInv, FollowInv, LayerInv, [Next]_vars
    PROVE  LayerInv'
<1>1. ASSUME pc \in {"read", "run"}
      PROVE  /\ Commit(fork_db, result_and_state) \in Layer
             /\ NoSlots(Commit(fork_db, result_and_state))
  <2>1. current.tx \in Txs /\ result_and_state = StateAfter(current.tx, external_db)
    BY <1>1 DEF ControlInv
  <2>2. result_and_state \in Changes
    BY <2>1, StateType DEF FollowInv
  <2>3. QED
    BY <2>1, <2>2, CommitType, CommitNoSlots DEF LayerInv
<1>2. ASSUME NEW tx \in Txs, NEW block \in Blocks, Execute(tx, block)
      PROVE  LayerInv'
  BY <1>2, ExecutorAssumption DEF Execute, LayerInv, NewMultiForkDb, NoSlots
<1>3. ASSUME NEW verdict, Return(verdict),
             fork_db' = fork_db \/ (pc \in {"read", "run"} /\ fork_db' = Commit(fork_db, result_and_state))
      PROVE  LayerInv'
  <2>1. multi_fork_db' = None /\ pc' = "returned"
    BY <1>3 DEF Return
  <2>2. fork_db' \in Layer /\ NoSlots(fork_db')
    BY <1>1, <1>3 DEF LayerInv
  <2>3. QED
    BY <2>1, <2>2 DEF LayerInv, NoSlots
<1>4. ASSUME UNCHANGED <<fork_db, multi_fork_db, result_and_state>>,
             pc' \in {"reverted", "read", "run"} <=> pc \in {"reverted", "read", "run"}
      PROVE  LayerInv'
  BY <1>4 DEF LayerInv, NoSlots
<1>5. CASE ReadDone
  <2>1. CASE assertions = {}
    BY <1>3, <1>5, <2>1 DEF ReadDone
  <2>2. CASE assertions # {}
    BY <1>4, <1>5, <2>2 DEF ReadDone, inputs
  <2>3. QED
    BY <2>1, <2>2
<1>6. ASSUME \/ UNCHANGED vars \/ CallerCommits
             \/ \E a \in Addresses : ReadOne(a)
             \/ \E x \in assertions : RunContract(x)
             \/ \E x \in assertions : \E selector \in x.selectors, outcome \in {"Success", "Revert", "Error"} :
                    ExecuteFn(x, selector, outcome)
             \/ \E m \in PendingMods : WriteStore(m)
      PROVE  LayerInv'
  <2>1. /\ UNCHANGED <<fork_db, multi_fork_db, result_and_state>>
        /\ pc' = pc \/ (pc = "returned" /\ pc' = "idle")
    BY <1>6 DEF vars, CallerCommits, ReadOne, RunContract, ExecuteFn, WriteStore, inputs
  <2>2. QED
    BY <1>4, <2>1
<1>7. ASSUME \/ ReturnError \/ ReturnReverted
             \/ \E a \in Addresses : ReadError(a)
             \/ \E x \in assertions : RunError(x)
      PROVE  LayerInv'
  BY <1>3, <1>7 DEF ReturnError, ReturnReverted, ReadError, RunError
<1>8. CASE RunDone
  BY <1>3, <1>8 DEF RunDone
<1>9. QED
  BY <1>2, <1>5, <1>6, <1>7, <1>8 DEF Next

LEMMA ActiveStep ==
    ASSUME ControlInv, StoreTyped, LayerInv, ActiveInv, [Next]_vars
    PROVE  ActiveInv'
<1>1. ASSUME NEW tx \in Txs, NEW block \in Blocks, Execute(tx, block)
      PROVE  ActiveInv'
  <2>1. /\ pc = "idle" /\ UNCHANGED <<assertions, active_dbs, runs>>
        /\ assertions = {} /\ DOMAIN active_dbs = {} /\ runs = {} /\ to_read = {}
    BY <1>1 DEF Execute, ControlInv, ActiveInv
  <2>2. tx.outcome \in {"Success", "Revert", "Error"}
    BY ExecutorAssumption
  <2>3. to_read' \subseteq Addresses /\ (to_read' # {} => pc' \in {"read", "reverted"}) /\ pc' # "run"
    BY <1>1, <2>1, <2>2 DEF Execute
  <2>4. QED
    BY <2>1, <2>3 DEF ActiveInv
<1>2. ASSUME NEW verdict, Return(verdict)
      PROVE  ActiveInv'
  <2>1. DOMAIN active_dbs' = {}
    BY <1>2 DEF Return
  <2>2. QED
    BY <1>2, <2>1 DEF Return, ActiveInv
<1>3. ASSUME NEW a \in Addresses, ReadOne(a)
      PROVE  ActiveInv'
  <2>1. /\ pc = "read" /\ pc' = "read" /\ to_read' = to_read \ {a}
        /\ UNCHANGED <<multi_fork_db, active_dbs, runs>>
        /\ assertions' = assertions \cup
            {[adopter |-> a, id |-> found.id, selectors |-> found.selectors] :
                found \in ReadAdopter(store[a], TriggersOn(tx_traces, a), current.block)}
    BY <1>3 DEF ReadOne, inputs
  <2>2. \A found \in ReadAdopter(store[a], TriggersOn(tx_traces, a), current.block) : found.id \in Ids
    <3>1. store[a] # None => \A n \in DOMAIN store[a] : store[a][n].id \in Ids
      <4>1. store[a] # None => store[a] \in Seq(AssertionState)
        BY DEF StoreTyped, Lists
      <4>2. ASSUME NEW list \in Seq(AssertionState), NEW n \in DOMAIN list
            PROVE  list[n].id \in Ids
        <5>1. list[n] \in AssertionState
          OBVIOUS
        <5>2. QED
          BY <5>1 DEF AssertionState
      <4>3. QED
        BY <4>1, <4>2
    <3>2. QED
      BY <3>1 DEF ReadAdopter
  <2>3. \A x \in assertions' : x.id \in Ids
    BY <2>1, <2>2 DEF ActiveInv
  <2>4. QED
    BY <2>1, <2>3 DEF ActiveInv
<1>4. ASSUME NEW x \in assertions, RunContract(x)
      PROVE  ActiveInv'
  <2>1. /\ pc = "run" /\ pc' = "run" /\ UNCHANGED <<multi_fork_db, to_read, assertions, runs>>
        /\ active_dbs' = [y \in DOMAIN active_dbs \cup {x} |->
            IF y = x THEN InsertAssertionContract(multi_fork_db.post, x.id) ELSE active_dbs[y]]
    BY <1>4 DEF RunContract, inputs
  <2>2. DOMAIN active_dbs' = DOMAIN active_dbs \cup {x}
    BY <2>1
  <2>3. \A y \in DOMAIN active_dbs' : active_dbs'[y] = InsertAssertionContract(multi_fork_db'.post, y.id)
    BY <2>1 DEF ActiveInv
  <2>4. \A run \in runs' : \E y \in DOMAIN active_dbs' :
            run.adopter = y.adopter /\ run.id = y.id /\ run.selector \in y.selectors
    BY <2>1, <2>2 DEF ActiveInv
  <2>5. QED
    BY <2>1, <2>2, <2>3, <2>4 DEF ActiveInv
<1>5. ASSUME NEW x \in assertions, NEW selector \in x.selectors, NEW outcome, ExecuteFn(x, selector, outcome)
      PROVE  ActiveInv'
  <2>1. /\ x \in DOMAIN active_dbs /\ UNCHANGED <<pc, multi_fork_db, to_read, assertions, active_dbs>>
        /\ runs' = runs \cup {[adopter |-> x.adopter, id |-> x.id, selector |-> selector, outcome |-> outcome]}
    BY <1>5 DEF ExecuteFn, inputs
  <2>2. \A run \in runs' : \E y \in DOMAIN active_dbs :
            run.adopter = y.adopter /\ run.id = y.id /\ run.selector \in y.selectors
    BY <2>1 DEF ActiveInv
  <2>3. QED
    BY <2>1, <2>2 DEF ActiveInv
<1>6. ASSUME UNCHANGED <<multi_fork_db, to_read, assertions, active_dbs, runs>>,
             \/ pc' = pc \/ (pc = "returned" /\ pc' = "idle")
             \/ pc = "read" /\ to_read = {} /\ pc' = "run"
      PROVE  ActiveInv'
  BY <1>6 DEF ActiveInv
<1>7. CASE ReadDone
  <2>1. CASE assertions = {}
    BY <1>2, <1>7, <2>1 DEF ReadDone
  <2>2. CASE assertions # {}
    BY <1>6, <1>7, <2>2 DEF ReadDone, inputs, running
  <2>3. QED
    BY <2>1, <2>2
<1>8. ASSUME UNCHANGED vars \/ CallerCommits \/ \E m \in PendingMods : WriteStore(m)
      PROVE  ActiveInv'
  <2>1. /\ UNCHANGED <<multi_fork_db, to_read, assertions, active_dbs, runs>>
        /\ pc' = pc \/ (pc = "returned" /\ pc' = "idle")
    BY <1>8 DEF vars, CallerCommits, WriteStore, inputs, running
  <2>2. QED
    BY <1>6, <2>1
<1>9. ASSUME \/ ReturnError \/ ReturnReverted \/ RunDone
             \/ \E a \in Addresses : ReadError(a)
             \/ \E x \in assertions : RunError(x)
      PROVE  ActiveInv'
  BY <1>2, <1>9 DEF ReturnError, ReturnReverted, RunDone, ReadError, RunError
<1>10. QED
  BY <1>1, <1>3, <1>4, <1>5, <1>7, <1>8, <1>9 DEF Next

(***************************************************************************)
(* The changes of a block.                                                 *)
(***************************************************************************)
\* What committing an account's merged changes at once leaves in a slot.
AtOnce(changes, a, s) == StorageRef(Commit(Empty, changes), InnerDb, a, s)

LEMMA AtOnceIs ==
    ASSUME NEW changes, NEW a \in Addresses, NEW s \in Slots
    PROVE  AtOnce(changes, a, s) =
            IF Destroyed(changes, a) THEN Zero
            ELSE IF Touched(changes, a) /\ changes[a].storage[s] # None THEN changes[a].storage[s]
            ELSE InnerDb.storage[a][s]
  BY DEF AtOnce, StorageRef, Commit, Empty, Destroyed, Touched

\* The merged changes add up, and a slot that was merely loaded has the value
\* that the database has.
MergedFor(changes, db, a) ==
    \A s \in Slots :
        /\ AtOnce(changes, a, s) = db.storage[a][s]
        /\ changes[a] # None /\ ~ changes[a].selfdestructed /\ changes[a].storage[s] # None
            => changes[a].storage[s] = db.storage[a][s]

MergeInv ==
    /\ block_changes \in Changes
    /\ \A a \in Addresses \ unmerged : MergedFor(block_changes, external_db, a)
    /\ pc = "returned" /\ result.valid =>
        \E tx \in Txs : result.state = StateAfter(tx, external_db)

\* A destroyed account was touched; a slot that was loaded of an account that
\* was not touched has its value in the database.
LEMMA UntouchedState ==
    ASSUME NEW tx \in Txs, NEW db, IsDb(db), NEW a \in Addresses, StateAfter(tx, db)[a] # None,
           ~ StateAfter(tx, db)[a].touched
    PROVE  /\ ~ StateAfter(tx, db)[a].selfdestructed
           /\ \A s \in Slots : StateAfter(tx, db)[a].storage[s] # None
                => StateAfter(tx, db)[a].storage[s] = db.storage[a][s]
<1>1. Accessed(tx, a) /\ ~ IsTouched(tx, a)
  BY DEF StateAfter
<1>2. a \notin SelfDestructed(tx)
  BY <1>1 DEF SelfDestructed, IsTouched, Involves
<1>3. \A s \in Slots : WritesTo(tx, a, s) = {}
  BY <1>1 DEF WritesTo, Live, IsTouched, Involves
<1>4. \A s \in Slots : Present(tx, db.storage, a, s) = db.storage[a][s]
  BY <1>3 DEF Present, ValueAt
<1>5. QED
  BY <1>1, <1>2, <1>4 DEF StateAfter

LEMMA MergeType ==
    ASSUME NEW changes \in Changes, NEW later \in Changes
    PROVE  /\ MergeState(changes, later) \in Changes
           /\ \A a \in Addresses : later[a] # None => MergeState(changes, later)[a] \in Account
<1>1. ASSUME NEW a \in Addresses, later[a] # None PROVE MergeState(changes, later)[a] \in Account
  <2>1. later[a] \in Account /\ changes[a] \in Account \cup {None}
    BY <1>1 DEF Changes
  <2>2. CASE changes[a] = None
    BY <1>1, <2>1, <2>2 DEF MergeState
  <2>3. CASE changes[a] # None
    <3> DEFINE storage == [s \in Slots |-> IF later[a].storage[s] # None THEN later[a].storage[s]
                                           ELSE changes[a].storage[s]]
    <3>1. storage \in [Slots -> Values \cup {None}]
      BY <2>1, <2>3 DEF Account
    <3>2. MergeState(changes, later)[a] =
            [touched |-> later[a].touched, selfdestructed |-> later[a].selfdestructed,
             info |-> later[a].info, storage |-> storage]
      BY <1>1, <2>3 DEF MergeState
    <3> HIDE DEF storage
    <3>3. QED
      BY <2>1, <3>1, <3>2 DEF Account
  <2>4. QED
    BY <2>2, <2>3
<1>2. \A a \in Addresses : MergeState(changes, later)[a] \in Account \cup {None}
  BY <1>1 DEF MergeState, Changes
<1>3. QED
  BY <1>1, <1>2 DEF MergeState, Changes

LEMMA MergeOne ==
    ASSUME NEW changes \in Changes, NEW tx \in Txs, NEW db, IsDb(db), NEW a \in Addresses,
           MergedFor(changes, db, a), a \notin LosesStatus(changes, StateAfter(tx, db))
    PROVE  MergedFor(MergeState(changes, StateAfter(tx, db)), Committed(db, StateAfter(tx, db)), a)
<1> DEFINE later == StateAfter(tx, db)
           merged == MergeState(changes, later)
           after == Committed(db, later)
<1>1. later \in Changes
  BY StateType
<1>2. later[a] # None => later[a] \in Account
  BY <1>1 DEF Changes
<1>3. changes[a] # None => changes[a] \in Account
  BY DEF Changes
<1>4. later[a] # None /\ ~ later[a].touched =>
        /\ ~ later[a].selfdestructed
        /\ \A s \in Slots : later[a].storage[s] # None => later[a].storage[s] = db.storage[a][s]
  BY UntouchedState
<1>5. merged[a] = IF later[a] = None THEN changes[a]
                  ELSE IF changes[a] = None THEN later[a]
                  ELSE [touched |-> later[a].touched, selfdestructed |-> later[a].selfdestructed,
                        info    |-> later[a].info,
                        storage |-> [s \in Slots |->
                            IF later[a].storage[s] # None THEN later[a].storage[s]
                            ELSE changes[a].storage[s]]]
  BY DEF MergeState
<1>6. \A s \in Slots : after.storage[a][s] =
        IF later[a] = None \/ ~ later[a].touched THEN db.storage[a][s]
        ELSE IF later[a].selfdestructed THEN Zero
        ELSE IF later[a].storage[s] # None THEN later[a].storage[s]
        ELSE db.storage[a][s]
  BY DEF Committed
<1>7. changes[a] # None /\ later[a] # None =>
        /\ changes[a].touched => later[a].touched
        /\ changes[a].selfdestructed => later[a].selfdestructed
  BY DEF LosesStatus
<1>8. merged[a] # None /\ later[a] # None =>
        /\ merged[a].touched = later[a].touched /\ merged[a].selfdestructed = later[a].selfdestructed
        /\ \A s \in Slots : merged[a].storage[s] =
            IF later[a].storage[s] # None \/ changes[a] = None THEN later[a].storage[s]
            ELSE changes[a].storage[s]
  BY <1>2, <1>5 DEF Account
<1> HIDE DEF later, merged, after
<1>9. SUFFICES ASSUME NEW s \in Slots
               PROVE  /\ AtOnce(merged, a, s) = after.storage[a][s]
                      /\ merged[a] # None /\ ~ merged[a].selfdestructed /\ merged[a].storage[s] # None
                            => merged[a].storage[s] = after.storage[a][s]
  BY DEF MergedFor, merged, after, later
<1>10. /\ AtOnce(changes, a, s) = db.storage[a][s]
       /\ changes[a] # None /\ ~ changes[a].selfdestructed /\ changes[a].storage[s] # None
            => changes[a].storage[s] = db.storage[a][s]
  BY DEF MergedFor
<1>11. CASE later[a] = None
  <2>1. merged[a] = changes[a] /\ after.storage[a][s] = db.storage[a][s]
    BY <1>5, <1>6, <1>11
  <2>2. AtOnce(merged, a, s) = AtOnce(changes, a, s)
    BY <2>1, AtOnceIs DEF Destroyed, Touched
  <2>3. QED
    BY <1>10, <2>1, <2>2
<1>12. CASE later[a] # None
  <2>1. merged[a] # None
    BY <1>1, <1>12, MergeType, ExecutorAssumption DEF merged
  <2>2. /\ merged[a].touched = later[a].touched /\ merged[a].selfdestructed = later[a].selfdestructed
        /\ merged[a].storage[s] =
            IF later[a].storage[s] # None \/ changes[a] = None THEN later[a].storage[s]
            ELSE changes[a].storage[s]
    BY <1>8, <1>12, <2>1
  <2>3. CASE ~ later[a].touched
    <3>1. ~ Touched(merged, a) /\ ~ Touched(changes, a)
      BY <1>7, <1>12, <2>2, <2>3 DEF Touched
    <3>2. AtOnce(merged, a, s) = InnerDb.storage[a][s] /\ AtOnce(changes, a, s) = InnerDb.storage[a][s]
      BY <3>1, AtOnceIs DEF Destroyed
    <3>3. after.storage[a][s] = db.storage[a][s]
      BY <1>6, <2>3
    <3>4. changes[a] # None => ~ changes[a].selfdestructed
      BY <1>4, <1>7, <1>12, <2>3
    <3>5. QED
      BY <1>4, <1>10, <1>12, <2>2, <2>3, <3>2, <3>3, <3>4
  <2>4. CASE later[a].touched /\ later[a].selfdestructed
    <3>1. Destroyed(merged, a)
      BY <2>1, <2>2, <2>4 DEF Destroyed, Touched
    <3>2. QED
      BY <1>6, <1>12, <2>2, <2>4, <3>1, AtOnceIs
  <2>5. CASE later[a].touched /\ ~ later[a].selfdestructed
    <3>1. Touched(merged, a) /\ ~ Destroyed(merged, a)
      BY <2>1, <2>2, <2>5 DEF Destroyed, Touched
    <3>2. AtOnce(merged, a, s) = IF merged[a].storage[s] # None THEN merged[a].storage[s]
                                 ELSE InnerDb.storage[a][s]
      BY <3>1, AtOnceIs
    <3>3. after.storage[a][s] = IF later[a].storage[s] # None THEN later[a].storage[s] ELSE db.storage[a][s]
      BY <1>6, <1>12, <2>5
    <3>4. changes[a] # None => ~ Destroyed(changes, a) /\ ~ changes[a].selfdestructed
      BY <1>7, <1>12, <2>5 DEF Destroyed
    <3>5. changes[a] = None \/ changes[a].storage[s] = None => db.storage[a][s] = InnerDb.storage[a][s]
      BY <1>10, <3>4, AtOnceIs DEF Destroyed, Touched
    <3>6. QED
      BY <1>10, <2>2, <3>2, <3>3, <3>4, <3>5
  <2>6. QED
    BY <2>3, <2>4, <2>5
<1>13. QED
  BY <1>11, <1>12

LEMMA MergeStep ==
    ASSUME ControlInv, FollowInv, MergeInv, [Next]_vars
    PROVE  MergeInv'
<1>1. CASE CallerCommits
  <2>1. pc' = "idle" /\ pc = "returned"
    BY <1>1 DEF CallerCommits
  <2>2. CASE result.valid
    <3>1. PICK tx \in Txs : result.state = StateAfter(tx, external_db)
      BY <2>1, <2>2 DEF MergeInv
    <3>2. /\ external_db' = Committed(external_db, StateAfter(tx, external_db))
          /\ block_changes' = MergeState(block_changes, StateAfter(tx, external_db))
          /\ unmerged' = unmerged \cup LosesStatus(block_changes, StateAfter(tx, external_db))
      BY <1>1, <2>2, <3>1 DEF CallerCommits
    <3>3. IsDb(external_db) /\ StateAfter(tx, external_db) \in Changes
      BY StateType DEF FollowInv
    <3>4. block_changes' \in Changes
      BY <3>2, <3>3, MergeType DEF MergeInv
    <3>5. \A a \in Addresses \ unmerged' : MergedFor(block_changes', external_db', a)
      BY <3>2, <3>3, MergeOne DEF MergeInv
    <3>6. QED
      BY <2>1, <3>4, <3>5 DEF MergeInv
  <2>3. CASE ~ result.valid
    BY <1>1, <2>1, <2>3 DEF CallerCommits, MergeInv, MergedFor, dbs
  <2>4. QED
    BY <2>2, <2>3
<1>2. ASSUME UNCHANGED <<external_db, block_changes, unmerged>>,
             \/ pc' # "returned" \/ ~ result'.valid \/ (pc' = pc /\ result' = result)
             \/ \E tx \in Txs : result'.state = StateAfter(tx, external_db)
      PROVE  MergeInv'
  BY <1>2 DEF MergeInv
<1>3. ASSUME NEW verdict, Return(verdict),
             ~ verdict.valid \/ (pc \in {"reverted", "read", "run"} /\ verdict.state = result_and_state)
      PROVE  MergeInv'
  <2>1. UNCHANGED <<external_db, block_changes, unmerged>> /\ result' = verdict
    BY <1>3 DEF Return, dbs
  <2>2. CASE ~ verdict.valid
    BY <1>2, <2>1, <2>2
  <2>3. CASE pc \in {"reverted", "read", "run"} /\ verdict.state = result_and_state
    <3>1. current.tx \in Txs /\ verdict.state = StateAfter(current.tx, external_db)
      BY <2>3 DEF ControlInv
    <3>2. QED
      BY <1>2, <2>1, <3>1
  <2>4. QED
    BY <1>3, <2>2, <2>3
<1>4. ~ Failed.valid /\ \A valid, ran : Verdict(valid, ran).state = result_and_state
  BY DEF Failed, NoResult, Verdict
<1>5. CASE ReadDone
  <2>1. CASE assertions = {}
    BY <1>3, <1>4, <1>5, <2>1 DEF ReadDone
  <2>2. CASE assertions # {}
    BY <1>2, <1>5, <2>2 DEF ReadDone, dbs
  <2>3. QED
    BY <2>1, <2>2
<1>6. ASSUME NEW tx \in Txs, NEW block \in Blocks, Execute(tx, block)
      PROVE  MergeInv'
  BY <1>2, <1>6 DEF Execute, NoResult, dbs
<1>7. ASSUME \/ UNCHANGED vars
             \/ \E a \in Addresses : ReadOne(a)
             \/ \E x \in assertions : RunContract(x)
             \/ \E x \in assertions : \E selector \in x.selectors, outcome \in {"Success", "Revert", "Error"} :
                    ExecuteFn(x, selector, outcome)
             \/ \E m \in PendingMods : WriteStore(m)
      PROVE  MergeInv'
  <2>1. UNCHANGED <<external_db, block_changes, unmerged, pc, result>>
    BY <1>7 DEF vars, ReadOne, RunContract, ExecuteFn, WriteStore, dbs
  <2>2. QED
    BY <1>2, <2>1
<1>8. ASSUME \/ ReturnError
             \/ \E a \in Addresses : ReadError(a)
             \/ \E x \in assertions : RunError(x)
      PROVE  MergeInv'
  BY <1>3, <1>4, <1>8 DEF ReturnError, ReadError, RunError
<1>9. CASE ReturnReverted \/ RunDone
  BY <1>3, <1>4, <1>9 DEF ReturnReverted, RunDone
<1>10. QED
  BY <1>1, <1>5, <1>6, <1>7, <1>8, <1>9 DEF Next

ForksInv == ExecutorInv /\ StoreTyped /\ LayerInv /\ ActiveInv /\ MergeInv

LEMMA ForksInit ==
    ASSUME Init
    PROVE  ForksInv
<1>1. StoreTyped
  BY DEF Init, StoreTyped
<1>2. LayerInv
  BY EmptyType, DeploymentAssumption DEF Init, LayerInv, NoSlots, Empty
<1>3. ActiveInv
  <2>1. DOMAIN active_dbs = {}
    BY DEF Init
  <2>2. QED
    BY <2>1 DEF Init, ActiveInv
<1>4. MergeInv
  <2>1. block_changes \in Changes /\ \A a \in Addresses : block_changes[a] = None
    BY DEF Init, NoChanges, Changes
  <2>2. \A a \in Addresses : MergedFor(block_changes, external_db, a)
    BY <2>1, AtOnceIs DEF Init, MergedFor, Destroyed, Touched
  <2>3. QED
    BY <2>1, <2>2 DEF Init, MergeInv
<1>5. QED
  BY <1>1, <1>2, <1>3, <1>4, ExecutorInit DEF ForksInv

LEMMA ForksInvariant == Spec => []ForksInv
<1>1. Init => ForksInv
  BY ForksInit
<1>2. ForksInv /\ [Next]_vars => ForksInv'
  <2>1. ForksInv /\ [Next]_vars => ExecutorInv'
    BY ControlStep, FollowStep, WindowStep, ReadStep, RunStep DEF ForksInv, ExecutorInv
  <2>2. QED
    BY <2>1, StoreTypedStep, LayerStep, ActiveStep, MergeStep DEF ForksInv, ExecutorInv
<1>3. QED
  BY <1>1, <1>2, PTL DEF Spec

(***************************************************************************)
(* The theorems.                                                           *)
(***************************************************************************)
\* The type invariant, for any transactions, databases and assertions.
THEOREM ExecutorTypes == Spec => []TypeOK
<1>1. ForksInv => TypeOK
  <2> SUFFICES ASSUME ForksInv PROVE TypeOK
    OBVIOUS
  <2>1. pc \in Steps /\ ((current # None) = (pc \notin {"idle", "returned"}))
    BY ExecutorAssumption DEF ForksInv, ExecutorInv, ControlInv
  <2>2. (multi_fork_db # None) = (pc \in {"reverted", "read", "run"})
    <3>1. CASE pc \in {"reverted", "read", "run"}
      <4>1. result_and_state \in Changes
        BY <3>1, StateType DEF ForksInv, ExecutorInv, ControlInv, FollowInv
      <4>2. multi_fork_db \in [pre : Layer, post : Layer]
        BY <3>1, <4>1, CommitType DEF ForksInv, LayerInv
      <4>3. QED
        BY <3>1, <4>2, DeploymentAssumption
    <3>2. CASE pc \notin {"reverted", "read", "run"}
      BY <3>2 DEF ForksInv, LayerInv
    <3>3. QED
      BY <3>1, <3>2
  <2>3. store \in [Addresses -> Seq(AssertionState) \cup {None}]
    BY DEF ForksInv, StoreTyped, Lists
  <2>4. external_db.storage \in [Addresses -> [Slots -> Values]]
    BY DEF ForksInv, ExecutorInv, FollowInv, IsDb, Storages
  <2>5. QED
    BY <2>1, <2>2, <2>3, <2>4 DEF ForksInv, ActiveInv, TypeOK, Steps
<1>2. QED
  BY <1>1, ForksInvariant, PTL

\* run_assertion_contract puts every contract into a copy of the forks: its
\* functions find the code and the storage that it was deployed with, and no
\* slot of another contract that runs at the same address.
THEOREM EachItsOwnDeployment == Spec => []OwnDeployment
<1>1. ForksInv => OwnDeployment
  <2> SUFFICES ASSUME ForksInv, NEW x \in DOMAIN active_dbs
               PROVE  /\ BasicRef(active_dbs[x], InnerDb, AssertionContract).code = Deployed[x.id].code
                      /\ \A s \in Slots : StorageRef(active_dbs[x], InnerDb, AssertionContract, s)
                            = IF Deployed[x.id].storage[s] = None THEN Zero ELSE Deployed[x.id].storage[s]
    BY DEF OwnDeployment
  <2>1. /\ pc = "run" /\ x.id \in Ids
        /\ active_dbs[x] = InsertAssertionContract(multi_fork_db.post, x.id)
    BY DEF ForksInv, ActiveInv
  <2>2. current.tx \in Txs /\ result_and_state = StateAfter(current.tx, external_db)
    BY <2>1 DEF ForksInv, ExecutorInv, ControlInv
  <2>3. multi_fork_db.post = Commit(fork_db, result_and_state)
    BY <2>1 DEF ForksInv, LayerInv
  <2>4. result_and_state \in Changes
    BY <2>2, StateType DEF ForksInv, ExecutorInv, FollowInv
  <2>5. multi_fork_db.post \in Layer /\ NoSlots(multi_fork_db.post)
    BY <2>2, <2>3, <2>4, CommitType, CommitNoSlots DEF ForksInv, LayerInv
  <2>6. QED
    BY <2>1, <2>5, Deploys
<1>2. QED
  BY <1>1, ForksInvariant, PTL

\* merge_state over a block, committed at once, leaves the storage that
\* committing transaction by transaction has left, but for the accounts that
\* BlockChangesAddUp excuses.
THEOREM MergedChangesAddUp == Spec => []BlockChangesAddUp
<1>1. ForksInv => BlockChangesAddUp
  BY DEF ForksInv, MergeInv, MergedFor, AtOnce, BlockChangesAddUp
<1>2. QED
  BY <1>1, ForksInvariant, PTL

(***************************************************************************)
(* getStateChanges.                                                        *)
(***************************************************************************)
\* The writes to a slot that changed it.
ChangesOf(tx, storage, a, s) ==
    {n \in Changing(tx, storage) : tx.ops[n].at = a /\ tx.ops[n].key = s}

\* As long as no write changed a slot, it has the value that it began with.
LEMMA ValueUnchanged ==
    ASSUME NEW tx \in Txs, NEW storage, NEW a, NEW s, NEW k \in Nat,
           \A n \in ChangesOf(tx, storage, a, s) : ~ n < k
    PROVE  ValueAt(tx, storage, k, a, s) = storage[a][s]
<1> DEFINE P == {j \in 0..k : \A n \in 0..j : ValueAt(tx, storage, n, a, s) = storage[a][s]}
<1>1. WritesTo(tx, a, s) \subseteq Nat
  BY ExecutorAssumption DEF WritesTo, Live
<1>2. \A n \in WritesTo(tx, a, s) :
        n \in ChangesOf(tx, storage, a, s) \/ ValueAt(tx, storage, n, a, s) = tx.ops[n].value
  BY DEF WritesTo, ChangesOf, Changing, Live
<1>3. ASSUME NEW j \in 0..k, \A n \in 0..k : n < j => ValueAt(tx, storage, n, a, s) = storage[a][s]
      PROVE  ValueAt(tx, storage, j, a, s) = storage[a][s]
  <2> DEFINE earlier == {m \in WritesTo(tx, a, s) : m < j}
             last == CHOOSE m \in earlier : IsLast(m, earlier)
  <2>1. CASE earlier = {}
    BY <2>1 DEF ValueAt
  <2>2. CASE earlier # {}
    <3>1. Len(tx.ops) \in Nat /\ earlier \subseteq 1..Len(tx.ops)
      BY ExecutorAssumption DEF WritesTo, Live
    <3>2. \E m \in earlier : IsLast(m, earlier)
      BY <2>2, <3>1, LastOf
    <3>3. last \in earlier
      BY <3>2
    <3> HIDE DEF last
    <3>4. last \in WritesTo(tx, a, s) /\ last \in Nat /\ last < j
      BY <1>1, <3>3
    <3>5. last \in 0..k /\ last < k
      BY <3>4
    <3>6. tx.ops[last].value = storage[a][s]
      BY <1>2, <1>3, <3>4, <3>5
    <3>7. QED
      BY <2>2, <3>6 DEF ValueAt, last
  <2>3. QED
    BY <2>1, <2>2
<1>4. 0 \in P
  BY <1>3
<1>5. ASSUME NEW j \in 1..k, j - 1 \in P PROVE j \in P
  <2>1. j \in 0..k /\ \A n \in 0..k : n < j => n \in 0..(j - 1)
    OBVIOUS
  <2>2. ValueAt(tx, storage, j, a, s) = storage[a][s]
    BY <1>3, <1>5, <2>1
  <2>3. \A n \in 0..j : n = j \/ n \in 0..(j - 1)
    BY <2>1
  <2>4. QED
    BY <1>5, <2>1, <2>2, <2>3
<1>6. k \in P
  <2> HIDE DEF P
  <2>1. QED
    BY <1>4, <1>5, Induction
<1>7. QED
  BY <1>6

\* The first of some operations in order is the least.
LEMMA FirstInOrder ==
    ASSUME NEW k \in Nat, NEW N, N \subseteq 1..k, N # {}
    PROVE  /\ DOMAIN InOrder(N) = 1..Cardinality(N)
           /\ Cardinality(N) \in Nat \ {0}
           /\ InOrder(N)[1] \in N /\ \A m \in N : InOrder(N)[1] <= m
<1>0. N \subseteq Nat
  OBVIOUS
<1>1. IsFiniteSet(N) /\ \A M \in SUBSET N : IsFiniteSet(M)
  <2>1. IsFiniteSet(1..k)
    BY FS_Interval
  <2>2. \A M \in SUBSET (1..k) : IsFiniteSet(M)
    BY <2>1, FS_Subset
  <2>3. QED
    BY <2>2
<1>2. Cardinality(N) \in Nat \ {0}
  BY <1>1, FS_CardinalityType, FS_EmptySet
<1> DEFINE UpTo(n) == {m \in N : m <= n}
           first == CHOOSE n \in N : Cardinality(UpTo(n)) = 1
<1>3. \E n \in N : Cardinality(UpTo(n)) = 1
  <2>1. PICK n \in N : \A m \in N : n <= m
    <3> DEFINE F == {j \in 0..k : \A M \in SUBSET (1..k) :
                        (\E m \in M : m <= j) => \E n \in M : \A m \in M : n <= m}
    <3>1. 0 \in F
      OBVIOUS
    <3>2. ASSUME NEW j \in 1..k, j - 1 \in F PROVE j \in F
      <4>1. SUFFICES ASSUME NEW M \in SUBSET (1..k), NEW l \in M, l <= j
                     PROVE  \E n \in M : \A m \in M : n <= m
        OBVIOUS
      <4>2. CASE \E m \in M : m <= j - 1
        BY <3>2, <4>2
      <4>3. CASE \A m \in M : ~ (m <= j - 1)
        <5>1. \A m \in M : l <= m
          BY <4>1, <4>3
        <5>2. QED
          BY <5>1
      <4>4. QED
        BY <4>2, <4>3
    <3>3. k \in F
      <4> HIDE DEF F
      <4>1. QED
        BY <3>1, <3>2, Induction
    <3>4. \E m \in N : m <= k
      <4>1. PICK m \in N : TRUE
        OBVIOUS
      <4>2. m <= k
        OBVIOUS
      <4>3. QED
        BY <4>2
    <3>5. QED
      BY <3>3, <3>4
  <2>2. UpTo(n) = {n}
    <3>1. \A m \in N : m <= n => m = n
      BY <1>0, <2>1
    <3>2. n <= n
      BY <1>0
    <3>3. QED
      BY <3>1, <3>2
  <2>3. QED
    BY <2>2, FS_Singleton
<1>4. first \in N /\ Cardinality(UpTo(first)) = 1
  BY <1>3
<1>5. InOrder(N)[1] = first /\ DOMAIN InOrder(N) = 1..Cardinality(N)
  <2>1. 1 \in 1..Cardinality(N)
    BY <1>2
  <2>2. QED
    BY <2>1 DEF InOrder
<1> HIDE DEF first
<1>6. PICK x : UpTo(first) = {x}
  BY <1>1, <1>4, FS_Singleton
<1>7. first \in UpTo(first)
  BY <1>4
<1>8. \A m \in N : first <= m
  BY <1>4, <1>6, <1>7
<1>9. QED
  BY <1>2, <1>4, <1>5, <1>8

\* What getStateChanges answers of a transaction, in terms of what the slot had
\* before it and has after it.
LEMMA DifferencesSpan ==
    ASSUME NEW tx \in Txs, NEW db, IsDb(db), NEW a \in Addresses, NEW s \in Slots
    PROVE  LET changes == GetStateChanges(Trace(tx, db), a, s)
               n       == Len(changes.values)
           IN  /\ changes.error = None
               /\ n > 0 => /\ changes.values[1] = db.storage[a][s]
                           /\ changes.values[n] = Present(tx, db.storage, a, s)
               /\ n = 0 => Present(tx, db.storage, a, s) = db.storage[a][s]
<1> DEFINE storage == db.storage
           journal == Journal(tx, storage)
           N       == ChangesOf(tx, storage, a, s)
           when    == InOrder(N)
           had     == HadValues(journal, a, s)
           state   == StateAfter(tx, db)
<1>1. /\ Len(tx.ops) \in Nat /\ DOMAIN tx.ops = 1..Len(tx.ops)
      /\ N \subseteq 1..Len(tx.ops) /\ N \subseteq Nat
  BY ExecutorAssumption DEF ChangesOf, Changing, Live
<1>2. {n \in DOMAIN journal : journal[n].kind = "sstore" /\ journal[n].at = a /\ journal[n].key = s} = N
  <2>1. DOMAIN journal = Changing(tx, storage) \cup Live(tx, "transfer") \cup Live(tx, "destroy")
    BY DEF Journal
  <2>2. \A n \in DOMAIN journal : /\ journal[n].kind = tx.ops[n].kind
                                  /\ journal[n].at = tx.ops[n].at /\ journal[n].key = tx.ops[n].key
    BY DEF Journal
  <2>3. /\ \A n \in Changing(tx, storage) : tx.ops[n].kind = "sstore"
        /\ \A n \in Live(tx, "transfer") \cup Live(tx, "destroy") : tx.ops[n].kind # "sstore"
    BY DEF Changing, Live
  <2>4. QED
    BY <2>1, <2>2, <2>3 DEF ChangesOf
<1>3. had = [i \in DOMAIN when |-> journal[when[i]].had]
  BY <1>2 DEF HadValues
<1>4. GetStateChanges(Trace(tx, db), a, s) =
        IF had = <<>> THEN Ok(<<>>)
        ELSE IF state[a] = None THEN Err("AccountNotFound")
        ELSE IF state[a].storage[s] = None THEN Err("SlotNotFound")
        ELSE Ok(Append(had, state[a].storage[s]))
  BY DEF GetStateChanges, GetDifferences, Trace
<1>5. CASE N = {}
  <2>1. when = <<>>
    BY <1>5, FS_EmptySet DEF InOrder
  <2>2. had = <<>>
    BY <1>3, <2>1
  <2>3. GetStateChanges(Trace(tx, db), a, s) = [error |-> None, values |-> <<>>]
    BY <1>4, <2>2 DEF Ok
  <2>4. Len(tx.ops) + 1 \in Nat /\ \A n \in N : ~ n < Len(tx.ops) + 1
    BY <1>1, <1>5
  <2>5. Present(tx, storage, a, s) = storage[a][s]
    BY <2>4, ValueUnchanged DEF Present
  <2>6. QED
    BY <2>3, <2>5
<1>6. CASE N # {}
  <2> DEFINE first == when[1]
             k == Cardinality(N)
             present == Present(tx, storage, a, s)
  <2>1. /\ DOMAIN when = 1..k /\ k \in Nat \ {0}
        /\ first \in N /\ \A m \in N : first <= m
    BY <1>1, <1>6, FirstInOrder
  <2>2. first \in Nat /\ \A n \in N : ~ n < first
    BY <1>1, <2>1
  <2>3. ValueAt(tx, storage, first, a, s) = storage[a][s]
    BY <2>2, ValueUnchanged
  <2>4. journal[first].had = storage[a][s]
    <3>1. first \in Changing(tx, storage) /\ tx.ops[first].at = a /\ tx.ops[first].key = s
      BY <2>1 DEF ChangesOf
    <3>2. tx.ops[first].kind = "sstore"
      BY <3>1 DEF Changing, Live
    <3>3. QED
      BY <2>3, <3>1, <3>2 DEF Journal
  <2>5. DOMAIN had = 1..k /\ had[1] = storage[a][s]
    BY <1>3, <2>1, <2>4
  <2> DEFINE V == {had[i] : i \in 1..k} \cup {present}
  <2>6. had \in Seq(V) /\ Len(had) = k /\ had # <<>> /\ present \in V
    BY <1>3, <2>1, <2>5
  <2>7. state[a] # None /\ state[a].storage[s] = present /\ present # None
    <3>1. PICK m : m \in Live(tx, "sstore") /\ tx.ops[m].at = a /\ tx.ops[m].key = s
      BY <2>1 DEF ChangesOf, Changing
    <3>2. IsLoaded(tx, a, s) /\ IsTouched(tx, a) /\ Accessed(tx, a)
      BY <3>1 DEF IsLoaded, IsTouched, Involves, Accessed, Live
    <3>3. state[a] \in Account
      BY <3>2, AccountType
    <3>4. present \in Values
      <4>1. Len(tx.ops) + 1 \in Nat
        BY <1>1
      <4>2. QED
        BY <4>1, ValueType DEF Present, IsDb
    <3>5. state[a].storage[s] = present
      BY <3>2 DEF StateAfter
    <3>6. QED
      BY <3>3, <3>4, <3>5, ExecutorAssumption
  <2>8. GetStateChanges(Trace(tx, db), a, s) = [error |-> None, values |-> Append(had, present)]
    BY <1>4, <2>6, <2>7 DEF Ok
  <2> HIDE DEF had, present
  <2>9. /\ Len(Append(had, present)) = k + 1
        /\ Append(had, present)[1] = had[1] /\ Append(had, present)[k + 1] = present
    BY <2>1, <2>6
  <2>10. QED
    BY <2>1, <2>5, <2>8, <2>9 DEF present
<1>7. QED
  BY <1>5, <1>6

\* getStateChanges agrees with the forks that the assertion can switch to: it
\* never fails, and its first and last values are what the slot has in the
\* fork before and in the fork after the transaction.
THEOREM ChangesSpanForks == Spec => []StateChangesSpanForks
<1>1. ForksInv => StateChangesSpanForks
  <2> SUFFICES ASSUME ForksInv, pc \in {"read", "run"}, NEW a \in Addresses, NEW s \in Slots
               PROVE  LET changes == GetStateChanges(tx_traces, a, s)
                          before  == LoadExternalSlot(multi_fork_db.pre, a, s)
                          after   == LoadExternalSlot(multi_fork_db.post, a, s)
                          n       == Len(changes.values)
                      IN  /\ changes.error = None
                          /\ n > 0 => changes.values[1] = before
                          /\ n > 0 /\ ~ Destroyed(result_and_state, a) => changes.values[n] = after
                          /\ n = 0 /\ ~ Destroyed(result_and_state, a) => before = after
    BY DEF StateChangesSpanForks
  <2> DEFINE tx == current.tx
  <2>1. /\ tx \in Txs /\ result_and_state = StateAfter(tx, external_db)
        /\ tx_traces = Trace(tx, external_db)
    BY DEF ForksInv, ExecutorInv, ControlInv
  <2>2. IsDb(external_db) /\ Follows(fork_db, external_db, stale)
    BY DEF ForksInv, ExecutorInv, FollowInv
  <2>3. result_and_state \in Changes
    BY <2>1, <2>2, StateType
  <2>4. multi_fork_db.pre = fork_db /\ multi_fork_db.post = Commit(fork_db, result_and_state)
    BY DEF ForksInv, LayerInv
  <2>5. LoadExternalSlot(multi_fork_db.pre, a, s) = external_db.storage[a][s]
    BY <2>2, <2>4 DEF LoadExternalSlot, Follows, Over
  <2>6. LoadExternalSlot(multi_fork_db.post, a, s) = StorageAfter(tx, external_db.storage)[a][s]
    <3>1. Over(Commit(fork_db, result_and_state), InnerDb).storage = Committed(external_db, result_and_state).storage
      BY <2>2, <2>3, CommitFollows DEF Follows
    <3>2. Committed(external_db, result_and_state).storage = StorageAfter(tx, external_db.storage)
      BY <2>1, <2>2, CommittedStorage
    <3>3. Over(Commit(fork_db, result_and_state), InnerDb).storage[a][s]
            = StorageRef(Commit(fork_db, result_and_state), InnerDb, a, s)
      BY DEF Over
    <3>4. QED
      BY <2>4, <3>1, <3>2, <3>3 DEF LoadExternalSlot
  <2>7. ~ Destroyed(result_and_state, a) =>
            StorageAfter(tx, external_db.storage)[a][s] = Present(tx, external_db.storage, a, s)
    <3>1. a \in SelfDestructed(tx) => IsTouched(tx, a) /\ Accessed(tx, a)
      BY DEF SelfDestructed, IsTouched, Involves, Accessed
    <3>2. a \in SelfDestructed(tx) => StateAfter(tx, external_db)[a] \in Account
      BY <2>1, <2>2, <3>1, AccountType
    <3>3. a \in SelfDestructed(tx) => Destroyed(result_and_state, a)
      BY <2>1, <3>1, <3>2, ExecutorAssumption DEF Destroyed, Touched, StateAfter
    <3>4. QED
      BY <3>3 DEF StorageAfter
  <2> HIDE DEF tx
  <2>8. QED
    BY <2>1, <2>2, <2>5, <2>6, <2>7, DifferencesSpan
<1>2. QED
  BY <1>1, ForksInvariant, PTL
===============================================================================
