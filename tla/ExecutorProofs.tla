---------------------------- MODULE ExecutorProofs ---------------------------
(***************************************************************************)
(* For any transactions, assertions and databases, and whatever the store  *)
(* is changed to meanwhile: the executor's fork follows the caller's       *)
(* database, and the executor implements ValidatedBlock.                   *)
(***************************************************************************)
EXTENDS Executor, ModificationsProofs, FiniteSetTheorems

Storages == [Addresses -> [Slots -> Values]]
Changes  == [Addresses -> Account \cup {None}]

\* A database as the caller has it.
IsDb(db) == db.basic \in [Addresses -> Info \cup {None}] /\ db.storage \in Storages

(***************************************************************************)
(* What a transaction leaves.                                              *)
(***************************************************************************)
\* A bounded set of naturals that is not empty has a last element.
LEMMA LastOf ==
    ASSUME NEW k \in Nat, NEW N \in SUBSET (1..k), N # {}
    PROVE  \E n \in N : IsLast(n, N)
<1> DEFINE Distances == {k - n : n \in N}
<1>1. Distances \subseteq Nat /\ Distances # {}
  <2>1. PICK n \in N : TRUE
    OBVIOUS
  <2>2. k - n \in Distances
    BY <2>1
  <2>3. Distances \subseteq Nat
    OBVIOUS
  <2>4. QED
    BY <2>2, <2>3
<1>2. PICK d \in Distances : \A e \in Distances : ~ (<<e, d>> \in OpToRel(<, Nat))
  BY <1>1, NatLessThanWellFounded, WFMin
<1>3. \A e \in Distances : ~ (e < d)
  BY <1>1, <1>2 DEF OpToRel
<1>4. PICK n \in N : d = k - n
  OBVIOUS
<1>5. \A m \in N : m <= n
  BY <1>3, <1>4
<1>6. QED
  BY <1>5 DEF IsLast

LEMMA ValueType ==
    ASSUME NEW tx \in Txs, NEW storage \in Storages, NEW n \in Nat,
           NEW a \in Addresses, NEW s \in Slots
    PROVE  ValueAt(tx, storage, n, a, s) \in Values
<1> DEFINE earlier == {m \in WritesTo(tx, a, s) : m < n}
<1>1. CASE earlier = {}
  BY <1>1 DEF ValueAt, Storages
<1>2. CASE earlier # {}
  <2>1. Len(tx.ops) \in Nat /\ earlier \subseteq 1..Len(tx.ops)
    BY ExecutorAssumption DEF WritesTo, Live
  <2>2. \E m \in earlier : IsLast(m, earlier)
    BY <1>2, <2>1, LastOf
  <2> DEFINE last == CHOOSE m \in earlier : IsLast(m, earlier)
  <2>3. last \in WritesTo(tx, a, s)
    BY <2>2
  <2>4. tx.ops[last].value \in Values
    BY <2>3, ExecutorAssumption DEF WritesTo, Live
  <2>5. QED
    BY <1>2, <2>4 DEF ValueAt
<1>3. QED
  BY <1>1, <1>2

\* The balances that the operations of a transaction leave, one by one.
BalanceRun(after, tx, basic) ==
    /\ after[0] = [a \in Addresses |-> InfoBefore(basic, a).balance]
    /\ \A n \in 1..Len(tx.ops) :
        after[n] = IF n \in Live(tx, tx.ops[n].kind) THEN Moved(after[n - 1], tx.ops[n])
                   ELSE after[n - 1]
    /\ Balances(tx, basic) = after[Len(tx.ops)]

\* Balances is the last of the functions that its recursion runs through.
LEMMA BalancesRun ==
    ASSUME NEW tx \in Txs, NEW basic
    PROVE  \E after : BalanceRun(after, tx, basic)
<1> DEFINE k == Len(tx.ops)
           start == [a \in Addresses |-> InfoBefore(basic, a).balance]
           Then(n, balances) == IF n \in Live(tx, tx.ops[n].kind) THEN Moved(balances, tx.ops[n])
                                ELSE balances
           Run(n, f) == f = [m \in 0..n |-> IF m = 0 THEN start ELSE Then(m, f[m - 1])]
           P == {n \in 0..k : \E f : Run(n, f)}
<1>1. k \in Nat
  BY ExecutorAssumption
<1>2. Balances(tx, basic) = (CHOOSE f : Run(k, f))[k]
  BY Zenon DEF Balances
<1>3. \A f : Run(k, f) /\ Balances(tx, basic) = f[k] => BalanceRun(f, tx, basic)
  <2> SUFFICES ASSUME NEW f, Run(k, f), Balances(tx, basic) = f[k]
               PROVE  BalanceRun(f, tx, basic)
    OBVIOUS
  <2>1. f[0] = start
    BY <1>1
  <2>2. \A n \in 1..k : f[n] = Then(n, f[n - 1])
    <3> HIDE DEF start, Then
    <3>1. QED
      BY <1>1
  <2>3. QED
    BY <2>1, <2>2 DEF BalanceRun
<1> HIDE DEF start, Then
<1>4. 0 \in P
  <2> DEFINE f == [m \in 0..0 |-> start]
  <2>1. Run(0, f)
    OBVIOUS
  <2>2. 0 \in 0..k
    BY <1>1
  <2> HIDE DEF Run, f
  <2>3. QED
    BY <2>1, <2>2
<1>5. ASSUME NEW n \in 1..k, n - 1 \in P PROVE n \in P
  <2>1. PICK f : Run(n - 1, f)
    BY <1>5
  <2> DEFINE g == [m \in 0..n |-> IF m = n THEN Then(n, f[n - 1]) ELSE f[m]]
  <2>2. ASSUME NEW m \in 0..n
        PROVE  g[m] = IF m = 0 THEN start ELSE Then(m, g[m - 1])
    <3>1. CASE m = n
      <4>1. g[m] = Then(n, f[n - 1])
        BY <3>1
      <4>2. g[n - 1] = f[n - 1] /\ m # 0
        BY <3>1, <1>1
      <4>3. QED
        BY <3>1, <4>1, <4>2
    <3>2. CASE m # n
      <4>1. m \in 0..(n - 1) /\ g[m] = f[m]
        BY <3>2, <1>1
      <4>2. m # 0 => m - 1 \in 0..n /\ m - 1 # n /\ g[m - 1] = f[m - 1]
        BY <3>2, <1>1
      <4>3. f[m] = IF m = 0 THEN start ELSE Then(m, f[m - 1])
        BY <2>1, <4>1
      <4>4. QED
        BY <4>1, <4>2, <4>3
    <3>3. QED
      BY <3>1, <3>2
  <2>3. Run(n, g)
    BY <2>2
  <2>4. n \in 0..k
    BY <1>1
  <2> HIDE DEF Run, g
  <2>5. QED
    BY <2>3, <2>4
<1>6. k \in P
  <2> HIDE DEF P
  <2>1. QED
    BY <1>1, <1>4, <1>5, Induction
<1> HIDE DEF Run
<1>7. QED
  BY <1>2, <1>3, <1>6

\* What an operation that moves balance leaves.
LEMMA MovedType ==
    ASSUME NEW tx \in Txs, NEW n \in 1..Len(tx.ops), NEW balances \in [Addresses -> Int]
    PROVE  /\ Moved(balances, tx.ops[n]) \in [Addresses -> Int]
           /\ \A a \in Addresses :
                \/ Moved(balances, tx.ops[n])[a] = balances[a]
                \/ tx.ops[n].kind \in {"transfer", "destroy"} /\ a \in {tx.ops[n].at, tx.ops[n].key}
<1> DEFINE op == tx.ops[n]
<1>1. op.kind \in {"transfer", "destroy"} => op.at \in Addresses /\ op.key \in Addresses
  BY ExecutorAssumption
<1>2. CASE op.kind \notin {"transfer", "destroy"}
  BY <1>2 DEF Moved
<1>3. CASE op.kind \in {"transfer", "destroy"}
  <2>1. PICK amount \in Int, credited \in Int :
            Moved(balances, op) = [[balances EXCEPT ![op.at] = @ - amount] EXCEPT ![op.key] = @ + credited]
    <3> DEFINE amount == IF op.kind = "transfer" THEN 1 ELSE balances[op.at]
               credited == IF op.kind = "destroy" /\ op.key = op.at THEN 0 ELSE amount
    <3>1. amount \in Int
      BY <1>1, <1>3
    <3>2. credited \in Int
      BY <3>1
    <3>3. Moved(balances, op) = [[balances EXCEPT ![op.at] = @ - amount] EXCEPT ![op.key] = @ + credited]
      BY <1>3 DEF Moved
    <3> HIDE DEF amount, credited
    <3>4. QED
      BY <3>1, <3>2, <3>3
  <2>2. QED
    BY <1>1, <1>3, <2>1
<1>4. QED
  BY <1>2, <1>3

\* Balances stay numbers, and an account that is not part of a lasting transfer
\* or destruction keeps its own.
LEMMA BalancesKept ==
    ASSUME NEW tx \in Txs, NEW basic \in [Addresses -> Info \cup {None}]
    PROVE  /\ Balances(tx, basic) \in [Addresses -> Int]
           /\ \A a \in Addresses :
                \/ Balances(tx, basic)[a] = InfoBefore(basic, a).balance
                \/ \E kind \in {"transfer", "destroy"} : \E n \in Live(tx, kind) :
                        a \in {tx.ops[n].at, tx.ops[n].key}
<1> DEFINE k == Len(tx.ops)
           start == [a \in Addresses |-> InfoBefore(basic, a).balance]
           Apart == {a \in Addresses : ~ \E kind \in {"transfer", "destroy"} : \E n \in Live(tx, kind) :
                                            a \in {tx.ops[n].at, tx.ops[n].key}}
<1>1. k \in Nat
  BY ExecutorAssumption
<1>2. start \in [Addresses -> Int]
  <2>1. \A a \in Addresses : InfoBefore(basic, a) \in Info
    BY ExecutorAssumption DEF InfoBefore, DefaultInfo, Info
  <2>2. QED
    BY <2>1 DEF Info
<1>3. PICK after : BalanceRun(after, tx, basic)
  BY BalancesRun
<1>4. /\ Apart \subseteq Addresses
      /\ \A n \in 1..k : n \in Live(tx, tx.ops[n].kind) =>
            \A a \in Apart : ~ (tx.ops[n].kind \in {"transfer", "destroy"} /\ a \in {tx.ops[n].at, tx.ops[n].key})
  OBVIOUS
<1>5. after[0] = start
  BY <1>3 DEF BalanceRun
<1>6. \A a \in Addresses \ Apart : \E kind \in {"transfer", "destroy"} : \E n \in Live(tx, kind) :
            a \in {tx.ops[n].at, tx.ops[n].key}
  OBVIOUS
<1>7. \A a \in Addresses : start[a] = InfoBefore(basic, a).balance
  OBVIOUS
<1> HIDE DEF Apart, start
<1> DEFINE P == {n \in 0..k : /\ after[n] \in [Addresses -> Int]
                              /\ \A a \in Apart : after[n][a] = start[a]}
<1>8. 0 \in P
  BY <1>1, <1>2, <1>5
<1>9. ASSUME NEW n \in 1..k, n - 1 \in P PROVE n \in P
  <2>1. n \in 0..k
    BY <1>1
  <2>2. CASE n \in Live(tx, tx.ops[n].kind)
    <3>1. after[n] = Moved(after[n - 1], tx.ops[n])
      BY <1>3, <2>2 DEF BalanceRun
    <3>2. \A a \in Apart : ~ (tx.ops[n].kind \in {"transfer", "destroy"} /\ a \in {tx.ops[n].at, tx.ops[n].key})
      BY <1>4, <2>2
    <3>3. after[n] \in [Addresses -> Int] /\ \A a \in Apart : after[n][a] = after[n - 1][a]
      BY <1>9, <1>4, <3>1, <3>2, MovedType
    <3>4. \A a \in Apart : after[n - 1][a] = start[a]
      BY <1>9
    <3>5. QED
      BY <2>1, <3>3, <3>4
  <2>3. CASE n \notin Live(tx, tx.ops[n].kind)
    BY <1>3, <1>9, <2>1, <2>3 DEF BalanceRun
  <2>4. QED
    BY <2>2, <2>3
<1>10. k \in P
  <2> HIDE DEF P
  <2>1. QED
    BY <1>1, <1>8, <1>9, Induction
<1>11. Balances(tx, basic) = after[k]
  BY <1>3 DEF BalanceRun
<1>12. QED
  BY <1>10, <1>11, <1>6, <1>7

LEMMA InfoType ==
    ASSUME NEW tx \in Txs, NEW basic \in [Addresses -> Info \cup {None}], NEW a \in Addresses
    PROVE  InfoAfter(tx, basic, a) \in Info
<1>1. InfoBefore(basic, a) \in Info
  BY ExecutorAssumption DEF InfoBefore, DefaultInfo, Info
<1>2. Balances(tx, basic)[a] \in Int
  BY BalancesKept
<1>3. QED
  BY <1>1, <1>2 DEF InfoAfter, Info

LEMMA AccountType ==
    ASSUME NEW tx \in Txs, NEW db, IsDb(db), NEW a \in Addresses, Accessed(tx, a)
    PROVE  StateAfter(tx, db)[a] \in Account
<1>1. InfoAfter(tx, db.basic, a) \in Info
  BY InfoType DEF IsDb
<1>2. \A s \in Slots : Present(tx, db.storage, a, s) \in Values
  BY ValueType, ExecutorAssumption DEF Present, IsDb
<1>3. IsTouched(tx, a) \in BOOLEAN
  BY DEF IsTouched
<1>4. QED
  BY <1>1, <1>2, <1>3 DEF StateAfter, Account

LEMMA StateType ==
    ASSUME NEW tx \in Txs, NEW db, IsDb(db)
    PROVE  StateAfter(tx, db) \in Changes
<1>1. \A a \in Addresses : StateAfter(tx, db)[a] \in Account \cup {None}
  BY AccountType DEF StateAfter
<1>2. QED
  BY <1>1 DEF StateAfter, Changes

LEMMA CommittedType ==
    ASSUME NEW db, IsDb(db), NEW changes \in Changes
    PROVE  IsDb(Committed(db, changes))
<1>1. \A a \in Addresses : changes[a] # None => changes[a] \in Account
  BY DEF Changes
<1>2. \A a \in Addresses : Committed(db, changes).basic[a] \in Info \cup {None}
  BY <1>1 DEF IsDb, Committed, Account
<1>3. \A a \in Addresses, s \in Slots : Committed(db, changes).storage[a][s] \in Values
  BY <1>1, ExecutorAssumption DEF IsDb, Committed, Account, Storages
<1>4. QED
  BY <1>2, <1>3 DEF IsDb, Committed, Storages

\* Committing what a transaction returned leaves the storage that it wrote:
\* a slot that was written was loaded, and its account touched.
LEMMA CommittedStorage ==
    ASSUME NEW tx \in Txs, NEW db, IsDb(db)
    PROVE  Committed(db, StateAfter(tx, db)).storage = StorageAfter(tx, db.storage)
<1> SUFFICES ASSUME NEW a \in Addresses, NEW s \in Slots
             PROVE  Committed(db, StateAfter(tx, db)).storage[a][s] = StorageAfter(tx, db.storage)[a][s]
  BY DEF Committed, StorageAfter
<1> DEFINE change == StateAfter(tx, db)[a]
<1>1. change # None <=> Accessed(tx, a)
  BY AccountType, ExecutorAssumption DEF StateAfter
<1>2. a \in SelfDestructed(tx) => IsTouched(tx, a)
  BY DEF SelfDestructed, IsTouched, Involves
<1>3. IsTouched(tx, a) => Accessed(tx, a)
  BY DEF Accessed
<1>4. Present(tx, db.storage, a, s) \in Values /\ None \notin Values
  BY ValueType, ExecutorAssumption DEF Present, IsDb
<1>5. CASE a \in SelfDestructed(tx)
  BY <1>1, <1>2, <1>3, <1>5 DEF Committed, StorageAfter, StateAfter
<1>6. CASE a \notin SelfDestructed(tx) /\ IsTouched(tx, a) /\ IsLoaded(tx, a, s)
  BY <1>1, <1>3, <1>4, <1>6 DEF Committed, StorageAfter, StateAfter
<1>7. CASE a \notin SelfDestructed(tx) /\ ~ (IsTouched(tx, a) /\ IsLoaded(tx, a, s))
  <2>1. WritesTo(tx, a, s) = {}
    BY <1>7 DEF WritesTo, Live, IsTouched, Involves, IsLoaded
  <2>2. Present(tx, db.storage, a, s) = db.storage[a][s]
    BY <2>1 DEF Present, ValueAt
  <2>3. QED
    BY <1>1, <1>3, <1>7, <2>2 DEF Committed, StorageAfter, StateAfter
<1>8. QED
  BY <1>5, <1>6, <1>7

\* A transaction that reverts leaves the storage as it is.
LEMMA RevertedStorage ==
    ASSUME NEW tx \in Txs, tx.outcome # "Success", NEW storage \in Storages
    PROVE  StorageAfter(tx, storage) = storage
<1>1. \A kind : Live(tx, kind) = {}
  BY DEF Live
<1>2. \A a \in Addresses, s \in Slots : Present(tx, storage, a, s) = storage[a][s]
  BY <1>1 DEF Present, ValueAt, WritesTo
<1>3. SelfDestructed(tx) = {}
  BY <1>1 DEF SelfDestructed
<1>4. QED
  BY <1>2, <1>3 DEF StorageAfter, Storages

(***************************************************************************)
(* The fork and the caller's database.                                     *)
(***************************************************************************)
\* A layer answers as a database does, but for the infos of some accounts.
Follows(layer, db, excused) ==
    /\ Over(layer, InnerDb).storage = db.storage
    /\ \A a \in Addresses \ excused : BasicRef(layer, InnerDb, a) = db.basic[a]

\* Accounts whose info a commit to both leaves different.
LEMMA CommitFollows ==
    ASSUME NEW layer, NEW db, IsDb(db), NEW excused, Follows(layer, db, excused),
           NEW changes \in Changes
    PROVE  Follows(Commit(layer, changes), Committed(db, changes),
                   {a \in Addresses : Destroyed(changes, a) \/ (a \in excused /\ ~ Touched(changes, a))})
<1>1. \A a \in Addresses : changes[a] # None => changes[a] \in Account
  BY DEF Changes
<1>2. \A a \in Addresses, s \in Slots : StorageRef(layer, InnerDb, a, s) = db.storage[a][s]
  BY DEF Follows, Over
<1>3. \A a \in Addresses, s \in Slots :
        StorageRef(Commit(layer, changes), InnerDb, a, s) = Committed(db, changes).storage[a][s]
  BY <1>2 DEF StorageRef, Commit, Committed, Touched, Destroyed
<1>4. Over(Commit(layer, changes), InnerDb).storage = Committed(db, changes).storage
  BY <1>3 DEF Over, Committed
<1>5. ASSUME NEW a \in Addresses, ~ Destroyed(changes, a), Touched(changes, a) \/ a \notin excused
      PROVE  BasicRef(Commit(layer, changes), InnerDb, a) = Committed(db, changes).basic[a]
  <2>1. CASE Touched(changes, a)
    <3>1. changes[a].info \in Info
      BY <1>1, <2>1 DEF Touched, Account
    <3>2. changes[a].info # None
      BY <3>1, ExecutorAssumption
    <3>3. QED
      BY <1>5, <2>1, <3>2 DEF BasicRef, Commit, Committed, Touched, Destroyed
  <2>2. CASE ~ Touched(changes, a)
    <3>1. BasicRef(layer, InnerDb, a) = db.basic[a]
      BY <1>5, <2>2 DEF Follows
    <3>2. QED
      BY <2>2, <3>1 DEF BasicRef, Commit, Committed, Touched
  <2>3. QED
    BY <2>1, <2>2
<1>6. QED
  BY <1>4, <1>5 DEF Follows

\* The caller alone commits what a transaction that reverted returned.
LEMMA RevertFollows ==
    ASSUME NEW layer, NEW db, IsDb(db), NEW excused, Follows(layer, db, excused),
           NEW tx \in Txs, tx.outcome # "Success"
    PROVE  Follows(layer, Committed(db, StateAfter(tx, db)),
                   excused \cup {a \in Addresses : Touched(StateAfter(tx, db), a)})
<1>1. Committed(db, StateAfter(tx, db)).storage = db.storage
  BY CommittedStorage, RevertedStorage DEF IsDb
<1>2. \A a \in Addresses : ~ Touched(StateAfter(tx, db), a)
            => Committed(db, StateAfter(tx, db)).basic[a] = db.basic[a]
  BY DEF Committed, Touched
<1>3. QED
  BY <1>1, <1>2 DEF Follows

(***************************************************************************)
(* The invariant.                                                          *)
(***************************************************************************)
Steps == {"idle", "error", "reverted", "read", "run", "returned"}

\* The locals belong to the transaction that is validated.
ControlInv ==
    /\ pc \in Steps
    /\ pc \in {"idle", "returned"} => current = None
    /\ pc \notin {"idle", "returned"} => current \in [tx : Txs, block : Blocks]
    /\ pc \in {"reverted", "read", "run"} =>
        /\ result_and_state = StateAfter(current.tx, external_db)
        /\ tx_traces = Trace(current.tx, external_db)
        /\ current.tx.outcome = IF pc = "reverted" THEN "Revert" ELSE "Success"
    /\ pc \notin {"read", "run"} => assertions = {}
    /\ pc # "run" => runs = {}

\* The accounts whose info may differ once the caller has committed.
StaleAfter ==
    IF result.success
    THEN {a \in Addresses : Destroyed(result.state, a) \/ (a \in stale /\ ~ Touched(result.state, a))}
    ELSE stale \cup {a \in Addresses : Touched(result.state, a)}

\* The fork follows what the caller has, or is about to have.
FollowInv ==
    /\ IsDb(external_db)
    /\ pc # "returned" => Follows(fork_db, external_db, stale)
    /\ pc = "returned" =>
        IF result.valid
        THEN result.state \in Changes /\ Follows(fork_db, Committed(external_db, result.state), StaleAfter)
        ELSE Follows(fork_db, external_db, stale)

LEMMA ControlStep ==
    ASSUME ControlInv, [Next]_vars
    PROVE  ControlInv'
<1>1. ASSUME NEW tx \in Txs, NEW block \in Blocks, Execute(tx, block)
      PROVE  ControlInv'
  <2>1. tx.outcome \in {"Success", "Revert", "Error"}
    BY ExecutorAssumption
  <2>2. current' \in [tx : Txs, block : Blocks] /\ current'.tx = tx /\ pc = "idle" /\ external_db' = external_db
    BY <1>1 DEF Execute, dbs
  <2>3. assertions' = {} /\ runs' = {}
    BY <1>1 DEF Execute, ControlInv
  <2>4. CASE tx.outcome = "Error"
    BY <1>1, <2>2, <2>3, <2>4 DEF Execute, ControlInv, Steps
  <2>5. CASE tx.outcome # "Error"
    BY <1>1, <2>1, <2>2, <2>3, <2>5 DEF Execute, ControlInv, Steps
  <2>6. QED
    BY <2>4, <2>5
<1>2. ASSUME NEW verdict, Return(verdict)
      PROVE  ControlInv'
  BY <1>2 DEF Return, ControlInv, Steps
<1>3. ASSUME NEW a \in Addresses, ReadOne(a)
      PROVE  ControlInv'
  BY <1>3 DEF ReadOne, ControlInv, Steps, inputs, dbs
<1>4. CASE ReadDone
  <2>1. CASE assertions = {}
    BY <1>2, <1>4, <2>1 DEF ReadDone
  <2>2. CASE assertions # {}
    BY <1>4, <2>2 DEF ReadDone, ControlInv, Steps, inputs, running, dbs
  <2>3. QED
    BY <2>1, <2>2
<1>5. ASSUME NEW x \in assertions, RunContract(x)
      PROVE  ControlInv'
  BY <1>5 DEF RunContract, ControlInv, Steps, inputs, dbs
<1>6. ASSUME NEW x \in assertions, NEW selector \in x.selectors, NEW outcome, ExecuteFn(x, selector, outcome)
      PROVE  ControlInv'
  BY <1>6 DEF ExecuteFn, ControlInv, Steps, inputs, dbs
<1>7. CASE CallerCommits
  BY <1>7 DEF CallerCommits, ControlInv, Steps, inputs, running
<1>8. ASSUME NEW m \in PendingMods, WriteStore(m)
      PROVE  ControlInv'
  BY <1>8 DEF WriteStore, ControlInv, Steps, inputs, running, dbs
<1>9. CASE UNCHANGED vars
  BY <1>9 DEF vars, ControlInv
<1>10. CASE ReturnError \/ ReturnReverted \/ RunDone
  BY <1>2, <1>10 DEF ReturnError, ReturnReverted, RunDone
<1>11. ASSUME NEW a \in Addresses, ReadError(a)
       PROVE  ControlInv'
  BY <1>2, <1>11 DEF ReadError
<1>12. ASSUME NEW x \in assertions, RunError(x)
       PROVE  ControlInv'
  BY <1>2, <1>12 DEF RunError
<1>13. QED
  BY <1>1, <1>3, <1>4, <1>5, <1>6, <1>7, <1>8, <1>9, <1>10, <1>11, <1>12 DEF Next

\* The invariant of the databases.
LEMMA FollowStep ==
    ASSUME ControlInv, FollowInv, [Next]_vars
    PROVE  FollowInv'
<1>0. /\ pc \in {"reverted", "read", "run"} => current.tx \in Txs
      /\ pc \in {"reverted", "read", "run"} => result_and_state \in Changes
  BY StateType DEF ControlInv, FollowInv
\* Nothing is committed.
<1>1. ASSUME UNCHANGED <<external_db, fork_db, stale>>, pc # "returned", pc' # "returned"
      PROVE  FollowInv'
  BY <1>1 DEF FollowInv, IsDb, Follows, Over, StorageRef, BasicRef
<1>2. ASSUME Return(Failed), UNCHANGED fork_db, pc # "returned"
      PROVE  FollowInv'
  BY <1>2 DEF Return, Failed, NoResult, dbs, FollowInv, IsDb, Follows, Over, StorageRef, BasicRef
\* Valid, and committed.
<1>3. ASSUME pc \in {"read", "run"}, NEW ran, Return(Verdict(TRUE, ran)),
             fork_db' = Commit(fork_db, result_and_state)
      PROVE  FollowInv'
  <2>1. /\ result'.valid = TRUE /\ result'.success = TRUE /\ result'.state = result_and_state
        /\ pc' = "returned" /\ external_db' = external_db /\ stale' = stale
    BY <1>3 DEF Return, Verdict, dbs, ControlInv
  <2>2. Follows(fork_db', Committed(external_db, result_and_state),
                {a \in Addresses : Destroyed(result_and_state, a)
                                    \/ (a \in stale /\ ~ Touched(result_and_state, a))})
    BY <1>0, <1>3, CommitFollows DEF FollowInv
  <2>3. QED
    BY <1>0, <1>3, <2>1, <2>2 DEF FollowInv, StaleAfter
\* Not valid.
<1>4. ASSUME pc # "returned", NEW ran, Return(Verdict(FALSE, ran)), UNCHANGED fork_db
      PROVE  FollowInv'
  <2>1. result'.valid = FALSE /\ pc' = "returned" /\ external_db' = external_db /\ stale' = stale
    BY <1>4 DEF Return, Verdict, dbs
  <2>2. QED
    BY <1>4, <2>1 DEF FollowInv
<1>5. CASE ReturnReverted
  <2>1. /\ result'.valid = TRUE /\ result'.success = FALSE /\ result'.state = result_and_state
        /\ pc' = "returned" /\ external_db' = external_db /\ stale' = stale /\ fork_db' = fork_db
    BY <1>5 DEF ReturnReverted, Return, Verdict, dbs, ControlInv
  <2>2. Follows(fork_db, Committed(external_db, result_and_state),
                stale \cup {a \in Addresses : Touched(result_and_state, a)})
    BY <1>0, <1>5, RevertFollows DEF ReturnReverted, FollowInv, ControlInv
  <2>3. QED
    BY <1>0, <1>5, <2>1, <2>2 DEF FollowInv, StaleAfter, ReturnReverted
<1>6. CASE CallerCommits
  <2>1. CASE result.valid
    <3>1. IsDb(Committed(external_db, result.state))
      BY <1>6, <2>1, CommittedType DEF CallerCommits, FollowInv
    <3>2. /\ external_db' = Committed(external_db, result.state) /\ stale' = StaleAfter
          /\ fork_db' = fork_db /\ pc' = "idle"
      BY <1>6, <2>1 DEF CallerCommits, StaleAfter
    <3>3. Follows(fork_db, Committed(external_db, result.state), StaleAfter)
      BY <1>6, <2>1 DEF CallerCommits, FollowInv
    <3>4. QED
      BY <3>1, <3>2, <3>3 DEF FollowInv
  <2>2. CASE ~ result.valid
    BY <1>6, <2>2 DEF CallerCommits, FollowInv, dbs
  <2>3. QED
    BY <2>1, <2>2
<1>7. CASE ReadDone
  <2>1. CASE assertions = {}
    BY <1>3, <1>7, <2>1 DEF ReadDone
  <2>2. CASE assertions # {}
    BY <1>1, <1>7, <2>2 DEF ReadDone, dbs
  <2>3. QED
    BY <2>1, <2>2
<1>8. CASE RunDone
  <2>1. IsValid \in BOOLEAN
    BY DEF IsValid
  <2>2. CASE IsValid
    BY <1>3, <1>8, <2>2 DEF RunDone
  <2>3. CASE ~ IsValid
    <3>1. IsValid = FALSE
      BY <2>1, <2>3
    <3>2. QED
      BY <1>4, <1>8, <3>1 DEF RunDone
  <2>4. QED
    BY <2>2, <2>3
<1>9. CASE UNCHANGED vars
  BY <1>9 DEF vars, FollowInv, IsDb, Follows, Over, StorageRef, BasicRef, StaleAfter
<1>10. ASSUME NEW m \in PendingMods, WriteStore(m)
       PROVE  FollowInv'
  BY <1>10 DEF WriteStore, dbs, FollowInv, StaleAfter
<1>11. ASSUME NEW tx \in Txs, NEW block \in Blocks, Execute(tx, block)
       PROVE  FollowInv'
  <2>1. pc = "idle" /\ pc' \in {"error", "read", "reverted"} /\ UNCHANGED <<external_db, fork_db, stale>>
    BY <1>11 DEF Execute, dbs
  <2>2. QED
    BY <1>1, <2>1
<1>12. ASSUME NEW a \in Addresses, ReadOne(a) \/ ReadError(a)
       PROVE  FollowInv'
  BY <1>1, <1>2, <1>12 DEF ReadOne, ReadError, dbs
<1>13. ASSUME NEW x \in assertions,
              \/ RunContract(x) \/ RunError(x)
              \/ \E selector \in x.selectors, outcome \in {"Success", "Revert", "Error"} :
                    ExecuteFn(x, selector, outcome)
       PROVE  FollowInv'
  BY <1>1, <1>2, <1>13 DEF RunContract, RunError, ExecuteFn, dbs
<1>14. CASE ReturnError
  BY <1>2, <1>14 DEF ReturnError
<1>15. QED
  BY <1>5, <1>6, <1>7, <1>8, <1>9, <1>10, <1>11, <1>12, <1>13, <1>14 DEF Next

(***************************************************************************)
(* What has been read and what has run.                                    *)
(***************************************************************************)
\* The assertions that read_adopter returns for an adopter with such a list.
FoundFor(a, entry) ==
    {[adopter |-> a, id |-> found.id, selectors |-> found.selectors] :
        found \in ReadAdopter(entry, TriggersOn(tx_traces, a), current.block)}

\* Each adopter's assertions are those of one moment of the validation.
ReadInv ==
    pc \in {"read", "run"} =>
        /\ pc = "run" => to_read = {}
        /\ \A a \in to_read : TriggersOn(tx_traces, a) # {}
        /\ \A x \in assertions :
            x.adopter \in Addresses \ to_read /\ TriggersOn(tx_traces, x.adopter) # {}
        /\ \A a \in Addresses \ to_read : TriggersOn(tx_traces, a) # {} =>
            \E entry \in window[a] : {x \in assertions : x.adopter = a} = FoundFor(a, entry)

\* What the store has is among what it has had.
WindowInv ==
    /\ DOMAIN store = Addresses /\ DOMAIN window = Addresses
    /\ current # None => \A a \in Addresses : store[a] \in window[a]

\* What ran is a function of an assertion that was read.
RunInv ==
    \A run \in runs : \E x \in assertions : \E selector \in x.selectors :
        /\ run.adopter = x.adopter /\ run.id = x.id /\ run.selector = selector

LEMMA WindowStep ==
    ASSUME ControlInv, WindowInv, [Next]_vars
    PROVE  WindowInv'
<1>1. ASSUME NEW tx \in Txs, NEW block \in Blocks, Execute(tx, block)
      PROVE  WindowInv'
  BY <1>1 DEF Execute, WindowInv
<1>2. ASSUME NEW m \in PendingMods, WriteStore(m)
      PROVE  WindowInv'
  <2>1. DOMAIN store' = Addresses /\ DOMAIN window' = Addresses
    BY <1>2 DEF WriteStore, WindowInv
  <2>2. current' = current
    BY <1>2 DEF WriteStore, inputs
  <2>3. \A a \in Addresses : store[a] \in window[a] => store'[a] \in window'[a]
    BY <1>2 DEF WriteStore, WindowInv
  <2>4. QED
    BY <2>1, <2>2, <2>3 DEF WindowInv
<1>3. ASSUME UNCHANGED <<store, window>>, current' \in {current, None}
      PROVE  WindowInv'
  BY <1>3 DEF WindowInv
<1>4. ASSUME \/ UNCHANGED vars
             \/ ReturnError \/ ReturnReverted \/ ReadDone \/ RunDone \/ CallerCommits
             \/ \E a \in Addresses : ReadOne(a) \/ ReadError(a)
             \/ \E x \in assertions : RunContract(x) \/ RunError(x)
             \/ \E x \in assertions : \E selector \in x.selectors, outcome \in {"Success", "Revert", "Error"} :
                    ExecuteFn(x, selector, outcome)
      PROVE  UNCHANGED <<store, window>> /\ current' \in {current, None}
  BY <1>4 DEF vars, ReturnError, ReturnReverted, ReadDone, RunDone, CallerCommits, ReadOne, ReadError,
              RunContract, RunError, ExecuteFn, Return, inputs, running, dbs
<1>5. QED
  BY <1>1, <1>2, <1>3, <1>4 DEF Next

LEMMA ReadStep ==
    ASSUME ControlInv, WindowInv, ReadInv, [Next]_vars
    PROVE  ReadInv'
<1>1. ASSUME NEW tx \in Txs, NEW block \in Blocks, Execute(tx, block)
      PROVE  ReadInv'
  <2>1. assertions' = {} /\ pc' # "run"
    BY <1>1 DEF Execute, ControlInv
  <2>2. pc' = "read" => /\ \A a \in Addresses \ to_read' : TriggersOn(tx_traces', a) = {}
                        /\ \A a \in to_read' : TriggersOn(tx_traces', a) # {}
    BY <1>1 DEF Execute
  <2>3. QED
    BY <2>1, <2>2 DEF ReadInv
<1>2. ASSUME NEW a \in Addresses, ReadOne(a)
      PROVE  ReadInv'
  <2>1. /\ pc = "read" /\ pc' = "read" /\ UNCHANGED <<tx_traces, current, window>>
        /\ to_read' = to_read \ {a} /\ a \in to_read
        /\ assertions' = assertions \cup FoundFor(a, store[a])
    BY <1>2 DEF ReadOne, FoundFor, inputs
  <2>2. \A b, entry : FoundFor(b, entry)' = FoundFor(b, entry)
    BY <2>1 DEF FoundFor
  <2>3. \A x \in FoundFor(a, store[a]) : x.adopter = a /\ TriggersOn(tx_traces, a) # {}
    <3>1. TriggersOn(tx_traces, a) # {}
      BY <2>1 DEF ReadInv
    <3>2. QED
      BY <3>1 DEF FoundFor
  <2>4. \A x \in assertions' : x.adopter \in Addresses \ to_read' /\ TriggersOn(tx_traces', x.adopter) # {}
    BY <2>1, <2>3 DEF ReadInv
  <2>5. ASSUME NEW b \in Addresses \ to_read', TriggersOn(tx_traces', b) # {}
        PROVE  \E entry \in window'[b] : {x \in assertions' : x.adopter = b} = FoundFor(b, entry)'
    <3>1. CASE b = a
      <4>1. store[a] \in window[a]
        BY <2>1, ExecutorAssumption DEF WindowInv, ControlInv
      <4>2. {x \in assertions' : x.adopter = a} = FoundFor(a, store[a])
        BY <2>1, <2>3 DEF ReadInv
      <4>3. QED
        BY <2>1, <2>2, <3>1, <4>1, <4>2
    <3>2. CASE b # a
      <4>1. {x \in assertions' : x.adopter = b} = {x \in assertions : x.adopter = b}
        BY <2>1, <2>3, <3>2
      <4>2. QED
        BY <2>1, <2>2, <2>5, <3>2, <4>1 DEF ReadInv
    <3>3. QED
      BY <3>1, <3>2
  <2>6. QED
    BY <2>1, <2>4, <2>5 DEF ReadInv
<1>3. ASSUME UNCHANGED <<tx_traces, current, assertions, to_read>>, pc \in {"read", "run"},
             pc' = "run" => pc = "run" \/ to_read = {},
             \A a \in Addresses : window[a] \subseteq window'[a]
      PROVE  ReadInv'
  <2>1. \A b, entry : FoundFor(b, entry)' = FoundFor(b, entry)
    BY <1>3 DEF FoundFor
  <2>2. QED
    BY <1>3, <2>1 DEF ReadInv
<1>4. CASE pc' \notin {"read", "run"}
  BY <1>4 DEF ReadInv
<1>5. CASE ReadDone
  BY <1>3, <1>4, <1>5 DEF ReadDone, Return, inputs, running
<1>6. ASSUME NEW x \in assertions,
             \/ RunContract(x) \/ RunError(x)
             \/ \E selector \in x.selectors, outcome \in {"Success", "Revert", "Error"} :
                    ExecuteFn(x, selector, outcome)
      PROVE  ReadInv'
  BY <1>3, <1>4, <1>6 DEF RunContract, RunError, ExecuteFn, Return, inputs
<1>7. ASSUME NEW m \in PendingMods, WriteStore(m)
      PROVE  ReadInv'
  <2>1. \A a \in Addresses : window[a] \subseteq window'[a]
    BY <1>7 DEF WriteStore, WindowInv
  <2>2. UNCHANGED <<pc, tx_traces, current, assertions, to_read>>
    BY <1>7 DEF WriteStore, inputs, running
  <2>3. QED
    BY <1>3, <1>4, <2>1, <2>2
<1>8. ASSUME \/ ReturnError \/ ReturnReverted \/ RunDone \/ CallerCommits
             \/ \E a \in Addresses : ReadError(a)
      PROVE  pc' \notin {"read", "run"}
  BY <1>8 DEF ReturnError, ReturnReverted, RunDone, CallerCommits, ReadError, Return
<1>9. CASE UNCHANGED vars
  <2>1. UNCHANGED <<pc, tx_traces, current, assertions, to_read, window>>
    BY <1>9 DEF vars
  <2>2. QED
    BY <1>3, <1>4, <2>1
<1>10. QED
  BY <1>1, <1>2, <1>4, <1>5, <1>6, <1>7, <1>8, <1>9 DEF Next

LEMMA RunStep ==
    ASSUME ControlInv, RunInv, [Next]_vars
    PROVE  RunInv'
<1>1. ASSUME NEW x \in assertions, NEW selector \in x.selectors, NEW outcome, ExecuteFn(x, selector, outcome)
      PROVE  RunInv'
  <2>1. /\ assertions' = assertions
        /\ runs' = runs \cup {[adopter |-> x.adopter, id |-> x.id, selector |-> selector, outcome |-> outcome]}
    BY <1>1 DEF ExecuteFn
  <2>2. QED
    BY <2>1 DEF RunInv
<1>2. CASE runs' = {}
  BY <1>2 DEF RunInv
<1>3. CASE UNCHANGED <<runs, assertions>>
  BY <1>3 DEF RunInv
<1>4. ASSUME \/ ReturnError \/ ReturnReverted \/ ReadDone \/ RunDone
             \/ \E a \in Addresses : ReadOne(a) \/ ReadError(a)
             \/ \E x \in assertions : RunError(x)
             \/ \E tx \in Txs, block \in Blocks : Execute(tx, block)
      PROVE  runs' = {}
  BY <1>4 DEF ControlInv, ReturnError, ReturnReverted, ReadDone, RunDone, ReadOne, ReadError,
              RunError, Execute, Return, running
<1>5. ASSUME \/ UNCHANGED vars \/ CallerCommits
             \/ \E x \in assertions : RunContract(x)
             \/ \E m \in PendingMods : WriteStore(m)
      PROVE  UNCHANGED <<runs, assertions>>
  BY <1>5 DEF vars, CallerCommits, RunContract, WriteStore, running
<1>6. QED
  BY <1>1, <1>2, <1>3, <1>4, <1>5 DEF Next

ExecutorInv == ControlInv /\ FollowInv /\ WindowInv /\ ReadInv /\ RunInv

LEMMA ExecutorInit ==
    ASSUME Init
    PROVE  ExecutorInv
<1>1. ControlInv /\ ReadInv /\ RunInv
  BY DEF Init, ControlInv, ReadInv, RunInv, Steps
<1>2. WindowInv
  BY DEF Init, WindowInv
<1>3. FollowInv
  <2>1. IsDb(InnerDb)
    BY ExecutorAssumption DEF IsDb, Storages
  <2>2. \A a \in Addresses, s \in Slots : StorageRef(Empty, InnerDb, a, s) = InnerDb.storage[a][s]
    BY DEF StorageRef, Empty
  <2>3. \A a \in Addresses : BasicRef(Empty, InnerDb, a) = InnerDb.basic[a]
    BY DEF BasicRef, Empty
  <2>4. Over(Empty, InnerDb).storage = InnerDb.storage
    BY <2>1, <2>2 DEF Over, IsDb, Storages
  <2>5. QED
    BY <2>1, <2>3, <2>4 DEF Init, FollowInv, Follows
<1>4. QED
  BY <1>1, <1>2, <1>3 DEF ExecutorInv

LEMMA ExecutorInvariant == Spec => []ExecutorInv
<1>1. Init => ExecutorInv
  BY ExecutorInit
<1>2. ExecutorInv /\ [Next]_vars => ExecutorInv'
  BY ControlStep, FollowStep, WindowStep, ReadStep, RunStep DEF ExecutorInv
<1>3. QED
  BY <1>1, <1>2, PTL DEF Spec

(***************************************************************************)
(* The refinement.                                                         *)
(***************************************************************************)
\* The triggers that the tracer derives from what it recorded are those of
\* what the transaction did.
LEMMA TriggersAsDone ==
    ASSUME NEW tx \in Txs, NEW db, NEW a \in Addresses
    PROVE  TriggersOn(Trace(tx, db), a) = TxTriggers(tx, db.storage, a)
<1> DEFINE tracer  == Trace(tx, db)
           journal == Journal(tx, db.storage)
<1>1. tracer.journaled = TRUE /\ tracer.call_inputs = CallInputs(tx) /\ tracer.journaled_state.journal = journal
  BY DEF Trace
<1>2. CallTriggersOn(CallInputs(tx), a) =
        {SelectorOf(tx.ops[n]) : n \in {m \in DOMAIN tx.ops : tx.ops[m].kind = "call" /\ tx.ops[m].at = a}}
  BY DEF CallTriggersOn, CallInputs
<1>3. \A n \in DOMAIN journal :
        /\ journal[n].kind = tx.ops[n].kind /\ journal[n].at = tx.ops[n].at /\ journal[n].key = tx.ops[n].key
  BY DEF Journal
<1>4. DOMAIN journal = Changing(tx, db.storage) \cup Live(tx, "transfer") \cup Live(tx, "destroy")
  BY DEF Journal
<1>5. {journal[n].key : n \in {m \in DOMAIN journal : journal[m].kind = "sstore" /\ journal[m].at = a}}
        = {s \in Slots : \E n \in WritesTo(tx, a, s) : ValueAt(tx, db.storage, n, a, s) # tx.ops[n].value}
  <2>1. {m \in DOMAIN journal : journal[m].kind = "sstore" /\ journal[m].at = a}
            = {n \in Changing(tx, db.storage) : tx.ops[n].at = a}
    BY <1>3, <1>4 DEF Changing, Live
  <2>2. \A n \in Changing(tx, db.storage) : tx.ops[n].key \in Slots /\ journal[n].key = tx.ops[n].key
    BY <1>3, <1>4, ExecutorAssumption DEF Changing, Live
  <2>3. \A s, n : n \in Changing(tx, db.storage) /\ tx.ops[n].at = a /\ tx.ops[n].key = s
            <=> n \in WritesTo(tx, a, s) /\ ValueAt(tx, db.storage, n, a, s) # tx.ops[n].value
    BY DEF Changing, WritesTo
  <2>4. QED
    BY <2>1, <2>2, <2>3
<1>6. {m \in DOMAIN journal : journal[m].kind = "transfer" /\ a \in {journal[m].at, journal[m].key}}
        = {m \in Live(tx, "transfer") : a \in {tx.ops[m].at, tx.ops[m].key}}
  BY <1>3, <1>4 DEF Changing, Live
<1>7. QED
  BY <1>1, <1>2, <1>5, <1>6 DEF TriggersOn, ChangeTriggersOn, TxTriggers

\* The fork's storage, seen by ValidatedBlock.
ForkStorage == Over(fork_db, InnerDb).storage

\* While a transaction is validated ValidatedBlock sees the same triggers.
LEMMA SameTriggers ==
    ASSUME ExecutorInv, pc \in {"read", "run"}, NEW a \in Addresses
    PROVE  TriggersOn(tx_traces, a) = TxTriggers(current.tx, ForkStorage, a)
<1>1. current.tx \in Txs /\ tx_traces = Trace(current.tx, external_db)
  BY DEF ExecutorInv, ControlInv
<1>2. ForkStorage = external_db.storage
  BY DEF ExecutorInv, FollowInv, Follows, ForkStorage
<1>3. QED
  BY <1>1, <1>2, TriggersAsDone

\* All the functions that the store called for have run, and no others.
LEMMA RanAsDemanded ==
    ASSUME ExecutorInv, pc = "run" \/ (pc = "read" /\ to_read = {}),
           \A x \in assertions : Waiting(x) = {}
    PROVE  \E entries \in Promised!Observed : Promised!Called(runs) = Promised!Demanded(entries)
<1> DEFINE IsRead(a, entry) == {x \in assertions : x.adopter = a} = FoundFor(a, entry)
           entries == [a \in Addresses |->
                        IF TriggersOn(tx_traces, a) # {} THEN CHOOSE e \in window[a] : IsRead(a, e)
                        ELSE store[a]]
<1>1. to_read = {}
  BY DEF ExecutorInv, ReadInv
<1>2. \A a \in Addresses : TriggersOn(tx_traces, a) # {} => \E e \in window[a] : IsRead(a, e)
  BY <1>1 DEF ExecutorInv, ReadInv
<1>3. \A a \in Addresses : /\ entries[a] \in window[a]
                           /\ TriggersOn(tx_traces, a) # {} => IsRead(a, entries[a])
  <2> SUFFICES ASSUME NEW a \in Addresses
               PROVE  /\ entries[a] \in window[a]
                      /\ TriggersOn(tx_traces, a) # {} => IsRead(a, entries[a])
    OBVIOUS
  <2>1. current # None
    BY ExecutorAssumption DEF ExecutorInv, ControlInv
  <2>2. store[a] \in window[a]
    BY <2>1 DEF ExecutorInv, WindowInv
  <2>3. CASE TriggersOn(tx_traces, a) = {}
    BY <2>2, <2>3
  <2>4. CASE TriggersOn(tx_traces, a) # {}
    <3>1. entries[a] = CHOOSE e \in window[a] : IsRead(a, e)
      BY <2>4
    <3>2. \E e \in window[a] : IsRead(a, e)
      BY <1>2, <2>4
    <3> HIDE DEF IsRead, entries
    <3>3. QED
      BY <3>1, <3>2
  <2>5. QED
    BY <2>3, <2>4
<1>4. entries \in Promised!Observed
  BY <1>3 DEF Promised!Observed
<1> DEFINE Selected(a, found, selector) == [adopter |-> a, id |-> found.id, selector |-> selector]
<1> HIDE DEF entries
\* A triple is demanded iff it is a function of an assertion that was read.
<1>5. \A t : t \in Promised!Demanded(entries) <=>
        \E x \in assertions : \E selector \in x.selectors : t = Selected(x.adopter, x, selector)
  <2> SUFFICES ASSUME NEW t
               PROVE  t \in Promised!Demanded(entries) <=>
                        \E x \in assertions : \E selector \in x.selectors : t = Selected(x.adopter, x, selector)
    OBVIOUS
  <2>1. t \in Promised!Demanded(entries) <=>
        \E a \in Addresses : /\ TriggersOn(tx_traces, a) # {}
            /\ \E found \in ReadAdopter(entries[a], TriggersOn(tx_traces, a), current.block) :
                \E selector \in found.selectors : t = Selected(a, found, selector)
    BY SameTriggers DEF Promised!Demanded, ForkStorage
  <2>2. \A a \in Addresses : TriggersOn(tx_traces, a) # {} =>
        ((\E found \in ReadAdopter(entries[a], TriggersOn(tx_traces, a), current.block) :
                \E selector \in found.selectors : t = Selected(a, found, selector))
         <=> \E x \in assertions : x.adopter = a /\ \E selector \in x.selectors : t = Selected(a, x, selector))
    <3> SUFFICES ASSUME NEW a \in Addresses, TriggersOn(tx_traces, a) # {}
                 PROVE  (\E found \in ReadAdopter(entries[a], TriggersOn(tx_traces, a), current.block) :
                            \E selector \in found.selectors : t = Selected(a, found, selector))
                        <=> \E x \in assertions : x.adopter = a
                                /\ \E selector \in x.selectors : t = Selected(a, x, selector)
      OBVIOUS
    <3>1. {x \in assertions : x.adopter = a} = FoundFor(a, entries[a])
      BY <1>3
    <3>2. (\E x \in FoundFor(a, entries[a]) : \E selector \in x.selectors : t = Selected(a, x, selector))
            <=> \E found \in ReadAdopter(entries[a], TriggersOn(tx_traces, a), current.block) :
                    \E selector \in found.selectors : t = Selected(a, found, selector)
      <4>1. ASSUME NEW x \in FoundFor(a, entries[a]), NEW selector \in x.selectors, t = Selected(a, x, selector)
            PROVE  \E found \in ReadAdopter(entries[a], TriggersOn(tx_traces, a), current.block) :
                        \E r \in found.selectors : t = Selected(a, found, r)
        <5>1. PICK found \in ReadAdopter(entries[a], TriggersOn(tx_traces, a), current.block) :
                x = [adopter |-> a, id |-> found.id, selectors |-> found.selectors]
          BY DEF FoundFor
        <5>2. selector \in found.selectors /\ Selected(a, x, selector) = Selected(a, found, selector)
          BY <5>1
        <5>3. QED
          BY <4>1, <5>2
      <4>2. ASSUME NEW found \in ReadAdopter(entries[a], TriggersOn(tx_traces, a), current.block),
                   NEW selector \in found.selectors, t = Selected(a, found, selector)
            PROVE  \E x \in FoundFor(a, entries[a]) : \E r \in x.selectors : t = Selected(a, x, r)
        <5> DEFINE x == [adopter |-> a, id |-> found.id, selectors |-> found.selectors]
        <5>1. x \in FoundFor(a, entries[a])
          BY DEF FoundFor
        <5>2. selector \in x.selectors /\ t = Selected(a, x, selector)
          BY <4>2
        <5> HIDE DEF x
        <5>3. QED
          BY <5>1, <5>2
      <4>3. QED
        BY <4>1, <4>2
    <3>3. QED
      BY <3>1, <3>2
  <2>3. \A x \in assertions : x.adopter \in Addresses /\ TriggersOn(tx_traces, x.adopter) # {}
    BY DEF ExecutorInv, ReadInv
  <2>4. QED
    BY <2>1, <2>2, <2>3
\* So is one that has run.
<1>6. \A t : t \in Promised!Called(runs) <=>
        \E x \in assertions : \E selector \in x.selectors : t = Selected(x.adopter, x, selector)
  <2>1. \A t : t \in Promised!Called(runs) <=>
            \E run \in runs : t = [adopter |-> run.adopter, id |-> run.id, selector |-> run.selector]
    BY DEF Promised!Called
  <2>2. \A x \in assertions : \A selector \in x.selectors : \E run \in runs :
            [adopter |-> run.adopter, id |-> run.id, selector |-> run.selector] = Selected(x.adopter, x, selector)
    BY DEF Waiting
  <2>3. \A run \in runs : \E x \in assertions : \E selector \in x.selectors :
            [adopter |-> run.adopter, id |-> run.id, selector |-> run.selector] = Selected(x.adopter, x, selector)
    BY DEF ExecutorInv, RunInv
  <2>4. ASSUME NEW t, t \in Promised!Called(runs)
        PROVE  \E x \in assertions : \E selector \in x.selectors : t = Selected(x.adopter, x, selector)
    <3>1. PICK run \in runs : t = [adopter |-> run.adopter, id |-> run.id, selector |-> run.selector]
      BY <2>1, <2>4
    <3>2. QED
      BY <2>3, <3>1
  <2>5. ASSUME NEW x \in assertions, NEW selector \in x.selectors
        PROVE  Selected(x.adopter, x, selector) \in Promised!Called(runs)
    <3>1. PICK run \in runs :
            [adopter |-> run.adopter, id |-> run.id, selector |-> run.selector] = Selected(x.adopter, x, selector)
      BY <2>2
    <3>2. QED
      BY <2>1, <3>1
  <2>6. QED
    BY <2>4, <2>5
<1>7. Promised!Called(runs) = Promised!Demanded(entries)
  <2>1. \A t : t \in Promised!Called(runs) <=> t \in Promised!Demanded(entries)
    BY <1>5, <1>6
  <2>2. QED
    BY <2>1
<1>8. QED
  BY <1>4, <1>7

\* A validation that ends with a verdict of its assertions is Decide.
LEMMA Decides ==
    ASSUME ExecutorInv, pc = "run" \/ (pc = "read" /\ to_read = {}),
           \A x \in assertions : Waiting(x) = {},
           NEW valid \in BOOLEAN, valid = \A run \in runs : run.outcome = "Success",
           Return(Verdict(valid, runs)),
           fork_db' = IF valid THEN Commit(fork_db, result_and_state) ELSE fork_db
    PROVE  Promised!Decide
<1>1. /\ current # None /\ current' = None /\ UNCHANGED <<store, window>>
      /\ current.tx \in Txs /\ current.tx.outcome = "Success"
      /\ result_and_state = StateAfter(current.tx, external_db)
  BY ExecutorAssumption DEF Return, ExecutorInv, ControlInv
<1>2. Decision' = [kind |-> "Ok", valid |-> valid, runs |-> runs]
  BY DEF Return, Verdict, Decision
<1>3. \E entries \in Promised!Observed : Promised!Called(runs) = Promised!Demanded(entries)
  BY RanAsDemanded
<1>4. ForkStorage' = IF valid THEN StorageAfter(current.tx, ForkStorage) ELSE ForkStorage
  <2>1. CASE ~ valid
    BY <2>1 DEF ForkStorage
  <2>2. CASE valid
    <3>1. /\ IsDb(external_db) /\ Follows(fork_db, external_db, stale)
          /\ result_and_state \in Changes
      BY <1>1, StateType DEF ExecutorInv, FollowInv
    <3>2. Over(Commit(fork_db, result_and_state), InnerDb).storage
            = Committed(external_db, result_and_state).storage
      BY <3>1, CommitFollows DEF Follows
    <3>3. Committed(external_db, result_and_state).storage = StorageAfter(current.tx, external_db.storage)
      BY <1>1, <3>1, CommittedStorage
    <3>4. ForkStorage = external_db.storage
      BY <3>1 DEF Follows, ForkStorage
    <3>5. ForkStorage' = Over(Commit(fork_db, result_and_state), InnerDb).storage
      BY <2>2 DEF ForkStorage
    <3>6. QED
      BY <2>2, <3>2, <3>3, <3>4, <3>5
  <2>3. QED
    BY <2>1, <2>2
<1>5. QED
  BY <1>1, <1>2, <1>3, <1>4 DEF Promised!Decide, Promised!Return, ForkStorage

\* One that ends with an error is Fail.
LEMMA Fails ==
    ASSUME ExecutorInv, pc \notin {"idle", "returned"}, Return(Failed), UNCHANGED fork_db
    PROVE  Promised!Fail
<1>1. current # None
  BY ExecutorAssumption DEF ExecutorInv, ControlInv, Steps
<1>2. Decision' = [kind |-> "Err", valid |-> FALSE, runs |-> {}]
  BY DEF Return, Failed, NoResult, Decision
<1>3. ForkStorage' = ForkStorage
  BY DEF ForkStorage, Over, StorageRef
<1>4. QED
  BY <1>1, <1>2, <1>3 DEF Return, Promised!Fail, Promised!Return, ForkStorage

\* What leaves the fork, the store and the result alone is not seen.
LEMMA Stutters ==
    ASSUME UNCHANGED <<fork_db, store, current, window, result>>
    PROVE  UNCHANGED Promised!vars
  BY DEF Promised!vars, Decision, Over, StorageRef

LEMMA ValidatedStep ==
    ASSUME ExecutorInv, [Next]_vars
    PROVE  [Promised!Next]_(Promised!vars)
<1>1. ASSUME NEW tx \in Txs, NEW block \in Blocks, Execute(tx, block)
      PROVE  Promised!Begin(tx, block)
  <2>1. /\ current = None /\ current' = [tx |-> tx, block |-> block]
        /\ window' = [a \in Addresses |-> {store[a]}] /\ UNCHANGED <<fork_db, store>>
    BY <1>1 DEF Execute, ExecutorInv, ControlInv
  <2>2. Decision' = [kind |-> "None", valid |-> FALSE, runs |-> {}]
    BY <1>1 DEF Execute, NoResult, Decision
  <2>3. QED
    BY <2>1, <2>2 DEF Promised!Begin, Promised!NoVerdict, Over, StorageRef
<1>2. CASE ReturnError
  BY <1>2, Fails DEF ReturnError, Promised!Next
<1>3. CASE ReturnReverted
  <2>1. current # None /\ current.tx.outcome = "Revert"
    BY <1>3, ExecutorAssumption DEF ReturnReverted, ExecutorInv, ControlInv
  <2>2. Promised!Skip
    BY <1>3, <2>1 DEF ReturnReverted, Return, Verdict, Promised!Skip, Promised!Return, Decision, Over, StorageRef
  <2>3. QED
    BY <2>2 DEF Promised!Next
<1>4. ASSUME NEW a \in Addresses, ReadOne(a) \/ ReadError(a)
      PROVE  [Promised!Next]_(Promised!vars)
  <2>1. CASE ReadOne(a)
    BY <2>1, Stutters DEF ReadOne, inputs
  <2>2. CASE ReadError(a)
    BY <2>2, Fails DEF ReadError, Promised!Next
  <2>3. QED
    BY <1>4, <2>1, <2>2
<1>5. CASE ReadDone
  <2>1. CASE assertions = {}
    <3>1. runs = {} /\ TRUE = \A run \in runs : run.outcome = "Success"
      BY <1>5 DEF ReadDone, ExecutorInv, ControlInv
    <3>2. Return(Verdict(TRUE, runs)) /\ fork_db' = Commit(fork_db, result_and_state)
      BY <1>5, <2>1, <3>1 DEF ReadDone
    <3>3. Promised!Decide
      BY <1>5, <2>1, <3>1, <3>2, Decides DEF ReadDone
    <3>4. QED
      BY <3>3 DEF Promised!Next
  <2>2. CASE assertions # {}
    BY <1>5, <2>2, Stutters DEF ReadDone, inputs
  <2>3. QED
    BY <2>1, <2>2
<1>6. ASSUME NEW x \in assertions,
             \/ RunContract(x) \/ RunError(x)
             \/ \E selector \in x.selectors, outcome \in {"Success", "Revert", "Error"} :
                    ExecuteFn(x, selector, outcome)
      PROVE  [Promised!Next]_(Promised!vars)
  <2>1. CASE RunError(x)
    BY <2>1, Fails DEF RunError, Promised!Next
  <2>2. CASE RunContract(x)
    BY <2>2, Stutters DEF RunContract, inputs
  <2>3. ASSUME NEW selector, NEW outcome, ExecuteFn(x, selector, outcome)
        PROVE  UNCHANGED Promised!vars
    BY <2>3, Stutters DEF ExecuteFn, inputs
  <2>4. QED
    BY <1>6, <2>1, <2>2, <2>3
<1>7. CASE RunDone
  <2>1. IsValid = \A run \in runs : run.outcome = "Success"
    <3>1. \A x \in assertions : \A run \in runs :
            run.adopter = x.adopter /\ run.id = x.id => run.outcome \in Outcomes(x)
      BY DEF Outcomes
    <3>2. IsValid => \A run \in runs : run.outcome = "Success"
      BY <3>1 DEF IsValid, ExecutorInv, RunInv
    <3>3. (\A run \in runs : run.outcome = "Success") => IsValid
      BY DEF IsValid, Outcomes
    <3>4. IsValid \in BOOLEAN
      BY DEF IsValid
    <3>5. QED
      BY <3>2, <3>3, <3>4
  <2>2. IsValid \in BOOLEAN
    BY DEF IsValid
  <2>3. \A x \in assertions : Waiting(x) = {}
    BY <1>7 DEF RunDone
  <2>4. Promised!Decide
    BY <1>7, <2>1, <2>2, <2>3, Decides DEF RunDone
  <2>5. QED
    BY <2>4 DEF Promised!Next
<1>8. CASE CallerCommits
  BY <1>8, Stutters DEF CallerCommits, inputs
<1>9. ASSUME NEW m \in PendingMods, WriteStore(m)
      PROVE  Promised!Write(m)
  BY <1>9 DEF WriteStore, Promised!Write, Decision, Over, StorageRef, inputs
<1>10. CASE UNCHANGED vars
  BY <1>10, Stutters DEF vars
<1>11. QED
  BY <1>1, <1>2, <1>3, <1>4, <1>5, <1>6, <1>7, <1>8, <1>9, <1>10 DEF Next, Promised!Next

(***************************************************************************)
(* The theorems.                                                           *)
(***************************************************************************)
\* Whatever transactions are accepted, rejected, reverted or cannot be run, the
\* executor's fork answers as the caller's database, but for the infos that
\* ForkFollowsExternal excuses.
THEOREM ForkFollows == Spec => []ForkFollowsExternal
<1>1. ExecutorInv => ForkFollowsExternal
  BY DEF ExecutorInv, FollowInv, Follows, ForkFollowsExternal
<1>2. QED
  BY <1>1, ExecutorInvariant, PTL

\* An account whose balance a transaction changes is read from the store with
\* the trigger BalanceChange, unless a destruction has moved the balance, which
\* the tracer does not look at.
THEOREM BalanceChangesObserved == Spec => []BalanceChangesTrigger
<1>1. ExecutorInv => BalanceChangesTrigger
  <2> SUFFICES ASSUME ExecutorInv, pc \in {"read", "run"},
                      NEW a \in Addresses, a \notin MovedByDestruction(current.tx),
                      result_and_state[a] # None,
                      result_and_state[a].info.balance # InfoBefore(external_db.basic, a).balance
               PROVE  "BalanceChange" \in TriggersOn(tx_traces, a)
    BY DEF BalanceChangesTrigger
  <2> DEFINE tx == current.tx
  <2>1. /\ tx \in Txs /\ result_and_state = StateAfter(tx, external_db)
        /\ tx_traces = Trace(tx, external_db) /\ IsDb(external_db)
    BY DEF ExecutorInv, ControlInv, FollowInv
  <2>2. result_and_state[a].info.balance = Balances(tx, external_db.basic)[a]
    BY <2>1 DEF StateAfter, InfoAfter
  <2>3. PICK kind \in {"transfer", "destroy"} : \E n \in Live(tx, kind) : a \in {tx.ops[n].at, tx.ops[n].key}
    BY <2>1, <2>2, BalancesKept DEF IsDb
  <2>4. kind = "transfer"
    BY <2>3 DEF MovedByDestruction
  <2>5. "BalanceChange" \in TxTriggers(tx, external_db.storage, a)
    BY <2>3, <2>4 DEF TxTriggers
  <2>6. QED
    BY <2>1, <2>5, TriggersAsDone
<1>2. QED
  BY <1>1, ExecutorInvariant, PTL

\* validate_transaction_ext_db, with the store written meanwhile and the
\* functions run in any order, accepts a transaction as a whole or leaves no
\* trace of it, by exactly the assertion functions that its triggers call for.
THEOREM ExecutorValidates == Spec => ImplementsValidatedBlock
<1>1. Init => Promised!Init
  BY DEF Init, Promised!Init, Promised!NoVerdict, Decision, NoResult
<1>2. ExecutorInv /\ [Next]_vars => [Promised!Next]_(Promised!vars)
  BY ValidatedStep
<1>3. QED
  BY <1>1, <1>2, ExecutorInvariant, PTL DEF Spec, Promised!Spec, ImplementsValidatedBlock
==============================================================================
