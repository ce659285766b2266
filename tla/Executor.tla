------------------------------- MODULE Executor ------------------------------
(***************************************************************************)
(* The assertion executor (executor/mod.rs) with the call tracer, the fork *)
(* databases and the assertion store that others write to meanwhile.       *)
(*                                                                         *)
(* validate_transaction_ext_db runs a transaction against the caller's     *)
(* database, reads the assertions that it triggers from the store, adopter *)
(* by adopter, and runs their functions in parallel.  The caller commits   *)
(* to its own database what was validated; the executor keeps a fork of    *)
(* its own in step with it.                                                *)
(***************************************************************************)
EXTENDS Modifications, FiniteSets, Integers

CONSTANTS
    Addresses, Slots, Hashes, Values, Zero, NoCode, DefaultSelector,
    AssertionContract,   \* ASSERTION_CONTRACT
    Caller,              \* CALLER
    Txs,                 \* transactions that are submitted
    Blocks,              \* block numbers
    PendingMods,         \* modifications that reach the store
    InnerDb,             \* the database below the fork
    Codes,               \* codes of accounts
    Deployed,            \* id -> the AssertionContract the store has
    MaxBalance,          \* U256::MAX
    MaxTxs, MaxWrites    \* bounds on validations and on writes to the store

\* Accounts as databases have them, and as the EVM returns them.
Info    == [nonce : Nat, balance : Int, code_hash : Hashes, code : Codes \cup {None}]
Account == [touched : BOOLEAN, selfdestructed : BOOLEAN, info : Info,
            storage : [Slots -> Values \cup {None}]]

\* A ForkDb's own data.
Layer == [basic : [Addresses -> Info \cup {None}],
          map   : [Addresses -> [Slots -> Values \cup {None}]],
          code  : [Hashes -> Codes \cup {None}],
          dont_read_from_inner_db : [Addresses -> BOOLEAN]]

PendingModification == [kind : {"Add", "Remove"}, adopter : Addresses, id : Ids, at : Nat]

ASSUME ExecutorAssumption ==
    /\ None \notin Values /\ Zero \in Values /\ NoCode \in Hashes
    /\ None \notin Info /\ None \notin Account /\ None \notin [tx : Txs, block : Blocks]
    /\ InnerDb.basic \in [Addresses -> Info \cup {None}]
    /\ InnerDb.storage \in [Addresses -> [Slots -> Values]]
    /\ \A tx \in Txs :
        /\ tx.outcome \in {"Success", "Revert", "Error"}
        /\ Len(tx.ops) \in Nat /\ DOMAIN tx.ops = 1..Len(tx.ops)
        /\ \A n \in DOMAIN tx.ops : tx.ops[n].kind = "sstore" =>
            tx.ops[n].at \in Addresses /\ tx.ops[n].key \in Slots /\ tx.ops[n].value \in Values
        /\ \A n \in DOMAIN tx.ops : tx.ops[n].kind \in {"transfer", "destroy"} =>
            tx.ops[n].at \in Addresses /\ tx.ops[n].key \in Addresses
    /\ PendingMods \subseteq PendingModification

\* The assertion contract runs at an address that is a hash: no account with
\* code is there, so that no transaction loads or stores a slot of it.  The
\* store has no contract that destroyed itself when it was deployed
\* (ExtractorProofs!AcceptedAsDeployed).
ASSUME DeploymentAssumption ==
    /\ AssertionContract \in Addresses /\ Caller \in Addresses \ {AssertionContract}
    /\ MaxBalance \in Int /\ None \notin [pre : Layer, post : Layer]
    /\ Deployed \in [Ids -> [code_hash : Hashes, code : Codes, selfdestructed : {FALSE},
                              storage : [Slots -> Values \cup {None}]]]
    /\ \A tx \in Txs : \A n \in DOMAIN tx.ops :
        tx.ops[n].kind \in {"sload", "sstore"} => tx.ops[n].at # AssertionContract

INSTANCE Tracer
INSTANCE ForkDb

VARIABLES
    external_db,     \* the caller's database
    fork_db,         \* the executor's fork: a layer over InnerDb
    block_changes,   \* what the caller collected: BlockChanges.state_changes
    store,           \* adopter -> list of assertions, or None
    pc,
    current,         \* [tx, block], or None
    result_and_state,
    tx_traces,       \* the CallTracer
    multi_fork_db,   \* [pre, post]: layers over InnerDb
    to_read,         \* adopters still to be read
    assertions,      \* read so far: [adopter, id, selectors]
    active_dbs,      \* assertion -> the active layer of its MultiForkDb
    runs,            \* functions that ran: [adopter, id, selector, outcome]
    result,          \* of the last validation
    txs, writes,     \* counters
    window,          \* adopter -> what the store has had for it meanwhile
    stale,           \* accounts whose info the fork may have wrong
    unmerged         \* accounts of which block_changes may have lost something

inputs == <<current, result_and_state, tx_traces, multi_fork_db>>
running == <<to_read, assertions, active_dbs, runs>>
dbs == <<external_db, block_changes, stale, unmerged>>
vars == <<external_db, fork_db, block_changes, store, pc, current, result_and_state, tx_traces,
          multi_fork_db, to_read, assertions, active_dbs, runs, result, txs, writes, window,
          stale, unmerged>>

NoChanges == [a \in Addresses |-> None]

\* ExecutorResult<TxValidationResult>, before there is one.
NoResult == [kind |-> "None", valid |-> FALSE, success |-> FALSE, state |-> NoChanges, runs |-> {}]

Init ==
    /\ external_db = InnerDb /\ fork_db = Empty /\ block_changes = NoChanges
    /\ store = [a \in Addresses |-> None]
    /\ pc = "idle" /\ current = None /\ result_and_state = None /\ tx_traces = None
    /\ multi_fork_db = None
    /\ to_read = {} /\ assertions = {} /\ active_dbs = <<>> /\ runs = {}
    /\ result = NoResult /\ txs = 0 /\ writes = 0
    /\ window = [a \in Addresses |-> {}] /\ stale = {} /\ unmerged = {}

(***************************************************************************)
(* The transaction.                                                        *)
(***************************************************************************)
\* Mutant: the fork is copied after the changes are committed to it.
NewMultiForkDb_Late(changes) ==
    [pre |-> Commit(fork_db, changes), post |-> Commit(fork_db, changes)]

\* The fork before the transaction, and a copy with its changes.
NewMultiForkDb(changes) == [pre |-> fork_db, post |-> Commit(fork_db, changes)]

\* execute_forked_tx_ext_db: the EVM runs against the caller's database; the
\* changes are committed to a copy of the fork.
Execute(tx, block) ==
    /\ pc = "idle" /\ txs < MaxTxs /\ txs' = txs + 1
    /\ current' = [tx |-> tx, block |-> block]
    /\ window' = [a \in Addresses |-> {store[a]}]
    /\ result' = NoResult
    /\ IF tx.outcome = "Error"
       THEN /\ pc' = "error"
            /\ UNCHANGED <<result_and_state, tx_traces, multi_fork_db, to_read>>
       ELSE /\ result_and_state' = StateAfter(tx, external_db)
            /\ tx_traces' = Trace(tx, external_db)
            /\ multi_fork_db' = NewMultiForkDb(StateAfter(tx, external_db))
            /\ to_read' = {a \in Addresses : TriggersOn(Trace(tx, external_db), a) # {}}
            /\ pc' = IF tx.outcome = "Success" THEN "read" ELSE "reverted"
    /\ UNCHANGED <<fork_db, store, assertions, active_dbs, runs, writes, dbs>>

\* Mutant: what ran is kept for the next validation.
Return_KeepsRuns(verdict) ==
    /\ result' = verdict
    /\ pc' = "returned"
    /\ current' = None /\ result_and_state' = None /\ tx_traces' = None
    /\ multi_fork_db' = None
    /\ to_read' = {} /\ assertions' = {} /\ active_dbs' = <<>> /\ runs' = runs
    /\ UNCHANGED <<store, txs, writes, window, dbs>>

\* A validation ends: the locals are dropped.
Return(verdict) ==
    /\ result' = verdict
    /\ pc' = "returned"
    /\ current' = None /\ result_and_state' = None /\ tx_traces' = None
    /\ multi_fork_db' = None
    /\ to_read' = {} /\ assertions' = {} /\ active_dbs' = <<>> /\ runs' = {}
    /\ UNCHANGED <<store, txs, writes, window, dbs>>

\* TxValidationResult, and the changes that the caller is to commit with it.
Verdict(valid, ran) ==
    [kind |-> "Ok", valid |-> valid, success |-> current.tx.outcome = "Success",
     state |-> result_and_state, runs |-> ran]

Failed == [NoResult EXCEPT !.kind = "Err"]

\* An ExecutorError of the transaction.
ReturnError == pc = "error" /\ Return(Failed) /\ UNCHANGED fork_db

\* "Transaction execution failed, skipping assertions": valid, not committed.
ReturnReverted ==
    /\ pc = "reverted"
    /\ Return(Verdict(TRUE, {}))
    /\ UNCHANGED fork_db

(***************************************************************************)
(* execute_assertions: AssertionStore::read, then every contract.          *)
(***************************************************************************)
\* read_adopter of one account with triggers, in the order of a HashMap.
ReadOne(a) ==
    /\ pc = "read" /\ a \in to_read
    /\ to_read' = to_read \ {a}
    /\ assertions' = assertions \cup
            {[adopter |-> a, id |-> found.id, selectors |-> found.selectors] :
                found \in ReadAdopter(store[a], TriggersOn(tx_traces, a), current.block)}
    /\ UNCHANGED <<fork_db, store, pc, inputs, active_dbs, runs, result, txs, writes, window, dbs>>

\* read_adopter fails.
ReadError(a) ==
    /\ pc = "read" /\ a \in to_read
    /\ Return(Failed)
    /\ UNCHANGED fork_db

\* Without assertions the transaction is valid and committed.
ReadDone ==
    /\ pc = "read" /\ to_read = {}
    /\ \/ /\ assertions = {}
          /\ fork_db' = Commit(fork_db, result_and_state)
          /\ Return(Verdict(TRUE, {}))
       \/ /\ assertions # {}
          /\ pc' = "run"
          /\ UNCHANGED <<fork_db, store, inputs, running, result, txs, writes, window, dbs>>

\* The account of the contract as it was deployed, and that of its caller.
ContractAccounts(id) ==
    [a \in Addresses |->
        CASE a = AssertionContract ->
                [touched |-> TRUE, selfdestructed |-> Deployed[id].selfdestructed,
                 info    |-> [nonce |-> 1, balance |-> MaxBalance,
                              code_hash |-> Deployed[id].code_hash, code |-> Deployed[id].code],
                 storage |-> Deployed[id].storage]
          [] a = Caller ->
                [touched |-> TRUE, selfdestructed |-> FALSE,
                 info    |-> [DefaultInfo EXCEPT !.nonce = 42, !.balance = MaxBalance],
                 storage |-> [s \in Slots |-> None]]
          [] OTHER -> None]

\* insert_assertion_contract, on the active layer.
InsertAssertionContract(layer, id) ==
    LET committed == Commit(layer, ContractAccounts(id)) IN
    [committed EXCEPT !.dont_read_from_inner_db =
        [a \in Addresses |-> @[a] \/ a \in {AssertionContract, Caller}]]

\* Mutant: the MultiForkDb of another contract is used again.
RunContract_Reuses(x) ==
    LET base == IF DOMAIN active_dbs = {} THEN multi_fork_db.post
                ELSE active_dbs[CHOOSE y \in DOMAIN active_dbs : TRUE] IN
    /\ pc = "run" /\ x \in assertions \ DOMAIN active_dbs
    /\ active_dbs' = [y \in DOMAIN active_dbs \cup {x} |->
            IF y = x THEN InsertAssertionContract(base, x.id) ELSE active_dbs[y]]
    /\ UNCHANGED <<fork_db, store, pc, inputs, to_read, assertions, runs, result, txs, writes,
                   window, dbs>>

\* run_assertion_contract begins: the contract is put into a copy of the
\* MultiForkDb, which its functions copy in turn.
RunContract(x) ==
    /\ pc = "run" /\ x \in assertions \ DOMAIN active_dbs
    /\ active_dbs' = [y \in DOMAIN active_dbs \cup {x} |->
            IF y = x THEN InsertAssertionContract(multi_fork_db.post, x.id) ELSE active_dbs[y]]
    /\ UNCHANGED <<fork_db, store, pc, inputs, to_read, assertions, runs, result, txs, writes,
                   window, dbs>>

\* The functions of an assertion that have not run yet.
Waiting(x) == {selector \in x.selectors :
    \A run \in runs : [adopter |-> run.adopter, id |-> run.id, selector |-> run.selector]
                        # [adopter |-> x.adopter, id |-> x.id, selector |-> selector]}

\* execute_assertion_fn: it passes, fails (reverts or halts), or the EVM
\* reports an error.  Its changes are not committed anywhere.
ExecuteFn(x, selector, outcome) ==
    /\ pc = "run" /\ x \in DOMAIN active_dbs /\ selector \in Waiting(x)
    /\ runs' = runs \cup {[adopter |-> x.adopter, id |-> x.id, selector |-> selector,
                           outcome |-> outcome]}
    /\ UNCHANGED <<fork_db, store, pc, inputs, to_read, assertions, active_dbs, result, txs,
                   writes, window, dbs>>

Outcomes(x) == {run.outcome : run \in {r \in runs : r.adopter = x.adopter /\ r.id = x.id}}

\* A contract is done, and one of its functions could not be executed: the
\* validation ends with the error, whatever the other contracts have done.
RunError(x) ==
    /\ pc = "run" /\ x \in DOMAIN active_dbs
    /\ Waiting(x) = {} /\ "Error" \in Outcomes(x)
    /\ Return(Failed)
    /\ UNCHANGED fork_db

\* Mutant: one function that passes is enough.
IsValid_Any == \A x \in assertions : Outcomes(x) = {} \/ "Success" \in Outcomes(x)

\* No contract has a function that did not pass.
IsValid == \A x \in assertions : Outcomes(x) \subseteq {"Success"}

\* All contracts are done: the changes are committed if all functions passed.
RunDone ==
    /\ pc = "run" /\ DOMAIN active_dbs = assertions
    /\ \A x \in assertions : Waiting(x) = {} /\ "Error" \notin Outcomes(x)
    /\ fork_db' = IF IsValid THEN Commit(fork_db, result_and_state) ELSE fork_db
    /\ Return(Verdict(IsValid, runs))

(***************************************************************************)
(* The caller, and the writers of the store.                               *)
(***************************************************************************)
\* Accounts that a merge takes something from: the latest status replaces one
\* that said touched, or selfdestructed.
LosesStatus(changes, later) ==
    {a \in Addresses : /\ changes[a] # None /\ later[a] # None
                       /\ \/ changes[a].touched /\ ~ later[a].touched
                          \/ changes[a].selfdestructed /\ ~ later[a].selfdestructed}

\* The caller commits what is valid, and merges it into the block's changes.
\* The fork has not seen the changes of a transaction that reverted, and keeps
\* the info of an account that was destroyed.
CallerCommits ==
    /\ pc = "returned" /\ pc' = "idle"
    /\ IF result.valid
       THEN /\ external_db' = Committed(external_db, result.state)
            /\ block_changes' = MergeState(block_changes, result.state)
            /\ stale' = IF result.success
                        THEN {a \in Addresses : \/ Destroyed(result.state, a)
                                                \/ a \in stale /\ ~ Touched(result.state, a)}
                        ELSE stale \cup {a \in Addresses : Touched(result.state, a)}
            /\ unmerged' = unmerged \cup LosesStatus(block_changes, result.state)
       ELSE UNCHANGED dbs
    /\ UNCHANGED <<fork_db, store, inputs, running, result, txs, writes, window>>

Updated(entry, m) == ApplyAll(OrEmpty(entry), <<m>>)

\* Modifications are applied to the store, at any time.
WriteStore(m) ==
    /\ writes < MaxWrites /\ writes' = writes + 1
    /\ store' = [store EXCEPT ![m.adopter] = Updated(@, m)]
    /\ window' = [window EXCEPT ![m.adopter] = @ \cup {Updated(store[m.adopter], m)}]
    /\ UNCHANGED <<fork_db, pc, inputs, running, result, txs, dbs>>

Next ==
    \/ \E tx \in Txs, block \in Blocks : Execute(tx, block)
    \/ ReturnError \/ ReturnReverted
    \/ \E a \in Addresses : ReadOne(a) \/ ReadError(a)
    \/ ReadDone
    \/ \E x \in assertions :
        \/ RunContract(x) \/ RunError(x)
        \/ \E selector \in x.selectors, outcome \in {"Success", "Revert", "Error"} :
            ExecuteFn(x, selector, outcome)
    \/ RunDone
    \/ CallerCommits
    \/ \E m \in PendingMods : WriteStore(m)

Spec == Init /\ [][Next]_vars

(***************************************************************************)
(* Properties.                                                             *)
(***************************************************************************)
\* The type invariant, by the steps of a validation: what is read and what has
\* run belongs to the transaction that is validated.
TypeOK ==
    /\ pc \in {"idle", "error", "reverted", "read", "run", "returned"}
    /\ (current # None) = (pc \notin {"idle", "returned"})
    /\ (multi_fork_db # None) = (pc \in {"reverted", "read", "run"})
    /\ to_read \subseteq Addresses /\ (to_read # {} => pc \in {"read", "reverted"})
    /\ DOMAIN active_dbs \subseteq assertions
    /\ \A run \in runs : \E x \in DOMAIN active_dbs :
        run.adopter = x.adopter /\ run.id = x.id /\ run.selector \in x.selectors
    /\ store \in [Addresses -> Seq(AssertionState) \cup {None}]
    /\ external_db.storage \in [Addresses -> [Slots -> Values]]

\* The executor's fork answers as the caller's database does, before, during
\* and after every validation: whatever transactions were accepted, rejected,
\* reverted or met an error.  The infos of two kinds of accounts are excused:
\* those touched by a transaction that reverted, which is valid and which the
\* caller commits but the fork does not; and those that were destroyed, which
\* no longer exist for the caller and keep their info in the fork.
ForkFollowsExternal ==
    pc # "returned" =>
        /\ Over(fork_db, InnerDb).storage = external_db.storage
        /\ \A a \in Addresses \ stale :
            BasicRef(fork_db, InnerDb, a) = external_db.basic[a]

\* load: the slot in the active fork's database, whatever the EVM has written.
LoadExternalSlot(layer, a, s) == StorageRef(layer, InnerDb, a, s)

\* getStateChanges agrees with the forks: it never fails; if it lists values,
\* the first is what load returns on the fork before the transaction and the
\* last what it returns on the fork after it; if it lists none, the two are
\* the same.  An account that was destroyed is excused: its slots are zero on
\* the fork after the transaction, which the journal does not say.
StateChangesSpanForks ==
    pc \in {"read", "run"} => \A a \in Addresses, s \in Slots :
        LET changes == GetStateChanges(tx_traces, a, s)
            before  == LoadExternalSlot(multi_fork_db.pre, a, s)
            after   == LoadExternalSlot(multi_fork_db.post, a, s)
            n       == Len(changes.values)
        IN  /\ changes.error = None
            /\ n > 0 => changes.values[1] = before
            /\ n > 0 /\ ~ Destroyed(result_and_state, a) => changes.values[n] = after
            /\ n = 0 /\ ~ Destroyed(result_and_state, a) => before = after

\* The contracts run at the same address in parallel, and each finds the code
\* and the storage that it was deployed with there, and no slot of another.
OwnDeployment ==
    \A x \in DOMAIN active_dbs :
        /\ BasicRef(active_dbs[x], InnerDb, AssertionContract).code = Deployed[x.id].code
        /\ \A s \in Slots : StorageRef(active_dbs[x], InnerDb, AssertionContract, s)
            = IF Deployed[x.id].storage[s] = None THEN Zero ELSE Deployed[x.id].storage[s]

\* The changes that were merged over a block, committed at once, leave the
\* storage that committing them one by one has left.  Accounts whose status
\* was replaced by one that no longer says touched, or selfdestructed, are
\* excused: what merge_state was told of them before is not committed.
BlockChangesAddUp ==
    \A a \in Addresses \ unmerged, s \in Slots :
        StorageRef(Commit(Empty, block_changes), InnerDb, a, s) = external_db.storage[a][s]

\* The accounts whose balance a destruction of the transaction has moved.
MovedByDestruction(tx) == UNION {{tx.ops[n].at, tx.ops[n].key} : n \in Live(tx, "destroy")}

\* "BalanceChange - Triggers when the contract's ETH balance changes", says
\* trigger_recorder.rs: an account that has another balance after the
\* transaction than before it is read from the store with that trigger,
\* whether it received, spent, or both.  The code keeps the promise for
\* transfers only: triggers() ignores AccountDestroyed, so that an adopter that
\* is credited with the balance of a destroyed account has no such trigger.
\* The accounts of a destruction are excused here, and nothing else is; the
\* fees, which change balances without a journal entry, are not modelled.
BalanceChangesTrigger ==
    pc \in {"read", "run"} => \A a \in Addresses \ MovedByDestruction(current.tx) :
        \/ result_and_state[a] = None
        \/ result_and_state[a].info.balance = InfoBefore(external_db.basic, a).balance
        \/ "BalanceChange" \in TriggersOn(tx_traces, a)

\* What triggers can name of what a transaction does to an account: the
\* selectors it is called with, in calls that are undone, too; the slots that
\* it changes, if only for a while; whether balance is transferred from or to
\* it.  That is what the code does, and less than trigger_recorder.rs says of
\* BalanceChange: balance that a destruction moves does not count (see
\* BalanceChangesTrigger), nor do slots that a destruction clears.
TxTriggers(tx, storage, a) ==
    {SelectorOf(tx.ops[n]) : n \in {m \in DOMAIN tx.ops : tx.ops[m].kind = "call" /\ tx.ops[m].at = a}}
        \cup {s \in Slots : \E n \in WritesTo(tx, a, s) : ValueAt(tx, storage, n, a, s) # tx.ops[n].value}
        \cup {"BalanceChange" : n \in {m \in Live(tx, "transfer") : a \in {tx.ops[m].at, tx.ops[m].key}}}

\* TxValidationResult without the changes.
Decision == [kind |-> result.kind, valid |-> result.valid, runs |-> result.runs]

Promised == INSTANCE ValidatedBlock WITH state   <- Over(fork_db, InnerDb).storage,
                                         verdict <- Decision

\* The executor implements ValidatedBlock: each transaction is accepted with
\* all of its effects or leaves none, by exactly the assertion functions that
\* what the store had for each adopter during the validation called for.
ImplementsValidatedBlock == Promised!Spec
==============================================================================
