------------------------------ MODULE Extractor ------------------------------
(***************************************************************************)
(* extract_assertion_contract (store/assertion_contract_extractor.rs) with *)
(* the trigger recorder (inspectors/trigger_recorder.rs): an assertion     *)
(* contract is deployed in an empty database, then its triggers() function *)
(* is called, which registers the contract's functions for triggers.       *)
(*                                                                         *)
(* triggers() is any sequence of storage writes, calls that return or      *)
(* revert, and calls to the recorder; each costs a unit of gas.  A         *)
(* registration is [kind, arg, selector], arg None for all calls or slots. *)
(***************************************************************************)
EXTENDS Integers, Sequences

CONSTANTS
    CallTriggers, StorageTriggers, Selectors,
    Slots, Values, Zero,
    Deployments,            \* what running a deployment code may come to
    DEPLOYMENT_GAS_LIMIT,
    IntrinsicGas,           \* what a transaction costs before it runs
    MaxCalls,               \* bound on open calls
    None

\* The contract in the state that a deployment returns, and in the database
\* to which that state is committed: an account that was destroyed is removed.
InitAccount(d) ==
    [code |-> d.code, storage |-> d.storage, selfdestructed |-> d.selfdestructed]

InDb(d) == IF d.selfdestructed THEN None ELSE [code |-> d.code, storage |-> d.storage]

\* The AssertionContract of an account.
ContractOf(account) ==
    [error |-> None, code |-> account.code, storage |-> account.storage,
     selfdestructed |-> account.selfdestructed]

\* FnSelectorExtractorError
Errors == {"AssertionContractDeployError", "AssertionContractDeployFailed", "TriggersCallError",
           "TriggersCallFailed", "NoTriggersRecorded", "AssertionContractNoCode"}

ASSUME ExtractorAssumption ==
    /\ DEPLOYMENT_GAS_LIMIT \in Nat /\ IntrinsicGas \in Nat \ {0}
    /\ None \notin CallTriggers \cup StorageTriggers
    /\ \A error \in Errors : None # error /\ None # [error |-> error]
    /\ \A d \in Deployments :
        /\ d.outcome \in {"Success", "Failed", "Error"}
        /\ d.gas_used \in 0..DEPLOYMENT_GAS_LIMIT
        /\ d.storage \in [Slots -> Values] /\ d.selfdestructed \in BOOLEAN
        /\ None \notin {InitAccount(d), [code |-> d.code, storage |-> d.storage],
                        ContractOf(InitAccount(d))}

\* The triggers are different TriggerTypes.
ASSUME TriggersAssumption ==
    /\ CallTriggers \cap StorageTriggers = {}
    /\ {"BalanceChange", "AllCalls", "AllStorageChanges"} \cap (CallTriggers \cup StorageTriggers) = {}

Registrations ==
    [kind : {"Call"}, arg : CallTriggers \cup {None}, selector : Selectors]
        \cup [kind : {"StorageChange"}, arg : StorageTriggers \cup {None}, selector : Selectors]
        \cup [kind : {"BalanceChange"}, arg : {None}, selector : Selectors]

Triggers == CallTriggers \cup StorageTriggers
                \cup {"BalanceChange", "AllCalls", "AllStorageChanges"}

VARIABLES
    pc,
    deployment,
    init_account,    \* the contract in the state that the deployment returned
    db,              \* the contract in the InMemoryDB: [code, storage], None if not there
    frames,          \* triggers(): the storage when each open call began, and at present last
    gas_limit, gas,  \* of the call of triggers(), and what is left of it
    triggers,        \* TriggerRecorder.triggers
    result,
    registered       \* the registrations that were accepted

vars == <<pc, deployment, init_account, db, frames, gas_limit, gas, triggers, result, registered>>

NoTriggers == [t \in Triggers |-> {}]

Init ==
    /\ pc = "deploy" /\ deployment \in Deployments
    /\ init_account = None /\ db = None /\ frames = <<>>
    /\ gas_limit = 0 /\ gas = 0
    /\ triggers = NoTriggers /\ result = None /\ registered = {}

Return(outcome) == pc' = "done" /\ result' = outcome

Fail(error) == Return([error |-> error])

(***************************************************************************)
(* The deployment.                                                         *)
(***************************************************************************)
\* The EVM reports an error, or the constructor reverts or runs out of gas.
DeployFails ==
    /\ pc = "deploy"
    /\ \/ deployment.outcome = "Error" /\ Fail("AssertionContractDeployError")
       \/ deployment.outcome = "Failed" /\ Fail("AssertionContractDeployFailed")
    /\ UNCHANGED <<deployment, init_account, db, frames, gas_limit, gas, triggers, registered>>

\* Mutant: a unit is kept back.
TriggersGasLimit_Reserve(d) == DEPLOYMENT_GAS_LIMIT - d.gas_used - 1

TriggersGasLimit(d) == DEPLOYMENT_GAS_LIMIT - d.gas_used

\* The account is kept as it is now; the state is committed; the recorder's
\* account is inserted.
Deploy ==
    /\ pc = "deploy" /\ deployment.outcome = "Success"
    /\ init_account' = InitAccount(deployment)
    /\ db' = InDb(deployment)
    /\ gas_limit' = TriggersGasLimit(deployment)
    /\ pc' = "call"
    /\ UNCHANGED <<deployment, frames, gas, triggers, result, registered>>

(***************************************************************************)
(* The call of triggers().                                                 *)
(***************************************************************************)
\* The transaction is not valid: its gas limit is below what it costs at least.
TriggersCallError ==
    /\ pc = "call" /\ gas_limit < IntrinsicGas
    /\ Fail("TriggersCallError")
    /\ UNCHANGED <<deployment, init_account, db, frames, gas_limit, gas, triggers, registered>>

\* With no code to run the call succeeds at once.
TriggersCall ==
    /\ pc = "call" /\ gas_limit >= IntrinsicGas
    /\ gas' = gas_limit - IntrinsicGas
    /\ \/ db # None /\ pc' = "triggers" /\ frames' = <<db.storage>>
       \/ db = None /\ pc' = "called" /\ frames' = frames
    /\ UNCHANGED <<deployment, init_account, db, gas_limit, triggers, result, registered>>

Step == pc = "triggers" /\ gas > 0 /\ gas' = gas - 1

Write(s, v) ==
    /\ Step
    /\ frames' = [frames EXCEPT ![Len(frames)][s] = v]
    /\ UNCHANGED <<pc, deployment, init_account, db, gas_limit, triggers, result, registered>>

Call ==
    /\ Step /\ Len(frames) <= MaxCalls
    /\ frames' = Append(frames, frames[Len(frames)])
    /\ UNCHANGED <<pc, deployment, init_account, db, gas_limit, triggers, result, registered>>

\* An inner call ends; one that reverts takes its writes back.  What it had
\* recorded stays: the recorder is not part of the EVM's state.
CallEnds(reverts) ==
    /\ pc = "triggers" /\ Len(frames) > 1
    /\ frames' = [SubSeq(frames, 1, Len(frames) - 1) EXCEPT
                    ![Len(frames) - 1] = IF reverts THEN @ ELSE frames[Len(frames)]]
    /\ UNCHANGED <<pc, deployment, init_account, db, gas_limit, gas, triggers, result, registered>>

\* The TriggerType that record_trigger chooses by the selector of the call.
TypeOf(r) ==
    CASE r.kind = "Call"          -> IF r.arg = None THEN "AllCalls" ELSE r.arg
      [] r.kind = "StorageChange" -> IF r.arg = None THEN "AllStorageChanges" ELSE r.arg
      [] OTHER                    -> "BalanceChange"

\* add_trigger
AddTrigger(recorded, t, selector) == [recorded EXCEPT ![t] = @ \cup {selector}]

\* Mutant: the answer hands back the gas of the whole transaction.
RecordTrigger_Refunds(r) ==
    /\ pc = "triggers" /\ gas > 0 /\ gas' = gas_limit - IntrinsicGas
    /\ triggers' = AddTrigger(triggers, TypeOf(r), r.selector)
    /\ registered' = registered \cup {r}
    /\ UNCHANGED <<pc, deployment, init_account, db, frames, gas_limit, result>>

\* A call to TRIGGER_RECORDER never runs: record_trigger answers it, and the
\* answer hands back the gas that the call was given (Gas::new(gas_limit)); only
\* what the call itself costs is gone.
RecordTrigger(r) ==
    /\ Step
    /\ triggers' = AddTrigger(triggers, TypeOf(r), r.selector)
    /\ registered' = registered \cup {r}
    /\ UNCHANGED <<pc, deployment, init_account, db, frames, gas_limit, result>>

\* Mutant: arguments that cannot be decoded stand for all calls.
RecordError_Defaults ==
    /\ Step
    /\ \E selector \in Selectors : triggers' = AddTrigger(triggers, "AllCalls", selector)
    /\ UNCHANGED <<pc, deployment, init_account, db, frames, gas_limit, result, registered>>

\* CallDecodeError or FnSelectorNotFound: the call reverts, nothing is recorded.
RecordError ==
    /\ Step
    /\ UNCHANGED <<pc, deployment, init_account, db, frames, gas_limit, triggers, result, registered>>

TriggersEnds ==
    /\ pc = "triggers" /\ Len(frames) = 1
    /\ pc' = "called"
    /\ UNCHANGED <<deployment, init_account, db, frames, gas_limit, gas, triggers, result, registered>>

\* triggers() reverts, or runs out of gas.
TriggersCallFailed ==
    /\ pc = "triggers" /\ Len(frames) = 1
    /\ Fail("TriggersCallFailed")
    /\ UNCHANGED <<deployment, init_account, db, frames, gas_limit, gas, triggers, registered>>

\* Mutant: the contract is returned as triggers() left it.
Extracted_AfterCall ==
    ContractOf([init_account EXCEPT !.storage = frames[1]])

\* The contract is returned as the deployment left it.
Extracted == ContractOf(init_account)

\* The contract is accepted if it has code and registered anything.
Finish ==
    /\ pc = "called"
    /\ IF triggers = NoTriggers THEN Fail("NoTriggersRecorded")
       ELSE IF init_account.code = None THEN Fail("AssertionContractNoCode")
       ELSE Return(Extracted)
    /\ UNCHANGED <<deployment, init_account, db, frames, gas_limit, gas, triggers, registered>>

Next ==
    \/ DeployFails \/ Deploy
    \/ TriggersCallError \/ TriggersCall
    \/ \E s \in Slots, v \in Values : Write(s, v)
    \/ Call \/ \E reverts \in BOOLEAN : CallEnds(reverts)
    \/ \E r \in Registrations : RecordTrigger(r)
    \/ RecordError
    \/ TriggersEnds \/ TriggersCallFailed
    \/ Finish

Spec == Init /\ [][Next]_vars

\* extract_assertion_contract is one synchronous call: it goes on until it
\* returns.
FairSpec == Spec /\ WF_vars(Next)

(***************************************************************************)
(* Properties.                                                             *)
(***************************************************************************)
\* The type invariant.
TypeOK ==
    /\ pc \in {"deploy", "call", "triggers", "called", "done"}
    /\ deployment \in Deployments
    /\ pc \in {"call", "triggers", "called"} => init_account # None
    /\ frames \in Seq([Slots -> Values]) /\ (pc = "triggers" => frames # <<>> /\ db # None)
    /\ gas_limit \in Nat /\ gas \in Nat
    /\ triggers \in [Triggers -> SUBSET Selectors]
    /\ registered \subseteq Registrations
    /\ (result # None) = (pc = "done")

Accepted == pc = "done" /\ result.error = None

\* An assertion that is accepted can be put into a fork and run: it is the
\* contract as its constructor left it, not changed by triggers(); it was not
\* destroyed, in which case its storage would be dropped again when it is put
\* there; and at least one function is registered.
ExtractedAsDeployed ==
    Accepted =>
        /\ result.code = deployment.code /\ result.storage = deployment.storage
        /\ ~ result.selfdestructed
        /\ \E t \in Triggers : triggers[t] # {}

\* An extraction ends, whatever triggers() does: the indexer, which extracts
\* the contracts of a block one by one while it indexes it, is not kept for ever
\* by a loop of writes, calls, calls that revert and calls to the recorder.
\* What bounds it is the gas that the deployment has left, as long as the
\* recorder never hands back more than a call was given.
ExtractionEnds == <>(pc = "done")

Matching == INSTANCE Modifications WITH Ids <- {"id"}, Recorder <- [id \in {"id"} |-> triggers]

\* A registration applies to a transaction by what it did to the adopter.
Matches(r, observed) ==
    \/ r.arg # None /\ r.arg \in observed
    \/ r.kind = "Call" /\ r.arg = None /\ observed \cap CallTriggers # {}
    \/ r.kind = "StorageChange" /\ r.arg = None /\ observed \cap StorageTriggers # {}
    \/ r.kind = "BalanceChange" /\ "BalanceChange" \in observed

\* For every set of triggers a transaction may set off, the store selects the
\* functions that were registered for one of them and no others, those that
\* were registered in a call that reverted included.
RegisteredIsMatched ==
    \A observed \in SUBSET (CallTriggers \cup StorageTriggers \cup {"BalanceChange"}) :
        Matching!MatchingSelectors("id", observed)
            = {r.selector : r \in {q \in registered : Matches(q, observed)}}
==============================================================================
