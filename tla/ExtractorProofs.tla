---------------------------- MODULE ExtractorProofs --------------------------
(***************************************************************************)
(* Whatever a deployment does and whatever its triggers() function calls,  *)
(* writes, reverts and registers: an assertion that is accepted is the     *)
(* contract as deployed, the number of steps that the extraction takes is  *)
(* bounded, and the functions that the store will select are those that    *)
(* were registered.                                                        *)
(***************************************************************************)
EXTENDS Extractor, SequenceTheorems, TLAPS

Storages == [Slots -> Values]

(***************************************************************************)
(* What holds between the steps of extract_assertion_contract.             *)
(***************************************************************************)
\* The account is the one that was deployed, and the database holds it unless
\* it was destroyed, in which case nothing is ever recorded.
DeployedInv ==
    /\ pc \in {"call", "triggers", "called"} =>
        deployment.outcome = "Success" /\ init_account = InitAccount(deployment)
    /\ pc \in {"call", "triggers"} => db = InDb(deployment)
    /\ pc \in {"deploy", "call"} => triggers = NoTriggers
    /\ pc = "called" /\ deployment.selfdestructed => triggers = NoTriggers

\* A result is an error, or the contract as deployed with its triggers.
ResultInv ==
    pc = "done" =>
        \/ \E error \in Errors : result = [error |-> error]
        \/ /\ result = ContractOf(InitAccount(deployment))
           /\ ~ deployment.selfdestructed /\ triggers # NoTriggers

\* The recorder holds what was registered, by the type chosen for it.
RecorderInv ==
    \A t \in Triggers : triggers[t] = {r.selector : r \in {q \in registered : TypeOf(q) = t}}

ExtractorInv == TypeOK /\ DeployedInv /\ ResultInv /\ RecorderInv

(***************************************************************************)
(* Lemmas.                                                                 *)
(***************************************************************************)
\* The calls that are open: the last storage may be changed, and dropped.
LEMMA FramesChange ==
    ASSUME NEW f \in Seq(Storages), f # <<>>, NEW s \in Slots, NEW v \in Values
    PROVE  /\ [f EXCEPT ![Len(f)][s] = v] \in Seq(Storages)
           /\ [f EXCEPT ![Len(f)][s] = v] # <<>>
<1>1. Len(f) \in Nat /\ Len(f) >= 1 /\ Len(f) \in DOMAIN f /\ DOMAIN f = 1..Len(f)
  BY LenProperties, EmptySeq
<1>2. f[Len(f)] \in Storages
  BY <1>1, ElementOfSeq
<1>3. [f[Len(f)] EXCEPT ![s] = v] \in Storages
  BY <1>2 DEF Storages
<1>4. [f EXCEPT ![Len(f)] = [f[Len(f)] EXCEPT ![s] = v]] \in Seq(Storages)
  BY <1>1, <1>3, ExceptSeq
<1>5. DOMAIN [f EXCEPT ![Len(f)][s] = v] = 1..Len(f)
  BY <1>1
<1>6. QED
  BY <1>1, <1>4, <1>5

LEMMA FramesReturn ==
    ASSUME NEW f \in Seq(Storages), Len(f) > 1, NEW reverts \in BOOLEAN,
           NEW g, g = [SubSeq(f, 1, Len(f) - 1) EXCEPT ![Len(f) - 1] = IF reverts THEN @ ELSE f[Len(f)]]
    PROVE  g \in Seq(Storages) /\ g # <<>>
<1> DEFINE h == SubSeq(f, 1, Len(f) - 1)
<1>1. Len(f) \in Nat /\ Len(f) - 1 \in 1..Len(f)
  BY LenProperties
<1>2. h \in Seq(Storages) /\ Len(h) = Len(f) - 1 /\ DOMAIN h = 1..(Len(f) - 1)
  BY <1>1
<1>3. h[Len(f) - 1] \in Storages /\ f[Len(f)] \in Storages
  BY <1>1, <1>2, ElementOfSeq
<1>4. PICK e \in Storages : g = [h EXCEPT ![Len(f) - 1] = e]
  BY <1>3
<1>5. g \in Seq(Storages) /\ Len(g) = Len(h)
  BY <1>1, <1>2, <1>4, ExceptSeq
<1>6. Len(g) # 0
  BY <1>1, <1>2, <1>5
<1>7. QED
  BY ONLY <1>5, <1>6

LEMMA TypeOfInTriggers ==
    ASSUME NEW r \in Registrations
    PROVE  TypeOf(r) \in Triggers /\ r.selector \in Selectors
  BY DEF Registrations, TypeOf, Triggers

\* A recorder that is not empty has a trigger with a function.
LEMMA SomeTrigger ==
    ASSUME triggers \in [Triggers -> SUBSET Selectors], triggers # NoTriggers
    PROVE  \E t \in Triggers : triggers[t] # {}
  BY DEF NoTriggers

(***************************************************************************)
(* Every step keeps the invariant.                                         *)
(***************************************************************************)
LEMMA ExtractorInit ==
    ASSUME Init
    PROVE  ExtractorInv
<1>1. TypeOK
  BY DEF Init, TypeOK, NoTriggers
<1>2. DeployedInv /\ ResultInv
  BY DEF Init, DeployedInv, ResultInv
<1>3. RecorderInv
  BY DEF Init, RecorderInv, NoTriggers
<1>4. QED
  BY <1>1, <1>2, <1>3 DEF ExtractorInv

\* The type invariant is kept by every step.
LEMMA TypeStep ==
    ASSUME ExtractorInv, [Next]_vars
    PROVE  TypeOK'
<1> USE DEF ExtractorInv
<1>1. CASE DeployFails
  <2>1. pc' = "done" /\ result' # None /\ UNCHANGED <<deployment, init_account, db, frames, gas_limit, gas, triggers, registered>>
    BY <1>1, ExtractorAssumption DEF DeployFails, Fail, Return, Errors
  <2>2. QED
    BY <2>1 DEF TypeOK
<1>2. CASE Deploy
  <2>1. gas_limit' \in Nat
    BY <1>2, ExtractorAssumption DEF Deploy, TriggersGasLimit, TypeOK
  <2>2. init_account' # None /\ pc' = "call"
    BY <1>2, ExtractorAssumption DEF Deploy, TypeOK
  <2>3. QED
    BY <1>2, <2>1, <2>2 DEF Deploy, TypeOK
<1>3. CASE TriggersCallError
  <2>1. pc' = "done" /\ result' # None /\ UNCHANGED <<deployment, init_account, db, frames, gas_limit, gas, triggers, registered>>
    BY <1>3, ExtractorAssumption DEF TriggersCallError, Fail, Return, Errors
  <2>2. QED
    BY <2>1 DEF TypeOK
<1>4. CASE TriggersCall
  <2>1. gas' \in Nat
    BY <1>4, ExtractorAssumption DEF TriggersCall, TypeOK
  <2>2. frames' \in Seq(Storages) /\ (pc' = "triggers" => frames' # <<>> /\ db' # None)
    <3>1. CASE db = None
      BY <1>4, <3>1 DEF TriggersCall, TypeOK, Storages
    <3>2. CASE db # None
      <4>1. db = InDb(deployment) /\ deployment \in Deployments
        BY <1>4 DEF TriggersCall, DeployedInv, TypeOK
      <4>2. db.storage \in Storages
        BY <3>2, <4>1, ExtractorAssumption DEF InDb, Storages
      <4>3. frames' = <<db.storage>> /\ db' = db
        BY <1>4, <3>2 DEF TriggersCall
      <4>4. QED
        BY <3>2, <4>2, <4>3
    <3>3. QED
      BY <3>1, <3>2
  <2>3. pc' \in {"triggers", "called"}
    BY <1>4 DEF TriggersCall
  <2>4. QED
    BY <1>4, <2>1, <2>2, <2>3 DEF TriggersCall, TypeOK, Storages
<1>5. ASSUME NEW s \in Slots, NEW v \in Values, Write(s, v)
      PROVE  TypeOK'
  <2>1. frames' \in Seq(Storages) /\ frames' # <<>>
    BY <1>5, FramesChange DEF Write, Step, TypeOK, Storages
  <2>2. QED
    BY <1>5, <2>1 DEF Write, Step, TypeOK, Storages
<1>6. CASE Call
  <2>1. Len(frames) \in Nat /\ frames \in Seq(Storages) /\ frames # <<>>
    BY <1>6, LenProperties DEF Call, Step, TypeOK, Storages
  <2>2. frames[Len(frames)] \in Storages
    BY <2>1, ElementOfSeq, EmptySeq
  <2>3. frames' \in Seq(Storages) /\ frames' # <<>>
    BY <1>6, <2>1, <2>2, AppendProperties DEF Call
  <2>4. QED
    BY <1>6, <2>3 DEF Call, Step, TypeOK, Storages
<1>7. ASSUME NEW reverts \in BOOLEAN, CallEnds(reverts)
      PROVE  TypeOK'
  <2>1. frames' \in Seq(Storages) /\ frames' # <<>>
    BY <1>7, FramesReturn DEF CallEnds, TypeOK, Storages
  <2>2. QED
    BY <1>7, <2>1 DEF CallEnds, TypeOK, Storages
<1>8. ASSUME NEW r \in Registrations, RecordTrigger(r)
      PROVE  TypeOK'
  BY <1>8, TypeOfInTriggers DEF RecordTrigger, AddTrigger, Step, TypeOK
<1>9. CASE RecordError
  BY <1>9 DEF RecordError, Step, TypeOK
<1>10. CASE TriggersEnds
  BY <1>10 DEF TriggersEnds, TypeOK
<1>11. CASE TriggersCallFailed
  <2>1. pc' = "done" /\ result' # None /\ UNCHANGED <<deployment, init_account, db, frames, gas_limit, gas, triggers, registered>>
    BY <1>11, ExtractorAssumption DEF TriggersCallFailed, Fail, Return, Errors
  <2>2. QED
    BY <2>1 DEF TypeOK
<1>12. CASE Finish
  <2>1. pc' = "done" /\ result' # None
    BY <1>12, ExtractorAssumption DEF Finish, Fail, Return, Errors, Extracted, DeployedInv, TypeOK
  <2>2. QED
    BY <1>12, <2>1 DEF Finish, TypeOK
<1>13. CASE UNCHANGED vars
  BY <1>13 DEF vars, TypeOK
<1>14. QED
  BY <1>1, <1>2, <1>3, <1>4, <1>5, <1>6, <1>7, <1>8, <1>9, <1>10, <1>11, <1>12, <1>13 DEF Next

LEMMA DeployedStep ==
    ASSUME ExtractorInv, [Next]_vars
    PROVE  DeployedInv'
<1> USE DEF ExtractorInv
<1>1. CASE DeployFails \/ TriggersCallError \/ TriggersCallFailed
  BY <1>1 DEF DeployFails, TriggersCallError, TriggersCallFailed, Fail, Return, DeployedInv
<1>2. CASE Deploy
  BY <1>2 DEF Deploy, DeployedInv
<1>3. CASE TriggersCall
  <2>1. pc' = "called" => triggers = NoTriggers
    BY <1>3 DEF TriggersCall, DeployedInv
  <2>2. QED
    BY <1>3, <2>1 DEF TriggersCall, DeployedInv
<1>4. ASSUME NEW s \in Slots, NEW v \in Values, Write(s, v)
      PROVE  DeployedInv'
  BY <1>4 DEF Write, Step, DeployedInv
<1>5. CASE Call \/ RecordError
  BY <1>5 DEF Call, RecordError, Step, DeployedInv
<1>6. ASSUME NEW reverts \in BOOLEAN, CallEnds(reverts)
      PROVE  DeployedInv'
  BY <1>6 DEF CallEnds, DeployedInv
<1>7. ASSUME NEW r \in Registrations, RecordTrigger(r)
      PROVE  DeployedInv'
  BY <1>7 DEF RecordTrigger, Step, DeployedInv
<1>8. CASE TriggersEnds
  \* A contract that is run was not destroyed.
  <2>1. ~ deployment.selfdestructed
    BY <1>8 DEF TriggersEnds, DeployedInv, TypeOK, InDb
  <2>2. QED
    BY <1>8, <2>1 DEF TriggersEnds, DeployedInv
<1>9. CASE Finish
  BY <1>9 DEF Finish, Fail, Return, DeployedInv
<1>10. CASE UNCHANGED vars
  BY <1>10 DEF vars, DeployedInv
<1>11. QED
  BY <1>1, <1>2, <1>3, <1>4, <1>5, <1>6, <1>7, <1>8, <1>9, <1>10 DEF Next

LEMMA ResultStep ==
    ASSUME ExtractorInv, [Next]_vars
    PROVE  ResultInv'
<1> USE DEF ExtractorInv
<1>1. CASE DeployFails \/ TriggersCallError \/ TriggersCallFailed
  <2>1. \E error \in Errors : result' = [error |-> error]
    BY <1>1 DEF DeployFails, TriggersCallError, TriggersCallFailed, Fail, Return, Errors
  <2>2. QED
    BY <2>1 DEF ResultInv
<1>2. CASE Finish
  <2>1. init_account = InitAccount(deployment) /\ (deployment.selfdestructed => triggers = NoTriggers)
    BY <1>2 DEF Finish, DeployedInv
  <2>2. CASE triggers = NoTriggers \/ init_account.code = None
    <3>1. \E error \in Errors : result' = [error |-> error]
      BY <1>2, <2>2 DEF Finish, Fail, Return, Errors
    <3>2. QED
      BY <3>1 DEF ResultInv
  <2>3. CASE triggers # NoTriggers /\ init_account.code # None
    <3>1. result' = ContractOf(InitAccount(deployment)) /\ UNCHANGED <<deployment, triggers>>
      BY <1>2, <2>1, <2>3 DEF Finish, Return, Extracted
    <3>2. ~ deployment.selfdestructed
      BY <2>1, <2>3
    <3>3. NoTriggers' = NoTriggers
      BY DEF NoTriggers
    <3>4. QED
      BY <2>3, <3>1, <3>2, <3>3 DEF ResultInv
  <2>4. QED
    BY <2>2, <2>3
<1>3. CASE UNCHANGED vars
  BY <1>3 DEF vars, ResultInv
<1>4. ASSUME \/ Deploy \/ TriggersCall \/ Call \/ RecordError \/ TriggersEnds
             \/ \E s \in Slots, v \in Values : Write(s, v)
             \/ \E reverts \in BOOLEAN : CallEnds(reverts)
             \/ \E r \in Registrations : RecordTrigger(r)
      PROVE  ResultInv'
  <2>1. pc' # "done"
    BY <1>4 DEF Deploy, TriggersCall, Call, RecordError, TriggersEnds, Write, CallEnds, RecordTrigger, Step
  <2>2. QED
    BY <2>1 DEF ResultInv
<1>5. QED
  BY <1>1, <1>2, <1>3, <1>4 DEF Next

LEMMA RecorderStep ==
    ASSUME ExtractorInv, [Next]_vars
    PROVE  RecorderInv'
<1> USE DEF ExtractorInv
<1>1. ASSUME NEW r \in Registrations, RecordTrigger(r)
      PROVE  RecorderInv'
  <2> SUFFICES ASSUME NEW t \in Triggers
               PROVE  triggers'[t] = {q.selector : q \in {p \in registered' : TypeOf(p) = t}}
    BY DEF RecorderInv, Triggers, TypeOf
  <2>1. TypeOf(r) \in Triggers
    BY TypeOfInTriggers
  <2>2. triggers'[t] = IF t = TypeOf(r) THEN triggers[t] \cup {r.selector} ELSE triggers[t]
    BY <1>1, <2>1 DEF RecordTrigger, AddTrigger, TypeOK
  <2>3. registered' = registered \cup {r}
    BY <1>1 DEF RecordTrigger
  <2>4. triggers[t] = {q.selector : q \in {p \in registered : TypeOf(p) = t}}
    BY DEF RecorderInv
  <2>5. QED
    BY ONLY <2>2, <2>3, <2>4
<1>2. CASE UNCHANGED <<triggers, registered>>
  BY <1>2 DEF RecorderInv, Triggers, TypeOf
<1>3. ASSUME \/ UNCHANGED vars
             \/ Next /\ ~ \E r \in Registrations : RecordTrigger(r)
      PROVE  UNCHANGED <<triggers, registered>>
  BY <1>3 DEF vars, Next, DeployFails, Deploy, TriggersCallError, TriggersCall, Write, Call, CallEnds,
              RecordError, TriggersEnds, TriggersCallFailed, Finish
<1>4. QED
  BY <1>1, <1>2, <1>3

LEMMA ExtractorInvariant == Spec => []ExtractorInv
<1>1. Init => ExtractorInv
  BY ExtractorInit
<1>2. ExtractorInv /\ [Next]_vars => ExtractorInv'
  BY TypeStep, DeployedStep, ResultStep, RecorderStep DEF ExtractorInv
<1>3. QED
  BY <1>1, <1>2, PTL DEF Spec

(***************************************************************************)
(* The theorems.                                                           *)
(***************************************************************************)
\* The state of an extraction keeps its types; the gas never goes below zero.
THEOREM ExtractorTypeCorrect == Spec => []TypeOK
<1>1. ExtractorInv => TypeOK
  BY DEF ExtractorInv
<1>2. QED
  BY <1>1, ExtractorInvariant, PTL

\* An assertion that extract_assertion_contract returns is the contract as its
\* constructor left it, was not destroyed and has a function registered.
THEOREM AcceptedAsDeployed == Spec => []ExtractedAsDeployed
<1>1. ExtractorInv => ExtractedAsDeployed
  <2> SUFFICES ASSUME ExtractorInv, Accepted
               PROVE  ExtractedAsDeployed
    BY DEF ExtractedAsDeployed
  <2>1. pc = "done" /\ result.error = None
    BY DEF Accepted
  <2>2. \A error \in Errors : result # [error |-> error]
    BY <2>1, ExtractorAssumption
  <2>3. /\ result = ContractOf(InitAccount(deployment))
        /\ ~ deployment.selfdestructed /\ triggers # NoTriggers
    BY <2>1, <2>2 DEF ExtractorInv, ResultInv
  <2>4. \E t \in Triggers : triggers[t] # {}
    BY <2>3, SomeTrigger DEF ExtractorInv, TypeOK
  <2>5. QED
    BY <2>3, <2>4 DEF ExtractedAsDeployed, ContractOf, InitAccount
<1>2. QED
  BY <1>1, ExtractorInvariant, PTL

\* A bound on the steps that are left: a step of triggers() costs gas, an inner
\* call that ends was paid for when it was made.
StepsLeft ==
    CASE pc = "deploy"   -> 2 * DEPLOYMENT_GAS_LIMIT + 4
      [] pc = "call"     -> 2 * gas_limit + 3
      [] pc = "triggers" -> 2 * gas + Len(frames) + 1
      [] pc = "called"   -> 1
      [] pc = "done"     -> 0

\* Every step of an extraction lowers a number that begins at no more than
\* twice DEPLOYMENT_GAS_LIMIT and four, and never goes below zero: for any
\* deployment, any triggers() and any depth of calls it returns within that
\* many steps.  The gas that the constructor has used is not given out again.
THEOREM ExtractionBounded ==
    Spec => [](StepsLeft \in 0..(2 * DEPLOYMENT_GAS_LIMIT + 4)) /\ [][StepsLeft' < StepsLeft]_vars
<1>0. DEPLOYMENT_GAS_LIMIT \in Nat /\ IntrinsicGas \in Nat \ {0}
  BY ExtractorAssumption
<1>1. ExtractorInv => StepsLeft \in Nat
  <2> SUFFICES ASSUME ExtractorInv PROVE StepsLeft \in Nat
    OBVIOUS
  <2>1. gas \in Nat /\ gas_limit \in Nat /\ Len(frames) \in Nat
    BY LenProperties DEF ExtractorInv, TypeOK
  <2>2. pc \in {"deploy", "call", "triggers", "called", "done"}
    BY DEF ExtractorInv, TypeOK
  <2>3. QED
    BY <1>0, <2>1, <2>2 DEF StepsLeft
<1>2. ASSUME ExtractorInv, ExtractorInv', Next
      PROVE  StepsLeft' < StepsLeft
  <2>1. gas \in Nat /\ gas_limit \in Nat /\ gas' \in Nat /\ gas_limit' \in Nat
    BY <1>2 DEF ExtractorInv, TypeOK
  <2>2. Len(frames) \in Nat /\ Len(frames') \in Nat
    BY <1>2, LenProperties DEF ExtractorInv, TypeOK
  <2>3. CASE Deploy
    <3>1. deployment.gas_used \in Nat
      BY <1>0, <1>2, ExtractorAssumption DEF ExtractorInv, TypeOK
    <3>2. gas_limit' <= DEPLOYMENT_GAS_LIMIT
      BY <1>0, <2>3, <3>1 DEF Deploy, TriggersGasLimit
    <3>3. pc = "deploy" /\ pc' = "call"
      BY <2>3 DEF Deploy
    <3>4. QED
      BY <1>0, <2>1, <3>2, <3>3 DEF StepsLeft
  <2>4. CASE TriggersCall
    <3>1. pc = "call" /\ gas' < gas_limit
      BY <1>0, <2>1, <2>4 DEF TriggersCall
    <3>2. pc' = "called" \/ (pc' = "triggers" /\ Len(frames') = 1)
      BY <2>4 DEF TriggersCall
    <3>3. StepsLeft = 2 * gas_limit + 3
      BY <3>1 DEF StepsLeft
    <3>4. StepsLeft' = 1 \/ StepsLeft' = 2 * gas' + 1 + 1
      BY <3>2 DEF StepsLeft
    <3>5. gas \in Int /\ gas_limit \in Int /\ gas' \in Int /\ gas_limit >= 0 /\ gas' < gas_limit
      BY <2>1, <3>1
    <3>6. QED
      BY ONLY <3>3, <3>4, <3>5
  <2>5. ASSUME Step, pc' = "triggers", Len(frames') <= Len(frames) + 1
        PROVE  StepsLeft' < StepsLeft
    BY <2>1, <2>2, <2>5 DEF Step, StepsLeft
  <2>6. ASSUME NEW s \in Slots, NEW v \in Values, Write(s, v)
        PROVE  StepsLeft' < StepsLeft
    <3>1. frames \in Seq(Storages) /\ frames # <<>>
      BY <1>2, <2>6 DEF Write, Step, ExtractorInv, TypeOK, Storages
    <3>2. Len(frames') = Len(frames)
      BY <2>6, <3>1 DEF Write
    <3>3. QED
      BY <2>2, <2>5, <2>6, <3>2 DEF Write, Step
  <2>7. CASE Call
    <3>1. frames \in Seq(Storages) /\ frames # <<>>
      BY <1>2, <2>7 DEF Call, Step, ExtractorInv, TypeOK, Storages
    <3>2. Len(frames') = Len(frames) + 1
      BY <2>7, <3>1 DEF Call
    <3>3. QED
      BY <2>2, <2>5, <2>7, <3>2 DEF Call, Step
  <2>8. CASE RecordError \/ \E r \in Registrations : RecordTrigger(r)
    BY <2>2, <2>5, <2>8 DEF RecordError, RecordTrigger, Step
  <2>9. ASSUME NEW reverts \in BOOLEAN, CallEnds(reverts)
        PROVE  StepsLeft' < StepsLeft
    <3>1. frames \in Seq(Storages) /\ Len(frames) > 1
      BY <1>2, <2>9 DEF CallEnds, ExtractorInv, TypeOK, Storages
    <3>2. Len(frames') = Len(frames) - 1
      <4>1. Len(SubSeq(frames, 1, Len(frames) - 1)) = Len(frames) - 1
        BY <2>2, <3>1
      <4>2. QED
        BY <2>2, <2>9, <3>1, <4>1 DEF CallEnds
    <3>3. pc = "triggers" /\ pc' = pc /\ gas' = gas
      BY <2>9 DEF CallEnds
    <3>4. QED
      BY <2>1, <2>2, <3>2, <3>3 DEF StepsLeft
  <2>10. CASE TriggersEnds
    BY <2>1, <2>10 DEF TriggersEnds, StepsLeft
  <2>11. CASE DeployFails \/ TriggersCallError \/ TriggersCallFailed \/ Finish
    <3>1. pc \in {"deploy", "call", "triggers", "called"} /\ pc' = "done"
      BY <2>11 DEF DeployFails, TriggersCallError, TriggersCallFailed, Finish, Fail, Return
    <3>2. QED
      BY <1>0, <2>1, <2>2, <3>1 DEF StepsLeft
  <2>12. QED
    BY <1>2, <2>3, <2>4, <2>6, <2>7, <2>8, <2>9, <2>10, <2>11 DEF Next
<1> DEFINE Most == 2 * DEPLOYMENT_GAS_LIMIT + 4
           Bounded == StepsLeft \in 0..Most
<1>3. Init => Bounded
  BY <1>0 DEF Init, StepsLeft
<1>4. ASSUME ExtractorInv, ExtractorInv', Bounded, [Next]_vars
      PROVE  Bounded'
  <2>1. StepsLeft' \in Nat
    <3>1. ExtractorInv' => (StepsLeft \in Nat)'
      BY <1>1, PTL
    <3>2. QED
      BY <1>4, <3>1
  <2>2. CASE Next
    BY <1>0, <1>2, <1>4, <2>1, <2>2
  <2>3. CASE UNCHANGED vars
    BY <1>4, <2>3 DEF vars, StepsLeft
  <2>4. QED
    BY <1>4, <2>2, <2>3
<1> HIDE DEF Bounded
<1>5. Spec => []Bounded
  BY <1>3, <1>4, ExtractorInvariant, PTL DEF Spec
<1>6. ExtractorInv /\ ExtractorInv' /\ [Next]_vars => [StepsLeft' < StepsLeft]_vars
  BY <1>2
<1>7. Spec => [][StepsLeft' < StepsLeft]_vars
  BY <1>6, ExtractorInvariant, PTL DEF Spec
<1>8. QED
  BY <1>5, <1>7 DEF Bounded

\* For every set of observed triggers the store selects the functions that
\* were registered for one of them, and no others.
THEOREM RegisteredMatched == Spec => []RegisteredIsMatched
<1>1. ExtractorInv => RegisteredIsMatched
  <2> SUFFICES ASSUME ExtractorInv,
                      NEW observed \in SUBSET (CallTriggers \cup StorageTriggers \cup {"BalanceChange"}),
                      NEW selector
               PROVE  selector \in Matching!MatchingSelectors("id", observed)
                        <=> \E r \in registered : Matches(r, observed) /\ selector = r.selector
    BY DEF RegisteredIsMatched
  <2>1. \A t \in Triggers : selector \in triggers[t] <=> \E r \in registered : TypeOf(r) = t /\ selector = r.selector
    BY DEF ExtractorInv, RecorderInv
  <2>2. observed \subseteq Triggers /\ {"AllCalls", "AllStorageChanges"} \subseteq Triggers
    BY DEF Triggers
  <2>3. selector \in Matching!MatchingSelectors("id", observed) <=>
            \/ \E t \in observed : selector \in triggers[t]
            \/ observed \cap CallTriggers # {} /\ selector \in triggers["AllCalls"]
            \/ observed \cap StorageTriggers # {} /\ selector \in triggers["AllStorageChanges"]
    BY DEF Matching!MatchingSelectors
  <2>4. \A r \in registered : Matches(r, observed) <=>
            \/ TypeOf(r) \in observed
            \/ observed \cap CallTriggers # {} /\ TypeOf(r) = "AllCalls"
            \/ observed \cap StorageTriggers # {} /\ TypeOf(r) = "AllStorageChanges"
    <3> SUFFICES ASSUME NEW r \in Registrations
                 PROVE  Matches(r, observed) <=>
                            \/ TypeOf(r) \in observed
                            \/ observed \cap CallTriggers # {} /\ TypeOf(r) = "AllCalls"
                            \/ observed \cap StorageTriggers # {} /\ TypeOf(r) = "AllStorageChanges"
      BY DEF ExtractorInv, TypeOK
    <3>1. CASE r \in [kind : {"Call"}, arg : CallTriggers \cup {None}, selector : Selectors]
      BY <3>1, TriggersAssumption, ExtractorAssumption DEF Matches, TypeOf
    <3>2. CASE r \in [kind : {"StorageChange"}, arg : StorageTriggers \cup {None}, selector : Selectors]
      BY <3>2, TriggersAssumption, ExtractorAssumption DEF Matches, TypeOf
    <3>3. CASE r \in [kind : {"BalanceChange"}, arg : {None}, selector : Selectors]
      BY <3>3, TriggersAssumption, ExtractorAssumption DEF Matches, TypeOf
    <3>4. QED
      BY <3>1, <3>2, <3>3 DEF Registrations
  <2>5. QED
    BY ONLY <2>1, <2>2, <2>3, <2>4
<1>2. QED
  BY <1>1, ExtractorInvariant, PTL
==============================================================================
