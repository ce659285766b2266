------------------------------ MODULE MultiForkDb ----------------------------
(***************************************************************************)
(* An assertion function that switches between the state before and the    *)
(* state after the transaction (db/multi_fork_db.rs, inspectors/           *)
(* precompiles/fork.rs, inspectors/phevm.rs).                              *)
(*                                                                         *)
(* Each fork has a database and a journaled state (revm's): the values     *)
(* loaded or written so far, and the journal by which a call that reverts  *)
(* undoes its writes.  switch_fork exchanges the journaled state of the    *)
(* running EVM in the middle of its open calls, whose checkpoints stay on  *)
(* the EVM's stack.                                                        *)
(*                                                                         *)
(* A location is a slot of an account.  A value carries the fork it was    *)
(* read from or written on.                                                *)
(***************************************************************************)
EXTENDS Naturals, Sequences

CONSTANTS
    Locations,
    Persistent,     \* those of the assertion contract, the caller and the precompile
    Values,
    PreTxDb,        \* location -> value before the transaction
    PostTxDb,       \* location -> value after it
    Deployed,       \* location -> value in the assertion contract as it was deployed
    MaxCalls,       \* bound on open calls
    MaxSteps,       \* bound on the steps of one assertion function
    None

ASSUME DbAssumption ==
    /\ Persistent \subseteq Locations
    /\ PreTxDb \in [Locations -> Values]
    /\ PostTxDb \in [Locations -> Values]
    /\ Deployed \in [Locations -> Values]

ForkIds == {"PreTx", "PostTx"}

VARIABLES
    active_fork_id,
    journaled_state,    \* the EVM's
    inactive,           \* fork -> its journaled state when it was left, None if never active
    frames,             \* the open calls, outermost first
    steps,
    expected,           \* fork -> location -> value that a reader should see
    torn                \* a call that had switched forks was reverted

vars == <<active_fork_id, journaled_state, inactive, frames, steps, expected, torn>>

\* The active ForkDb holds the persistent accounts and does not read below
\* for them; everything else comes from the fork's database.
DbValue(fork, loc) ==
    IF loc \in Persistent THEN [on |-> "deployed", v |-> Deployed[loc]]
    ELSE [on |-> fork, v |-> IF fork = "PreTx" THEN PreTxDb[loc] ELSE PostTxDb[loc]]

(***************************************************************************)
(* revm's journaled state (external).                                      *)
(***************************************************************************)
NewJournaledState == [state |-> [loc \in Locations |-> None], journal |-> << <<>> >>, depth |-> 0]

\* The value of a location, loaded from the fork's database if need be.
Load(js, fork, loc) == IF js.state[loc] # None THEN js.state[loc] ELSE DbValue(fork, loc)

Loaded(js, fork, loc) == [js EXCEPT !.state[loc] = Load(js, fork, loc)]

Store(js, fork, loc, value) ==
    [state   |-> [js.state EXCEPT ![loc] = value],
     journal |-> [js.journal EXCEPT ![Len(js.journal)] =
                    Append(@, [loc |-> loc, had |-> Load(js, fork, loc)])],
     depth   |-> js.depth]

Checkpoint(js) == [state |-> js.state, journal |-> Append(js.journal, <<>>), depth |-> js.depth + 1]

\* The journal entries of a location from checkpoint journal_i on.
EntriesFrom(js, journal_i, loc) ==
    {p \in UNION {{k} \X DOMAIN js.journal[k] : k \in (journal_i + 1)..Len(js.journal)} :
        js.journal[p[1]][p[2]].loc = loc}

Before(p, q) == p[1] < q[1] \/ (p[1] = q[1] /\ p[2] <= q[2])

\* What remains after the entries are undone, the latest one first.
Undone(js, journal_i, loc) ==
    LET entries == EntriesFrom(js, journal_i, loc)
        first   == CHOOSE p \in entries : \A q \in entries : Before(p, q)
    IN  IF entries = {} THEN js.state[loc] ELSE js.journal[first[1]][first[2]].had

RevertTo(js, journal_i) ==
    [state   |-> [loc \in Locations |-> Undone(js, journal_i, loc)],
     journal |-> SubSeq(js.journal, 1, journal_i),
     depth   |-> js.depth - 1]

(***************************************************************************)
(* switch_fork.                                                            *)
(***************************************************************************)
\* Mutant: a fork always starts from the initial journaled state.
TargetState_Init(fork) == NewJournaledState

\* The journaled state the target fork was left with, or the initial one.
TargetState(fork) == IF inactive[fork] = None THEN NewJournaledState ELSE inactive[fork]

\* merge_journaled_state_data: the active values of an account replace or
\* extend those of the target.
Merged(active, target, loc) ==
    IF active.state[loc] # None THEN active.state[loc] ELSE target.state[loc]

\* A journal with empty entries added up to length n.
Padded(journal, n) ==
    [k \in 1..(IF n > Len(journal) THEN n ELSE Len(journal)) |->
        IF k <= Len(journal) THEN journal[k] ELSE <<>>]

\* Mutant: every account is merged.
UpdateJournaledState_All(active, target) ==
    [state   |-> [loc \in Locations |-> Merged(active, target, loc)],
     journal |-> Padded(target.journal, Len(active.journal)),
     depth   |-> active.depth]

\* Mutant: the journal is not padded.
UpdateJournaledState_Short(active, target) ==
    [state   |-> [loc \in Locations |->
                    IF loc \in Persistent THEN Merged(active, target, loc) ELSE target.state[loc]],
     journal |-> target.journal,
     depth   |-> active.depth]

\* Mutant: the target keeps its own depth.
UpdateJournaledState_Depth(active, target) ==
    [state   |-> [loc \in Locations |->
                    IF loc \in Persistent THEN Merged(active, target, loc) ELSE target.state[loc]],
     journal |-> Padded(target.journal, Len(active.journal)),
     depth   |-> target.depth]

\* update_journaled_state: persistent accounts are merged, the journal is
\* padded to the length of the active one, the depth is handed over.
UpdateJournaledState(active, target) ==
    [state   |-> [loc \in Locations |->
                    IF loc \in Persistent THEN Merged(active, target, loc) ELSE target.state[loc]],
     journal |-> Padded(target.journal, Len(active.journal)),
     depth   |-> active.depth]

(***************************************************************************)
(* The assertion function.                                                 *)
(***************************************************************************)
Fresh == [fork \in ForkIds |-> [loc \in Locations |-> DbValue(fork, loc)]]

Init ==
    /\ active_fork_id = "PostTx"
    /\ journaled_state = NewJournaledState
    /\ inactive = [fork \in ForkIds |-> None]
    /\ frames = <<>>
    /\ steps = 0 /\ expected = Fresh /\ torn = FALSE

\* execute_assertion_fn: the first call, on a copy of the MultiForkDb as
\* MultiForkDb::new, insert_assertion_contract and PhEvmInspector::new left it.
Transact ==
    /\ frames = <<>>
    /\ active_fork_id' = "PostTx"
    /\ inactive' = [fork \in ForkIds |-> None]
    /\ journaled_state' = Checkpoint(NewJournaledState)
    /\ frames' = <<[journal_i |-> 1, saved |-> Fresh, switched |-> FALSE]>>
    /\ steps' = 0 /\ expected' = Fresh /\ torn' = FALSE

Step == frames # <<>> /\ steps < MaxSteps /\ steps' = steps + 1

Read(loc) ==
    /\ Step
    /\ journaled_state' = Loaded(journaled_state, active_fork_id, loc)
    /\ UNCHANGED <<active_fork_id, inactive, frames, expected, torn>>

Write(loc, v) ==
    LET value == [on |-> active_fork_id, v |-> v] IN
    /\ Step
    /\ journaled_state' = Store(journaled_state, active_fork_id, loc, value)
    /\ expected' = [fork \in ForkIds |->
                    IF loc \in Persistent \/ fork = active_fork_id
                    THEN [expected[fork] EXCEPT ![loc] = value] ELSE expected[fork]]
    /\ UNCHANGED <<active_fork_id, inactive, frames, torn>>

Call ==
    /\ Step /\ Len(frames) < MaxCalls
    /\ frames' = Append(frames, [journal_i |-> Len(journaled_state.journal),
                                 saved |-> expected, switched |-> FALSE])
    /\ journaled_state' = Checkpoint(journaled_state)
    /\ UNCHANGED <<active_fork_id, inactive, expected, torn>>

\* The innermost call ends; its caller has switched forks if it has.
CloseFrame ==
    LET n == Len(frames) IN
    frames' = IF n = 1 THEN <<>>
              ELSE [SubSeq(frames, 1, n - 1) EXCEPT
                        ![n - 1].switched = @ \/ frames[n].switched]

Return ==
    /\ frames # <<>> /\ CloseFrame
    /\ journaled_state' = [journaled_state EXCEPT !.depth = @ - 1]
    /\ UNCHANGED <<active_fork_id, inactive, steps, expected, torn>>

Revert ==
    LET frame == frames[Len(frames)] IN
    /\ frames # <<>> /\ CloseFrame
    /\ journaled_state' = RevertTo(journaled_state, frame.journal_i)
    /\ expected' = frame.saved
    /\ torn' = (torn \/ frame.switched)
    /\ UNCHANGED <<active_fork_id, inactive, steps>>

\* forkPreState and forkPostState: nothing happens if the fork is active.
SwitchFork(fork) ==
    /\ Step
    /\ IF fork = active_fork_id
       THEN UNCHANGED <<active_fork_id, journaled_state, inactive, frames>>
       ELSE /\ journaled_state' = UpdateJournaledState(journaled_state, TargetState(fork))
            /\ inactive' = [inactive EXCEPT ![fork] = None, ![active_fork_id] = journaled_state]
            /\ active_fork_id' = fork
            /\ frames' = [frames EXCEPT ![Len(frames)].switched = TRUE]
    /\ UNCHANGED <<expected, torn>>

Next ==
    \/ Transact \/ Call \/ Return \/ Revert
    \/ \E loc \in Locations : Read(loc) \/ \E v \in Values : Write(loc, v)
    \/ \E fork \in ForkIds : SwitchFork(fork)

Spec == Init /\ [][Next]_vars

(***************************************************************************)
(* Properties.                                                             *)
(***************************************************************************)
Value == [on : ForkIds \cup {"deployed"}, v : Values]

Entry == [loc : Locations, had : Value]

JournaledState == [state   : [Locations -> Value \cup {None}],
                   journal : Seq(Seq(Entry)),
                   depth   : Nat]

ASSUME NoneAssumption == None \notin Value /\ None \notin JournaledState

Frame == [journal_i : Nat, saved : [ForkIds -> [Locations -> Value]], switched : BOOLEAN]

\* The type invariant; a journaled state always has a part to write to.
TypeOK ==
    /\ active_fork_id \in ForkIds
    /\ journaled_state \in JournaledState /\ journaled_state.journal # <<>>
    /\ inactive \in [ForkIds -> JournaledState \cup {None}]
    /\ frames \in Seq(Frame)
    /\ steps \in Nat /\ expected \in [ForkIds -> [Locations -> Value]] /\ torn \in BOOLEAN

\* Every open call's checkpoint lies within the journal of whichever fork is
\* active, each in a part of its own, so that a revert finds what it takes
\* off ("need to mock empty journal entries in case the current checkpoint is
\* higher than the existing journal entries"), and the depth counts the calls.
CheckpointsCovered ==
    /\ journaled_state.depth = Len(frames)
    /\ \A n \in DOMAIN frames :
        /\ frames[n].journal_i \in 1..(Len(journaled_state.journal) - 1)
        /\ \A m \in DOMAIN frames : m < n => frames[m].journal_i < frames[n].journal_i

\* What a journaled state of a fork holds for a location that is not
\* persistent comes from that fork.
OfFork(js, fork) ==
    \A loc \in Locations \ Persistent :
        /\ js.state[loc] # None => js.state[loc].on = fork
        /\ \A k \in DOMAIN js.journal : \A n \in DOMAIN js.journal[k] :
            js.journal[k][n].loc = loc => js.journal[k][n].had.on = fork

\* The assertion never sees, on one fork, what it read or wrote on the other,
\* except for the persistent accounts; reverts do not mix the forks up either.
ForksAreIsolated ==
    /\ OfFork(journaled_state, active_fork_id)
    /\ \A fork \in ForkIds : inactive[fork] # None => OfFork(inactive[fork], fork)

\* A reader on the active fork sees what it should, through switches back and
\* forth, nested calls and reverts: its own fork's values with the writes that were
\* not reverted, and the latest values of the persistent accounts.  A call
\* that switched forks and is reverted afterwards is the exception: its writes on the
\* fork that it left are not undone.
ReadsAsExpected ==
    ~ torn => \A loc \in Locations :
        Load(journaled_state, active_fork_id, loc) = expected[active_fork_id][loc]
==============================================================================
