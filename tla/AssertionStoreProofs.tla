------------------------- MODULE AssertionStoreProofs ------------------------
(***************************************************************************)
(* The compare-and-swap loop of apply_pending_modification implements      *)
(* AtomicStore, for any number of writers, adopters and batches.  What the *)
(* modifications do to a list plays no part in it, so ApplyAll and         *)
(* InsertState stay opaque there.  The second half is about what they do:  *)
(* every entry follows from the history of its adopter, so that a read     *)
(* returns what the history makes active.                                  *)
(***************************************************************************)
EXTENDS AssertionStore, ModificationsProofs

\* groups is a function of writers and adopters.
GroupsShape ==
    /\ groups = [w \in Writers |-> groups[w]]
    /\ \A w \in Writers : groups[w] = [aa \in Adopters |-> groups[w][aa]]

\* Where each writer is in apply_pending_modifications: outside of it nothing
\* is left to apply, and inside apply_pending_modification it works on an
\* adopter with modifications.
ControlInv ==
    /\ GroupsShape
    /\ pc \in [Writers -> {"idle", "pick", "read", "cas"}]
    /\ target \in [Writers -> Adopters \cup {None}]
    /\ \A w \in Writers :
        /\ pc[w] = "idle" => groups[w] = NoGroups
        /\ pc[w] \in {"read", "cas"} => target[w] \in Adopters /\ groups[w][target[w]] # <<>>

LEMMA ControlInit == Init => ControlInv
  BY DEF Init, ControlInv, GroupsShape, NoGroups

LEMMA ControlStep == ControlInv /\ [Next]_vars => ControlInv'
<1> SUFFICES ASSUME ControlInv, [Next]_vars PROVE ControlInv'
  OBVIOUS
<1> USE DEF ControlInv, GroupsShape
<1>1. ASSUME NEW w \in Writers, ApplyPendingModifications(w) PROVE ControlInv'
  BY <1>1 DEF ApplyPendingModifications
<1>2. ASSUME NEW w \in Writers, PickAdopter(w) PROVE ControlInv'
  BY <1>2 DEF PickAdopter
<1>3. ASSUME NEW w \in Writers, AllApplied(w) PROVE ControlInv'
  BY <1>3 DEF AllApplied
<1>4. ASSUME NEW w \in Writers, ReadEntry(w) PROVE ControlInv'
  BY <1>4 DEF ReadEntry
<1>5. ASSUME NEW w \in Writers, ReadFails(w) PROVE ControlInv'
  BY <1>5 DEF ReadFails, NoGroups
<1>6. ASSUME NEW w \in Writers, SwapSucceeds(w) PROVE ControlInv'
  BY <1>6 DEF SwapSucceeds
<1>7. ASSUME NEW w \in Writers, SwapRetries(w) PROVE ControlInv'
  BY <1>7 DEF SwapRetries
<1>8. ASSUME NEW aa \in Adopters, NEW state \in States, Insert(aa, state) PROVE ControlInv'
  BY <1>8 DEF Insert
<1>9. CASE UNCHANGED vars
  BY <1>9 DEF vars
<1>10. QED
  BY <1>1, <1>2, <1>3, <1>4, <1>5, <1>6, <1>7, <1>8, <1>9 DEF Next, WriterStep

LEMMA RefinementInit == Init => Atomic!Init
  BY DEF Init, Atomic!Init, NoGroups, Atomic!NoGroups

LEMMA RefinementStep ==
    ControlInv /\ [Next]_vars => [Atomic!Next]_<<db, groups>>
<1> SUFFICES ASSUME ControlInv, [Next]_vars PROVE [Atomic!Next]_<<db, groups>>
  OBVIOUS
<1> USE DEF ControlInv
<1>1. ASSUME NEW w \in Writers, ApplyPendingModifications(w) PROVE Atomic!Submit(w)
  BY <1>1 DEF ApplyPendingModifications, Atomic!Submit, NoGroups, Atomic!NoGroups
<1>2. ASSUME NEW w \in Writers, ReadFails(w) PROVE Atomic!Abort(w)
  BY <1>2 DEF ReadFails, Atomic!Abort, NoGroups, Atomic!NoGroups
<1>3. ASSUME NEW w \in Writers, SwapSucceeds(w)
      PROVE target[w] \in Adopters /\ Atomic!ApplyGroup(w, target[w])
  BY <1>3 DEF SwapSucceeds, Atomic!ApplyGroup, OrEmpty, Atomic!OrEmpty
<1>4. ASSUME NEW aa \in Adopters, NEW state \in States, Insert(aa, state)
      PROVE Atomic!Insert(aa, state)
  BY <1>4 DEF Insert, Atomic!Insert, OrEmpty, Atomic!OrEmpty
<1>5. ASSUME NEW w \in Writers,
             PickAdopter(w) \/ AllApplied(w) \/ ReadEntry(w) \/ SwapRetries(w)
      PROVE UNCHANGED <<db, groups>>
  BY <1>5 DEF PickAdopter, AllApplied, ReadEntry, SwapRetries
<1>6. CASE UNCHANGED vars
  BY <1>6 DEF vars
<1>7. QED
  BY <1>1, <1>2, <1>3, <1>4, <1>5, <1>6 DEF Next, WriterStep, Atomic!Next

\* The control invariant of the writers inside apply_pending_modifications.
THEOREM Control == Spec => []ControlInv
<1>1. QED
  BY ControlInit, ControlStep, PTL DEF Spec

\* The compare-and-swap loop of apply_pending_modification implements atomic
\* application, for every number of concurrent callers and every batch: no
\* update of the store is lost to a concurrent one or applied twice.
THEOREM StoreIsAtomic == Spec => ImplementsAtomicStore
<1>1. Init => Atomic!Init
  BY RefinementInit
<1>2. ControlInv /\ [Next]_vars => [Atomic!Next]_<<db, groups>>
  BY RefinementStep
<1>3. QED
  BY <1>1, <1>2, Control, PTL DEF Spec, ImplementsAtomicStore, Atomic!Spec

(***************************************************************************)
(* What a history says of an assertion, and how one more event changes it. *)
(***************************************************************************)
InsertEvent(state) == [kind |-> "Insert", id |-> state.id, state |-> state]

Event == PendingModification \cup {InsertEvent(state) : state \in AssertionState}

\* The latest element of a set, where there is one.
LEMMA LatestIs ==
    ASSUME NEW N, NEW n \in N, N \subseteq Nat, \A m \in N : m <= n
    PROVE  Latest(N) = n
<1>1. \E l \in N : \A m \in N : m <= l
  OBVIOUS
<1>2. Latest(N) \in N /\ \A m \in N : m <= Latest(N)
  BY <1>1, Zenon DEF Latest
<1>3. Latest(N) \in Nat /\ n \in Nat /\ n <= Latest(N) /\ Latest(N) <= n
  BY <1>2
<1>4. QED
  BY <1>3

\* The latest element of a set that a last one was added to.
LEMMA LatestAdded ==
    ASSUME NEW k \in Nat \ {0}, NEW N, N \subseteq 1..(k - 1), NEW M, M = N \cup {k}
    PROVE  M # {} /\ Latest(M) = k
<1>1. k \in M /\ M \subseteq Nat /\ \A m \in M : m <= k
  OBVIOUS
<1>2. QED
  BY <1>1, LatestIs

\* The latest element of a set with an upper bound is one of its elements.
LEMMA LatestIn ==
    ASSUME NEW k \in Nat, NEW N, N \subseteq 1..k, N # {}
    PROVE  Latest(N) \in N
<1> DEFINE P == {j \in 0..k : \A M \in SUBSET (1..j) : M # {} => \E n \in M : \A m \in M : m <= n}
<1>1. 0 \in P
  <2>1. 0 \in 0..k /\ \A M \in SUBSET (1..0) : M = {}
    OBVIOUS
  <2>2. QED
    BY <2>1
<1>2. ASSUME NEW j \in 1..k, j - 1 \in P PROVE j \in P
  <2>1. SUFFICES ASSUME NEW M \in SUBSET (1..j), M # {}
                 PROVE  \E n \in M : \A m \in M : m <= n
    OBVIOUS
  <2>2. CASE j \in M
    BY <2>2
  <2>3. CASE j \notin M
    <3>1. M \in SUBSET (1..(j - 1))
      BY <2>3
    <3>2. QED
      BY <1>2, <2>1, <3>1
  <2>4. QED
    BY <2>2, <2>3
<1>3. k \in P
  <2> HIDE DEF P
  <2>1. QED
    BY <1>1, <1>2, Induction
<1>4. \E n \in N : \A m \in N : m <= n
  BY <1>3
<1>5. QED
  BY <1>4 DEF Latest

LEMMA EventsAfter ==
    ASSUME NEW events \in Seq(Event), NEW ev \in Event, NEW id
    PROVE  LET after == Append(events, ev)
               k == Len(events) + 1
           IN  /\ \A n \in DOMAIN events : after[n] = events[n]
               /\ after[k] = ev
               /\ k \in Nat \ {0} /\ DOMAIN events = 1..(k - 1) /\ DOMAIN after = 1..k
               /\ Opens(events, id) \subseteq 1..(k - 1)
               /\ Ends(events, id) \subseteq 1..(k - 1)
               /\ Opens(after, id) = IF ev.id = id /\ ev.kind # "Remove"
                                     THEN Opens(events, id) \cup {k} ELSE Opens(events, id)
               /\ Ends(after, id) =
                    IF /\ ev.id = id
                       /\ \/ ev.kind = "Insert"
                          \/ ev.kind = "Remove" /\ Opens(events, id) # {}
                    THEN Ends(events, id) \cup {k} ELSE Ends(events, id)
<1> DEFINE after == Append(events, ev)
           k == Len(events) + 1
<1>1. /\ \A n \in DOMAIN events : after[n] = events[n]
      /\ after[k] = ev
      /\ k \in Nat \ {0} /\ DOMAIN events = 1..(k - 1) /\ DOMAIN after = 1..k
  OBVIOUS
<1> HIDE DEF after, k
<1>2. Opens(events, id) \subseteq 1..(k - 1) /\ Ends(events, id) \subseteq 1..(k - 1)
  BY <1>1 DEF Opens, Ends
<1>0. DOMAIN after = DOMAIN events \cup {k} /\ k \notin DOMAIN events
  <2>1. \A n : n \in 1..k <=> n \in 1..(k - 1) \/ n = k
    BY <1>1
  <2>2. QED
    BY <1>1, <2>1
<1>3. Opens(after, id) = IF ev.id = id /\ ev.kind # "Remove"
                         THEN Opens(events, id) \cup {k} ELSE Opens(events, id)
  <2>1. \A n \in DOMAIN events : n \in Opens(after, id) <=> n \in Opens(events, id)
    BY <1>1, <1>0 DEF Opens
  <2>2. k \in Opens(after, id) <=> ev.id = id /\ ev.kind # "Remove"
    BY <1>1, <1>0 DEF Opens
  <2>3. Opens(after, id) \subseteq DOMAIN after /\ Opens(events, id) \subseteq DOMAIN events
    BY DEF Opens
  <2>4. QED
    BY <2>1, <2>2, <2>3, <1>0
<1>4. ASSUME NEW n \in 1..(k - 1)
      PROVE  (\E m \in Opens(after, id) : m < n) <=> (\E m \in Opens(events, id) : m < n)
  BY <1>1, <1>3
<1>5. (\E m \in Opens(after, id) : m < k) <=> Opens(events, id) # {}
  BY <1>1, <1>2, <1>3
<1>6. Ends(after, id) = IF /\ ev.id = id
                           /\ \/ ev.kind = "Insert"
                              \/ ev.kind = "Remove" /\ Opens(events, id) # {}
                        THEN Ends(events, id) \cup {k} ELSE Ends(events, id)
  <2>1. \A n \in DOMAIN events : n \in Ends(after, id) <=> n \in Ends(events, id)
    BY <1>1, <1>4, <1>0 DEF Ends
  <2>2. k \in Ends(after, id) <=> /\ ev.id = id
                                  /\ \/ ev.kind = "Insert"
                                     \/ ev.kind = "Remove" /\ Opens(events, id) # {}
    BY <1>1, <1>5, <1>0 DEF Ends
  <2>3. Ends(after, id) \subseteq DOMAIN after /\ Ends(events, id) \subseteq DOMAIN events
    BY DEF Ends
  <2>4. CASE k \in Ends(after, id)
    <3>1. Ends(after, id) = Ends(events, id) \cup {k}
      BY <2>1, <2>3, <2>4, <1>0
    <3>2. QED
      BY <3>1, <2>2, <2>4
  <2>5. CASE k \notin Ends(after, id)
    <3>1. Ends(after, id) = Ends(events, id)
      BY <2>1, <2>3, <2>5, <1>0
    <3>2. QED
      BY <3>1, <2>2, <2>5
  <2>6. QED
    BY <2>4, <2>5
<1>7. QED
  BY <1>1, <1>2, <1>3, <1>6 DEF after, k

\* The window that a state of an assertion stands for.
Span(state) == [from |-> state.active_at_block, until |-> state.inactive_at_block]

LEMMA WindowShape ==
    ASSUME NEW events, NEW id
    PROVE  Window(events, id) = {} <=> Opens(events, id) = {}
  BY DEF Window

\* An event of another assertion changes nothing.
LEMMA WindowOther ==
    ASSUME NEW events \in Seq(Event), NEW ev \in Event, NEW id, ev.id # id
    PROVE  Window(Append(events, ev), id) = Window(events, id)
<1> DEFINE k == Len(events) + 1
           after == Append(events, ev)
<1>1. /\ Opens(after, id) = Opens(events, id) /\ Ends(after, id) = Ends(events, id)
      /\ \A n \in 1..(k - 1) : after[n] = events[n]
      /\ k - 1 \in Nat
      /\ Opens(events, id) \subseteq 1..(k - 1) /\ Ends(events, id) \subseteq 1..(k - 1)
  BY EventsAfter
<1> HIDE DEF k, after
<1>2. Opens(events, id) # {} => Latest(Opens(events, id)) \in 1..(k - 1)
  BY <1>1, LatestIn
<1>3. Ends(events, id) # {} => Latest(Ends(events, id)) \in 1..(k - 1)
  BY <1>1, LatestIn
<1>4. Window(after, id) = Window(events, id)
  BY <1>1, <1>2, <1>3 DEF Window
<1>5. QED
  BY <1>4 DEF after

\* An insert replaces the whole window.
LEMMA WindowInsert ==
    ASSUME NEW events \in Seq(Event), NEW ev \in Event, ev.kind = "Insert"
    PROVE  Window(Append(events, ev), ev.id) = {Span(ev.state)}
<1> DEFINE k == Len(events) + 1
           after == Append(events, ev)
           opens == Opens(after, ev.id)
           ends == Ends(after, ev.id)
<1>1. /\ opens = Opens(events, ev.id) \cup {k} /\ ends = Ends(events, ev.id) \cup {k}
      /\ after[k] = ev /\ k \in Nat \ {0}
      /\ Opens(events, ev.id) \subseteq 1..(k - 1) /\ Ends(events, ev.id) \subseteq 1..(k - 1)
  BY EventsAfter
<1> HIDE DEF k, after, opens, ends
<1>2. Latest(opens) = k /\ opens # {}
  BY <1>1, LatestAdded
<1>3. Latest(ends) = k /\ ends # {}
  BY <1>1, LatestAdded
<1>4. Window(after, ev.id) = {[from |-> Starts(after[k]), until |-> Stops(after[k])]}
  BY <1>2, <1>3 DEF Window, opens, ends
<1>5. QED
  BY <1>1, <1>4 DEF Starts, Stops, Span, after

\* An Add starts the window anew and leaves its end.
LEMMA WindowAdd ==
    ASSUME NEW events \in Seq(Event), NEW ev \in Event, ev.kind = "Add"
    PROVE  LET before == Window(events, ev.id)
               after  == Window(Append(events, ev), ev.id)
           IN  /\ before = {} => after = {[from |-> ev.at, until |-> None]}
               /\ \A state : before = {Span(state)}
                    => after = {[from |-> ev.at, until |-> state.inactive_at_block]}
<1> DEFINE k == Len(events) + 1
           after == Append(events, ev)
           opens == Opens(after, ev.id)
           ends == Ends(after, ev.id)
<1>1. /\ opens = Opens(events, ev.id) \cup {k} /\ ends = Ends(events, ev.id)
      /\ after[k] = ev /\ k \in Nat \ {0} /\ \A n \in 1..(k - 1) : after[n] = events[n]
      /\ Opens(events, ev.id) \subseteq 1..(k - 1) /\ Ends(events, ev.id) \subseteq 1..(k - 1)
  BY EventsAfter
<1>2. Opens(events, ev.id) = {} => Ends(events, ev.id) = {}
  BY DEF Opens, Ends
<1> HIDE DEF k, after, opens, ends
<1>3. Latest(opens) = k /\ opens # {}
  BY <1>1, LatestAdded
<1>4. ends # {} => Latest(ends) \in 1..(k - 1) /\ after[Latest(ends)] = events[Latest(ends)]
  BY <1>1, LatestIn
<1>5. Window(after, ev.id) =
        {[from |-> ev.at, until |-> IF ends = {} THEN None ELSE Stops(events[Latest(ends)])]}
  BY <1>1, <1>3, <1>4 DEF Window, opens, ends, Starts
<1>6. Window(events, ev.id) = {} => ends = {}
  BY <1>1, <1>2, WindowShape
<1>7. ASSUME NEW state, Window(events, ev.id) = {Span(state)}
      PROVE  state.inactive_at_block = IF ends = {} THEN None ELSE Stops(events[Latest(ends)])
  <2> DEFINE window == [from  |-> Starts(events[Latest(Opens(events, ev.id))]),
                        until |-> IF ends = {} THEN None ELSE Stops(events[Latest(ends)])]
  <2>1. Window(events, ev.id) = {window}
    BY <1>1, <1>7, WindowShape DEF Window
  <2>2. window = Span(state)
    BY <1>7, <2>1
  <2>3. window.until = Span(state).until
    BY <2>2
  <2>4. QED
    BY <2>3 DEF Span
<1>8. QED
  BY <1>5, <1>6, <1>7 DEF after

\* A Remove ends the window of an assertion that is known.
LEMMA WindowRemove ==
    ASSUME NEW events \in Seq(Event), NEW ev \in Event, ev.kind = "Remove"
    PROVE  LET before == Window(events, ev.id)
               after  == Window(Append(events, ev), ev.id)
           IN  /\ before = {} => after = {}
               /\ \A state : before = {Span(state)}
                    => after = {[from |-> state.active_at_block, until |-> ev.at]}
<1> DEFINE k == Len(events) + 1
           after == Append(events, ev)
           opens == Opens(after, ev.id)
           ends == Ends(after, ev.id)
<1>1. /\ opens = Opens(events, ev.id)
      /\ opens # {} => ends = Ends(events, ev.id) \cup {k}
      /\ after[k] = ev /\ k \in Nat \ {0} /\ \A n \in 1..(k - 1) : after[n] = events[n]
      /\ opens \subseteq 1..(k - 1) /\ Ends(events, ev.id) \subseteq 1..(k - 1)
  BY EventsAfter
<1> HIDE DEF k, after, opens, ends
<1>2. opens = {} => Window(after, ev.id) = {}
  BY WindowShape DEF opens
<1>3. ASSUME opens # {}, NEW state, Window(events, ev.id) = {Span(state)}
      PROVE  Window(after, ev.id) = {[from |-> state.active_at_block, until |-> ev.at]}
  <2>1. Latest(ends) = k /\ ends # {}
    BY <1>1, <1>3, LatestAdded
  <2>2. Latest(opens) \in 1..(k - 1) /\ after[Latest(opens)] = events[Latest(opens)]
    BY <1>1, <1>3, LatestIn
  <2>3. Window(after, ev.id) = {[from |-> Starts(events[Latest(opens)]), until |-> ev.at]}
    BY <1>1, <1>3, <2>1, <2>2 DEF Window, opens, ends, Stops
  <2>4. state.active_at_block = Starts(events[Latest(opens)])
    <3> DEFINE old    == Ends(events, ev.id)
               window == [from  |-> Starts(events[Latest(opens)]),
                          until |-> IF old = {} THEN None ELSE Stops(events[Latest(old)])]
    <3>1. Window(events, ev.id) = {window}
      BY <1>1, <1>3 DEF Window
    <3>2. window = Span(state)
      BY <1>3, <3>1
    <3>3. window.from = Span(state).from
      BY <3>2
    <3>4. QED
      BY <3>3 DEF Span
  <2>5. QED
    BY <2>3, <2>4
<1>4. QED
  BY <1>1, <1>2, <1>3, WindowShape DEF after

(***************************************************************************)
(* Every entry follows from the history of its adopter.                    *)
(***************************************************************************)
\* A list has a state of each assertion that its history knows, with the
\* window that the history says.
Follows(events, list) ==
    /\ events \in Seq(Event) /\ list \in Lists
    /\ \A n \in DOMAIN list : Window(events, list[n].id) = {Span(list[n])}
    /\ \A id \in Ids : (\A n \in DOMAIN list : list[n].id # id) => Window(events, id) = {}

LEMMA FollowsNothing == Follows(<<>>, <<>>)
<1>1. <<>> \in Seq(Event) /\ <<>> \in Lists /\ DOMAIN <<>> = {}
  BY DEF Lists, UniqueIds
<1>2. \A id : Opens(<<>>, id) = {}
  BY <1>1 DEF Opens
<1>3. QED
  BY <1>1, <1>2, WindowShape DEF Follows

\* The list after an event, if it follows at the event's id and is as before
\* everywhere else.
LEMMA FollowsReplace ==
    ASSUME NEW events, NEW list, Follows(events, list),
           NEW ev \in Event, NEW after \in Lists,
           DOMAIN after = DOMAIN list,
           \A n \in DOMAIN list : after[n].id = list[n].id,
           \A n \in DOMAIN list : list[n].id # ev.id => after[n] = list[n],
           \A n \in DOMAIN list : list[n].id = ev.id
                => Window(Append(events, ev), ev.id) = {Span(after[n])},
           (\A n \in DOMAIN list : list[n].id # ev.id) => Window(Append(events, ev), ev.id) = {}
    PROVE  Follows(Append(events, ev), after)
<1>1. Append(events, ev) \in Seq(Event)
  BY DEF Follows
<1>2. \A id : id # ev.id => Window(Append(events, ev), id) = Window(events, id)
  BY WindowOther DEF Follows
<1>3. ASSUME NEW n \in DOMAIN after PROVE Window(Append(events, ev), after[n].id) = {Span(after[n])}
  BY <1>2 DEF Follows
<1>4. ASSUME NEW id \in Ids, \A n \in DOMAIN after : after[n].id # id
      PROVE  Window(Append(events, ev), id) = {}
  BY <1>2, <1>4 DEF Follows
<1>5. QED
  BY <1>1, <1>3, <1>4 DEF Follows

LEMMA FollowsPush ==
    ASSUME NEW events, NEW list, Follows(events, list),
           NEW ev \in Event, NEW state \in AssertionState, state.id = ev.id,
           Find(list, ev.id) = {},
           Window(Append(events, ev), ev.id) = {Span(state)}
    PROVE  Follows(Append(events, ev), Append(list, state))
<1> DEFINE after == Append(list, state)
<1>1. Append(events, ev) \in Seq(Event) /\ after \in Lists
  BY PushType DEF Follows
<1>2. \A id : id # ev.id => Window(Append(events, ev), id) = Window(events, id)
  BY WindowOther DEF Follows
<1>3. /\ DOMAIN after = 1..(Len(list) + 1) /\ DOMAIN list = 1..Len(list) /\ Len(list) \in Nat
      /\ after[Len(list) + 1] = state
      /\ \A n \in DOMAIN list : after[n] = list[n]
  BY DEF Follows, Lists
<1>4. \A n \in DOMAIN list : list[n].id # ev.id
  BY FindUnique DEF Follows
<1> HIDE DEF after
<1>5. ASSUME NEW n \in DOMAIN after PROVE Window(Append(events, ev), after[n].id) = {Span(after[n])}
  <2>1. CASE n \in DOMAIN list
    BY <1>2, <1>3, <1>4, <2>1 DEF Follows
  <2>2. CASE n = Len(list) + 1
    BY <1>3, <2>2
  <2>3. QED
    BY <1>3, <2>1, <2>2
<1>6. ASSUME NEW id \in Ids, \A n \in DOMAIN after : after[n].id # id
      PROVE  Window(Append(events, ev), id) = {}
  <2>1. id # ev.id /\ \A n \in DOMAIN list : list[n].id # id
    BY <1>3, <1>6
  <2>2. QED
    BY <1>2, <2>1 DEF Follows
<1>7. QED
  BY <1>1, <1>5, <1>6 DEF Follows, after

LEMMA FollowsApply ==
    ASSUME NEW events, NEW list, Follows(events, list), NEW m \in PendingModification
    PROVE  Follows(Append(events, m), ApplyOne(list, m))
<1> DEFINE found == Find(list, m.id)
           Update(state) == IF m.kind = "Add"
                            THEN [state EXCEPT !.active_at_block = m.at]
                            ELSE [state EXCEPT !.inactive_at_block = m.at]
           added == [id |-> m.id, active_at_block |-> m.at, inactive_at_block |-> None]
           after == ApplyOne(list, m)
<1>1. /\ m \in Event /\ m.kind \in {"Add", "Remove"} /\ m.id \in Ids /\ m.at \in Nat
      /\ events \in Seq(Event) /\ list \in Lists
  BY DEF Event, PendingModification, Follows
<1>2. after \in Lists
  BY <1>1, ApplyOneType
<1>3. found = {n \in DOMAIN list : list[n].id = m.id}
  BY <1>1, FindUnique
<1>4. found = {} => Window(events, m.id) = {}
  BY <1>1, <1>3 DEF Follows
<1>5. CASE found = {} /\ m.kind = "Add"
  <2>1. after = Append(list, added)
    BY <1>5 DEF ApplyOne
  <2>2. added \in AssertionState /\ added.id = m.id
    BY <1>1 DEF AssertionState
  <2>3. Window(Append(events, m), m.id) = {Span(added)}
    BY <1>1, <1>4, <1>5, WindowAdd DEF Span
  <2> HIDE DEF added
  <2>4. QED
    BY <1>1, <1>5, <2>1, <2>2, <2>3, FollowsPush
<1>6. CASE ~ (found = {} /\ m.kind = "Add")
  <2>1. after = [n \in DOMAIN list |-> IF n \in found THEN Update(list[n]) ELSE list[n]]
    BY <1>6 DEF ApplyOne
  <2>2. DOMAIN after = DOMAIN list
    BY <2>1
  <2>3. \A n \in DOMAIN list : list[n].id # m.id => after[n] = list[n]
    BY <1>3, <2>1
  <2>4. ASSUME NEW n \in DOMAIN list, list[n].id = m.id
        PROVE  after[n].id = list[n].id /\ Window(Append(events, m), m.id) = {Span(after[n])}
    <3>1. list[n] \in AssertionState
      BY <1>1 DEF Lists
    <3>2. after[n] = Update(list[n])
      BY <1>3, <2>1, <2>4
    <3>3. Window(events, m.id) = {Span(list[n])}
      BY <2>4 DEF Follows
    <3>4. CASE m.kind = "Add"
      <4>1. Window(Append(events, m), m.id) = {[from |-> m.at, until |-> list[n].inactive_at_block]}
        BY <1>1, <3>3, <3>4, WindowAdd
      <4>2. /\ after[n].id = list[n].id /\ after[n].active_at_block = m.at
            /\ after[n].inactive_at_block = list[n].inactive_at_block
        BY <3>1, <3>2, <3>4 DEF AssertionState
      <4>3. QED
        BY <4>1, <4>2 DEF Span
    <3>5. CASE m.kind = "Remove"
      <4>1. Window(Append(events, m), m.id) = {[from |-> list[n].active_at_block, until |-> m.at]}
        BY <1>1, <3>3, <3>5, WindowRemove
      <4>2. /\ after[n].id = list[n].id /\ after[n].inactive_at_block = m.at
            /\ after[n].active_at_block = list[n].active_at_block
        BY <3>1, <3>2, <3>5 DEF AssertionState
      <4>3. QED
        BY <4>1, <4>2 DEF Span
    <3>6. QED
      BY <1>1, <3>4, <3>5
  <2>5. ASSUME \A n \in DOMAIN list : list[n].id # m.id
        PROVE  Window(Append(events, m), m.id) = {}
    <3>1. found = {} /\ m.kind = "Remove"
      BY <1>1, <1>3, <1>6, <2>5
    <3>2. QED
      BY <1>1, <1>4, <3>1, WindowRemove
  <2> HIDE DEF after, found, Update
  <2>6. \A n \in DOMAIN list : after[n].id = list[n].id
    BY <2>3, <2>4
  <2>7. Follows(Append(events, m), after)
    BY <1>1, <1>2, <2>2, <2>3, <2>4, <2>5, <2>6, FollowsReplace
  <2>8. QED
    BY <2>7 DEF after
<1>7. QED
  BY <1>5, <1>6

LEMMA FollowsInsert ==
    ASSUME NEW events, NEW list, Follows(events, list), NEW state \in AssertionState
    PROVE  Follows(Append(events, InsertEvent(state)), InsertState(list, state))
<1> DEFINE found == Find(list, state.id)
           after == InsertState(list, state)
           ev == InsertEvent(state)
<1>1. /\ ev \in Event /\ ev.kind = "Insert" /\ ev.id = state.id /\ ev.state = state
      /\ events \in Seq(Event) /\ list \in Lists
  BY DEF Event, InsertEvent, Follows
<1> HIDE DEF ev
<1>2. Window(Append(events, ev), ev.id) = {Span(state)}
  BY <1>1, WindowInsert
<1>3. found = {n \in DOMAIN list : list[n].id = ev.id}
  BY <1>1, FindUnique
<1>4. CASE found = {}
  <2>1. after = Append(list, state)
    BY <1>4 DEF InsertState
  <2>2. QED
    BY <1>1, <1>2, <1>4, <2>1, FollowsPush DEF ev
<1>5. CASE found # {}
  <2>1. after = [n \in DOMAIN list |-> IF n \in found THEN state ELSE list[n]]
    BY <1>5 DEF InsertState
  <2>2. after \in Lists
    BY <1>1, InsertType
  <2>3. DOMAIN after = DOMAIN list
    BY <2>1
  <2>4. \A n \in DOMAIN list : after[n] = IF list[n].id = ev.id THEN state ELSE list[n]
    BY <1>3, <2>1
  <2>5. \E n \in DOMAIN list : list[n].id = ev.id
    BY <1>3, <1>5
  <2> HIDE DEF after, found
  <2>6. Follows(Append(events, ev), after)
    BY <1>1, <1>2, <2>2, <2>3, <2>4, <2>5, FollowsReplace
  <2>7. QED
    BY <2>6 DEF after, ev
<1>6. QED
  BY <1>4, <1>5

\* A whole group.
LEMMA FollowsAll ==
    ASSUME NEW events, NEW list, Follows(events, list), NEW group \in Seq(PendingModification)
    PROVE  Follows(events \o group, ApplyAll(list, group))
<1> DEFINE k == Len(group)
           prefix(n) == events \o SubSeq(group, 1, n)
<1>1. k \in Nat /\ events \in Seq(Event)
  BY DEF Follows
<1>2. group \in Seq(Event)
  BY DEF Event
<1>3. PICK after : LoopRun(after, list, group)
  BY ApplyRun
<1> DEFINE P == {n \in 0..k : Follows(prefix(n), after[n])}
<1>4. 0 \in P
  <2>1. prefix(0) = events
    BY <1>1, <1>2
  <2>2. after[0] = list /\ 0 \in 0..k
    BY <1>1, <1>3 DEF LoopRun
  <2> HIDE DEF prefix
  <2>3. QED
    BY <2>1, <2>2
<1>5. ASSUME NEW n \in 1..k, n - 1 \in P PROVE n \in P
  <2>1. Follows(prefix(n - 1), after[n - 1]) /\ n \in 0..k
    BY <1>1, <1>5
  <2>2. group[n] \in PendingModification
    OBVIOUS
  <2>3. prefix(n) = Append(prefix(n - 1), group[n])
    <3>1. SubSeq(group, 1, n) = Append(SubSeq(group, 1, n - 1), group[n])
      BY <1>1
    <3>2. SubSeq(group, 1, n - 1) \in Seq(Event) /\ group[n] \in Event
      BY <1>1, <1>2
    <3>3. QED
      BY <1>1, <3>1, <3>2
  <2>4. after[n] = ApplyOne(after[n - 1], group[n])
    BY <1>3 DEF LoopRun
  <2> HIDE DEF prefix
  <2>5. Follows(prefix(n), after[n])
    BY <2>1, <2>2, <2>3, <2>4, FollowsApply
  <2>6. QED
    BY <2>1, <2>5
<1>6. k \in P
  <2> HIDE DEF P
  <2>1. QED
    BY <1>1, <1>4, <1>5, Induction
<1>7. SubSeq(group, 1, k) = group
  BY <1>1
<1>8. QED
  BY <1>3, <1>6, <1>7 DEF LoopRun

(***************************************************************************)
(* The store.                                                              *)
(***************************************************************************)
StoreInv ==
    /\ TypeOK
    /\ history \in [Adopters -> Seq(Event)]
    /\ \A aa \in Adopters : Follows(history[aa], OrEmpty(db[aa]))

\* A group of modifications is what the lemmas on lists are about.
LEMMA GroupsTyped ==
    /\ Modification \subseteq PendingModification
    /\ \A batch \in Batches, aa \in Adopters : ModificationsOf(batch, aa) \in Seq(Modification)
<1>1. Modification \subseteq PendingModification
  BY StoreAssumption DEF Modification
<1>2. ASSUME NEW batch \in Batches, NEW aa \in Adopters
      PROVE  ModificationsOf(batch, aa) \in Seq(Modification)
  <2>1. batch \in Seq(PendingModification)
    BY StoreAssumption
  <2>2. \A n \in DOMAIN batch : batch[n] \in Modification
    BY DEF Modification
  <2>3. batch \in Seq(Modification)
    BY <2>1, <2>2
  <2>4. QED
    BY <2>3, GroupType
<1>3. QED
  BY <1>1, <1>2

LEMMA StoreInit == Init => StoreInv
<1> SUFFICES ASSUME Init PROVE StoreInv
  OBVIOUS
<1>1. TypeOK
  BY DEF Init, TypeOK, NoGroups
<1>2. \A aa \in Adopters : history[aa] = <<>> /\ OrEmpty(db[aa]) = <<>>
  BY DEF Init, OrEmpty
<1>3. QED
  BY <1>1, <1>2, FollowsNothing DEF StoreInv, Init

LEMMA StoreStep == StoreInv /\ ControlInv /\ [Next]_vars => StoreInv'
<1> SUFFICES ASSUME StoreInv, ControlInv, [Next]_vars PROVE StoreInv'
  OBVIOUS
<1> USE DEF StoreInv, TypeOK
<1>1. ASSUME NEW w \in Writers, ApplyPendingModifications(w) PROVE StoreInv'
  BY <1>1, GroupsTyped DEF ApplyPendingModifications
<1>2. ASSUME NEW w \in Writers, PickAdopter(w) PROVE StoreInv'
  BY <1>2 DEF PickAdopter
<1>3. ASSUME NEW w \in Writers, AllApplied(w) PROVE StoreInv'
  BY <1>3 DEF AllApplied
<1>4. ASSUME NEW w \in Writers, ReadEntry(w) PROVE StoreInv'
  <2>1. target[w] \in Adopters
    BY <1>4 DEF ReadEntry, ControlInv
  <2>2. QED
    BY <1>4, <2>1 DEF ReadEntry
<1>5. ASSUME NEW w \in Writers, ReadFails(w) PROVE StoreInv'
  BY <1>5 DEF ReadFails, NoGroups
<1>6. ASSUME NEW w \in Writers, SwapSucceeds(w) PROVE StoreInv'
  <2> DEFINE aa == target[w]
             new == ApplyAll(OrEmpty(db[aa]), groups[w][aa])
  <2>1. aa \in Adopters /\ groups[w][aa] \in Seq(Modification)
    BY <1>6 DEF SwapSucceeds, ControlInv
  <2>2. groups[w][aa] \in Seq(PendingModification)
    BY <2>1, GroupsTyped
  <2>3. Follows(history[aa] \o groups[w][aa], new)
    BY <2>1, <2>2, FollowsAll
  <2>4. new \in Seq(AssertionState) /\ history[aa] \o groups[w][aa] \in Seq(Event)
    BY <2>3 DEF Follows, Lists
  <2>5. /\ db' = [db EXCEPT ![aa] = new]
        /\ history' = [history EXCEPT ![aa] = history[aa] \o groups[w][aa]]
    BY <1>6, <2>1 DEF SwapSucceeds
  <2>6. OrEmpty(new) = new
    BY <2>4, StoreAssumption DEF OrEmpty
  <2> HIDE DEF new
  <2>7. \A a \in Adopters : Follows(history'[a], OrEmpty(db'[a]))
    BY <2>1, <2>3, <2>5, <2>6
  <2>8. TypeOK'
    BY <1>6, <2>1, <2>4, <2>5 DEF SwapSucceeds
  <2>9. QED
    BY <2>1, <2>4, <2>5, <2>7, <2>8
<1>7. ASSUME NEW w \in Writers, SwapRetries(w) PROVE StoreInv'
  BY <1>7 DEF SwapRetries
<1>8. ASSUME NEW aa \in Adopters, NEW state \in States, Insert(aa, state) PROVE StoreInv'
  <2> DEFINE new == InsertState(OrEmpty(db[aa]), state)
             ev == InsertEvent(state)
  <2>1. state \in AssertionState
    BY StoreAssumption
  <2>2. Follows(Append(history[aa], ev), new)
    BY <2>1, FollowsInsert
  <2>3. new \in Seq(AssertionState) /\ Append(history[aa], ev) \in Seq(Event)
    BY <2>2 DEF Follows, Lists
  <2>4. /\ db' = [db EXCEPT ![aa] = new]
        /\ history' = [history EXCEPT ![aa] = Append(history[aa], ev)]
    BY <1>8 DEF Insert, InsertEvent
  <2>5. OrEmpty(new) = new
    BY <2>3, StoreAssumption DEF OrEmpty
  <2> HIDE DEF new, ev
  <2>6. \A a \in Adopters : Follows(history'[a], OrEmpty(db'[a]))
    BY <2>2, <2>4, <2>5
  <2>7. TypeOK'
    BY <1>8, <2>3, <2>4 DEF Insert
  <2>8. QED
    BY <2>3, <2>4, <2>6, <2>7
<1>9. CASE UNCHANGED vars
  BY <1>9 DEF vars
<1>10. QED
  BY <1>1, <1>2, <1>3, <1>4, <1>5, <1>6, <1>7, <1>8, <1>9 DEF Next, WriterStep

\* Every entry follows from the history of its adopter.
THEOREM StoreFollowsHistory == Spec => []StoreInv
<1>1. QED
  BY StoreInit, StoreStep, Control, PTL DEF Spec

\* The type invariant, for every instance.
THEOREM StoreTypes == Spec => []TypeOK
<1>1. StoreInv => TypeOK
  BY DEF StoreInv
<1>2. QED
  BY <1>1, StoreFollowsHistory, PTL

\* Find-or-push never duplicates: at most one state per assertion, whatever the
\* batches, the inserts and the interleaving of their compare-and-swaps.
THEOREM NoDuplicateStates == Spec => []OneStatePerAssertion
<1>1. StoreInv => OneStatePerAssertion
  BY DEF StoreInv, OneStatePerAssertion, Follows, OrEmpty, Lists, UniqueIds
<1>2. QED
  BY <1>1, StoreFollowsHistory, PTL

(***************************************************************************)
(* Reads.                                                                  *)
(***************************************************************************)
LEMMA MatchingIsFired ==
    ASSUME NEW id \in Ids, NEW observed \in ObservedTriggers
    PROVE  MatchingSelectors(id, observed) = Fired[id][observed]
<1>1. \A t \in Triggers : Recorder[id][t] \subseteq Selectors
  BY RecorderAssumption
<1>2. observed \subseteq Triggers /\ "AllCalls" \in Triggers /\ "AllStorageChanges" \in Triggers
  BY DEF ObservedTriggers, Triggers
<1>3. Fired[id][observed] = {s \in Selectors : \E r \in Triggers, o \in observed :
                                s \in Recorder[id][r] /\ Fires(r, o)}
  BY DEF Fired
<1>4. ASSUME NEW s, s \in MatchingSelectors(id, observed) PROVE s \in Fired[id][observed]
  BY <1>1, <1>2, <1>3, <1>4 DEF MatchingSelectors, Fires
<1>5. ASSUME NEW s, s \in Fired[id][observed] PROVE s \in MatchingSelectors(id, observed)
  BY <1>1, <1>2, <1>3, <1>5 DEF MatchingSelectors, Fires
<1>6. QED
  BY <1>4, <1>5

LEMMA ActiveIsHeld ==
    ASSUME NEW state \in AssertionState, NEW block \in Nat
    PROVE  ActiveAt(state, block) <=> Holds(Span(state), block)
  BY DEF ActiveAt, Holds, Span, AssertionState

LEMMA ReadsFollow ==
    ASSUME NEW events, NEW entry, entry = None \/ entry \in Seq(AssertionState),
           Follows(events, OrEmpty(entry)),
           NEW block \in Nat, NEW observed \in ObservedTriggers
    PROVE  ReadAdopter(entry, observed, block) =
            {[id |-> id, selectors |-> Fired[id][observed]] :
                id \in {i \in Ids : \E window \in Window(events, i) : Holds(window, block)}}
<1> DEFINE list == OrEmpty(entry)
           active == {i \in Ids : \E window \in Window(events, i) : Holds(window, block)}
           held == {m \in DOMAIN list : ActiveAt(list[m], block)}
<1>1. list \in Seq(AssertionState) /\ \A n \in DOMAIN list : list[n] \in AssertionState
  BY DEF Follows, Lists
<1>2. ReadAdopter(entry, observed, block) =
        {[id |-> list[n].id, selectors |-> MatchingSelectors(list[n].id, observed)] : n \in held}
  BY DEF ReadAdopter, OrEmpty
<1>3. ASSUME NEW n \in DOMAIN list
      PROVE  /\ list[n].id \in Ids
             /\ ActiveAt(list[n], block) <=> list[n].id \in active
  <2>1. list[n] \in AssertionState /\ list[n].id \in Ids
    BY <1>1 DEF AssertionState
  <2>2. Window(events, list[n].id) = {Span(list[n])}
    BY DEF Follows
  <2>3. QED
    BY <2>1, <2>2, ActiveIsHeld
<1>4. ASSUME NEW id \in active PROVE \E n \in held : list[n].id = id
  <2>1. id \in Ids /\ Window(events, id) # {}
    OBVIOUS
  <2>2. PICK n \in DOMAIN list : list[n].id = id
    BY <2>1 DEF Follows
  <2>3. QED
    BY <1>3, <2>2
<1> HIDE DEF list, active
<1>5. {[id |-> list[n].id, selectors |-> MatchingSelectors(list[n].id, observed)] : n \in held}
        = {[id |-> id, selectors |-> Fired[id][observed]] : id \in active}
  <2>1. \A n \in held : list[n].id \in active
                          /\ MatchingSelectors(list[n].id, observed) = Fired[list[n].id][observed]
    BY <1>3, MatchingIsFired
  <2> HIDE DEF held
  <2>2. QED
    BY <2>1, <1>4
<1>6. QED
  BY <1>2, <1>5 DEF active

\* read_adopter returns what the history of the adopter makes active: for every
\* block and all observed triggers, exactly the assertions whose window holds
\* the block, each with the selectors whose triggers fire.
THEOREM ReadsFollowEffects == Spec => []ReadsFollowHistory
<1>1. StoreInv => ReadsFollowHistory
  <2> SUFFICES ASSUME StoreInv, NEW aa \in Adopters, NEW block \in 0..MaxBlock,
                      NEW observed \in ObservedTriggers
               PROVE  ReadAdopter(db[aa], observed, block) =
                        {[id |-> id, selectors |-> Fired[id][observed]] :
                            id \in {i \in Ids : \E window \in Window(history[aa], i) : Holds(window, block)}}
    BY DEF ReadsFollowHistory
  <2>1. block \in Nat
    BY StoreAssumption
  <2>2. Follows(history[aa], OrEmpty(db[aa])) /\ (db[aa] = None \/ db[aa] \in Seq(AssertionState))
    BY DEF StoreInv, TypeOK
  <2>3. QED
    BY <2>1, <2>2, ReadsFollow
<1>2. QED
  BY <1>1, StoreFollowsHistory, PTL
==============================================================================
