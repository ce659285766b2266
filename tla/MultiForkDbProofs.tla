-------------------------- MODULE MultiForkDbProofs --------------------------
(***************************************************************************)
(* Whatever an assertion function does, with any number of nested calls    *)
(* and fork switches: the open checkpoints lie within the active journal,  *)
(* and the two forks are kept apart.                                       *)
(***************************************************************************)
EXTENDS MultiForkDb, SequenceTheorems, WellFoundedInduction, TLAPS

(***************************************************************************)
(* revm's journaled state.                                                 *)
(***************************************************************************)
LEMMA DbValueType ==
    ASSUME NEW fork \in ForkIds, NEW loc \in Locations
    PROVE  /\ DbValue(fork, loc) \in Value
           /\ loc \notin Persistent => DbValue(fork, loc).on = fork
  BY DbAssumption DEF DbValue, Value, ForkIds

LEMMA LoadType ==
    ASSUME NEW js \in JournaledState, NEW fork \in ForkIds, NEW loc \in Locations
    PROVE  Load(js, fork, loc) \in Value
  BY DbValueType DEF Load, JournaledState

LEMMA LoadOfFork ==
    ASSUME NEW js \in JournaledState, NEW fork \in ForkIds, NEW loc \in Locations \ Persistent,
           OfFork(js, fork)
    PROVE  Load(js, fork, loc).on = fork
  BY DbValueType DEF Load, OfFork

\* A non-empty set of naturals has a least element.
LEMMA LeastNat ==
    ASSUME NEW S \in SUBSET Nat, S # {}
    PROVE  \E n \in S : \A m \in S : n <= m
<1>1. PICK n \in S : \A m \in S : ~ (<<m, n>> \in OpToRel(<, Nat))
  BY NatLessThanWellFounded, WFMin
<1>2. \A m \in S : ~ (m < n)
  BY <1>1 DEF OpToRel
<1>3. QED
  BY <1>2

\* The entries that a revert undoes have a first one.
LEMMA FirstEntry ==
    ASSUME NEW js \in JournaledState, NEW journal_i \in Nat, NEW loc \in Locations,
           EntriesFrom(js, journal_i, loc) # {}
    PROVE  \E p \in EntriesFrom(js, journal_i, loc) :
              \A q \in EntriesFrom(js, journal_i, loc) : Before(p, q)
<1> DEFINE E == EntriesFrom(js, journal_i, loc)
<1>1. \A p \in E : p = <<p[1], p[2]>> /\ p[1] \in Nat /\ p[2] \in Nat
  <2> SUFFICES ASSUME NEW p \in E
               PROVE p = <<p[1], p[2]>> /\ p[1] \in Nat /\ p[2] \in Nat
    OBVIOUS
  <2>1. PICK k \in (journal_i + 1)..Len(js.journal) : p \in {k} \X DOMAIN js.journal[k]
    BY DEF EntriesFrom
  <2>2. js.journal \in Seq(Seq(Entry)) /\ Len(js.journal) \in Nat
    BY LenProperties DEF JournaledState
  <2>3. DOMAIN js.journal[k] \subseteq Nat
    BY <2>2, ElementOfSeq, LenProperties
  <2>4. k \in Nat
    BY <2>2
  <2>5. QED
    BY <2>1, <2>3, <2>4
<1> HIDE DEF E
<1>2. E # {}
  BY DEF E
<1>3. PICK p0 \in E : \A q \in E : p0[1] <= q[1]
  <2> DEFINE K == {p[1] : p \in E}
  <2>1. K \in SUBSET Nat /\ K # {}
    BY <1>1, <1>2
  <2>2. PICK k \in K : \A m \in K : k <= m
    BY <2>1, LeastNat
  <2>3. QED
    BY <2>2
<1>4. PICK p1 \in {p \in E : p[1] = p0[1]} : \A q \in {p \in E : p[1] = p0[1]} : p1[2] <= q[2]
  <2> DEFINE F == {p \in E : p[1] = p0[1]}
             K == {p[2] : p \in F}
  <2>1. K \in SUBSET Nat /\ K # {}
    BY <1>1, <1>3
  <2>2. PICK k \in K : \A m \in K : k <= m
    BY <2>1, LeastNat
  <2>3. QED
    BY <2>2
<1>5. \A q \in E : Before(p1, q)
  BY <1>1, <1>3, <1>4 DEF Before
<1>6. QED
  BY <1>4, <1>5 DEF E

\* A revert leaves each location as it is or sets it to what one of its
\* entries recorded.
LEMMA UndoneIs ==
    ASSUME NEW js \in JournaledState, NEW journal_i \in Nat, NEW loc \in Locations
    PROVE  \/ Undone(js, journal_i, loc) = js.state[loc]
           \/ \E k \in DOMAIN js.journal : \E n \in DOMAIN js.journal[k] :
                /\ js.journal[k][n].loc = loc
                /\ Undone(js, journal_i, loc) = js.journal[k][n].had
<1>1. CASE EntriesFrom(js, journal_i, loc) = {}
  BY <1>1 DEF Undone
<1>2. CASE EntriesFrom(js, journal_i, loc) # {}
  <2> DEFINE first == CHOOSE p \in EntriesFrom(js, journal_i, loc) :
                        \A q \in EntriesFrom(js, journal_i, loc) : Before(p, q)
  <2>1. first \in EntriesFrom(js, journal_i, loc)
    BY <1>2, FirstEntry
  <2>2. Undone(js, journal_i, loc) = js.journal[first[1]][first[2]].had
    BY <1>2 DEF Undone
  <2> HIDE DEF first
  <2>3. /\ first[1] \in DOMAIN js.journal
        /\ first[2] \in DOMAIN js.journal[first[1]]
        /\ js.journal[first[1]][first[2]].loc = loc
    BY <2>1 DEF EntriesFrom, JournaledState
  <2>4. QED
    BY <2>2, <2>3
<1>3. QED
  BY <1>1, <1>2
(***************************************************************************)
(* What the operations do to a journaled state: its type, the length of    *)
(* its journal, its depth, and that it stays with its fork.                *)
(***************************************************************************)
LEMMA NewJournaledStateIs ==
    /\ NewJournaledState \in JournaledState
    /\ NewJournaledState.journal # <<>> /\ Len(NewJournaledState.journal) = 1
    /\ NewJournaledState.depth = 0
    /\ \A fork \in ForkIds : OfFork(NewJournaledState, fork)
  BY DEF NewJournaledState, JournaledState, OfFork

LEMMA LoadedIs ==
    ASSUME NEW js \in JournaledState, NEW fork \in ForkIds, NEW loc \in Locations
    PROVE  /\ Loaded(js, fork, loc) \in JournaledState
           /\ Loaded(js, fork, loc).journal = js.journal
           /\ Loaded(js, fork, loc).depth = js.depth
           /\ OfFork(js, fork) => OfFork(Loaded(js, fork, loc), fork)
<1>1. Load(js, fork, loc) \in Value
  BY LoadType
<1>2. OfFork(js, fork) /\ loc \notin Persistent => Load(js, fork, loc).on = fork
  BY LoadOfFork
<1>3. QED
  BY <1>1, <1>2 DEF Loaded, JournaledState, OfFork

LEMMA StoreIs ==
    ASSUME NEW js \in JournaledState, js.journal # <<>>,
           NEW fork \in ForkIds, NEW loc \in Locations, NEW value \in Value, value.on = fork
    PROVE  /\ Store(js, fork, loc, value) \in JournaledState
           /\ Len(Store(js, fork, loc, value).journal) = Len(js.journal)
           /\ Store(js, fork, loc, value).depth = js.depth
           /\ OfFork(js, fork) => OfFork(Store(js, fork, loc, value), fork)
<1> DEFINE new   == Store(js, fork, loc, value)
           last  == Len(js.journal)
           entry == [loc |-> loc, had |-> Load(js, fork, loc)]
<1>1. js.journal \in Seq(Seq(Entry)) /\ last \in Nat \ {0} /\ last \in 1..last
  BY EmptySeq DEF JournaledState
<1>2. entry \in Entry
  BY LoadType DEF Entry
<1>3. js.journal[last] \in Seq(Entry)
  BY <1>1, ElementOfSeq
<1>4. /\ Append(js.journal[last], entry) \in Seq(Entry)
      /\ Len(Append(js.journal[last], entry)) = Len(js.journal[last]) + 1
      /\ \A n \in 1..Len(js.journal[last]) : Append(js.journal[last], entry)[n] = js.journal[last][n]
      /\ Append(js.journal[last], entry)[Len(js.journal[last]) + 1] = entry
  BY <1>2, <1>3, AppendProperties
<1>5. new.journal = [js.journal EXCEPT ![last] = Append(js.journal[last], entry)]
  BY <1>1 DEF Store, JournaledState
<1>6. new.journal \in Seq(Seq(Entry)) /\ Len(new.journal) = last
  BY <1>1, <1>4, <1>5, ExceptSeq
<1>7. /\ new.state = [js.state EXCEPT ![loc] = value]
      /\ new.depth = js.depth
      /\ new = [state |-> new.state, journal |-> new.journal, depth |-> new.depth]
  BY DEF Store, JournaledState
<1>8. new.state \in [Locations -> Value \cup {None}]
  BY <1>7 DEF JournaledState
<1>9. new \in JournaledState
  BY <1>6, <1>7, <1>8 DEF JournaledState
<1>10. ASSUME OfFork(js, fork) PROVE OfFork(new, fork)
  <2> SUFFICES ASSUME NEW l \in Locations \ Persistent
               PROVE  /\ new.state[l] # None => new.state[l].on = fork
                      /\ \A k \in DOMAIN new.journal : \A n \in DOMAIN new.journal[k] :
                            new.journal[k][n].loc = l => new.journal[k][n].had.on = fork
    BY DEF OfFork
  <2>1. new.state[l] # None => new.state[l].on = fork
    BY <1>7, <1>10 DEF OfFork, JournaledState
  <2>2. ASSUME NEW k \in DOMAIN new.journal, NEW n \in DOMAIN new.journal[k],
               new.journal[k][n].loc = l
        PROVE  new.journal[k][n].had.on = fork
    <3>1. CASE k # last
      BY <3>1, <1>1, <1>5, <1>10, <2>2 DEF OfFork
    <3>2. CASE k = last
      <4>1. new.journal[k] = Append(js.journal[last], entry) /\ k \in DOMAIN js.journal
        BY <3>2, <1>1, <1>5, LenProperties
      <4>2. n \in 1..(Len(js.journal[last]) + 1)
        BY <4>1, <1>4, <2>2, LenProperties
      <4>3. CASE n = Len(js.journal[last]) + 1
        BY <4>1, <4>3, <1>4, <2>2, <1>10, LoadOfFork
      <4>4. CASE n # Len(js.journal[last]) + 1
        <5>1. n \in 1..Len(js.journal[last]) /\ n \in DOMAIN js.journal[last]
          BY <1>3, <4>2, <4>4, LenProperties
        <5>2. QED
          BY <4>1, <5>1, <1>4, <3>2, <2>2, <1>10 DEF OfFork
      <4>5. QED
        BY <4>3, <4>4
    <3>3. QED
      BY <3>1, <3>2
  <2>3. QED
    BY <2>1, <2>2
<1>11. QED
  BY <1>6, <1>7, <1>9, <1>10
\* A journaled state whose journal is part of one of the fork, or empty,
\* and whose values are of the fork, is of the fork.
LEMMA StaysOfFork ==
    ASSUME NEW js, NEW new, NEW fork, OfFork(js, fork),
           \A loc \in Locations \ Persistent : new.state[loc] # None => new.state[loc].on = fork,
           \A k \in DOMAIN new.journal :
                \/ k \in DOMAIN js.journal /\ new.journal[k] = js.journal[k]
                \/ DOMAIN new.journal[k] = {}
    PROVE  OfFork(new, fork)
<1> SUFFICES ASSUME NEW loc \in Locations \ Persistent,
                    NEW k \in DOMAIN new.journal, NEW n \in DOMAIN new.journal[k],
                    new.journal[k][n].loc = loc
             PROVE  new.journal[k][n].had.on = fork
  BY DEF OfFork
<1>1. k \in DOMAIN js.journal /\ new.journal[k] = js.journal[k]
  OBVIOUS
<1>2. QED
  BY <1>1 DEF OfFork

LEMMA CheckpointIs ==
    ASSUME NEW js \in JournaledState
    PROVE  /\ Checkpoint(js) \in JournaledState
           /\ Len(Checkpoint(js).journal) = Len(js.journal) + 1
           /\ Checkpoint(js).journal # <<>>
           /\ Checkpoint(js).depth = js.depth + 1
           /\ \A fork \in ForkIds : OfFork(js, fork) => OfFork(Checkpoint(js), fork)
<1> DEFINE new == Checkpoint(js)
<1>1. js.journal \in Seq(Seq(Entry)) /\ <<>> \in Seq(Entry)
  BY EmptySeq DEF JournaledState
<1>2. /\ new.journal \in Seq(Seq(Entry)) /\ new.journal # <<>>
      /\ Len(new.journal) = Len(js.journal) + 1
      /\ \A k \in 1..Len(js.journal) : new.journal[k] = js.journal[k]
      /\ new.journal[Len(js.journal) + 1] = <<>>
  BY <1>1, AppendProperties DEF Checkpoint
<1>3. new \in JournaledState /\ new.depth = js.depth + 1 /\ new.state = js.state
  BY <1>2 DEF Checkpoint, JournaledState
<1>4. \A k \in DOMAIN new.journal : k \in DOMAIN js.journal \/ DOMAIN new.journal[k] = {}
  BY <1>1, <1>2, LenProperties, EmptySeq
<1>5. \A k \in DOMAIN js.journal : new.journal[k] = js.journal[k]
  BY <1>1, <1>2, LenProperties
<1> HIDE DEF new
<1>6. ASSUME NEW fork \in ForkIds, OfFork(js, fork) PROVE OfFork(new, fork)
  <2>1. \A loc \in Locations \ Persistent : new.state[loc] # None => new.state[loc].on = fork
    BY <1>3, <1>6 DEF OfFork
  <2>2. QED
    BY <1>4, <1>5, <1>6, <2>1, StaysOfFork
<1>7. QED
  BY <1>2, <1>3, <1>6 DEF new

LEMMA RevertToIs ==
    ASSUME NEW js \in JournaledState, js.depth # 0, NEW journal_i \in 1..Len(js.journal)
    PROVE  /\ RevertTo(js, journal_i) \in JournaledState
           /\ Len(RevertTo(js, journal_i).journal) = journal_i
           /\ RevertTo(js, journal_i).journal # <<>>
           /\ RevertTo(js, journal_i).depth = js.depth - 1
           /\ \A fork \in ForkIds : OfFork(js, fork) => OfFork(RevertTo(js, journal_i), fork)
<1> DEFINE new == RevertTo(js, journal_i)
<1>1. js.journal \in Seq(Seq(Entry)) /\ Len(js.journal) \in Nat /\ journal_i \in Nat \ {0}
  BY LenProperties DEF JournaledState
<1>2. \A k \in 1..journal_i : k \in DOMAIN js.journal /\ js.journal[k] \in Seq(Entry)
  BY <1>1, LenProperties, ElementOfSeq
<1>3. /\ new.journal \in Seq(Seq(Entry))
      /\ Len(new.journal) = journal_i
      /\ \A k \in 1..journal_i : new.journal[k] = js.journal[k]
  <2> DEFINE sub == SubSeq(js.journal, 1, journal_i)
  <2>1. sub \in Seq(Seq(Entry)) /\ Len(sub) = journal_i - 1 + 1
        /\ \A k \in 1..(journal_i - 1 + 1) : sub[k] = js.journal[1 + k - 1]
    BY <1>1, <1>2, SubSeqProperties
  <2>2. new.journal = sub
    BY DEF RevertTo
  <2>3. QED
    BY <1>1, <2>1, <2>2
<1>4. \A loc \in Locations : Undone(js, journal_i, loc) \in Value \cup {None}
  <2> SUFFICES ASSUME NEW loc \in Locations
               PROVE Undone(js, journal_i, loc) \in Value \cup {None}
    OBVIOUS
  <2>1. \A k \in DOMAIN js.journal : \A n \in DOMAIN js.journal[k] : js.journal[k][n] \in Entry
    BY <1>1, LenProperties, ElementOfSeq
  <2>2. js.state[loc] \in Value \cup {None}
    BY DEF JournaledState
  <2>3. QED
    BY <1>1, <2>1, <2>2, UndoneIs DEF Entry
<1>5. /\ new.state = [loc \in Locations |-> Undone(js, journal_i, loc)]
      /\ new.depth = js.depth - 1
  BY DEF RevertTo
<1>6. new.depth \in Nat
  BY <1>5 DEF JournaledState
<1>7. new \in JournaledState
  BY <1>3, <1>4, <1>5, <1>6 DEF RevertTo, JournaledState
<1> HIDE DEF new
<1>8. ASSUME NEW fork \in ForkIds, OfFork(js, fork) PROVE OfFork(new, fork)
  <2>1. ASSUME NEW loc \in Locations \ Persistent, new.state[loc] # None
        PROVE  new.state[loc].on = fork
    <3>1. new.state[loc] = Undone(js, journal_i, loc)
      BY <1>5
    <3>2. \A k \in DOMAIN js.journal : \A n \in DOMAIN js.journal[k] :
            js.journal[k][n].loc = loc => js.journal[k][n].had.on = fork
      BY <1>8 DEF OfFork
    <3>3. js.state[loc] # None => js.state[loc].on = fork
      BY <1>8 DEF OfFork
    <3>4. QED
      BY <1>1, <2>1, <3>1, <3>2, <3>3, UndoneIs
  <2>2. \A k \in DOMAIN new.journal : k \in DOMAIN js.journal /\ new.journal[k] = js.journal[k]
    BY <1>2, <1>3, LenProperties
  <2>3. QED
    BY <1>8, <2>1, <2>2, StaysOfFork
<1>9. QED
  BY <1>1, <1>3, <1>5, <1>7, <1>8, EmptySeq DEF new

(***************************************************************************)
(* switch_fork.                                                            *)
(***************************************************************************)
LEMMA PaddedIs ==
    ASSUME NEW journal \in Seq(Seq(Entry)), NEW n \in Nat
    PROVE  /\ Padded(journal, n) \in Seq(Seq(Entry))
           /\ Len(Padded(journal, n)) >= n
           /\ \A k \in DOMAIN Padded(journal, n) :
                \/ k \in DOMAIN journal /\ Padded(journal, n)[k] = journal[k]
                \/ DOMAIN Padded(journal, n)[k] = {}
<1> DEFINE m   == IF n > Len(journal) THEN n ELSE Len(journal)
           new == Padded(journal, n)
<1>1. Len(journal) \in Nat /\ DOMAIN journal = 1..Len(journal)
      /\ \A k \in 1..Len(journal) : journal[k] \in Seq(Entry)
  BY LenProperties, ElementOfSeq
<1>2. m \in Nat /\ m >= n
  BY <1>1
<1>3. new = [k \in 1..m |-> IF k <= Len(journal) THEN journal[k] ELSE <<>>]
  BY DEF Padded
<1> HIDE DEF m
<1>4. new \in [1..m -> Seq(Entry)]
  BY <1>1, <1>2, <1>3, EmptySeq
<1>5. new \in Seq(Seq(Entry))
  BY <1>2, <1>4, SeqDef
<1>6. Len(new) = m
  BY <1>2, <1>4, <1>5, LenProperties
<1>7. \A k \in 1..m :
        \/ (k \in DOMAIN journal /\ new[k] = journal[k])
        \/ DOMAIN new[k] = {}
  BY <1>1, <1>2, <1>3, EmptySeq
<1>8. QED
  BY <1>2, <1>4, <1>5, <1>6, <1>7

LEMMA UpdateIs ==
    ASSUME NEW active \in JournaledState, NEW target \in JournaledState
    PROVE  /\ UpdateJournaledState(active, target) \in JournaledState
           /\ Len(UpdateJournaledState(active, target).journal) >= Len(active.journal)
           /\ UpdateJournaledState(active, target).depth = active.depth
           /\ \A fork \in ForkIds :
                OfFork(target, fork) => OfFork(UpdateJournaledState(active, target), fork)
<1> DEFINE new == UpdateJournaledState(active, target)
           pad == Padded(target.journal, Len(active.journal))
<1>1. target.journal \in Seq(Seq(Entry)) /\ Len(active.journal) \in Nat
  BY LenProperties DEF JournaledState
<1>2. /\ pad \in Seq(Seq(Entry)) /\ Len(pad) >= Len(active.journal)
      /\ \A k \in DOMAIN pad :
            \/ (k \in DOMAIN target.journal /\ pad[k] = target.journal[k])
            \/ DOMAIN pad[k] = {}
  BY <1>1, PaddedIs
<1>3. /\ new.journal = pad /\ new.depth = active.depth
      /\ new.state = [loc \in Locations |->
            IF loc \in Persistent THEN Merged(active, target, loc) ELSE target.state[loc]]
  BY DEF UpdateJournaledState
<1> HIDE DEF pad
<1>4. new.state \in [Locations -> Value \cup {None}]
  BY <1>3 DEF Merged, JournaledState
<1>5. new \in JournaledState
  BY <1>2, <1>3, <1>4 DEF UpdateJournaledState, JournaledState
<1> HIDE DEF new
<1>6. ASSUME NEW fork \in ForkIds, OfFork(target, fork) PROVE OfFork(new, fork)
  <2>1. \A loc \in Locations \ Persistent : new.state[loc] # None => new.state[loc].on = fork
    BY <1>3, <1>6 DEF OfFork
  <2>2. QED
    BY <1>2, <1>3, <1>6, <2>1, StaysOfFork
<1>7. QED
  BY <1>2, <1>3, <1>5, <1>6 DEF new
(***************************************************************************)
(* The open calls.                                                         *)
(***************************************************************************)
\* The innermost call is removed, the checkpoints of the others stay; a call
\* that has switched forks still has, and so has the caller of one that did.
LEMMA CloseFrameIs ==
    ASSUME frames \in Seq(Frame), frames # <<>>, CloseFrame
    PROVE  /\ frames' \in Seq(Frame)
           /\ Len(frames) \in Nat \ {0}
           /\ Len(frames') = Len(frames) - 1
           /\ \A k \in 1..(Len(frames) - 1) :
                /\ frames'[k].journal_i = frames[k].journal_i
                /\ frames'[k].saved = frames[k].saved
                /\ frames[k].switched => frames'[k].switched
                /\ k = Len(frames) - 1 /\ frames[Len(frames)].switched => frames'[k].switched
<1> DEFINE n   == Len(frames)
           sub == SubSeq(frames, 1, n - 1)
<1>1. n \in Nat \ {0} /\ \A k \in 1..n : frames[k] \in Frame
  BY EmptySeq, ElementOfSeq
<1>2. CASE n = 1
  BY <1>1, <1>2, EmptySeq DEF CloseFrame
<1>3. CASE n # 1
  <2>1. n - 1 \in 1..(n - 1) /\ n - 1 \in Nat
    <3> HIDE DEF n
    <3> QED
      BY <1>1, <1>3
  <2>2. /\ sub \in Seq(Frame) /\ Len(sub) = n - 1
        /\ \A k \in 1..(n - 1) : sub[k] = frames[k]
    <3>1. /\ sub \in Seq(Frame) /\ Len(sub) = n - 1 - 1 + 1
          /\ \A k \in 1..(n - 1 - 1 + 1) : sub[k] = frames[1 + k - 1]
      BY <1>1, <2>1, SubSeqProperties
    <3>2. QED
      BY <1>1, <3>1
  <2> DEFINE top == [sub[n - 1] EXCEPT !.switched = @ \/ frames[n].switched]
  <2>3. frames' = [sub EXCEPT ![n - 1] = top]
    BY <1>3 DEF CloseFrame
  <2>4. /\ top \in Frame /\ top.journal_i = sub[n - 1].journal_i
        /\ top.saved = sub[n - 1].saved
        /\ sub[n - 1].switched \/ frames[n].switched => top.switched
    <3>1. sub[n - 1] \in Frame
      BY <1>1, <2>1, <2>2
    <3> DEFINE f == sub[n - 1]
               b == f.switched \/ frames[n].switched
    <3>2. top = [f EXCEPT !.switched = b]
      BY <3>1 DEF Frame
    <3>3. b \in BOOLEAN
      OBVIOUS
    <3> HIDE DEF b, f, top
    <3>4. f \in Frame
      BY <3>1 DEF f
    <3>5. top \in Frame /\ top.journal_i = f.journal_i /\ top.saved = f.saved /\ top.switched = b
      BY <3>2, <3>3, <3>4 DEF Frame
    <3>6. f.switched \/ frames[n].switched => top.switched
      BY <3>5, Zenon DEF b
    <3>7. QED
      BY <3>5, <3>6 DEF f
  <2> HIDE DEF top, sub
  <2>5. /\ frames' \in Seq(Frame) /\ Len(frames') = n - 1
        /\ \A k \in 1..(n - 1) : frames'[k] = IF k = n - 1 THEN top ELSE sub[k]
    BY <2>1, <2>2, <2>3, <2>4, ExceptSeq
  <2>6. QED
    BY <1>1, <2>2, <2>4, <2>5
<1>4. QED
  BY <1>2, <1>3

\* Checkpoints of the outer calls are covered by a journal that reaches the
\* checkpoint of the call that was closed.
LEMMA CoveredAfterClose ==
    ASSUME frames \in Seq(Frame), frames # <<>>, CloseFrame, CheckpointsCovered,
           journaled_state'.depth = journaled_state.depth - 1,
           Len(journaled_state'.journal) \in Nat,
           Len(journaled_state'.journal) >= frames[Len(frames)].journal_i
    PROVE  CheckpointsCovered'
<1>1. /\ frames' \in Seq(Frame) /\ Len(frames) \in Nat \ {0}
      /\ Len(frames') = Len(frames) - 1
      /\ \A k \in 1..(Len(frames) - 1) : frames'[k].journal_i = frames[k].journal_i
  BY CloseFrameIs
<1>2. DOMAIN frames = 1..Len(frames) /\ DOMAIN frames' = 1..(Len(frames) - 1)
  BY <1>1, LenProperties
<1>3. \A k \in DOMAIN frames : frames[k].journal_i \in Nat
  <2>1. \A k \in DOMAIN frames : frames[k] \in Frame
    BY <1>2, ElementOfSeq
  <2>2. QED
    BY <2>1 DEF Frame
<1>4. ASSUME NEW k \in DOMAIN frames'
      PROVE  /\ frames'[k].journal_i \in 1..(Len(journaled_state'.journal) - 1)
             /\ \A m \in DOMAIN frames' : m < k => frames'[m].journal_i < frames'[k].journal_i
  <2>1. k \in DOMAIN frames /\ Len(frames) \in DOMAIN frames /\ k < Len(frames)
    BY <1>1, <1>2
  <2>2. frames[k].journal_i < frames[Len(frames)].journal_i /\ frames[k].journal_i >= 1
    BY <2>1, <1>3 DEF CheckpointsCovered
  <2>3. frames'[k].journal_i = frames[k].journal_i
    BY <1>1, <1>2
  <2>4. \A m \in DOMAIN frames' : m < k => frames'[m].journal_i < frames'[k].journal_i
    <3> SUFFICES ASSUME NEW m \in DOMAIN frames', m < k
                 PROVE frames'[m].journal_i < frames'[k].journal_i
      OBVIOUS
    <3>1. m \in DOMAIN frames /\ frames'[m].journal_i = frames[m].journal_i
      BY <1>1, <1>2
    <3>2. frames[m].journal_i < frames[k].journal_i
      BY <2>1, <3>1 DEF CheckpointsCovered
    <3>3. QED
      BY <2>3, <3>1, <3>2
  <2>5. QED
    BY <1>3, <2>1, <2>2, <2>3, <2>4
<1>5. journaled_state'.depth = Len(frames')
  BY <1>1 DEF CheckpointsCovered
<1>6. QED
  BY <1>4, <1>5 DEF CheckpointsCovered

(***************************************************************************)
(* The inductive invariant.                                                *)
(***************************************************************************)
ForkInv == TypeOK /\ CheckpointsCovered /\ ForksAreIsolated

LEMMA FreshType == Fresh \in [ForkIds -> [Locations -> Value]]
  BY DbValueType DEF Fresh

LEMMA ForkInvInit == Init => ForkInv
<1> SUFFICES ASSUME Init PROVE ForkInv
  OBVIOUS
<1> USE DEF Init
<1>1. TypeOK
  BY NewJournaledStateIs, FreshType, EmptySeq DEF TypeOK, ForkIds
<1>2. CheckpointsCovered
  BY NewJournaledStateIs, EmptySeq DEF CheckpointsCovered
<1>3. ForksAreIsolated
  BY NewJournaledStateIs DEF ForksAreIsolated, ForkIds
<1>4. QED
  BY <1>1, <1>2, <1>3 DEF ForkInv

\* Each action preserves it.
LEMMA TransactStep == ForkInv /\ Transact => ForkInv'
<1> SUFFICES ASSUME ForkInv, Transact PROVE ForkInv'
  OBVIOUS
<1> DEFINE frame == [journal_i |-> 1, saved |-> Fresh, switched |-> FALSE]
<1>1. frame \in Frame /\ frames' = <<frame>> /\ frames' \in Seq(Frame)
  BY FreshType DEF Transact, Frame
<1>2. /\ journaled_state' \in JournaledState /\ journaled_state'.journal # <<>>
      /\ Len(journaled_state'.journal) = 2 /\ journaled_state'.depth = 1
      /\ OfFork(journaled_state', "PostTx")
  <2> DEFINE js == NewJournaledState
  <2>1. /\ js \in JournaledState /\ Len(js.journal) = 1 /\ js.depth = 0
        /\ OfFork(js, "PostTx") /\ "PostTx" \in ForkIds
    BY NewJournaledStateIs DEF ForkIds
  <2>2. journaled_state' = Checkpoint(js)
    BY DEF Transact
  <2> HIDE DEF js
  <2>3. /\ Checkpoint(js) \in JournaledState
        /\ Len(Checkpoint(js).journal) = Len(js.journal) + 1
        /\ Checkpoint(js).journal # <<>>
        /\ Checkpoint(js).depth = js.depth + 1
        /\ OfFork(Checkpoint(js), "PostTx")
    BY <2>1, CheckpointIs
  <2>4. QED
    BY <2>1, <2>2, <2>3
<1>3. TypeOK'
  BY <1>1, <1>2, FreshType DEF Transact, TypeOK, ForkIds
<1>4. CheckpointsCovered'
  BY <1>1, <1>2 DEF CheckpointsCovered
<1>5. ForksAreIsolated'
  BY <1>2 DEF Transact, ForksAreIsolated
<1>6. QED
  BY <1>3, <1>4, <1>5 DEF ForkInv

LEMMA ReadStep == \A loc \in Locations : ForkInv /\ Read(loc) => ForkInv'
<1> SUFFICES ASSUME NEW loc \in Locations, ForkInv, Read(loc) PROVE ForkInv'
  OBVIOUS
<1> USE DEF Read, Step
<1>1. /\ journaled_state' \in JournaledState
      /\ journaled_state'.journal = journaled_state.journal
      /\ journaled_state'.depth = journaled_state.depth
      /\ OfFork(journaled_state', active_fork_id)
  BY LoadedIs DEF ForkInv, TypeOK, ForksAreIsolated
<1>2. TypeOK'
  BY <1>1 DEF ForkInv, TypeOK
<1>3. CheckpointsCovered'
  BY <1>1 DEF ForkInv, CheckpointsCovered
<1>4. ForksAreIsolated'
  BY <1>1 DEF ForkInv, ForksAreIsolated
<1>5. QED
  BY <1>2, <1>3, <1>4 DEF ForkInv

LEMMA WriteStep == \A loc \in Locations, v \in Values : ForkInv /\ Write(loc, v) => ForkInv'
<1> SUFFICES ASSUME NEW loc \in Locations, NEW v \in Values, ForkInv, Write(loc, v)
             PROVE ForkInv'
  OBVIOUS
<1> DEFINE value == [on |-> active_fork_id, v |-> v]
<1> USE DEF Write, Step
<1>1. value \in Value /\ value.on = active_fork_id
  BY DEF ForkInv, TypeOK, Value
<1>2. /\ journaled_state' \in JournaledState
      /\ Len(journaled_state'.journal) = Len(journaled_state.journal)
      /\ journaled_state'.depth = journaled_state.depth
      /\ OfFork(journaled_state', active_fork_id)
  BY <1>1, StoreIs DEF ForkInv, TypeOK, ForksAreIsolated
<1>3. journaled_state'.journal # <<>>
  BY <1>2, EmptySeq DEF ForkInv, TypeOK, JournaledState
<1>4. expected' \in [ForkIds -> [Locations -> Value]]
  BY <1>1 DEF ForkInv, TypeOK
<1>5. TypeOK'
  BY <1>2, <1>3, <1>4 DEF ForkInv, TypeOK
<1>6. CheckpointsCovered'
  BY <1>2 DEF ForkInv, CheckpointsCovered
<1>7. ForksAreIsolated'
  BY <1>2 DEF ForkInv, ForksAreIsolated
<1>8. QED
  BY <1>5, <1>6, <1>7 DEF ForkInv

LEMMA CallStep == ForkInv /\ Call => ForkInv'
<1> SUFFICES ASSUME ForkInv, Call PROVE ForkInv'
  OBVIOUS
<1> USE DEF Call, Step
<1> DEFINE top == [journal_i |-> Len(journaled_state.journal), saved |-> expected,
                   switched |-> FALSE]
           n   == Len(frames)
<1>1. /\ journaled_state \in JournaledState /\ Len(journaled_state.journal) \in Nat \ {0}
      /\ active_fork_id \in ForkIds /\ OfFork(journaled_state, active_fork_id)
  BY EmptySeq DEF ForkInv, TypeOK, ForksAreIsolated, JournaledState
<1>2. /\ journaled_state' \in JournaledState /\ journaled_state'.journal # <<>>
      /\ Len(journaled_state'.journal) = Len(journaled_state.journal) + 1
      /\ journaled_state'.depth = journaled_state.depth + 1
      /\ OfFork(journaled_state', active_fork_id)
  BY <1>1, CheckpointIs
<1>3. top \in Frame /\ frames \in Seq(Frame) /\ frames' = Append(frames, top) /\ n \in Nat
  BY <1>1, LenProperties DEF ForkInv, TypeOK, Frame
<1>4. /\ frames' \in Seq(Frame) /\ Len(frames') = n + 1
      /\ \A k \in 1..n : frames'[k] = frames[k]
      /\ frames'[n + 1] = top
  BY <1>3, AppendProperties
<1>5. TypeOK'
  BY <1>2, <1>4 DEF ForkInv, TypeOK
<1>6. CheckpointsCovered'
  <2>1. DOMAIN frames = 1..n /\ DOMAIN frames' = 1..(n + 1)
    BY <1>3, <1>4, LenProperties
  <2>2. top.journal_i = Len(journaled_state.journal)
    OBVIOUS
  <2>3. /\ journaled_state.depth = n
        /\ \A k \in 1..n :
            /\ frames[k].journal_i \in 1..(Len(journaled_state.journal) - 1)
            /\ \A m \in 1..n : m < k => frames[m].journal_i < frames[k].journal_i
    BY <2>1 DEF ForkInv, CheckpointsCovered
  <2> HIDE DEF top, n
  <2>4. ASSUME NEW k \in 1..(n + 1)
        PROVE  /\ frames'[k].journal_i \in 1..(Len(journaled_state'.journal) - 1)
               /\ \A m \in 1..(n + 1) : m < k => frames'[m].journal_i < frames'[k].journal_i
    <3>1. CASE k = n + 1
      <4>1. \A m \in 1..(n + 1) : m < k => m \in 1..n
        BY <1>3, <3>1
      <4>2. QED
        BY <1>1, <1>2, <1>4, <2>2, <2>3, <3>1, <4>1
    <3>2. CASE k # n + 1
      <4>1. k \in 1..n /\ \A m \in 1..(n + 1) : m < k => m \in 1..n
        BY <1>3, <3>2
      <4>2. QED
        BY <1>1, <1>2, <1>4, <2>3, <4>1
    <3>3. QED
      BY <3>1, <3>2
  <2>5. journaled_state'.depth = Len(frames')
    BY <1>2, <1>4, <2>3
  <2>6. QED
    BY <2>1, <2>4, <2>5 DEF CheckpointsCovered
<1>7. ForksAreIsolated'
  BY <1>2 DEF ForkInv, ForksAreIsolated
<1>8. QED
  BY <1>5, <1>6, <1>7 DEF ForkInv

LEMMA ReturnStep == ForkInv /\ Return => ForkInv'
<1> SUFFICES ASSUME ForkInv, Return PROVE ForkInv'
  OBVIOUS
<1> USE DEF Return
<1>1. /\ frames \in Seq(Frame) /\ frames # <<>> /\ CloseFrame
      /\ journaled_state \in JournaledState /\ journaled_state.depth = Len(frames)
      /\ journaled_state.journal # <<>> /\ Len(journaled_state.journal) \in Nat
      /\ OfFork(journaled_state, active_fork_id)
  BY LenProperties DEF ForkInv, TypeOK, CheckpointsCovered, ForksAreIsolated, JournaledState
<1>2. frames' \in Seq(Frame) /\ Len(frames) \in Nat \ {0}
  BY <1>1, CloseFrameIs
<1>3. journaled_state.depth - 1 \in Nat
  BY <1>1, <1>2
<1>4. /\ journaled_state' \in JournaledState
      /\ journaled_state'.journal = journaled_state.journal
      /\ journaled_state'.state = journaled_state.state
      /\ journaled_state'.depth = journaled_state.depth - 1
  BY <1>1, <1>3 DEF JournaledState
<1>5. TypeOK'
  BY <1>1, <1>2, <1>4 DEF ForkInv, TypeOK
<1>6. CheckpointsCovered'
  <2>1. Len(frames) \in DOMAIN frames
    BY <1>1, <1>2, LenProperties
  <2>2. frames[Len(frames)].journal_i \in 1..(Len(journaled_state.journal) - 1)
    BY <2>1 DEF ForkInv, CheckpointsCovered
  <2>3. QED
    BY <1>1, <1>4, <2>2, CoveredAfterClose DEF ForkInv
<1>7. OfFork(journaled_state', active_fork_id)
  BY <1>1, <1>4 DEF OfFork
<1>8. ForksAreIsolated'
  BY <1>7 DEF ForkInv, ForksAreIsolated
<1>9. QED
  BY <1>5, <1>6, <1>8 DEF ForkInv

LEMMA RevertStep == ForkInv /\ Revert => ForkInv'
<1> SUFFICES ASSUME ForkInv, Revert PROVE ForkInv'
  OBVIOUS
<1> USE DEF Revert
<1> DEFINE frame == frames[Len(frames)]
<1>1. /\ frames \in Seq(Frame) /\ frames # <<>> /\ CloseFrame
      /\ journaled_state \in JournaledState /\ journaled_state.depth = Len(frames)
      /\ Len(journaled_state.journal) \in Nat
      /\ active_fork_id \in ForkIds /\ OfFork(journaled_state, active_fork_id)
  BY LenProperties DEF ForkInv, TypeOK, CheckpointsCovered, ForksAreIsolated, JournaledState
<1>2. frames' \in Seq(Frame) /\ Len(frames) \in Nat \ {0}
  BY <1>1, CloseFrameIs
<1>3. Len(frames) \in DOMAIN frames /\ frame \in Frame
  BY <1>1, <1>2, LenProperties, ElementOfSeq
<1>4. frame.journal_i \in 1..(Len(journaled_state.journal) - 1)
  BY <1>3 DEF ForkInv, CheckpointsCovered
<1>5. frame.journal_i \in 1..Len(journaled_state.journal) /\ journaled_state.depth # 0
  BY <1>1, <1>2, <1>4
<1>6. journaled_state' = RevertTo(journaled_state, frame.journal_i)
  OBVIOUS
<1> HIDE DEF frame
<1>7. /\ journaled_state' \in JournaledState /\ journaled_state'.journal # <<>>
      /\ Len(journaled_state'.journal) = frame.journal_i
      /\ journaled_state'.depth = journaled_state.depth - 1
      /\ OfFork(journaled_state', active_fork_id)
  BY <1>1, <1>5, <1>6, RevertToIs
<1>8. expected' \in [ForkIds -> [Locations -> Value]] /\ torn' \in BOOLEAN
  <2>1. expected' = frame.saved
    BY DEF frame
  <2>2. frame.saved \in [ForkIds -> [Locations -> Value]]
    BY <1>3 DEF Frame
  <2>3. torn' \in BOOLEAN
    OBVIOUS
  <2>4. QED
    BY <2>1, <2>2, <2>3
<1>9. TypeOK'
  BY <1>2, <1>7, <1>8 DEF ForkInv, TypeOK
<1>10. CheckpointsCovered'
  BY <1>1, <1>4, <1>7, CoveredAfterClose DEF ForkInv, frame
<1>11. ForksAreIsolated'
  BY <1>7 DEF ForkInv, ForksAreIsolated
<1>12. QED
  BY <1>9, <1>10, <1>11 DEF ForkInv

LEMMA SwitchForkStep == \A fork \in ForkIds : ForkInv /\ SwitchFork(fork) => ForkInv'
<1> SUFFICES ASSUME NEW fork \in ForkIds, ForkInv, SwitchFork(fork) PROVE ForkInv'
  OBVIOUS
<1> USE DEF SwitchFork, Step
<1>1. CASE fork = active_fork_id
  <2>1. TypeOK'
    BY <1>1 DEF ForkInv, TypeOK
  <2>2. CheckpointsCovered'
    BY <1>1 DEF ForkInv, CheckpointsCovered
  <2>3. ForksAreIsolated'
    BY <1>1 DEF ForkInv, ForksAreIsolated
  <2>4. QED
    BY <2>1, <2>2, <2>3 DEF ForkInv
<1>2. CASE fork # active_fork_id
  <2> DEFINE target == TargetState(fork)
             n      == Len(frames)
             top    == [frames[n] EXCEPT !.switched = TRUE]
  <2>1. /\ journaled_state \in JournaledState /\ active_fork_id \in ForkIds
        /\ frames \in Seq(Frame) /\ frames # <<>> /\ n \in Nat \ {0}
        /\ Len(journaled_state.journal) \in Nat \ {0}
        /\ inactive \in [ForkIds -> JournaledState \cup {None}]
    BY EmptySeq DEF ForkInv, TypeOK, JournaledState
  <2>2. target \in JournaledState /\ OfFork(target, fork)
    BY <2>1, NewJournaledStateIs DEF ForkInv, ForksAreIsolated, TargetState
  <2>3. journaled_state' = UpdateJournaledState(journaled_state, target)
    BY <1>2
  <2> HIDE DEF target
  <2>4. /\ journaled_state' \in JournaledState
        /\ Len(journaled_state'.journal) >= Len(journaled_state.journal)
        /\ journaled_state'.depth = journaled_state.depth
        /\ OfFork(journaled_state', fork)
    BY <2>1, <2>2, <2>3, UpdateIs
  <2>5. Len(journaled_state'.journal) \in Nat /\ journaled_state'.journal # <<>>
    <3>1. journaled_state'.journal \in Seq(Seq(Entry))
      BY <2>4 DEF JournaledState
    <3>2. QED
      BY <2>1, <2>4, <3>1, LenProperties, EmptySeq
  <2>6. n \in 1..n /\ frames[n] \in Frame
    BY <2>1, ElementOfSeq
  <2>7. top \in Frame /\ top.journal_i = frames[n].journal_i
    BY <2>6 DEF Frame
  <2>8. frames' = [frames EXCEPT ![n] = top]
    BY <1>2
  <2> HIDE DEF top
  <2>9. /\ frames' \in Seq(Frame) /\ Len(frames') = n
        /\ \A k \in 1..n : frames'[k].journal_i = frames[k].journal_i
    BY <2>1, <2>6, <2>7, <2>8, ExceptSeq
  <2>10. /\ inactive' = [inactive EXCEPT ![fork] = None, ![active_fork_id] = journaled_state]
         /\ active_fork_id' = fork
    BY <1>2
  <2>11. TypeOK'
    BY <2>1, <2>4, <2>5, <2>9, <2>10 DEF ForkInv, TypeOK
  <2>12. CheckpointsCovered'
    <3>1. DOMAIN frames = 1..n /\ DOMAIN frames' = 1..n
      BY <2>1, <2>9, LenProperties
    <3>2. /\ journaled_state.depth = n
          /\ \A k \in 1..n :
              /\ frames[k].journal_i \in 1..(Len(journaled_state.journal) - 1)
              /\ \A m \in 1..n : m < k => frames[m].journal_i < frames[k].journal_i
      BY <3>1 DEF ForkInv, CheckpointsCovered
    <3> HIDE DEF n
    <3>3. /\ journaled_state'.depth = Len(frames')
          /\ \A k \in 1..n :
              /\ frames'[k].journal_i \in 1..(Len(journaled_state'.journal) - 1)
              /\ \A m \in 1..n : m < k => frames'[m].journal_i < frames'[k].journal_i
      BY <2>1, <2>4, <2>5, <2>9, <3>2
    <3>4. QED
      BY <3>1, <3>3 DEF CheckpointsCovered
  <2>13. ForksAreIsolated'
    BY <2>1, <2>4, <2>10, <1>2 DEF ForkInv, ForksAreIsolated
  <2>14. QED
    BY <2>11, <2>12, <2>13 DEF ForkInv
<1>3. QED
  BY <1>1, <1>2

LEMMA ForkInvStep == ForkInv /\ [Next]_vars => ForkInv'
<1> SUFFICES ASSUME ForkInv, [Next]_vars PROVE ForkInv'
  OBVIOUS
<1>1. CASE UNCHANGED vars
  <2>1. TypeOK'
    BY <1>1 DEF ForkInv, TypeOK, vars
  <2>2. CheckpointsCovered'
    BY <1>1 DEF ForkInv, CheckpointsCovered, vars
  <2>3. ForksAreIsolated'
    BY <1>1 DEF ForkInv, ForksAreIsolated, vars
  <2>4. QED
    BY <2>1, <2>2, <2>3 DEF ForkInv
<1>2. CASE Next
  BY <1>2, TransactStep, CallStep, ReturnStep, RevertStep, ReadStep, WriteStep, SwitchForkStep
     DEF Next
<1>3. QED
  BY <1>1, <1>2

LEMMA ForkInvariant == Spec => []ForkInv
  BY ForkInvInit, ForkInvStep, PTL DEF Spec

(***************************************************************************)
(* What a revert restores.                                                 *)
(***************************************************************************)
\* Entry n of part k of the journal is one of the location.
Recorded(js, k, n, loc) ==
    k \in DOMAIN js.journal /\ n \in DOMAIN js.journal[k] /\ js.journal[k][n].loc = loc

\* It is the first one from checkpoint journal_i on.
FirstRecorded(js, journal_i, k, n, loc) ==
    /\ k > journal_i /\ Recorded(js, k, n, loc)
    /\ \A k2, n2 : k2 > journal_i /\ Recorded(js, k2, n2, loc) => k < k2 \/ (k = k2 /\ n <= n2)

LEMMA RecordedType ==
    ASSUME NEW js \in JournaledState, NEW loc
    PROVE  \A k, n : Recorded(js, k, n, loc) =>
              k \in Nat /\ n \in Nat /\ js.journal[k][n] \in Entry
<1> SUFFICES ASSUME NEW k, NEW n, Recorded(js, k, n, loc)
             PROVE  k \in Nat /\ n \in Nat /\ js.journal[k][n] \in Entry
  OBVIOUS
<1>1. js.journal \in Seq(Seq(Entry)) /\ k \in 1..Len(js.journal)
  BY LenProperties DEF JournaledState, Recorded
<1>2. js.journal[k] \in Seq(Entry) /\ k \in Nat
  BY <1>1, ElementOfSeq, LenProperties
<1>3. n \in 1..Len(js.journal[k])
  BY <1>2, LenProperties DEF Recorded
<1>4. QED
  BY <1>2, <1>3, ElementOfSeq, LenProperties

LEMMA EntriesAre ==
    ASSUME NEW js \in JournaledState, NEW journal_i \in Nat, NEW loc \in Locations, NEW k, NEW n
    PROVE  <<k, n>> \in EntriesFrom(js, journal_i, loc) <=> k > journal_i /\ Recorded(js, k, n, loc)
<1>1. js.journal \in Seq(Seq(Entry)) /\ Len(js.journal) \in Nat
      /\ DOMAIN js.journal = 1..Len(js.journal)
  BY LenProperties DEF JournaledState
<1>2. k \in (journal_i + 1)..Len(js.journal) <=> k > journal_i /\ k \in DOMAIN js.journal
  BY <1>1
<1>3. <<k, n>> \in EntriesFrom(js, journal_i, loc)
        <=> /\ k \in (journal_i + 1)..Len(js.journal)
            /\ n \in DOMAIN js.journal[k] /\ js.journal[k][n].loc = loc
  BY DEF EntriesFrom
<1>4. QED
  BY <1>2, <1>3 DEF Recorded

\* Nothing recorded: the location keeps its value; else it gets back what it
\* had before the first write since the checkpoint.
LEMMA UndoneCases ==
    ASSUME NEW js \in JournaledState, NEW journal_i \in Nat, NEW loc \in Locations
    PROVE  \/ /\ \A k, n : Recorded(js, k, n, loc) => ~ (k > journal_i)
              /\ Undone(js, journal_i, loc) = js.state[loc]
           \/ \E k, n : /\ FirstRecorded(js, journal_i, k, n, loc)
                        /\ Undone(js, journal_i, loc) = js.journal[k][n].had
<1> DEFINE E == EntriesFrom(js, journal_i, loc)
<1>1. CASE E = {}
  BY <1>1, EntriesAre DEF Undone
<1>2. CASE E # {}
  <2> DEFINE first == CHOOSE p \in E : \A q \in E : Before(p, q)
  <2>1. first \in E /\ \A q \in E : Before(first, q)
    BY <1>2, FirstEntry
  <2>2. Undone(js, journal_i, loc) = js.journal[first[1]][first[2]].had
    BY <1>2 DEF Undone
  <2>3. first = <<first[1], first[2]>>
    <3> HIDE DEF first
    <3> QED
      BY <2>1 DEF EntriesFrom
  <2> HIDE DEF first
  <2>4. first[1] > journal_i /\ Recorded(js, first[1], first[2], loc)
    BY <2>1, <2>3, EntriesAre
  <2>5. ASSUME NEW k, NEW n, k > journal_i, Recorded(js, k, n, loc)
        PROVE  first[1] < k \/ (first[1] = k /\ first[2] <= n)
    <3>1. <<k, n>> \in E
      BY <2>5, EntriesAre
    <3>2. QED
      BY <2>1, <3>1 DEF Before
  <2>6. FirstRecorded(js, journal_i, first[1], first[2], loc)
    BY <2>4, <2>5 DEF FirstRecorded
  <2>7. QED
    BY <2>2, <2>6
<1>3. QED
  BY <1>1, <1>2

LEMMA UndoneFirst ==
    ASSUME NEW js \in JournaledState, NEW journal_i \in Nat, NEW loc \in Locations,
           NEW k, NEW n, FirstRecorded(js, journal_i, k, n, loc)
    PROVE  Undone(js, journal_i, loc) = js.journal[k][n].had
<1>1. k > journal_i /\ Recorded(js, k, n, loc)
  BY DEF FirstRecorded
<1>2. PICK k1, n1 : /\ FirstRecorded(js, journal_i, k1, n1, loc)
                    /\ Undone(js, journal_i, loc) = js.journal[k1][n1].had
  BY <1>1, UndoneCases
<1>3. k1 > journal_i /\ Recorded(js, k1, n1, loc)
  BY <1>2 DEF FirstRecorded
<1>4. k \in Nat /\ n \in Nat /\ k1 \in Nat /\ n1 \in Nat
  BY <1>1, <1>3, RecordedType
<1>5. (k < k1 \/ (k = k1 /\ n <= n1)) /\ (k1 < k \/ (k = k1 /\ n1 <= n))
  BY <1>1, <1>2, <1>3 DEF FirstRecorded
<1>6. k = k1 /\ n = n1
  BY <1>4, <1>5
<1>7. QED
  BY <1>2, <1>6

LEMMA UndoneNothing ==
    ASSUME NEW js \in JournaledState, NEW journal_i \in Nat, NEW loc \in Locations,
           \A k, n : Recorded(js, k, n, loc) => ~ (k > journal_i)
    PROVE  Undone(js, journal_i, loc) = js.state[loc]
BY UndoneCases DEF FirstRecorded

\* What a reader of the location sees after a revert to checkpoint journal_i.
Reverted(js, journal_i, fork, loc) == Load(RevertTo(js, journal_i), fork, loc)

LEMMA RevertedIs ==
    ASSUME NEW js, NEW journal_i, NEW fork, NEW loc \in Locations
    PROVE  Reverted(js, journal_i, fork, loc) =
              IF Undone(js, journal_i, loc) # None THEN Undone(js, journal_i, loc)
              ELSE DbValue(fork, loc)
BY DEF Reverted, Load, RevertTo

\* Two journaled states that record the same about a location from the
\* checkpoint on, and show the same value of it, are reverted to the same.
LEMMA SameReverted ==
    ASSUME NEW js \in JournaledState, NEW new \in JournaledState,
           NEW journal_i \in Nat, NEW fork \in ForkIds, NEW loc \in Locations,
           \A k, n : k > journal_i =>
              /\ Recorded(new, k, n, loc) <=> Recorded(js, k, n, loc)
              /\ Recorded(js, k, n, loc) => new.journal[k][n] = js.journal[k][n],
           Load(new, fork, loc) = Load(js, fork, loc)
    PROVE  Reverted(new, journal_i, fork, loc) = Reverted(js, journal_i, fork, loc)
<1>1. CASE \A k, n : Recorded(js, k, n, loc) => ~ (k > journal_i)
  <2>1. Undone(js, journal_i, loc) = js.state[loc]
    BY <1>1, UndoneNothing
  <2>2. Undone(new, journal_i, loc) = new.state[loc]
    <3>1. \A k, n : Recorded(new, k, n, loc) => ~ (k > journal_i)
      BY <1>1
    <3>2. QED
      BY <3>1, UndoneNothing
  <2>3. QED
    BY <2>1, <2>2, RevertedIs DEF Load
<1>2. CASE ~ \A k, n : Recorded(js, k, n, loc) => ~ (k > journal_i)
  <2>1. PICK k, n : /\ FirstRecorded(js, journal_i, k, n, loc)
                    /\ Undone(js, journal_i, loc) = js.journal[k][n].had
    BY <1>2, UndoneCases
  <2>2. FirstRecorded(new, journal_i, k, n, loc) /\ new.journal[k][n] = js.journal[k][n]
    BY <2>1 DEF FirstRecorded
  <2>3. Undone(new, journal_i, loc) = new.journal[k][n].had
    BY <2>2, UndoneFirst
  <2>4. Undone(new, journal_i, loc) = Undone(js, journal_i, loc)
    BY <2>1, <2>2, <2>3
  <2>5. QED
    BY <2>4, RevertedIs
<1>3. QED
  BY <1>1, <1>2

\* Reverting an inner call and then an outer one is reverting the outer one.
LEMMA RevertedTwice ==
    ASSUME NEW js \in JournaledState, js.depth # 0, NEW inner \in 1..Len(js.journal),
           NEW outer \in 1..inner, NEW fork \in ForkIds, NEW loc \in Locations
    PROVE  Reverted(RevertTo(js, inner), outer, fork, loc) = Reverted(js, outer, fork, loc)
<1> DEFINE new == RevertTo(js, inner)
<1>1. new \in JournaledState /\ Len(new.journal) = inner /\ new.state[loc] = Undone(js, inner, loc)
  BY RevertToIs DEF RevertTo
<1>2. /\ inner \in Nat /\ outer \in Nat /\ outer <= inner
      /\ DOMAIN new.journal = 1..inner /\ DOMAIN js.journal = 1..Len(js.journal)
      /\ Len(js.journal) \in Nat
  BY <1>1, LenProperties DEF JournaledState
<1>3. \A k \in 1..inner : new.journal[k] = js.journal[k]
  BY <1>2 DEF RevertTo
<1> HIDE DEF new
<1>4. \A k, n : Recorded(new, k, n, loc) <=> Recorded(js, k, n, loc) /\ ~ (k > inner)
  BY <1>2, <1>3 DEF Recorded
<1>5. \A k, n : Recorded(new, k, n, loc) => new.journal[k][n] = js.journal[k][n]
  BY <1>2, <1>3 DEF Recorded
<1>6. \A k, n : Recorded(js, k, n, loc) => k \in Nat /\ n \in Nat
  BY RecordedType
<1>7. Undone(new, outer, loc) = Undone(js, outer, loc)
  <2>1. CASE \A k, n : Recorded(new, k, n, loc) => ~ (k > outer)
    <3>1. Undone(new, outer, loc) = Undone(js, inner, loc)
      BY <2>1, <1>1, <1>2, UndoneNothing
    <3>2. CASE \A k, n : Recorded(js, k, n, loc) => ~ (k > inner)
      <4>1. \A k, n : Recorded(js, k, n, loc) => ~ (k > outer)
        BY <2>1, <3>2, <1>4
      <4>2. Undone(js, inner, loc) = js.state[loc] /\ Undone(js, outer, loc) = js.state[loc]
        BY <3>2, <4>1, <1>2, UndoneNothing
      <4>3. QED
        BY <3>1, <4>2
    <3>3. CASE ~ \A k, n : Recorded(js, k, n, loc) => ~ (k > inner)
      <4>1. PICK k, n : /\ FirstRecorded(js, inner, k, n, loc)
                        /\ Undone(js, inner, loc) = js.journal[k][n].had
        BY <3>3, <1>2, UndoneCases
      <4>2. FirstRecorded(js, outer, k, n, loc)
        BY <4>1, <2>1, <1>2, <1>4, <1>6 DEF FirstRecorded
      <4>3. Undone(js, outer, loc) = js.journal[k][n].had
        BY <4>2, <1>2, UndoneFirst
      <4>4. QED
        BY <3>1, <4>1, <4>3
    <3>4. QED
      BY <3>2, <3>3
  <2>2. CASE ~ \A k, n : Recorded(new, k, n, loc) => ~ (k > outer)
    <3>1. PICK k, n : /\ FirstRecorded(new, outer, k, n, loc)
                      /\ Undone(new, outer, loc) = new.journal[k][n].had
      BY <2>2, <1>1, <1>2, UndoneCases
    <3>2. /\ Recorded(new, k, n, loc) /\ k > outer /\ ~ (k > inner)
          /\ Recorded(js, k, n, loc) /\ new.journal[k][n] = js.journal[k][n] /\ k \in Nat
      BY <3>1, <1>4, <1>5, <1>6 DEF FirstRecorded
    <3>3. FirstRecorded(js, outer, k, n, loc)
      <4> SUFFICES ASSUME NEW k2, NEW n2, k2 > outer, Recorded(js, k2, n2, loc)
                   PROVE  k < k2 \/ (k = k2 /\ n <= n2)
        BY <3>2 DEF FirstRecorded
      <4>1. CASE k2 > inner
        BY <4>1, <3>2, <1>2, <1>6
      <4>2. CASE ~ (k2 > inner)
        BY <4>2, <3>1, <1>4 DEF FirstRecorded
      <4>3. QED
        BY <4>1, <4>2
    <3>4. QED
      BY <3>1, <3>2, <3>3, <1>2, UndoneFirst
  <2>3. QED
    BY <2>1, <2>2
<1>8. QED
  BY <1>7, RevertedIs DEF new

\* A write is recorded at the end of the journal's last part.
LEMMA StoreRecorded ==
    ASSUME NEW js \in JournaledState, js.journal # <<>>,
           NEW fork \in ForkIds, NEW loc \in Locations, NEW value \in Value, NEW l \in Locations
    PROVE  LET new  == Store(js, fork, loc, value)
               last == Len(js.journal)
               n0   == Len(js.journal[last]) + 1
           IN  /\ last \in Nat /\ n0 \in Nat
               /\ \A k, n : Recorded(new, k, n, l) <=>
                    Recorded(js, k, n, l) \/ (k = last /\ n = n0 /\ l = loc)
               /\ \A k, n : Recorded(js, k, n, l) =>
                    /\ new.journal[k][n] = js.journal[k][n]
                    /\ k < last \/ (k = last /\ n < n0)
               /\ new.journal[last][n0] = [loc |-> loc, had |-> Load(js, fork, loc)]
<1> DEFINE new   == Store(js, fork, loc, value)
           last  == Len(js.journal)
           n0    == Len(js.journal[last]) + 1
           entry == [loc |-> loc, had |-> Load(js, fork, loc)]
           part  == Append(js.journal[last], entry)
<1>1. /\ js.journal \in Seq(Seq(Entry)) /\ last \in Nat \ {0} /\ last \in 1..last
      /\ DOMAIN js.journal = 1..last
  BY EmptySeq, LenProperties DEF JournaledState
<1>2. entry \in Entry /\ entry.loc = loc
  BY LoadType DEF Entry
<1>3. \A k \in 1..last : js.journal[k] \in Seq(Entry)
  BY <1>1, ElementOfSeq
<1>4. \A k \in 1..last : Len(js.journal[k]) \in Nat /\ DOMAIN js.journal[k] = 1..Len(js.journal[k])
  BY <1>3, LenProperties
<1>5. /\ part \in Seq(Entry) /\ Len(part) = n0
      /\ \A n \in 1..Len(js.journal[last]) : part[n] = js.journal[last][n]
      /\ part[n0] = entry
  BY <1>1, <1>2, <1>3, AppendProperties
<1>6. DOMAIN part = 1..n0 /\ n0 \in Nat /\ n0 >= 1
  BY <1>1, <1>4, <1>5, LenProperties
<1>7. new.journal = [js.journal EXCEPT ![last] = part]
  BY <1>1 DEF Store, JournaledState
<1>8. /\ DOMAIN new.journal = 1..last /\ new.journal[last] = part
      /\ \A k \in 1..last : k # last => new.journal[k] = js.journal[k]
  BY <1>1, <1>7
<1> HIDE DEF new, entry, part
<1>9. /\ DOMAIN js.journal[last] = 1..(n0 - 1)
      /\ \A n \in 1..(n0 - 1) : part[n] = js.journal[last][n]
  BY <1>1, <1>4, <1>5
<1> HIDE DEF n0
<1>10. ASSUME NEW k, NEW n
       PROVE  Recorded(new, k, n, l) <=> Recorded(js, k, n, l) \/ (k = last /\ n = n0 /\ l = loc)
  <2>1. CASE k = last
    <3>1. n \in 1..n0 <=> n \in 1..(n0 - 1) \/ n = n0
      BY <1>6
    <3>2. ~ (n0 \in 1..(n0 - 1))
      BY <1>6
    <3>3. QED
      BY <2>1, <3>1, <3>2, <1>1, <1>2, <1>5, <1>6, <1>8, <1>9 DEF Recorded, n0
  <2>2. CASE k # last
    BY <2>2, <1>1, <1>8 DEF Recorded
  <2>3. QED
    BY <2>1, <2>2
<1>11. ASSUME NEW k, NEW n, Recorded(js, k, n, l)
       PROVE  new.journal[k][n] = js.journal[k][n] /\ (k < last \/ (k = last /\ n < n0))
  <2>1. CASE k = last
    <3>1. n \in 1..(n0 - 1)
      BY <1>11, <2>1, <1>9 DEF Recorded
    <3>2. QED
      BY <2>1, <3>1, <1>6, <1>8, <1>9
  <2>2. CASE k # last
    BY <2>2, <1>1, <1>8, <1>11 DEF Recorded
  <2>3. QED
    BY <2>1, <2>2
<1>12. new.journal[last][n0] = entry
  BY <1>5, <1>8 DEF n0
<1>13. QED
  BY <1>1, <1>6, <1>10, <1>11, <1>12 DEF new, n0, entry

\* A write changes what a reader sees of its location only, and nothing of
\* what a revert to an earlier checkpoint restores.
LEMMA StoreReverted ==
    ASSUME NEW js \in JournaledState, js.journal # <<>>, NEW fork \in ForkIds,
           NEW loc \in Locations, NEW value \in Value, value.on = fork, NEW l \in Locations,
           NEW journal_i \in 1..(Len(js.journal) - 1)
    PROVE  Reverted(Store(js, fork, loc, value), journal_i, fork, l)
              = Reverted(js, journal_i, fork, l)
<1> DEFINE new  == Store(js, fork, loc, value)
           last == Len(js.journal)
           n0   == Len(js.journal[last]) + 1
<1>1. /\ last \in Nat /\ n0 \in Nat
      /\ \A k, n : Recorded(new, k, n, l) <=>
            Recorded(js, k, n, l) \/ (k = last /\ n = n0 /\ l = loc)
      /\ \A k, n : Recorded(js, k, n, l) =>
            /\ new.journal[k][n] = js.journal[k][n]
            /\ k < last \/ (k = last /\ n < n0)
      /\ new.journal[last][n0] = [loc |-> loc, had |-> Load(js, fork, loc)]
  BY StoreRecorded
<1>2. /\ new \in JournaledState
      /\ l # loc => new.state[l] = js.state[l]
      /\ journal_i \in Nat /\ journal_i < last
  <2>1. new \in JournaledState
    BY StoreIs
  <2>2. new.state = [js.state EXCEPT ![loc] = value]
    BY DEF Store
  <2>3. QED
    BY <1>1, <2>1, <2>2 DEF JournaledState
<1> HIDE DEF new, last, n0
<1>3. CASE l # loc
  <2>1. Load(new, fork, l) = Load(js, fork, l)
    BY <1>2, <1>3 DEF Load
  <2>2. \A k, n : k > journal_i =>
            /\ Recorded(new, k, n, l) <=> Recorded(js, k, n, l)
            /\ Recorded(js, k, n, l) => new.journal[k][n] = js.journal[k][n]
    BY <1>1, <1>3
  <2>3. QED
    BY <1>2, <2>1, <2>2, SameReverted DEF new
<1>4. CASE l = loc
  <2>1. Recorded(new, last, n0, l) /\ last > journal_i
    BY <1>1, <1>2, <1>4
  <2>2. CASE \A k, n : Recorded(js, k, n, l) => ~ (k > journal_i)
    <3>1. FirstRecorded(new, journal_i, last, n0, l)
      BY <1>1, <2>1, <2>2 DEF FirstRecorded
    <3>2. Undone(new, journal_i, l) = Load(js, fork, l)
      BY <1>1, <1>2, <1>4, <3>1, UndoneFirst
    <3>3. Undone(js, journal_i, l) = js.state[l]
      BY <1>2, <2>2, UndoneNothing
    <3>4. Load(js, fork, l) # None
      BY LoadType, NoneAssumption
    <3>5. QED
      BY <3>2, <3>3, <3>4, RevertedIs DEF Load, new
  <2>3. CASE ~ \A k, n : Recorded(js, k, n, l) => ~ (k > journal_i)
    <3>1. PICK k, n : /\ FirstRecorded(js, journal_i, k, n, l)
                      /\ Undone(js, journal_i, l) = js.journal[k][n].had
      BY <1>2, <2>3, UndoneCases
    <3>2. Recorded(js, k, n, l) /\ k > journal_i
      BY <3>1 DEF FirstRecorded
    <3>3. /\ Recorded(new, k, n, l) /\ new.journal[k][n] = js.journal[k][n]
          /\ k < last \/ (k = last /\ n < n0)
      BY <1>1, <3>2
    <3>4. k \in Nat /\ n \in Nat
      BY <3>2, RecordedType
    <3>5. FirstRecorded(new, journal_i, k, n, l)
      <4> SUFFICES ASSUME NEW k2, NEW n2, k2 > journal_i, Recorded(new, k2, n2, l)
                   PROVE  k < k2 \/ (k = k2 /\ n <= n2)
        BY <3>2, <3>3 DEF FirstRecorded
      <4>1. CASE Recorded(js, k2, n2, l)
        BY <4>1, <3>1 DEF FirstRecorded
      <4>2. CASE k2 = last /\ n2 = n0
        BY <4>2, <3>3, <3>4, <1>1
      <4>3. QED
        BY <4>1, <4>2, <1>1
    <3>6. Undone(new, journal_i, l) = Undone(js, journal_i, l)
      BY <3>1, <3>3, <3>5, <1>2, UndoneFirst
    <3>7. QED
      BY <3>6, RevertedIs DEF new
  <2>4. QED
    BY <2>2, <2>3
<1>5. QED
  BY <1>3, <1>4

\* A part added at the end of the journal records nothing.
LEMMA CheckpointReverted ==
    ASSUME NEW js \in JournaledState, NEW fork \in ForkIds, NEW loc \in Locations,
           NEW journal_i \in 1..Len(js.journal)
    PROVE  /\ Load(Checkpoint(js), fork, loc) = Load(js, fork, loc)
           /\ Reverted(Checkpoint(js), journal_i, fork, loc) = Reverted(js, journal_i, fork, loc)
           /\ journal_i = Len(js.journal) =>
                Reverted(Checkpoint(js), journal_i, fork, loc) = Load(js, fork, loc)
<1> DEFINE new  == Checkpoint(js)
           last == Len(js.journal)
<1>1. new \in JournaledState /\ new.state = js.state
  BY CheckpointIs DEF Checkpoint
<1>2. /\ js.journal \in Seq(Seq(Entry)) /\ <<>> \in Seq(Entry)
      /\ last \in Nat /\ DOMAIN js.journal = 1..last
  BY EmptySeq, LenProperties DEF JournaledState
<1>3. /\ Len(new.journal) = last + 1 /\ new.journal \in Seq(Seq(Entry))
      /\ \A k \in 1..last : new.journal[k] = js.journal[k]
      /\ new.journal[last + 1] = <<>>
  BY <1>2, AppendProperties DEF Checkpoint
<1>4. DOMAIN new.journal = 1..(last + 1) /\ DOMAIN new.journal[last + 1] = {}
  BY <1>3, LenProperties, EmptySeq
<1> HIDE DEF new, last
<1>5. \A k, n : Recorded(new, k, n, loc) <=> Recorded(js, k, n, loc)
  <2>1. \A k \in 1..(last + 1) : k \in 1..last \/ k = last + 1
    BY <1>2
  <2>2. \A k \in 1..last : k \in 1..(last + 1)
    BY <1>2
  <2>3. QED
    BY <1>2, <1>3, <1>4, <2>1, <2>2, Zenon DEF Recorded
<1>6. \A k, n : Recorded(js, k, n, loc) => new.journal[k][n] = js.journal[k][n] /\ k <= last
  <2>1. \A k \in 1..last : k <= last
    BY <1>2
  <2>2. QED
    BY <1>2, <1>3, <2>1, Zenon DEF Recorded
<1>7. Load(new, fork, loc) = Load(js, fork, loc)
  BY <1>1 DEF Load
<1>8. journal_i \in Nat
  BY <1>2 DEF last
<1>9. Reverted(new, journal_i, fork, loc) = Reverted(js, journal_i, fork, loc)
  BY <1>1, <1>5, <1>6, <1>7, <1>8, SameReverted
<1>10. ASSUME journal_i = last PROVE Reverted(js, journal_i, fork, loc) = Load(js, fork, loc)
  <2>1. \A k, n : Recorded(js, k, n, loc) => ~ (k > journal_i)
    <3>1. \A k, n : Recorded(js, k, n, loc) => k \in Nat
      BY RecordedType
    <3>2. QED
      BY <1>2, <1>6, <1>10, <3>1
  <2>2. QED
    BY <2>1, <1>8, UndoneNothing, RevertedIs DEF Load
<1>11. QED
  BY <1>7, <1>9, <1>10 DEF new, last

\* A read changes nothing that a reader sees, now or after a revert.
LEMMA LoadedReverted ==
    ASSUME NEW js \in JournaledState, NEW fork \in ForkIds, NEW loc \in Locations,
           NEW l \in Locations
    PROVE  /\ Load(Loaded(js, fork, loc), fork, l) = Load(js, fork, l)
           /\ \A journal_i \in Nat :
                Reverted(Loaded(js, fork, loc), journal_i, fork, l)
                    = Reverted(js, journal_i, fork, l)
<1> DEFINE new == Loaded(js, fork, loc)
<1>1. new \in JournaledState /\ new.journal = js.journal
  BY LoadedIs
<1>2. new.state = [js.state EXCEPT ![loc] = Load(js, fork, loc)]
  BY DEF Loaded, JournaledState
<1> HIDE DEF new
<1>3. Load(new, fork, l) = Load(js, fork, l)
  <2>1. Load(js, fork, loc) # None
    BY LoadType, NoneAssumption
  <2>2. js.state \in [Locations -> Value \cup {None}]
    BY DEF JournaledState
  <2>3. /\ new.state[loc] = Load(js, fork, loc)
        /\ l # loc => new.state[l] = js.state[l]
    BY <1>2, <2>2
  <2>4. QED
    BY <2>1, <2>3 DEF Load
<1>4. ASSUME NEW journal_i \in Nat
      PROVE  Reverted(new, journal_i, fork, l) = Reverted(js, journal_i, fork, l)
  <2>1. \A k, n : /\ Recorded(new, k, n, l) <=> Recorded(js, k, n, l)
                  /\ new.journal[k][n] = js.journal[k][n]
    BY <1>1 DEF Recorded
  <2>2. QED
    BY <1>1, <1>3, <2>1, SameReverted
<1>5. QED
  BY <1>3, <1>4 DEF new

(***************************************************************************)
(* What a reader sees.  The invariant speaks of the active fork, of the    *)
(* fork that was left, and of what a revert of an open call would restore. *)
(***************************************************************************)
\* The persistent accounts are the same on both forks, before and after any
\* revert, and the active journaled state holds them if the other one does.
SharedAlike ==
    \A loc \in Persistent :
        /\ \A f, g \in ForkIds : expected[f][loc] = expected[g][loc]
        /\ \A n \in DOMAIN frames : \A f, g \in ForkIds :
            frames[n].saved[f][loc] = frames[n].saved[g][loc]
        /\ journaled_state.state[loc] = None =>
            \A f \in ForkIds : inactive[f] # None => inactive[f].state[loc] = None

\* Nobody has switched forks since call n was made.
Unswitched(n) == \A m \in DOMAIN frames : m >= n => ~ frames[m].switched

SeenAsExpected ==
    \A loc \in Locations : Load(journaled_state, active_fork_id, loc) = expected[active_fork_id][loc]

\* A fork that was left would show its own accounts as they should be.
LeftAsExpected ==
    \A f \in ForkIds \ {active_fork_id} : \A loc \in Locations \ Persistent :
        Load(TargetState(f), f, loc) = expected[f][loc]

\* A revert of call n would restore what it should, and has nothing to restore
\* on the other fork.
RevertsAsExpected(n) ==
    /\ \A loc \in Locations :
        Reverted(journaled_state, frames[n].journal_i, active_fork_id, loc)
            = frames[n].saved[active_fork_id][loc]
    /\ \A f \in ForkIds \ {active_fork_id} : \A loc \in Locations \ Persistent :
        frames[n].saved[f][loc] = expected[f][loc]

UntornAsExpected ==
    /\ SeenAsExpected /\ LeftAsExpected
    /\ \A n \in DOMAIN frames : Unswitched(n) => RevertsAsExpected(n)

ReadsInv == SharedAlike /\ (~ torn => UntornAsExpected)

\* A persistent account is loaded with the same value on either fork.
LEMMA SharedDbValue ==
    ASSUME NEW f, NEW g, NEW loc \in Persistent
    PROVE  DbValue(f, loc) = DbValue(g, loc)
BY DEF DbValue

LEMMA TypesOf ==
    ASSUME ForkInv
    PROVE  /\ active_fork_id \in ForkIds
           /\ journaled_state \in JournaledState /\ journaled_state.journal # <<>>
           /\ Len(journaled_state.journal) \in Nat
           /\ inactive \in [ForkIds -> JournaledState \cup {None}]
           /\ frames \in Seq(Frame) /\ Len(frames) \in Nat /\ DOMAIN frames = 1..Len(frames)
           /\ \A n \in DOMAIN frames :
                frames[n] \in Frame
                /\ frames[n].journal_i \in 1..(Len(journaled_state.journal) - 1)
                /\ frames[n].journal_i \in Nat
           /\ expected \in [ForkIds -> [Locations -> Value]]
           /\ \A f \in ForkIds : TargetState(f) \in JournaledState
<1>1. /\ active_fork_id \in ForkIds
      /\ journaled_state \in JournaledState /\ journaled_state.journal # <<>>
      /\ inactive \in [ForkIds -> JournaledState \cup {None}]
      /\ frames \in Seq(Frame)
      /\ expected \in [ForkIds -> [Locations -> Value]]
  BY DEF ForkInv, TypeOK
<1>2. Len(frames) \in Nat /\ DOMAIN frames = 1..Len(frames)
  BY <1>1, LenProperties
<1>3. \A n \in DOMAIN frames : frames[n] \in Frame
  BY <1>1, <1>2, ElementOfSeq
<1>4. Len(journaled_state.journal) \in Nat
  BY <1>1, LenProperties DEF JournaledState
<1>5. \A n \in DOMAIN frames : frames[n].journal_i \in 1..(Len(journaled_state.journal) - 1)
  BY DEF ForkInv, CheckpointsCovered
<1>6. \A n \in DOMAIN frames : frames[n].journal_i \in Nat
  BY <1>3 DEF Frame
<1>7. \A f \in ForkIds : TargetState(f) \in JournaledState
  BY <1>1, NewJournaledStateIs DEF TargetState
<1>8. QED
  BY <1>1, <1>2, <1>3, <1>4, <1>5, <1>6, <1>7

LEMMA NewLoads ==
    ASSUME NEW fork \in ForkIds, NEW loc \in Locations
    PROVE  /\ Load(NewJournaledState, fork, loc) = Fresh[fork][loc]
           /\ loc \in Persistent => \A f \in ForkIds : Fresh[f][loc] = Fresh[fork][loc]
BY SharedDbValue DEF Load, NewJournaledState, Fresh

LEMMA ReadsInvInit == Init => ReadsInv
<1> SUFFICES ASSUME Init PROVE ReadsInv
  OBVIOUS
<1>1. DOMAIN frames = {}
  BY EmptySeq DEF Init
<1>2. "PostTx" \in ForkIds /\ Persistent \subseteq Locations
  BY DbAssumption DEF ForkIds
<1>3. SharedAlike
  BY <1>1, <1>2, NewLoads DEF Init, SharedAlike
<1>4. SeenAsExpected
  BY <1>2, NewLoads DEF Init, SeenAsExpected
<1>5. LeftAsExpected
  BY NewLoads DEF Init, LeftAsExpected, TargetState
<1>6. QED
  BY <1>1, <1>3, <1>4, <1>5 DEF ReadsInv, UntornAsExpected

LEMMA TransactReads == ForkInv /\ ReadsInv /\ Transact => ReadsInv'
<1> SUFFICES ASSUME Transact PROVE ReadsInv'
  OBVIOUS
<1> DEFINE frame == [journal_i |-> 1, saved |-> Fresh, switched |-> FALSE]
<1>1. frames' = <<frame>> /\ DOMAIN frames' = {1} /\ frames'[1] = frame
  BY DEF Transact
<1>2. "PostTx" \in ForkIds /\ Persistent \subseteq Locations
  BY DbAssumption DEF ForkIds
<1>3. /\ active_fork_id' = "PostTx" /\ expected' = Fresh
      /\ inactive' = [fork \in ForkIds |-> None]
      /\ journaled_state' = Checkpoint(NewJournaledState)
  BY DEF Transact
<1>4. 1 = Len(NewJournaledState.journal) /\ 1 \in 1..Len(NewJournaledState.journal)
      /\ NewJournaledState \in JournaledState
  BY NewJournaledStateIs
<1>5. ASSUME NEW loc \in Locations
      PROVE  /\ Load(Checkpoint(NewJournaledState), "PostTx", loc) = Fresh["PostTx"][loc]
             /\ Reverted(Checkpoint(NewJournaledState), 1, "PostTx", loc) = Fresh["PostTx"][loc]
  <2> DEFINE js == NewJournaledState
  <2>1. Load(js, "PostTx", loc) = Fresh["PostTx"][loc]
    BY <1>2, NewLoads
  <2>2. js \in JournaledState /\ 1 = Len(js.journal) /\ 1 \in 1..Len(js.journal)
    BY <1>4
  <2> HIDE DEF js
  <2>3. /\ Load(Checkpoint(js), "PostTx", loc) = Load(js, "PostTx", loc)
        /\ Reverted(Checkpoint(js), 1, "PostTx", loc) = Load(js, "PostTx", loc)
    BY <1>2, <2>2, CheckpointReverted
  <2>4. QED
    BY <2>1, <2>3 DEF js
<1>6. SharedAlike'
  BY <1>1, <1>2, <1>3, NewLoads DEF SharedAlike
<1>7. SeenAsExpected'
  BY <1>3, <1>5 DEF SeenAsExpected
<1>8. LeftAsExpected'
  BY <1>3, NewLoads DEF LeftAsExpected, TargetState
<1>9. RevertsAsExpected(1)'
  BY <1>1, <1>3, <1>5 DEF RevertsAsExpected
<1>10. QED
  BY <1>1, <1>6, <1>7, <1>8, <1>9 DEF ReadsInv, UntornAsExpected

LEMMA ReadReads == \A loc \in Locations : ForkInv /\ ReadsInv /\ Read(loc) => ReadsInv'
<1> SUFFICES ASSUME NEW loc \in Locations, ForkInv, ReadsInv, Read(loc) PROVE ReadsInv'
  OBVIOUS
<1>1. /\ UNCHANGED <<active_fork_id, inactive, frames, expected, torn>>
      /\ journaled_state' = Loaded(journaled_state, active_fork_id, loc)
  BY DEF Read
<1>2. /\ active_fork_id \in ForkIds /\ journaled_state \in JournaledState
      /\ \A n \in DOMAIN frames : frames[n].journal_i \in Nat
  BY TypesOf
<1>3. ASSUME NEW l \in Locations
      PROVE  /\ Load(journaled_state', active_fork_id, l) = Load(journaled_state, active_fork_id, l)
             /\ \A n \in DOMAIN frames :
                  Reverted(journaled_state', frames[n].journal_i, active_fork_id, l)
                    = Reverted(journaled_state, frames[n].journal_i, active_fork_id, l)
  BY <1>1, <1>2, LoadedReverted
<1>4. SharedAlike'
  <2>1. \A l \in Locations : journaled_state'.state[l] = None => journaled_state.state[l] = None
    <3>1. Load(journaled_state, active_fork_id, loc) # None
      BY <1>2, LoadType, NoneAssumption
    <3>2. QED
      BY <1>1, <1>2, <3>1 DEF Loaded, JournaledState
  <2>2. QED
    BY <1>1, <2>1, DbAssumption DEF ReadsInv, SharedAlike
<1>5. ASSUME ~ torn PROVE UntornAsExpected'
  <2>1. UntornAsExpected
    BY <1>5 DEF ReadsInv
  <2>2. SeenAsExpected'
    BY <1>1, <1>3, <2>1 DEF UntornAsExpected, SeenAsExpected
  <2>3. LeftAsExpected'
    BY <1>1, <2>1 DEF UntornAsExpected, LeftAsExpected, TargetState
  <2>4. ASSUME NEW n \in DOMAIN frames, RevertsAsExpected(n) PROVE RevertsAsExpected(n)'
    BY <1>1, <1>3, <2>4 DEF RevertsAsExpected
  <2>5. QED
    BY <1>1, <2>1, <2>2, <2>3, <2>4 DEF UntornAsExpected, Unswitched
<1>6. QED
  BY <1>1, <1>4, <1>5 DEF ReadsInv

LEMMA WriteReads ==
    \A loc \in Locations, v \in Values : ForkInv /\ ReadsInv /\ Write(loc, v) => ReadsInv'
<1> SUFFICES ASSUME NEW loc \in Locations, NEW v \in Values, ForkInv, ReadsInv, Write(loc, v)
             PROVE ReadsInv'
  OBVIOUS
<1> DEFINE value == [on |-> active_fork_id, v |-> v]
<1>1. /\ UNCHANGED <<active_fork_id, inactive, frames, torn>>
      /\ journaled_state' = Store(journaled_state, active_fork_id, loc, value)
      /\ expected' = [fork \in ForkIds |->
                        IF loc \in Persistent \/ fork = active_fork_id
                        THEN [expected[fork] EXCEPT ![loc] = value] ELSE expected[fork]]
  BY DEF Write
<1>2. /\ active_fork_id \in ForkIds
      /\ journaled_state \in JournaledState /\ journaled_state.journal # <<>>
      /\ expected \in [ForkIds -> [Locations -> Value]]
      /\ \A n \in DOMAIN frames :
            frames[n].journal_i \in 1..(Len(journaled_state.journal) - 1)
  BY TypesOf
<1>3. value \in Value /\ value.on = active_fork_id
  BY <1>2 DEF Value
<1> HIDE DEF value
<1>4. value # None
  BY <1>3, NoneAssumption
<1>5. \A f \in ForkIds : \A l \in Locations :
        expected'[f][l] = IF l = loc /\ (loc \in Persistent \/ f = active_fork_id)
                          THEN value ELSE expected[f][l]
  BY <1>1, <1>2
<1>6. journaled_state'.state = [journaled_state.state EXCEPT ![loc] = value]
  BY <1>1 DEF Store
<1>7. \A l \in Locations :
        journaled_state'.state[l] = IF l = loc THEN value ELSE journaled_state.state[l]
  BY <1>2, <1>6 DEF JournaledState
<1>8. SharedAlike'
  <2> SUFFICES ASSUME NEW l \in Persistent
               PROVE  /\ \A f, g \in ForkIds : expected'[f][l] = expected'[g][l]
                      /\ journaled_state'.state[l] = None =>
                            \A f \in ForkIds : inactive[f] # None => inactive[f].state[l] = None
    BY <1>1 DEF ReadsInv, SharedAlike
  <2>1. l \in Locations
    BY DbAssumption
  <2>2. \A f, g \in ForkIds : expected'[f][l] = expected'[g][l]
    BY <1>5, <2>1 DEF ReadsInv, SharedAlike
  <2>3. journaled_state'.state[l] = None => journaled_state.state[l] = None
    BY <1>4, <1>7, <2>1
  <2>4. QED
    BY <2>2, <2>3 DEF ReadsInv, SharedAlike
<1>9. ASSUME ~ torn PROVE UntornAsExpected'
  <2>1. UntornAsExpected
    BY <1>9 DEF ReadsInv
  <2>2. SeenAsExpected'
    BY <1>1, <1>2, <1>4, <1>5, <1>7, <2>1 DEF UntornAsExpected, SeenAsExpected, Load
  <2>3. LeftAsExpected'
    BY <1>1, <1>5, <2>1 DEF UntornAsExpected, LeftAsExpected, TargetState
  <2>4. ASSUME NEW n \in DOMAIN frames, RevertsAsExpected(n) PROVE RevertsAsExpected(n)'
    <3>1. \A l \in Locations :
            Reverted(journaled_state', frames[n].journal_i, active_fork_id, l)
                = Reverted(journaled_state, frames[n].journal_i, active_fork_id, l)
      BY <1>1, <1>2, <1>3, StoreReverted
    <3>2. QED
      BY <1>1, <1>5, <2>4, <3>1 DEF RevertsAsExpected
  <2>5. QED
    BY <1>1, <2>1, <2>2, <2>3, <2>4 DEF UntornAsExpected, Unswitched
<1>10. QED
  BY <1>1, <1>8, <1>9 DEF ReadsInv

LEMMA CallReads == ForkInv /\ ReadsInv /\ Call => ReadsInv'
<1> SUFFICES ASSUME ForkInv, ReadsInv, Call PROVE ReadsInv'
  OBVIOUS
<1> DEFINE top == [journal_i |-> Len(journaled_state.journal), saved |-> expected,
                   switched |-> FALSE]
           len == Len(frames)
<1>1. /\ UNCHANGED <<active_fork_id, inactive, expected, torn>>
      /\ frames' = Append(frames, top)
      /\ journaled_state' = Checkpoint(journaled_state)
  BY DEF Call
<1>2. /\ active_fork_id \in ForkIds
      /\ journaled_state \in JournaledState /\ Len(journaled_state.journal) \in Nat
      /\ frames \in Seq(Frame) /\ len \in Nat /\ DOMAIN frames = 1..len
      /\ expected \in [ForkIds -> [Locations -> Value]]
      /\ \A n \in DOMAIN frames :
            frames[n].journal_i \in 1..(Len(journaled_state.journal) - 1)
  BY TypesOf
<1>3. top \in Frame /\ Len(journaled_state.journal) \in 1..Len(journaled_state.journal)
  <2>1. Len(journaled_state.journal) # 0
    BY EmptySeq DEF ForkInv, TypeOK, JournaledState
  <2>2. QED
    BY <1>2, <2>1 DEF Frame
<1>4. /\ frames' \in Seq(Frame) /\ Len(frames') = len + 1
      /\ \A n \in 1..len : frames'[n] = frames[n]
      /\ frames'[len + 1] = top
  BY <1>1, <1>2, <1>3, AppendProperties
<1>5. DOMAIN frames' = 1..(len + 1)
  BY <1>4, LenProperties
<1>6. \A n \in DOMAIN frames' : n \in DOMAIN frames \/ n = len + 1
  BY <1>2, <1>5
<1>7. \A n \in DOMAIN frames : n \in DOMAIN frames' /\ frames'[n] = frames[n]
  BY <1>2, <1>4, <1>5
<1>8. top.journal_i = Len(journaled_state.journal) /\ top.saved = expected
  OBVIOUS
<1>9. \A n \in DOMAIN frames : frames[n].journal_i \in 1..Len(journaled_state.journal)
  BY <1>2
<1> HIDE DEF top, len
<1>10. ASSUME NEW l \in Locations
       PROVE  /\ Load(journaled_state', active_fork_id, l) = Load(journaled_state, active_fork_id, l)
              /\ \A n \in DOMAIN frames :
                   Reverted(journaled_state', frames[n].journal_i, active_fork_id, l)
                     = Reverted(journaled_state, frames[n].journal_i, active_fork_id, l)
              /\ Reverted(journaled_state', top.journal_i, active_fork_id, l)
                   = Load(journaled_state, active_fork_id, l)
  BY <1>1, <1>2, <1>3, <1>8, <1>9, CheckpointReverted
<1>11. SharedAlike'
  <2>1. journaled_state'.state = journaled_state.state
    BY <1>1 DEF Checkpoint
  <2>2. QED
    BY <1>1, <1>4, <1>6, <1>7, <1>8, <2>1 DEF ReadsInv, SharedAlike
<1>12. ASSUME ~ torn PROVE UntornAsExpected'
  <2>1. UntornAsExpected
    BY <1>12 DEF ReadsInv
  <2>2. SeenAsExpected'
    BY <1>1, <1>10, <2>1 DEF UntornAsExpected, SeenAsExpected
  <2>3. LeftAsExpected'
    BY <1>1, <2>1 DEF UntornAsExpected, LeftAsExpected, TargetState
  <2>4. ASSUME NEW n, n = len + 1 PROVE RevertsAsExpected(n)'
    BY <2>4, <1>1, <1>4, <1>8, <1>10, <2>1 DEF UntornAsExpected, SeenAsExpected, RevertsAsExpected
  <2>5. ASSUME NEW n \in DOMAIN frames, Unswitched(n)' PROVE RevertsAsExpected(n)'
    <3>1. Unswitched(n)
      BY <1>7, <2>5 DEF Unswitched
    <3>2. RevertsAsExpected(n)
      BY <2>1, <3>1 DEF UntornAsExpected
    <3>3. QED
      BY <1>1, <1>7, <1>10, <3>2 DEF RevertsAsExpected
  <2>6. QED
    BY <1>6, <2>2, <2>3, <2>4, <2>5 DEF UntornAsExpected
<1>13. QED
  BY <1>1, <1>11, <1>12 DEF ReadsInv

\* A call that is still open after the innermost one was closed, and since
\* which nobody has switched, was so before; the innermost one had not either.
LEMMA UnswitchedBefore ==
    ASSUME ForkInv, frames # <<>>, CloseFrame, NEW n \in DOMAIN frames'
    PROVE  /\ n \in DOMAIN frames /\ n < Len(frames) /\ Len(frames) \in DOMAIN frames
           /\ frames'[n].journal_i = frames[n].journal_i
           /\ frames'[n].saved = frames[n].saved
           /\ Unswitched(n)' => Unswitched(n) /\ Unswitched(Len(frames))
<1> DEFINE len == Len(frames)
<1>1. frames \in Seq(Frame) /\ DOMAIN frames = 1..len
  BY TypesOf
<1>2. /\ frames' \in Seq(Frame) /\ len \in Nat \ {0} /\ Len(frames') = len - 1
      /\ \A k \in 1..(len - 1) :
            /\ frames'[k].journal_i = frames[k].journal_i
            /\ frames'[k].saved = frames[k].saved
            /\ frames[k].switched => frames'[k].switched
            /\ k = len - 1 /\ frames[len].switched => frames'[k].switched
  BY <1>1, CloseFrameIs
<1>3. DOMAIN frames' = 1..(len - 1)
  BY <1>2, LenProperties
<1> HIDE DEF len
<1>4. n \in 1..(len - 1) /\ len - 1 \in 1..(len - 1) /\ len - 1 >= n
  BY <1>2, <1>3
<1>5. ASSUME Unswitched(n)' PROVE \A m \in 1..len : m >= n => ~ frames[m].switched
  <2> SUFFICES ASSUME NEW m \in 1..len, m >= n PROVE ~ frames[m].switched
    OBVIOUS
  <2>1. CASE m = len
    <3>1. ~ frames'[len - 1].switched
      BY <1>3, <1>4, <1>5 DEF Unswitched
    <3>2. QED
      BY <1>2, <1>4, <2>1, <3>1
  <2>2. CASE m # len
    <3>1. m \in 1..(len - 1)
      BY <1>2, <2>2
    <3>2. ~ frames'[m].switched
      BY <1>3, <1>5, <3>1 DEF Unswitched
    <3>3. QED
      BY <1>2, <3>1, <3>2
  <2>3. QED
    BY <2>1, <2>2
<1>6. n \in 1..len /\ n < len /\ len \in 1..len /\ \A m \in 1..len : m >= len => m >= n
  BY <1>2, <1>4
<1>7. QED
  BY <1>1, <1>2, <1>4, <1>5, <1>6 DEF Unswitched, len

LEMMA ReturnReads == ForkInv /\ ReadsInv /\ Return => ReadsInv'
<1> SUFFICES ASSUME ForkInv, ReadsInv, Return PROVE ReadsInv'
  OBVIOUS
<1>1. /\ UNCHANGED <<active_fork_id, inactive, expected, torn>>
      /\ frames # <<>> /\ CloseFrame
      /\ journaled_state' = [journaled_state EXCEPT !.depth = @ - 1]
  BY DEF Return
<1>2. journaled_state \in JournaledState
  BY TypesOf
<1>3. journaled_state'.state = journaled_state.state
      /\ journaled_state'.journal = journaled_state.journal
  BY <1>1, <1>2 DEF JournaledState
<1>4. \A fork, loc : Load(journaled_state', fork, loc) = Load(journaled_state, fork, loc)
  BY <1>3 DEF Load
<1>5. ASSUME NEW journal_i, NEW fork, NEW loc \in Locations
      PROVE  Reverted(journaled_state', journal_i, fork, loc)
                = Reverted(journaled_state, journal_i, fork, loc)
  <2>1. EntriesFrom(journaled_state', journal_i, loc) = EntriesFrom(journaled_state, journal_i, loc)
    BY <1>3 DEF EntriesFrom
  <2>2. Undone(journaled_state', journal_i, loc) = Undone(journaled_state, journal_i, loc)
    BY <1>3, <2>1 DEF Undone
  <2>3. QED
    BY <2>2, RevertedIs
<1>6. SharedAlike'
  BY <1>1, <1>3, UnswitchedBefore DEF ReadsInv, SharedAlike
<1>7. ASSUME ~ torn PROVE UntornAsExpected'
  <2>1. UntornAsExpected
    BY <1>7 DEF ReadsInv
  <2>2. SeenAsExpected'
    BY <1>1, <1>4, <2>1 DEF UntornAsExpected, SeenAsExpected
  <2>3. LeftAsExpected'
    BY <1>1, <2>1 DEF UntornAsExpected, LeftAsExpected, TargetState
  <2>4. ASSUME NEW n \in DOMAIN frames', Unswitched(n)' PROVE RevertsAsExpected(n)'
    <3>1. n \in DOMAIN frames /\ Unswitched(n)
          /\ frames'[n].journal_i = frames[n].journal_i /\ frames'[n].saved = frames[n].saved
      BY <1>1, <2>4, UnswitchedBefore
    <3>2. RevertsAsExpected(n)
      BY <2>1, <3>1 DEF UntornAsExpected
    <3>3. QED
      BY <1>1, <1>5, <3>1, <3>2 DEF RevertsAsExpected
  <2>5. QED
    BY <2>2, <2>3, <2>4 DEF UntornAsExpected
<1>8. QED
  BY <1>1, <1>6, <1>7 DEF ReadsInv

\* A revert forgets no account that was loaded.
LEMMA UndoneKeepsLoaded ==
    ASSUME NEW js \in JournaledState, NEW journal_i \in Nat, NEW loc \in Locations,
           Undone(js, journal_i, loc) = None
    PROVE  js.state[loc] = None
<1> SUFFICES ASSUME NEW k, NEW n, FirstRecorded(js, journal_i, k, n, loc),
                    Undone(js, journal_i, loc) = js.journal[k][n].had
             PROVE  FALSE
  BY UndoneCases
<1>1. js.journal[k][n] \in Entry
  BY RecordedType DEF FirstRecorded
<1>2. QED
  BY <1>1, NoneAssumption DEF Entry

LEMMA RevertReads == ForkInv /\ ReadsInv /\ Revert => ReadsInv'
<1> SUFFICES ASSUME ForkInv, ReadsInv, Revert PROVE ReadsInv'
  OBVIOUS
<1> DEFINE len   == Len(frames)
           frame == frames[len]
<1>1. /\ UNCHANGED <<active_fork_id, inactive>>
      /\ frames # <<>> /\ CloseFrame
      /\ journaled_state' = RevertTo(journaled_state, frame.journal_i)
      /\ expected' = frame.saved
      /\ torn' = (torn \/ frame.switched)
  BY DEF Revert
<1>2. /\ active_fork_id \in ForkIds /\ journaled_state \in JournaledState
      /\ Len(journaled_state.journal) \in Nat
      /\ frames \in Seq(Frame) /\ len \in Nat /\ DOMAIN frames = 1..len
      /\ \A n \in DOMAIN frames :
            /\ frames[n].journal_i \in 1..(Len(journaled_state.journal) - 1)
            /\ frames[n].journal_i \in Nat
  BY TypesOf
<1>3. len # 0 /\ journaled_state.depth # 0
  BY <1>1, <1>2, EmptySeq DEF ForkInv, CheckpointsCovered
<1>4. len \in DOMAIN frames
  BY <1>2, <1>3
<1>5. frame.journal_i \in 1..Len(journaled_state.journal) /\ frame.journal_i \in Nat
  BY <1>2, <1>4
<1>6. \A n \in DOMAIN frames : n < len => frames[n].journal_i \in 1..frame.journal_i
  <2> SUFFICES ASSUME NEW n \in DOMAIN frames, n < len
               PROVE  frames[n].journal_i \in 1..frame.journal_i
    OBVIOUS
  <2>1. frames[n].journal_i < frame.journal_i
    BY <1>4 DEF ForkInv, CheckpointsCovered
  <2>2. QED
    BY <1>2, <1>5, <2>1
<1> HIDE DEF frame
<1>7. \A loc \in Locations : Load(journaled_state', active_fork_id, loc)
                                = Reverted(journaled_state, frame.journal_i, active_fork_id, loc)
  BY <1>1 DEF Reverted
<1>8. \A n \in DOMAIN frames : n < len => \A loc \in Locations :
        Reverted(journaled_state', frames[n].journal_i, active_fork_id, loc)
            = Reverted(journaled_state, frames[n].journal_i, active_fork_id, loc)
  BY <1>1, <1>2, <1>3, <1>5, <1>6, RevertedTwice
<1>9. SharedAlike'
  <2> SUFFICES ASSUME NEW loc \in Persistent
               PROVE  /\ \A f, g \in ForkIds : expected'[f][loc] = expected'[g][loc]
                      /\ \A n \in DOMAIN frames' : \A f, g \in ForkIds :
                            frames'[n].saved[f][loc] = frames'[n].saved[g][loc]
                      /\ journaled_state'.state[loc] = None =>
                            \A f \in ForkIds : inactive[f] # None => inactive[f].state[loc] = None
    BY <1>1 DEF SharedAlike
  <2>1. loc \in Locations
    BY DbAssumption
  <2>2. \A n \in DOMAIN frames : \A f, g \in ForkIds : frames[n].saved[f][loc] = frames[n].saved[g][loc]
    BY DEF ReadsInv, SharedAlike
  <2>3. \A f, g \in ForkIds : expected'[f][loc] = expected'[g][loc]
    BY <1>1, <1>4, <2>2 DEF frame
  <2>4. \A n \in DOMAIN frames' : \A f, g \in ForkIds :
            frames'[n].saved[f][loc] = frames'[n].saved[g][loc]
    BY <1>1, <2>2, UnswitchedBefore
  <2>5. journaled_state'.state[loc] = None => journaled_state.state[loc] = None
    <3>1. journaled_state'.state[loc] = Undone(journaled_state, frame.journal_i, loc)
      BY <1>1, <2>1 DEF RevertTo
    <3>2. QED
      BY <1>2, <1>5, <2>1, <3>1, UndoneKeepsLoaded
  <2>6. QED
    BY <2>3, <2>4, <2>5 DEF ReadsInv, SharedAlike
<1>10. ASSUME ~ torn' PROVE UntornAsExpected'
  <2>1. ~ torn /\ ~ frame.switched
    BY <1>1, <1>10
  <2>2. UntornAsExpected
    BY <2>1 DEF ReadsInv
  <2>3. Unswitched(len)
    <3>1. \A m \in 1..len : m >= len => m = len
      <4>1. len \in Nat
        BY <1>2
      <4> HIDE DEF len
      <4> QED
        BY <4>1
    <3>2. QED
      BY <1>2, <2>1, <3>1 DEF Unswitched, frame
  <2>4. RevertsAsExpected(len)
    BY <1>4, <2>2, <2>3 DEF UntornAsExpected
  <2>5. SeenAsExpected'
    BY <1>1, <1>7, <2>4 DEF RevertsAsExpected, SeenAsExpected, frame
  <2>6. \A f \in ForkIds \ {active_fork_id} : \A loc \in Locations \ Persistent :
            expected'[f][loc] = expected[f][loc]
    BY <1>1, <2>4 DEF RevertsAsExpected, frame
  <2>7. LeftAsExpected'
    BY <1>1, <2>2, <2>6 DEF UntornAsExpected, LeftAsExpected, TargetState
  <2>8. ASSUME NEW n \in DOMAIN frames', Unswitched(n)' PROVE RevertsAsExpected(n)'
    <3>1. n \in DOMAIN frames /\ n < len /\ Unswitched(n)
          /\ frames'[n].journal_i = frames[n].journal_i /\ frames'[n].saved = frames[n].saved
      BY <1>1, <2>8, UnswitchedBefore
    <3>2. RevertsAsExpected(n)
      BY <2>2, <3>1 DEF UntornAsExpected
    <3>3. QED
      BY <1>1, <1>8, <2>6, <3>1, <3>2 DEF RevertsAsExpected
  <2>9. QED
    BY <2>5, <2>7, <2>8 DEF UntornAsExpected
<1>11. QED
  BY <1>9, <1>10 DEF ReadsInv

LEMMA SwitchForkReads ==
    \A fork \in ForkIds : ForkInv /\ ReadsInv /\ SwitchFork(fork) => ReadsInv'
<1> SUFFICES ASSUME NEW fork \in ForkIds, ForkInv, ReadsInv, SwitchFork(fork) PROVE ReadsInv'
  OBVIOUS
<1>1. CASE fork = active_fork_id
  <2>1. UNCHANGED <<active_fork_id, journaled_state, inactive, frames, expected, torn>>
    BY <1>1 DEF SwitchFork
  <2>2. QED
    BY <2>1 DEF ReadsInv, SharedAlike, UntornAsExpected, SeenAsExpected, LeftAsExpected,
                TargetState, Unswitched, RevertsAsExpected
<1>2. CASE fork # active_fork_id
  <2> DEFINE target == TargetState(fork)
             len    == Len(frames)
  <2>1. /\ UNCHANGED <<expected, torn>> /\ frames # <<>> /\ active_fork_id' = fork
        /\ journaled_state' = UpdateJournaledState(journaled_state, target)
        /\ inactive' = [inactive EXCEPT ![fork] = None, ![active_fork_id] = journaled_state]
        /\ frames' = [frames EXCEPT ![len].switched = TRUE]
    BY <1>2 DEF SwitchFork, Step
  <2>2. /\ active_fork_id \in ForkIds /\ journaled_state \in JournaledState
        /\ target \in JournaledState
        /\ inactive \in [ForkIds -> JournaledState \cup {None}]
        /\ frames \in Seq(Frame) /\ len \in Nat /\ DOMAIN frames = 1..len
        /\ \A n \in DOMAIN frames : frames[n] \in Frame
        /\ Persistent \subseteq Locations
    BY TypesOf, DbAssumption
  <2>3. len \in DOMAIN frames /\ journaled_state # None
    BY <2>1, <2>2, EmptySeq, NoneAssumption
  <2>4. /\ DOMAIN frames' = DOMAIN frames /\ frames'[len].switched = TRUE
        /\ \A n \in DOMAIN frames : frames'[n].saved = frames[n].saved
    BY <2>1, <2>2, <2>3 DEF Frame
  <2>5. \A loc \in Locations : journaled_state'.state[loc] =
            IF loc \in Persistent
            THEN IF journaled_state.state[loc] # None THEN journaled_state.state[loc]
                 ELSE target.state[loc]
            ELSE target.state[loc]
    BY <2>1 DEF UpdateJournaledState, Merged
  <2>6. \A loc \in Persistent : journaled_state.state[loc] = None => target.state[loc] = None
    <3>1. \A loc \in Locations : NewJournaledState.state[loc] = None
      BY DEF NewJournaledState
    <3>2. QED
      BY <2>2, <3>1 DEF ReadsInv, SharedAlike, TargetState
  <2>7. inactive'[fork] = None /\ inactive'[active_fork_id] = journaled_state
        /\ \A f \in ForkIds : f = fork \/ f = active_fork_id
    BY <1>2, <2>1, <2>2 DEF ForkIds
  <2> HIDE DEF target, len
  <2>8. SharedAlike'
    BY <2>1, <2>2, <2>4, <2>5, <2>7 DEF ReadsInv, SharedAlike
  <2>9. ASSUME ~ torn PROVE UntornAsExpected'
    <3>1. UntornAsExpected
      BY <2>9 DEF ReadsInv
    <3>2. ASSUME NEW loc \in Locations
          PROVE  Load(journaled_state', fork, loc) = expected[fork][loc]
      <4>1. CASE loc \in Persistent
        <5>1. Load(journaled_state', fork, loc) = Load(journaled_state, active_fork_id, loc)
          BY <2>5, <2>6, <4>1, SharedDbValue DEF Load
        <5>2. expected[fork][loc] = expected[active_fork_id][loc]
          BY <2>2, <4>1 DEF ReadsInv, SharedAlike
        <5>3. QED
          BY <3>1, <5>1, <5>2 DEF UntornAsExpected, SeenAsExpected
      <4>2. CASE loc \notin Persistent
        <5>1. Load(journaled_state', fork, loc) = Load(target, fork, loc)
          BY <2>5, <4>2 DEF Load
        <5>2. QED
          BY <1>2, <3>1, <4>2, <5>1 DEF UntornAsExpected, LeftAsExpected, target
      <4>3. QED
        BY <4>1, <4>2
    <3>3. SeenAsExpected'
      BY <2>1, <3>2 DEF SeenAsExpected
    <3>4. LeftAsExpected'
      BY <2>1, <2>3, <2>7, <3>1
         DEF UntornAsExpected, SeenAsExpected, LeftAsExpected, TargetState
    <3>5. \A n \in DOMAIN frames' : ~ Unswitched(n)'
      <4>1. \A n \in 1..len : len >= n
        BY <2>2
      <4>2. QED
        BY <2>2, <2>3, <2>4, <4>1 DEF Unswitched
    <3>6. QED
      BY <3>3, <3>4, <3>5 DEF UntornAsExpected
  <2>10. QED
    BY <2>1, <2>8, <2>9 DEF ReadsInv
<1>3. QED
  BY <1>1, <1>2

LEMMA ReadsInvStep == ForkInv /\ ReadsInv /\ [Next]_vars => ReadsInv'
<1> SUFFICES ASSUME ForkInv, ReadsInv, [Next]_vars PROVE ReadsInv'
  OBVIOUS
<1>1. CASE UNCHANGED vars
  BY <1>1 DEF vars, ReadsInv, SharedAlike, UntornAsExpected, SeenAsExpected, LeftAsExpected,
              TargetState, Unswitched, RevertsAsExpected
<1>2. CASE Next
  BY <1>2, TransactReads, CallReads, ReturnReads, RevertReads, ReadReads, WriteReads,
     SwitchForkReads DEF Next
<1>3. QED
  BY <1>1, <1>2

(***************************************************************************)
(* For every set of accounts, every pair of states and any nesting:        *)
(***************************************************************************)
\* The state of the MultiForkDb and of both journaled states keeps its types;
\* in particular the depth never goes below zero after a switch.
THEOREM ForkTypeCorrect == Spec => []TypeOK
<1>1. ForkInv => TypeOK
  BY DEF ForkInv
<1>2. QED
  BY <1>1, ForkInvariant, PTL

\* A checkpoint that an open call took on one fork lies within the journal of
\* the fork that is active when the call ends: the padding in
\* update_journaled_state suffices however switches, calls and reverts nest.
THEOREM OpenCheckpointsCovered == Spec => []CheckpointsCovered
<1>1. ForkInv => CheckpointsCovered
  BY DEF ForkInv
<1>2. QED
  BY <1>1, ForkInvariant, PTL

\* Reads and reverts on one fork never bring in a value of the other one
\* except for the persistent accounts.
THEOREM ForksIsolated == Spec => []ForksAreIsolated
<1>1. ForkInv => ForksAreIsolated
  BY DEF ForkInv
<1>2. QED
  BY <1>1, ForkInvariant, PTL

\* An assertion reads what it should on the active fork, through fork switches,
\* nested calls and reverts to any depth, as long as no call that switched
\* forks was reverted: the journal of a fork that is left and entered again
\* still undoes what it should.
THEOREM EveryReadAsExpected == Spec => []ReadsAsExpected
<1>1. ReadsInv => ReadsAsExpected
  BY DEF ReadsInv, UntornAsExpected, SeenAsExpected, ReadsAsExpected
<1>2. QED
  BY <1>1, ForkInvariant, ReadsInvInit, ReadsInvStep, PTL DEF Spec
==============================================================================
