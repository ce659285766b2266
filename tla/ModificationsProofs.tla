-------------------------- MODULE ModificationsProofs -------------------------
(***************************************************************************)
(* What the functions on an adopter's list of assertions preserve: the     *)
(* groups that apply_pending_modifications makes, and the lists that an    *)
(* insert and a whole group of modifications leave.                        *)
(*                                                                         *)
(* The loops are recursive functions over the positions of a sequence.     *)
(* What they compute is proved by induction on that position, with the     *)
(* induction hypothesis as a set of numbers.                               *)
(***************************************************************************)
EXTENDS Modifications, SequenceTheorems, WellFoundedInduction, TLAPS

(***************************************************************************)
(* Induction.                                                              *)
(***************************************************************************)
\* A set with 0 that is closed under successor up to k holds 0..k.
LEMMA Induction ==
    ASSUME NEW k \in Nat, NEW P, 0 \in P, \A n \in 1..k : n - 1 \in P => n \in P
    PROVE  (\A n \in 0..k : n \in P) /\ k \in P
<1> DEFINE Missing == {n \in 0..k : n \notin P}
<1>1. SUFFICES ASSUME Missing # {} PROVE FALSE
  OBVIOUS
<1>2. Missing \subseteq Nat
  OBVIOUS
<1>3. PICK n \in Missing : \A m \in Missing : ~ (<<m, n>> \in OpToRel(<, Nat))
  BY <1>1, <1>2, NatLessThanWellFounded, WFMin
<1>4. \A m \in Missing : ~ (m < n)
  <2> HIDE DEF Missing
  <2>1. QED
    BY <1>2, <1>3 DEF OpToRel
<1>5. n \in 1..k /\ n - 1 \in 0..k
  OBVIOUS
<1>6. n - 1 \in P
  BY <1>4, <1>5
<1>7. QED
  BY <1>5, <1>6

\* The lists that the loop makes, each from the one before.
LoopRun(after, assertions, modifications) ==
    /\ after[0] = assertions
    /\ \A n \in 1..Len(modifications) :
        after[n] = ApplyOne(after[n - 1], modifications[n])
    /\ ApplyAll(assertions, modifications) = after[Len(modifications)]

\* ApplyAll is the last of the lists that the loop of
\* apply_pending_modification makes, each from the one before.
LEMMA ApplyRun ==
    ASSUME NEW M, NEW assertions, NEW modifications \in Seq(M)
    PROVE  \E after : LoopRun(after, assertions, modifications)
<1> DEFINE k == Len(modifications)
           Run(n, f) == f = [m \in 0..n |-> IF m = 0 THEN assertions
                                            ELSE ApplyOne(f[m - 1], modifications[m])]
           P == {n \in 0..k : \E f : Run(n, f)}
<1>1. k \in Nat
  OBVIOUS
<1>2. 0 \in P
  <2> DEFINE f == [m \in 0..0 |-> assertions]
  <2>1. Run(0, f)
    OBVIOUS
  <2>2. 0 \in 0..k
    BY <1>1
  <2> HIDE DEF Run, f
  <2>3. QED
    BY <2>1, <2>2
<1>3. ASSUME NEW n \in 1..k, n - 1 \in P PROVE n \in P
  <2>1. PICK f : Run(n - 1, f)
    BY <1>3
  <2> DEFINE g == [m \in 0..n |-> IF m = n THEN ApplyOne(f[n - 1], modifications[n]) ELSE f[m]]
  <2>2. ASSUME NEW m \in 0..n
        PROVE  g[m] = IF m = 0 THEN assertions ELSE ApplyOne(g[m - 1], modifications[m])
    <3>1. CASE m = n
      <4>1. g[m] = ApplyOne(f[n - 1], modifications[n])
        BY <3>1
      <4>2. g[n - 1] = f[n - 1] /\ m # 0
        BY <3>1, <1>1
      <4>3. QED
        BY <3>1, <4>1, <4>2
    <3>2. CASE m # n
      <4>1. m \in 0..(n - 1) /\ g[m] = f[m]
        BY <3>2, <1>1
      <4>2. m # 0 => m - 1 \in 0..n /\ m - 1 # n /\ g[m - 1] = f[m - 1]
        BY <3>2, <1>1
      <4>3. f[m] = IF m = 0 THEN assertions ELSE ApplyOne(f[m - 1], modifications[m])
        BY <2>1, <4>1
      <4>4. QED
        BY <4>1, <4>2, <4>3
    <3>3. QED
      BY <3>1, <3>2
  <2>3. Run(n, g)
    BY <2>2
  <2>4. n \in 0..k
    BY <1>1
  <2> HIDE DEF Run, g
  <2>5. QED
    BY <2>3, <2>4
<1>4. k \in P
  <2> HIDE DEF P
  <2>1. QED
    BY <1>1, <1>2, <1>3, Induction
<1> DEFINE after == CHOOSE f : Run(k, f)
<1>5. Run(k, after)
  BY <1>4
<1>6. ApplyAll(assertions, modifications) = after[k]
  BY DEF ApplyAll
<1> HIDE DEF after
<1>7. after[0] = assertions /\ \A n \in 1..k : after[n] = ApplyOne(after[n - 1], modifications[n])
  BY <1>1, <1>5
<1>8. LoopRun(after, assertions, modifications)
  BY <1>6, <1>7 DEF LoopRun
<1>9. QED
  BY <1>8

\* What every pass of the loop preserves, the loop preserves.
LEMMA ApplyAllIn ==
    ASSUME NEW M, NEW S, NEW assertions \in S, NEW modifications \in Seq(M),
           \A list \in S, m \in M : ApplyOne(list, m) \in S
    PROVE  ApplyAll(assertions, modifications) \in S
<1> DEFINE k == Len(modifications)
<1>1. k \in Nat
  OBVIOUS
<1>2. PICK after : LoopRun(after, assertions, modifications)
  BY ApplyRun
<1> DEFINE P == {n \in 0..k : after[n] \in S}
<1>3. 0 \in P
  BY <1>1, <1>2 DEF LoopRun
<1>4. ASSUME NEW n \in 1..k, n - 1 \in P PROVE n \in P
  <2>1. n \in 0..k /\ after[n - 1] \in S /\ modifications[n] \in M
    BY <1>1, <1>4
  <2>2. ApplyOne(after[n - 1], modifications[n]) \in S
    BY <2>1
  <2>3. after[n] = ApplyOne(after[n - 1], modifications[n])
    BY <1>2 DEF LoopRun
  <2>4. QED
    BY <2>1, <2>2, <2>3
<1>5. k \in P
  <2> HIDE DEF P
  <2>1. QED
    BY <1>1, <1>3, <1>4, Induction
<1>6. QED
  BY <1>2, <1>5 DEF LoopRun

\* A group holds modifications of the batch it is made from.
LEMMA GroupType ==
    ASSUME NEW M, NEW batch \in Seq(M), NEW aa
    PROVE  ModificationsOf(batch, aa) \in Seq(M)
<1> DEFINE k == Len(batch)
           Step(g, n) == IF batch[n].adopter = aa THEN Append(g, batch[n]) ELSE g
           Run(n, f) == f = [m \in 0..n |-> IF m = 0 THEN <<>>
                                            ELSE IF batch[m].adopter = aa
                                            THEN Append(f[m - 1], batch[m]) ELSE f[m - 1]]
           P == {n \in 0..k : \E f : Run(n, f)}
<1>1. k \in Nat
  OBVIOUS
<1>2. 0 \in P
  <2> DEFINE f == [m \in 0..0 |-> <<>>]
  <2>1. Run(0, f)
    OBVIOUS
  <2>2. 0 \in 0..k
    BY <1>1
  <2> HIDE DEF Run, f
  <2>3. QED
    BY <2>1, <2>2
<1>3. ASSUME NEW n \in 1..k, n - 1 \in P PROVE n \in P
  <2>1. PICK f : Run(n - 1, f)
    BY <1>3
  <2> DEFINE g == [m \in 0..n |-> IF m = n THEN Step(f[n - 1], n) ELSE f[m]]
  <2>2. ASSUME NEW m \in 0..n
        PROVE  g[m] = IF m = 0 THEN <<>> ELSE Step(g[m - 1], m)
    <3>1. CASE m = n
      <4>1. g[m] = Step(f[n - 1], n)
        BY <3>1
      <4>2. g[n - 1] = f[n - 1] /\ m # 0
        BY <3>1, <1>1
      <4>3. QED
        BY <3>1, <4>1, <4>2
    <3>2. CASE m # n
      <4>1. m \in 0..(n - 1) /\ g[m] = f[m]
        BY <3>2, <1>1
      <4>2. m # 0 => m - 1 \in 0..n /\ m - 1 # n /\ g[m - 1] = f[m - 1]
        BY <3>2, <1>1
      <4>3. f[m] = IF m = 0 THEN <<>> ELSE Step(f[m - 1], m)
        BY <2>1, <4>1
      <4>4. QED
        BY <4>1, <4>2, <4>3
    <3>3. QED
      BY <3>1, <3>2
  <2>3. Run(n, g)
    BY <2>2
  <2>4. n \in 0..k
    BY <1>1
  <2> HIDE DEF Run, g
  <2>5. QED
    BY <2>3, <2>4
<1>4. k \in P
  <2> HIDE DEF P
  <2>1. QED
    BY <1>1, <1>2, <1>3, Induction
<1> DEFINE group == CHOOSE f : Run(k, f)
<1>5. Run(k, group)
  BY <1>4
<1>6. ModificationsOf(batch, aa) = group[k]
  BY DEF ModificationsOf
<1> HIDE DEF group
<1>7. \A n \in 0..k : group[n] = IF n = 0 THEN <<>> ELSE Step(group[n - 1], n)
  BY <1>5
<1> HIDE DEF Run, P
<1> DEFINE Q == {n \in 0..k : group[n] \in Seq(M)}
<1>8. 0 \in Q
  <2>1. 0 \in 0..k /\ <<>> \in Seq(M)
    BY <1>1
  <2>2. group[0] = <<>>
    BY <1>7, <2>1
  <2>3. QED
    BY <2>1, <2>2
<1>9. ASSUME NEW n \in 1..k, n - 1 \in Q PROVE n \in Q
  <2>1. n \in 0..k /\ batch[n] \in M /\ group[n - 1] \in Seq(M)
    BY <1>1, <1>9
  <2>2. Step(group[n - 1], n) \in Seq(M)
    BY <2>1
  <2>3. group[n] = Step(group[n - 1], n)
    BY <1>1, <1>7
  <2>4. QED
    BY <2>1, <2>2, <2>3
<1>10. k \in Q
  <2> HIDE DEF Q
  <2>1. QED
    BY <1>1, <1>8, <1>9, Induction
<1>11. QED
  BY <1>6, <1>10

(***************************************************************************)
(* One list.                                                               *)
(***************************************************************************)
\* No two states of a list have the same id.
UniqueIds(list) == \A m, n \in DOMAIN list : list[m].id = list[n].id => m = n

Lists == {list \in Seq(AssertionState) : UniqueIds(list)}

\* What find returns in a list without duplicates.
LEMMA FindUnique ==
    ASSUME NEW list \in Lists, NEW id
    PROVE  /\ Find(list, id) = {n \in DOMAIN list : list[n].id = id}
           /\ \A n \in Find(list, id) : Find(list, id) = {n}
<1>1. \A m, n \in DOMAIN list : list[m].id = id /\ list[n].id = id => m = n /\ m <= n
  BY DEF Lists, UniqueIds
<1>2. Find(list, id) = {n \in DOMAIN list : list[n].id = id}
  BY <1>1 DEF Find
<1>3. QED
  BY <1>1, <1>2

\* Find-or-push: a list gets a state at the end, if its id is new.
LEMMA PushType ==
    ASSUME NEW list \in Lists, NEW state \in AssertionState, Find(list, state.id) = {}
    PROVE  Append(list, state) \in Lists
<1>1. \A n \in DOMAIN list : list[n].id # state.id
  BY FindUnique
<1>2. /\ Append(list, state) \in Seq(AssertionState)
      /\ DOMAIN Append(list, state) = 1..(Len(list) + 1)
      /\ \A n \in 1..(Len(list) + 1) :
            Append(list, state)[n] = IF n = Len(list) + 1 THEN state ELSE list[n]
  BY DEF Lists
<1>3. Len(list) \in Nat /\ DOMAIN list = 1..Len(list)
  BY DEF Lists
<1>4. UniqueIds(Append(list, state))
  BY <1>1, <1>2, <1>3 DEF UniqueIds, Lists
<1>5. QED
  BY <1>2, <1>4 DEF Lists

\* Find-or-push: a state is replaced by one with its id.
LEMMA ReplaceType ==
    ASSUME NEW list \in Lists, NEW found, NEW new,
           \A n \in DOMAIN list : n \in found => new[n] \in AssertionState /\ new[n].id = list[n].id
    PROVE  [n \in DOMAIN list |-> IF n \in found THEN new[n] ELSE list[n]] \in Lists
<1> DEFINE after == [n \in DOMAIN list |-> IF n \in found THEN new[n] ELSE list[n]]
<1>1. Len(list) \in Nat /\ DOMAIN list = 1..Len(list)
  BY DEF Lists
<1>2. \A n \in DOMAIN list : after[n] \in AssertionState /\ after[n].id = list[n].id
  BY DEF Lists
<1>3. after \in Seq(AssertionState) /\ DOMAIN after = DOMAIN list
  BY <1>1, <1>2
<1> HIDE DEF after
<1>4. UniqueIds(after)
  BY <1>2, <1>3 DEF UniqueIds, Lists
<1>5. after \in Lists
  BY <1>3, <1>4 DEF Lists
<1>6. QED
  BY <1>5 DEF after

\* A list stays a list under a modification.
LEMMA ApplyOneType ==
    ASSUME NEW list \in Lists, NEW m,
           m.kind \in {"Add", "Remove"}, m.id \in Ids, m.at \in Nat
    PROVE  ApplyOne(list, m) \in Lists
<1> DEFINE found == Find(list, m.id)
           Update(state) == IF m.kind = "Add"
                            THEN [state EXCEPT !.active_at_block = m.at]
                            ELSE [state EXCEPT !.inactive_at_block = m.at]
           added == [id |-> m.id, active_at_block |-> m.at, inactive_at_block |-> None]
           new == [n \in DOMAIN list |-> Update(list[n])]
<1>1. CASE found = {} /\ m.kind = "Add"
  <2>1. added \in AssertionState /\ added.id = m.id
    BY DEF AssertionState
  <2>2. Append(list, added) \in Lists
    BY <1>1, <2>1, PushType
  <2>3. QED
    BY <1>1, <2>2 DEF ApplyOne
<1>2. CASE ~ (found = {} /\ m.kind = "Add")
  <2>1. ASSUME NEW n \in DOMAIN list
        PROVE  new[n] \in AssertionState /\ new[n].id = list[n].id
    <3>1. list[n] \in AssertionState
      BY DEF Lists
    <3>2. Update(list[n]) \in AssertionState /\ Update(list[n]).id = list[n].id
      BY <3>1 DEF AssertionState
    <3>3. QED
      BY <3>2
  <2>2. ApplyOne(list, m) = [n \in DOMAIN list |-> IF n \in found THEN new[n] ELSE list[n]]
    BY <1>2 DEF ApplyOne
  <2> HIDE DEF found, new
  <2>3. QED
    BY <2>1, <2>2, ReplaceType
<1>3. QED
  BY <1>1, <1>2

\* A list stays a list under an insert.
LEMMA InsertType ==
    ASSUME NEW list \in Lists, NEW state \in AssertionState
    PROVE  InsertState(list, state) \in Lists
<1> DEFINE found == Find(list, state.id)
           new == [n \in DOMAIN list |-> state]
<1>1. CASE found = {}
  BY <1>1, PushType DEF InsertState
<1>2. CASE found # {}
  <2>1. \A n \in DOMAIN list : n \in found => new[n] \in AssertionState /\ new[n].id = list[n].id
    BY FindUnique
  <2>2. InsertState(list, state) = [n \in DOMAIN list |-> IF n \in found THEN new[n] ELSE list[n]]
    BY <1>2 DEF InsertState
  <2> HIDE DEF found, new
  <2>3. QED
    BY <2>1, <2>2, ReplaceType
<1>3. QED
  BY <1>1, <1>2

\* No entry reads as a list.
LEMMA OrEmptyType ==
    ASSUME NEW entry \in Lists \cup {None}
    PROVE  OrEmpty(entry) \in Lists
<1>1. <<>> \in Lists
  BY DEF Lists, UniqueIds
<1>2. QED
  BY <1>1 DEF OrEmpty
===============================================================================
