---------------------------- MODULE OverlayProofs ----------------------------
(***************************************************************************)
(* Committed values stay visible in the overlay cache, for any number of   *)
(* threads, databases, keys, commits and any capacity.                     *)
(***************************************************************************)
EXTENDS Overlay, TLAPS

\* What a commit inserts for an account is made of keys and values.
LEMMA EntriesAreWrites ==
    ASSUME NEW account \in Account
    PROVE  EntriesOf(account) \subseteq Write
<1> USE DEF Account, Write, TableKey
<1> DEFINE Entry(k, v) == [key |-> k, value |-> v, destroyed |-> account.selfdestructed]
<1>1. Entry(Basic(account.address), account.info) \in Write
  OBVIOUS
<1>2. ASSUME NEW c \in {account.code} \ {None}
      PROVE  Entry(CodeByHash(account.code_hash), c) \in Write
  OBVIOUS
<1>3. ASSUME NEW s \in {r \in Slots : account.storage[r] # None}
      PROVE  Entry(Storage(account.address, s), account.storage[s]) \in Write
  OBVIOUS
<1>4. QED
  BY <1>1, <1>2, <1>3 DEF EntriesOf

\* The initial state has the types.
LEMMA InitTypes == Init => TypeOK
BY OverlayAssumption DEF Init, TypeOK

\* Reads keep the types.
LEMMA ReadTypes ==
    ASSUME TypeOK, NEW t \in Threads,
           \/ \E k \in TableKey : Miss(t, k)
           \/ Fill(t) \/ NotFound(t)
    PROVE  TypeOK'
<1> USE OverlayAssumption DEF TypeOK
<1>1. CASE \E k \in TableKey : Miss(t, k)
  <2> PICK k \in TableKey : Miss(t, k)
    BY <1>1
  <2>1. k # None
    OBVIOUS
  <2> QED
    BY <2>1 DEF Miss
<1>2. CASE Fill(t)
  <2>1. reading[t] \in TableKey /\ underlying[t] \in Databases
    BY <1>2 DEF Fill, EndRead
  <2>2. overlay' \in [TableKey -> Values \cup {None}]
    BY <1>2, <2>1 DEF Fill, EndRead
  <2> QED
    BY <1>2, <2>2 DEF Fill, EndRead
<1>3. CASE NotFound(t)
  BY <1>3 DEF NotFound, EndRead
<1> QED
  BY <1>1, <1>2, <1>3

\* Commits keep the types.
LEMMA CommitTypes ==
    ASSUME TypeOK, NEW t \in Threads,
           \/ \E changes \in ChangeSets : CommitBegin(t, changes)
           \/ CommitAccount(t) \/ CommitInsert(t) \/ CommitEnd(t)
    PROVE  TypeOK'
<1> USE OverlayAssumption DEF TypeOK
<1>1. CASE \E changes \in ChangeSets : CommitBegin(t, changes)
  BY <1>1 DEF CommitBegin
<1>2. CASE CommitAccount(t)
  <2> PICK account \in accounts[t] :
        /\ accounts' = [accounts EXCEPT ![t] = @ \ {account}]
        /\ writes' = [writes EXCEPT ![t] = EntriesOf(account)]
        /\ excused' = excused \cup
                {Storage(account.address, s) : s \in {r \in Slots : account.selfdestructed}}
    BY <1>2 DEF CommitAccount
  <2>1. account \in Account
    OBVIOUS
  <2>2. EntriesOf(account) \subseteq Write
    BY <2>1, EntriesAreWrites
  <2>3. excused' \subseteq TableKey
    BY <2>1 DEF Account, TableKey
  <2> QED
    BY <1>2, <2>2, <2>3 DEF CommitAccount
<1>3. CASE CommitInsert(t)
  <2> PICK write \in writes[t] :
        /\ overlay' = [overlay EXCEPT ![write.key] = write.value]
        /\ writes' = [writes EXCEPT ![t] = @ \ {write}]
        /\ committed' = [committed EXCEPT ![write.key] = write.value]
        /\ excused' = IF Lost(write) THEN excused \cup {write.key}
                      ELSE excused \ {write.key}
    BY <1>3 DEF CommitInsert
  <2>1. write.key \in TableKey /\ write.value \in Values
    BY DEF Write
  <2> QED
    BY <1>3, <2>1 DEF CommitInsert
<1>4. CASE CommitEnd(t)
  BY <1>4 DEF CommitEnd
<1> QED
  BY <1>1, <1>2, <1>3, <1>4

\* Every step keeps the types.
LEMMA StepTypes == TypeOK /\ [Next]_vars => TypeOK'
<1> SUFFICES ASSUME TypeOK, [Next]_vars PROVE TypeOK'
  OBVIOUS
<1>1. CASE \E t \in Threads : ThreadStep(t)
  <2> PICK t \in Threads : ThreadStep(t)
    BY <1>1
  <2>1. CASE \E d \in Databases \cup {None} : ReplaceUnderlying(t, d)
    BY <2>1 DEF ReplaceUnderlying, TypeOK
  <2> QED
    BY <2>1, ReadTypes, CommitTypes DEF ThreadStep
<1>2. CASE \E k \in TableKey : Evict(k)
  BY <1>2 DEF Evict, TypeOK
<1>3. CASE InvalidateAll
  BY <1>3 DEF InvalidateAll, TypeOK
<1>4. CASE UNCHANGED vars
  BY <1>4 DEF vars, TypeOK
<1> QED
  BY <1>1, <1>2, <1>3, <1>4 DEF Next

\* The handles, the threads and the cache keep their types; a read under way
\* always has a key and a database.
THEOREM OverlayTypeCorrect == Spec => []TypeOK
BY InitTypes, StepTypes, PTL DEF Spec

(***************************************************************************)
(* Visibility.                                                             *)
(***************************************************************************)
\* A read under way has no part in NoFillUnderWay: it only starts on a key
\* that the cache does not have, and where it may overwrite the key is excused.
LEMMA StepVisible == TypeOK /\ NoFillUnderWay /\ [Next]_vars => NoFillUnderWay'
<1> SUFFICES ASSUME TypeOK, NoFillUnderWay, [Next]_vars PROVE NoFillUnderWay'
  OBVIOUS
<1> USE OverlayAssumption DEF TypeOK, NoFillUnderWay
<1>1. ASSUME NEW t \in Threads, NEW k \in TableKey, Miss(t, k) PROVE NoFillUnderWay'
  BY <1>1 DEF Miss
<1>2. ASSUME NEW t \in Threads, Fill(t) PROVE NoFillUnderWay'
  <2>1. reading[t] \in TableKey
    BY <1>2 DEF Fill, EndRead
  <2> QED
    BY <1>2, <2>1 DEF Fill, EndRead
<1>3. ASSUME NEW t \in Threads, NotFound(t) PROVE NoFillUnderWay'
  BY <1>3 DEF NotFound, EndRead
<1>4. ASSUME NEW t \in Threads, NEW changes \in ChangeSets, CommitBegin(t, changes)
      PROVE  NoFillUnderWay'
  BY <1>4 DEF CommitBegin
<1>5. ASSUME NEW t \in Threads, CommitAccount(t) PROVE NoFillUnderWay'
  BY <1>5 DEF CommitAccount
<1>6. ASSUME NEW t \in Threads, CommitInsert(t) PROVE NoFillUnderWay'
  <2> PICK write \in writes[t] :
        /\ overlay' = [overlay EXCEPT ![write.key] = write.value]
        /\ writes' = [writes EXCEPT ![t] = @ \ {write}]
        /\ committed' = [committed EXCEPT ![write.key] = write.value]
        /\ excused' = IF Lost(write) THEN excused \cup {write.key}
                      ELSE excused \ {write.key}
    BY <1>6 DEF CommitInsert
  <2>1. write.key \in TableKey /\ write.value \in Values
    BY DEF Write
  <2>2. UNCHANGED <<pc, reading>>
    BY <1>6 DEF CommitInsert
  <2> QED
    BY <2>1, <2>2 DEF Lost
<1>7. ASSUME NEW t \in Threads, CommitEnd(t) PROVE NoFillUnderWay'
  BY <1>7 DEF CommitEnd
<1>8. ASSUME NEW t \in Threads, NEW d \in Databases \cup {None}, ReplaceUnderlying(t, d)
      PROVE  NoFillUnderWay'
  BY <1>8 DEF ReplaceUnderlying
<1>9. ASSUME NEW k \in TableKey, Evict(k) PROVE NoFillUnderWay'
  BY <1>9 DEF Evict
<1>10. CASE InvalidateAll
  BY <1>10 DEF InvalidateAll
<1>11. CASE UNCHANGED vars
  BY <1>11 DEF vars
<1> QED
  BY <1>1, <1>2, <1>3, <1>4, <1>5, <1>6, <1>7, <1>8, <1>9, <1>10, <1>11
  DEF Next, ThreadStep

\* The invariant behind visibility: a committed key that is not excused is in
\* the cache with its value, and no read that missed it is under way.
THEOREM NoFillUnderWayInvariant == Spec => []NoFillUnderWay
<1>1. Init => NoFillUnderWay
  BY DEF Init, NoFillUnderWay
<1>2. QED
  BY <1>1, InitTypes, StepTypes, StepVisible, PTL DEF Spec

\* What was committed is what every handle reads, unless it was evicted, was
\* overtaken by a fill that had missed it, or is a slot of a destroyed account.
THEOREM CommittedVisible == Spec => []CommittedIsVisible
<1>1. NoFillUnderWay => CommittedIsVisible
  BY DEF NoFillUnderWay, CommittedIsVisible, ReadRef
<1>2. QED
  BY <1>1, NoFillUnderWayInvariant, PTL

(***************************************************************************)
(* Fills.                                                                  *)
(***************************************************************************)
\* Only the thread itself ends a read, by filling in what it found or not.
LEMMA EndOfRead ==
    ASSUME TypeOK, [Next]_vars, NEW t \in Threads, pc[t] = "miss", pc'[t] = "idle"
    PROVE  Fill(t) \/ NotFound(t)
<1> USE DEF TypeOK
<1>1. ASSUME NEW u \in Threads, ThreadStep(u), u # t PROVE FALSE
  BY <1>1 DEF ThreadStep, Miss, Fill, NotFound, EndRead, CommitBegin, CommitAccount, CommitInsert,
              CommitEnd, ReplaceUnderlying
<1>2. CASE ThreadStep(t)
  BY <1>2 DEF ThreadStep, Miss, CommitBegin, CommitAccount, CommitInsert, CommitEnd, ReplaceUnderlying
<1>3. ~ ((\E k \in TableKey : Evict(k)) \/ InvalidateAll \/ UNCHANGED vars)
  BY DEF Evict, InvalidateAll, vars
<1>4. QED
  BY <1>1, <1>2, <1>3 DEF Next

\* What a read of a key that nobody committed puts into the cache makes no
\* difference to any handle over the same database, and absence is not cached.
THEOREM FillsInvisible == Spec => FillsAreInvisible
<1> DEFINE Same(t, u, k) ==
        (/\ pc[t] = "miss" /\ pc'[t] = "idle" /\ reading[t] = k /\ Uncommitted(k)
         /\ underlying[u] = underlying[t]
         /\ overlay[k] \in {None, Answer[underlying[t]][k]})
            => ReadRef(overlay', underlying'[u], k) = ReadRef(overlay, underlying[u], k)
<1>1. ASSUME TypeOK, [Next]_vars, NEW t \in Threads, NEW u \in Threads, NEW k \in TableKey
      PROVE  Same(t, u, k)
  <2> SUFFICES ASSUME pc[t] = "miss", pc'[t] = "idle", reading[t] = k, underlying[u] = underlying[t],
                      overlay[k] \in {None, Answer[underlying[t]][k]}
               PROVE  ReadRef(overlay', underlying'[u], k) = ReadRef(overlay, underlying[u], k)
    OBVIOUS
  <2>1. underlying' = underlying /\ underlying[t] \in Databases
    BY <1>1, EndOfRead DEF Fill, NotFound, EndRead, TypeOK
  <2>2. CASE NotFound(t)
    BY <2>1, <2>2 DEF NotFound, ReadRef
  <2>3. CASE Fill(t)
    <3>1. Answer[underlying[t]][k] # None /\ overlay'[k] = Answer[underlying[t]][k]
      BY <1>1, <2>3 DEF Fill, TypeOK
    <3>2. underlying[t] # None
      BY <1>1 DEF TypeOK
    <3>3. QED
      BY <2>1, <3>1, <3>2 DEF ReadRef
  <2>4. QED
    BY <1>1, <2>2, <2>3, EndOfRead
<1>2. TypeOK /\ [Next]_vars => [\A t \in Threads, u \in Threads, k \in TableKey : Same(t, u, k)]_vars
  BY <1>1
<1>3. QED
  BY <1>2, OverlayTypeCorrect, PTL DEF Spec, FillsAreInvisible
==============================================================================
