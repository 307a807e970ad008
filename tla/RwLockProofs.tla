---------------------------- MODULE RwLockProofs ----------------------------
(***************************************************************************)
(* Machine-checked proofs about RwLock for every finite set of threads:    *)
(* the inductive invariant, mutual exclusion, and the implementation of    *)
(* the abstract readers-writer lock.                                       *)
(***************************************************************************)
EXTENDS RwLock, FiniteSetTheorems, TLAPS

\* The set of counted threads is finite, and entering or leaving it changes its
\* cardinality by one: what ++b and --b do in rwlock.h.
LEMMA CountedFinite ==
  /\ IsFiniteSet(At(Counted))
  /\ Cardinality(At(Counted)) \in Nat
  /\ Cardinality(At(Counted)) = 0 <=> At(Counted) = {}
<1>1. At(Counted) \subseteq Threads
  BY DEF At
<1>2. IsFiniteSet(At(Counted))
  BY <1>1, ThreadsAssumption, FS_Subset
<1>. QED
  BY <1>2, FS_CardinalityType, FS_EmptySet

LEMMA CountedFinitePrimed == 
  /\ IsFiniteSet(At(Counted)')
  /\ Cardinality(At(Counted)') \in Nat
  /\ Cardinality(At(Counted)') = 0 <=> At(Counted)' = {}
<1>1. At(Counted)' \subseteq Threads
  BY DEF At
<1>2. IsFiniteSet(At(Counted)')
  BY <1>1, ThreadsAssumption, FS_Subset
<1>. QED
  BY <1>2, FS_CardinalityType, FS_EmptySet

\* The initial state satisfies the inductive invariant: both flags of the lock
\* are clear and nobody is counted (rwlock_init).
LEMMA InitIInv == Init => IInv
<1>. SUFFICES ASSUME Init PROVE IInv
  OBVIOUS
<1>1. TypeOK
  BY DEF Init, TypeOK, PC
<1>2. RHolder
  BY DEF Init, RHolder, InR
<1>3. BCounts
  <2>1. At(Counted) = {}
    BY DEF Init, At, Counted
  <2>. QED
    BY <2>1, FS_EmptySet DEF Init, BCounts
<1>4. GHolder
  BY DEF Init, GHolder, GroupHas
<1>5. Edges
  BY DEF Init, Edges, Counted
<1>. QED
  BY <1>1, <1>2, <1>3, <1>4, <1>5 DEF IInv

\* A step that leaves the set of counted threads and b alone keeps the count.
LEMMA CountKept ==
  ASSUME BCounts, b' = b, At(Counted)' = At(Counted)
  PROVE  BCounts'
BY DEF BCounts

\* ++b in rwlock_begin_read keeps b equal to the number of counted readers.
LEMMA CountUp ==
  ASSUME TypeOK, BCounts, NEW t \in Threads, BeginReadCount(t)
  PROVE  BCounts'
<1>1. At(Counted)' = At(Counted) \cup {t} /\ t \notin At(Counted)
  BY DEF At, Counted, BeginReadCount, Goto, TypeOK
<1>2. Cardinality(At(Counted) \cup {t}) = Cardinality(At(Counted)) + 1
  BY <1>1, CountedFinite, FS_AddElement
<1>. QED
  BY <1>1, <1>2 DEF BCounts, BeginReadCount

\* --b in rwlock_end_read keeps b equal to the number of counted readers.
LEMMA CountDown ==
  ASSUME TypeOK, BCounts, NEW t \in Threads, EndReadCount(t)
  PROVE  BCounts' /\ b > 0
<1>1. At(Counted)' = At(Counted) \ {t} /\ t \in At(Counted)
  BY DEF At, Counted, EndReadCount, Goto, TypeOK
<1>2. Cardinality(At(Counted) \ {t}) = Cardinality(At(Counted)) - 1
  BY <1>1, CountedFinite, FS_RemoveElement
<1>3. b # 0
  BY <1>1, CountedFinite DEF BCounts
<1>. QED
  BY <1>1, <1>2, <1>3 DEF BCounts, EndReadCount, TypeOK

\* Every step keeps the inductive invariant.
LEMMA NextIInv == IInv /\ [Next]_vars => IInv'
<1>. SUFFICES ASSUME IInv, [Next]_vars PROVE IInv'
  OBVIOUS
<1>. USE DEF IInv
<1>1. CASE UNCHANGED vars
  BY <1>1 DEF vars, TypeOK, RHolder, BCounts, GHolder, Edges, At
<1>2. ASSUME NEW t \in Threads,
             \/ CallBeginRead(t) \/ CallBeginWrite(t) \/ CallEndRead(t)
             \/ BeginReadLockR(t) \/ EndReadLockR(t)
             \/ EndReadUnlockR(t) \/ BeginReadUnlockR(t)
      PROVE  IInv'
  <2>. USE <1>2 DEF CallBeginRead, CallBeginWrite, CallEndRead, BeginReadLockR,
                    EndReadLockR, EndReadUnlockR, BeginReadUnlockR, Goto
  <2>1. TypeOK'
    BY DEF TypeOK, PC
  <2>2. RHolder'
    BY DEF TypeOK, RHolder, InR
  <2>3. BCounts'
    <3>1. At(Counted)' = At(Counted)
      BY DEF At, Counted, TypeOK
    <3>. QED
      BY <3>1, CountKept
  <2>4. GHolder'
    BY DEF TypeOK, GHolder, GroupHas
  <2>5. Edges'
    BY DEF TypeOK, Edges, Counted
  <2>. QED
    BY <2>1, <2>2, <2>3, <2>4, <2>5
<1>3. ASSUME NEW t \in Threads,
             \/ BeginReadLockG(t) \/ EndReadUnlockG(t)
             \/ BeginWriteLockG(t) \/ EndWrite(t)
      PROVE  IInv'
  <2>. USE <1>3 DEF BeginReadLockG, EndReadUnlockG, BeginWriteLockG, EndWrite, Goto
  <2>1. TypeOK'
    BY DEF TypeOK, PC
  <2>2. RHolder'
    BY DEF TypeOK, RHolder, InR
  <2>3. BCounts'
    <3>1. At(Counted)' = At(Counted)
      BY DEF At, Counted, TypeOK
    <3>. QED
      BY <3>1, CountKept
  <2>4. GHolder'
    <3>1. CASE BeginReadLockG(t) \/ BeginWriteLockG(t)
      BY <3>1 DEF TypeOK, GHolder, GroupHas
    <3>2. CASE EndWrite(t)
      BY <3>2 DEF TypeOK, GHolder, GroupHas
    <3>3. CASE EndReadUnlockG(t)
      \* Nobody else shares g: the others of the group would be counted or in r.
      <4>1. \A u \in Threads : u # t => pc[u] \notin GroupHas \cup {"writing"}
        BY <3>3 DEF RHolder, Edges, GHolder, InR, Counted, GroupHas
      <4>. QED
        BY <3>3, <4>1 DEF TypeOK, GHolder, GroupHas
    <3>. QED
      BY <3>1, <3>2, <3>3, <1>3
  <2>5. Edges'
    BY DEF TypeOK, Edges, Counted
  <2>. QED
    BY <2>1, <2>2, <2>3, <2>4, <2>5
<1>4. ASSUME NEW t \in Threads, BeginReadCount(t)
      PROVE  IInv'
  <2>. USE <1>4 DEF BeginReadCount, Goto
  <2>1. TypeOK'
    BY DEF TypeOK, PC
  <2>2. RHolder'
    BY DEF TypeOK, RHolder, InR
  <2>3. BCounts'
    BY CountUp
  <2>4. b = 0 <=> \A u \in Threads : pc[u] \notin Counted
    BY CountedFinite DEF BCounts, At
  <2>5. GHolder'
    BY <2>4 DEF TypeOK, GHolder, GroupHas, RHolder, InR, Counted
  <2>6. Edges'
    BY <2>4 DEF TypeOK, Edges, Counted, RHolder, InR
  <2>. QED
    BY <2>1, <2>2, <2>3, <2>5, <2>6
<1>5. ASSUME NEW t \in Threads, EndReadCount(t)
      PROVE  IInv'
  <2>. USE <1>5 DEF EndReadCount, Goto
  <2>1. b > 0 /\ BCounts'
    BY CountDown
  <2>2. TypeOK'
    BY <2>1 DEF TypeOK, PC
  <2>3. RHolder'
    BY DEF TypeOK, RHolder, InR
  <2>4. b' = 0 <=> \A u \in Threads : pc'[u] \notin Counted
    BY <2>1, CountedFinitePrimed DEF BCounts, At
  <2>5. GHolder'
    <3>1. CASE b - 1 = 0
      BY <3>1, <2>4 DEF TypeOK, GHolder, GroupHas
    <3>2. CASE b - 1 # 0
      <4>1. PICK u \in Threads : pc'[u] \in Counted
        BY <3>2, <2>4
      <4>2. u # t /\ pc[u] \in {"reading", "er_r"}
        BY <4>1, <3>2 DEF TypeOK, Counted, RHolder, InR
      <4>. QED
        BY <3>2, <4>2 DEF TypeOK, GHolder, GroupHas
    <3>. QED
      BY <3>1, <3>2
  <2>6. Edges'
    BY <2>4 DEF TypeOK, Edges, Counted, RHolder, InR
  <2>. QED
    BY <2>1, <2>2, <2>3, <2>5, <2>6
<1>. QED
  BY <1>1, <1>2, <1>3, <1>4, <1>5 DEF Next, Proceed

\* IInv holds in every reachable state, for any finite set of threads.
THEOREM InductiveInvariant == Spec => []IInv
BY InitIInv, NextIInv, PTL DEF Spec

\* A thread between rwlock_begin_write and rwlock_end_write is alone.
THEOREM MutualExclusion == Spec => []WriterExcludesAll
<1>1. IInv => WriterExcludesAll
  <2>. SUFFICES ASSUME IInv, NEW t \in Threads, NEW u \in Threads,
                       pc[t] = "writing", pc[u] \in {"reading", "writing"}
                PROVE  t = u
    BY DEF WriterExcludesAll
  <2>. QED
    BY DEF IInv, GHolder, GroupHas
<1>. QED
  BY <1>1, InductiveInvariant, PTL

\* The two mutexes and the counter implement the abstract readers-writer lock.
THEOREM Refinement == Spec => ImplementsAbstract
<1>1. Init => Abstract!Init
  BY DEF Init, Abstract!Init, Reading, Writing, At
<1>2. IInv /\ [Next]_vars => [Abstract!Next]_(Abstract!vars)
  <2>. SUFFICES ASSUME IInv, [Next]_vars
                PROVE  [Abstract!Next]_(Abstract!vars)
    OBVIOUS
  <2>. USE DEF IInv, TypeOK, Reading, Writing, At, Goto
  <2>1. CASE UNCHANGED vars
    BY <2>1 DEF vars, Abstract!vars
  <2>2. ASSUME NEW t \in Threads, BeginReadUnlockR(t)
        PROVE  Abstract!StartReading(t)
    BY <2>2 DEF BeginReadUnlockR, Abstract!StartReading, GHolder, GroupHas
  <2>3. ASSUME NEW t \in Threads, CallEndRead(t)
        PROVE  Abstract!StopReading(t)
    BY <2>3 DEF CallEndRead, Abstract!StopReading
  <2>4. ASSUME NEW t \in Threads, BeginWriteLockG(t)
        PROVE  Abstract!StartWriting(t)
    BY <2>4 DEF BeginWriteLockG, Abstract!StartWriting, GHolder, GroupHas
  <2>5. ASSUME NEW t \in Threads, EndWrite(t)
        PROVE  Abstract!StopWriting(t)
    BY <2>5 DEF EndWrite, Abstract!StopWriting
  <2>6. ASSUME NEW t \in Threads,
               \/ CallBeginRead(t) \/ CallBeginWrite(t)
               \/ BeginReadLockR(t) \/ BeginReadCount(t) \/ BeginReadLockG(t)
               \/ EndReadLockR(t) \/ EndReadCount(t)
               \/ EndReadUnlockG(t) \/ EndReadUnlockR(t)
        PROVE  UNCHANGED Abstract!vars
    BY <2>6 DEF CallBeginRead, CallBeginWrite, BeginReadLockR, BeginReadCount,
                BeginReadLockG, EndReadLockR, EndReadCount, EndReadUnlockG,
                EndReadUnlockR, Abstract!vars
  <2>. QED
    BY <2>1, <2>2, <2>3, <2>4, <2>5, <2>6
       DEF Next, Proceed, Abstract!Next
<1>. QED
  BY <1>1, <1>2, InductiveInvariant, PTL DEF Spec, ImplementsAbstract, Abstract!Spec

=============================================================================
