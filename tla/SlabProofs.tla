----------------------------- MODULE SlabProofs -----------------------------
(***************************************************************************)
(* Machine-checked proofs about Slab, for every finite set of slabs and    *)
(* every number of objects per slab.                                       *)
(***************************************************************************)
EXTENDS Slab, FiniteSetTheorems, TLAPS

LinksType == [next : [Nodes -> Nodes], prev : [Nodes -> Nodes]]

\* Moving s, the only slab of the list h0, to the list of head leaves h0 empty
\* and s alone in the list of head: whatever that list had before is dropped.
LEMMA MoveToListResult ==
  ASSUME NEW l \in LinksType, NEW s \in Slabs,
         NEW head \in Heads, NEW h0 \in Heads,
         l.next[h0] = s, l.prev[h0] = s, l.next[s] = h0, l.prev[s] = h0
  PROVE  /\ MoveToList(l, s, head) \in LinksType
         /\ \A x \in Nodes :
              /\ MoveToList(l, s, head).next[x] =
                   IF x = head THEN s ELSE IF x = s THEN head
                   ELSE IF x = h0 THEN h0 ELSE l.next[x]
              /\ MoveToList(l, s, head).prev[x] =
                   IF x = head THEN s ELSE IF x = s THEN head
                   ELSE IF x = h0 THEN h0 ELSE l.prev[x]
<1>. DEFINE lr == ListRemove(l, s)
<1>1. s \in Nodes /\ head \in Nodes /\ h0 \in Nodes /\ s # head /\ s # h0
  BY SlabAssumption DEF Nodes
<1>2. /\ lr \in LinksType
      /\ \A x \in Nodes :
           /\ lr.next[x] = IF x = s THEN s ELSE IF x = h0 THEN h0 ELSE l.next[x]
           /\ lr.prev[x] = IF x = s THEN s ELSE IF x = h0 THEN h0 ELSE l.prev[x]
  BY <1>1 DEF ListRemove, ListInit, SetNext, SetPrev, LinksType
<1>. HIDE DEF lr
<1>3. /\ ListAppend(lr, head, s) \in LinksType
      /\ \A x \in Nodes :
           /\ ListAppend(lr, head, s).next[x] =
                IF x = head THEN s ELSE IF x = s THEN head ELSE lr.next[x]
           /\ ListAppend(lr, head, s).prev[x] =
                IF x = head THEN s ELSE IF x = s THEN head ELSE lr.prev[x]
  BY <1>1, <1>2 DEF ListAppend, ListInsert, SetNext, SetPrev, LinksType
<1>. QED
  BY <1>1, <1>2, <1>3 DEF MoveToList, lr

\* A slab that cache_grow appends to the empty free list is alone in it.
LEMMA GrowResult ==
  ASSUME NEW l \in LinksType, NEW s \in Slabs,
         l.next[Free] = Free, l.prev[Free] = Free
  PROVE  /\ ListAppend(l, s, Free) \in LinksType
         /\ \A x \in Nodes :
              /\ ListAppend(l, s, Free).next[x] =
                   IF x = s THEN Free ELSE IF x = Free THEN s ELSE l.next[x]
              /\ ListAppend(l, s, Free).prev[x] =
                   IF x = s THEN Free ELSE IF x = Free THEN s ELSE l.prev[x]
<1>1. s \in Nodes /\ Free \in Nodes /\ s # Free
  BY SlabAssumption DEF Nodes, Heads
<1>. QED
  BY <1>1 DEF ListAppend, ListInsert, SetNext, SetPrev, LinksType

-----------------------------------------------------------------------------
(* Counting the objects of one slab. *)

LEMMA OutFinite ==
  ASSUME NEW s \in Slabs
  PROVE  /\ IsFiniteSet(Out(s))
         /\ Cardinality(Out(s)) \in Nat
         /\ Cardinality(Out(s)) = 0 <=> Out(s) = {}
<1>1. IsFiniteSet(Index)
  BY SlabAssumption, FS_Interval DEF Index
<1>2. IsFiniteSet(Out(s))
  BY <1>1, FS_Subset DEF Out
<1>. QED
  BY <1>2, FS_CardinalityType, FS_EmptySet

\* Handing out one more object of s adds one to the count of s and of no other
\* slab.
LEMMA OutGrows ==
  ASSUME NEW s \in Slabs, NEW i \in Index, i \notin Out(s),
         held' = held \cup {<<s, i>>}, lost' = lost,
         FreeCounts, TypeOK,
         free' = [free EXCEPT ![s] = @ + 1]
  PROVE  FreeCounts'
<1>1. Out(s)' = Out(s) \cup {i}
  BY DEF Out
<1>2. Cardinality(Out(s)') = Cardinality(Out(s)) + 1
  BY <1>1, OutFinite, FS_AddElement
<1>3. \A t \in Slabs : t # s => Out(t)' = Out(t)
  BY DEF Out
<1>. QED
  BY <1>2, <1>3 DEF FreeCounts, TypeOK

\* Taking an object of s back subtracts one from the count of s only.
LEMMA OutShrinks ==
  ASSUME NEW s \in Slabs, NEW i \in Index, <<s, i>> \in held, <<s, i>> \notin lost,
         held' = held \ {<<s, i>>}, lost' = lost,
         FreeCounts, TypeOK,
         free' = [free EXCEPT ![s] = @ - 1]
  PROVE  FreeCounts'
<1>1. Out(s)' = Out(s) \ {i} /\ i \in Out(s)
  BY DEF Out
<1>2. Cardinality(Out(s)') = Cardinality(Out(s)) - 1
  BY <1>1, OutFinite, FS_RemoveElement
<1>3. \A t \in Slabs : t # s => Out(t)' = Out(t)
  BY DEF Out
<1>. QED
  BY <1>2, <1>3 DEF FreeCounts, TypeOK

\* The sets of objects that InuseCounts measures are finite.
LEMMA ObjectsFinite ==
  ASSUME NEW S \in SUBSET Objects
  PROVE  IsFiniteSet(S) /\ Cardinality(S) \in Nat
<1>1. IsFiniteSet(Index)
  BY SlabAssumption, FS_Interval DEF Index
<1>2. IsFiniteSet(Objects)
  BY <1>1, SlabAssumption, FS_Product DEF Objects
<1>. QED
  BY <1>2, FS_Subset, FS_CardinalityType

-----------------------------------------------------------------------------
(* The initial state: no slab, three empty lists. *)

LEMMA InitIInv == Init => IInv
<1>. SUFFICES ASSUME Init PROVE IInv
  OBVIOUS
<1>1. TypeOK
  BY SlabAssumption DEF Init, TypeOK, ListInitAll, Index, Objects
<1>2. NoDoubleAllocation
  BY DEF Init, NoDoubleAllocation, Index
<1>3. FreeCounts
  <2>1. \A s \in Slabs : Out(s) = {}
    BY DEF Init, Out
  <2>. QED
    BY <2>1, FS_EmptySet DEF Init, FreeCounts
<1>4. InuseCounts
  BY FS_EmptySet DEF Init, InuseCounts
<1>7. HeldOrLost
  BY DEF Init, HeldOrLost
<1>5. UngrownUntouched
  BY DEF Init, UngrownUntouched, ListInitAll, Nodes
<1>6. ListShape
  BY DEF Init, ListShape, ListInitAll, Nodes
<1>. QED
  BY <1>1, <1>2, <1>3, <1>4, <1>5, <1>6, <1>7 DEF IInv

-----------------------------------------------------------------------------
(* cache_alloc. The two ways to select a slab meet in AllocFrom(s, l), with  *)
(* s the only slab of the list of head in l.                                 *)

Selected(s, l, head) ==
  /\ l \in LinksType
  /\ s \in Slabs
  /\ head \in {Partial, Free}
  /\ free[s] < NObjs
  /\ head = Free <=> free[s] = 0
  /\ l.next[head] = s /\ l.prev[head] = s
  /\ l.next[s] = head /\ l.prev[s] = head
  /\ \A i \in Index : <<s, i>> \notin lost
  /\ s \in grown'
  /\ grown \subseteq grown'
  /\ grown' \subseteq grown \cup {s}
  /\ head = Free => l.next[Partial] = Partial
  /\ \A h \in Heads :
       /\ l.prev[h] = l.next[h]
       /\ \/ l.next[h] = h
          \/ /\ l.next[h] \in Slabs
             /\ l.next[h] \in grown'
             /\ h = Full => free[l.next[h]] = NObjs
             /\ h = Partial => free[l.next[h]] > 0 /\ free[l.next[h]] < NObjs
             /\ h = Free => free[l.next[h]] = 0
             /\ \A i \in Index : <<l.next[h], i>> \notin lost
             /\ l.next[l.next[h]] = h
             /\ l.prev[l.next[h]] = h
  /\ \A t \in Slabs \ grown' : l.next[t] = t /\ l.prev[t] = t

\* The lists after the two moves of cache_alloc.
LEMMA AllocLists ==
  ASSUME IInv, NEW s, NEW l, NEW head, Selected(s, l, head), AllocFrom(s, l)
  PROVE  links' \in LinksType /\ ListShape' /\ UngrownUntouched'
<1>. DEFINE l1 == IF free[s] = 0 THEN MoveToList(l, s, Partial) ELSE l
            l2 == IF free[s] + 1 = NObjs THEN MoveToList(l1, s, Full) ELSE l1
<1>. USE SlabAssumption
<1>0. /\ s \in Nodes /\ Heads \subseteq Nodes /\ Slabs \subseteq Nodes
      /\ s \notin Heads
      /\ free \in [Slabs -> 0 .. NObjs]
      /\ free' = [free EXCEPT ![s] = @ + 1]
      /\ links' = l2 /\ lost' = lost
      /\ \A i \in Index : <<s, i>> \notin lost
  BY DEF Selected, Nodes, IInv, TypeOK, AllocFrom
<1>1. /\ l1 \in LinksType
      /\ l1.next[Partial] = s /\ l1.prev[Partial] = s
      /\ l1.next[s] = Partial /\ l1.prev[s] = Partial
      /\ l1.next[Free] = IF head = Free THEN Free ELSE l.next[Free]
      /\ l1.prev[Free] = IF head = Free THEN Free ELSE l.prev[Free]
      /\ l1.next[Full] = l.next[Full] /\ l1.prev[Full] = l.prev[Full]
      /\ \A t \in Slabs \ {s} : l1.next[t] = l.next[t] /\ l1.prev[t] = l.prev[t]
  <2>1. CASE free[s] = 0
    <3>1. head = Free
      BY <2>1 DEF Selected
    <3>2. /\ l1 \in LinksType
          /\ \A x \in Nodes :
              /\ l1.next[x] = IF x = Partial THEN s ELSE IF x = s THEN Partial
                              ELSE IF x = Free THEN Free ELSE l.next[x]
              /\ l1.prev[x] = IF x = Partial THEN s ELSE IF x = s THEN Partial
                              ELSE IF x = Free THEN Free ELSE l.prev[x]
      BY <2>1, <3>1, MoveToListResult DEF Selected, Heads
    <3>. QED
      BY <3>1, <3>2, <1>0 DEF Heads
  <2>2. CASE free[s] # 0
    BY <2>2 DEF Selected, Heads
  <2>. QED
    BY <2>1, <2>2
<1>. HIDE DEF l1
<1>2. /\ l2 \in LinksType
      /\ l2.next[Free] = l1.next[Free] /\ l2.prev[Free] = l1.prev[Free]
      /\ \A t \in Slabs \ {s} : l2.next[t] = l1.next[t] /\ l2.prev[t] = l1.prev[t]
      /\ free[s] + 1 = NObjs =>
           /\ l2.next[Full] = s /\ l2.prev[Full] = s
           /\ l2.next[s] = Full /\ l2.prev[s] = Full
           /\ l2.next[Partial] = Partial /\ l2.prev[Partial] = Partial
      /\ free[s] + 1 # NObjs =>
           /\ l2.next[Full] = l1.next[Full] /\ l2.prev[Full] = l1.prev[Full]
           /\ l2.next[Partial] = s /\ l2.prev[Partial] = s
           /\ l2.next[s] = Partial /\ l2.prev[s] = Partial
  <2>1. CASE free[s] + 1 = NObjs
    <3>1. /\ l2 \in LinksType
          /\ \A x \in Nodes :
              /\ l2.next[x] = IF x = Full THEN s ELSE IF x = s THEN Full
                              ELSE IF x = Partial THEN Partial ELSE l1.next[x]
              /\ l2.prev[x] = IF x = Full THEN s ELSE IF x = s THEN Full
                              ELSE IF x = Partial THEN Partial ELSE l1.prev[x]
      BY <2>1, <1>1, MoveToListResult DEF Selected, Heads
    <3>. QED
      BY <3>1, <2>1, <1>0 DEF Heads
  <2>2. CASE free[s] + 1 # NObjs
    BY <2>2, <1>1
  <2>. QED
    BY <2>1, <2>2
<1>. HIDE DEF l2
<1>3. ListShape'
  <2>. SUFFICES ASSUME NEW h \in Heads
                PROVE  /\ links'.prev[h] = links'.next[h]
                       /\ \/ links'.next[h] = h
                          \/ /\ links'.next[h] \in Slabs
                             /\ BelongsTo(links.next[h], h)'
                             /\ links'.next[links'.next[h]] = h
                             /\ links'.prev[links'.next[h]] = h
    BY DEF ListShape
  <2>0. \A t \in Slabs \ {s} : free'[t] = free[t]
    BY <1>0
  <2>1. CASE h = Free
    BY <2>0, <2>1, <1>0, <1>1, <1>2 DEF Selected, BelongsTo, Heads
  <2>2. CASE h = Partial
    BY <2>0, <2>2, <1>0, <1>1, <1>2 DEF Selected, BelongsTo, Heads
  <2>3. CASE h = Full
    BY <2>0, <2>3, <1>0, <1>1, <1>2 DEF Selected, BelongsTo, Heads
  <2>. QED
    BY <2>1, <2>2, <2>3 DEF Heads
<1>4. UngrownUntouched'
  <2>. SUFFICES ASSUME NEW t \in Slabs \ grown'
                PROVE  free'[t] = 0 /\ l2.next[t] = t /\ l2.prev[t] = t
    BY <1>0 DEF UngrownUntouched
  <2>1. t # s /\ t \notin grown
    BY DEF Selected
  <2>2. free[t] = 0
    BY <2>1 DEF IInv, UngrownUntouched
  <2>. QED
    BY <2>1, <2>2, <1>0, <1>1, <1>2 DEF Selected
<1>. QED
  BY <1>0, <1>2, <1>3, <1>4

\* Popping the index stack hands out an object nobody has.
LEMMA AllocObjects ==
  ASSUME IInv, NEW s \in Slabs, NEW l, free[s] < NObjs, AllocFrom(s, l)
  PROVE  /\ NoDoubleAllocation' /\ FreeCounts' /\ InuseCounts' /\ HeldOrLost'
         /\ free' \in [Slabs -> 0 .. NObjs] /\ bufctl' = bufctl /\ lost' = lost
         /\ held' \in SUBSET Objects /\ inuse' \in Nat
<1>. DEFINE k == bufctl[s][free[s]]
<1>. USE SlabAssumption
<1>0. /\ free \in [Slabs -> 0 .. NObjs] /\ bufctl \in [Slabs -> [Index -> Index]]
      /\ held \in SUBSET Objects /\ lost \in SUBSET Objects /\ inuse \in Nat
      /\ free' = [free EXCEPT ![s] = @ + 1] /\ bufctl' = bufctl /\ lost' = lost
      /\ held' = held \cup {<<s, k>>} /\ inuse' = inuse + 1
  BY DEF IInv, TypeOK, AllocFrom
<1>1. free[s] \in Index /\ k \in Index
  BY <1>0 DEF Index
<1>2. <<s, k>> \notin held \cup lost
  BY <1>0, <1>1 DEF IInv, NoDoubleAllocation
<1>3. FreeCounts'
  BY <1>0, <1>1, <1>2, OutGrows DEF IInv, Out
<1>4. NoDoubleAllocation'
  <2>. SUFFICES ASSUME NEW t \in Slabs, NEW i \in Index, i >= free'[t]
                PROVE  /\ <<t, bufctl[t][i]>> \notin held \cup {<<s, k>>} \cup lost
                       /\ \A j \in Index :
                            j >= free'[t] /\ bufctl[t][j] = bufctl[t][i] => i = j
    BY <1>0 DEF NoDoubleAllocation
  <2>1. /\ free'[t] = IF t = s THEN free[t] + 1 ELSE free[t]
        /\ free[t] \in Nat /\ free[s] \in Nat /\ Index \subseteq Nat
    BY <1>0 DEF Index
  <2>2. /\ i >= free[t]
        /\ t = s => i # free[s]
        /\ \A j \in Index : j >= free'[t] => j >= free[t]
    BY <2>1
  <2>3. /\ <<t, bufctl[t][i]>> \notin held \cup lost
        /\ \A j \in Index : j >= free[t] /\ bufctl[t][j] = bufctl[t][i] => i = j
    BY <2>2 DEF IInv, NoDoubleAllocation
  <2>4. t = s => bufctl[s][i] # k
    <3>. SUFFICES ASSUME t = s, bufctl[s][i] = bufctl[s][free[s]] PROVE FALSE
      OBVIOUS
    <3>1. free[s] >= free[s]
      BY <1>1 DEF Index
    <3>. QED
      BY <3>1, <2>2, <2>3, <1>1
  <2>. QED
    BY <2>2, <2>3, <2>4
<1>5. InuseCounts'
  <2>1. Cardinality(held') = Cardinality(held) + 1
    BY <1>0, <1>2, ObjectsFinite, FS_AddElement
  <2>. QED
    BY <2>1, <1>0, ObjectsFinite DEF IInv, InuseCounts
<1>6. HeldOrLost'
  BY <1>0, <1>2 DEF IInv, HeldOrLost
<1>. QED
  BY <1>0, <1>1, <1>3, <1>4, <1>5, <1>6 DEF Objects

LEMMA AllocIInv ==
  ASSUME IInv, NEW s, NEW l, NEW head, Selected(s, l, head), AllocFrom(s, l),
         grown' \in SUBSET Slabs
  PROVE  IInv'
BY AllocLists, AllocObjects DEF IInv, TypeOK, Selected, LinksType

-----------------------------------------------------------------------------
(* cache_select finds a slab as Selected says. *)

LEMMA ListedSelected ==
  ASSUME IInv, AllocFromListed
  PROVE  \E s, head : Selected(s, links, head) /\ AllocFrom(s, links)
<1>. DEFINE head == IF ListEmpty(links, Partial) THEN Free ELSE Partial
            s == links.next[head]
<1>. USE SlabAssumption
<1>1. links.next[head] # head /\ head \in {Partial, Free} /\ grown' = grown
      /\ AllocFrom(s, links)
  BY DEF AllocFromListed, ListEmpty
<1>2. s \in Slabs /\ BelongsTo(s, head) /\ links.next[s] = head
      /\ links.prev[s] = head /\ links.prev[head] = s
  BY <1>1 DEF IInv, ListShape, Heads
<1>3. head = Free => links.next[Partial] = Partial
  BY DEF ListEmpty
<1>4. links \in LinksType /\ free[s] \in 0 .. NObjs
  BY <1>2 DEF IInv, TypeOK, LinksType
<1>5. \A h \in Heads : 
        /\ links.prev[h] = links.next[h]
        /\ \/ links.next[h] = h
           \/ /\ links.next[h] \in Slabs
              /\ BelongsTo(links.next[h], h)
              /\ links.next[links.next[h]] = h
              /\ links.prev[links.next[h]] = h
  BY DEF IInv, ListShape
<1>6. \A t \in Slabs \ grown : links.next[t] = t /\ links.prev[t] = t
  BY DEF IInv, UngrownUntouched
<1>. HIDE DEF head, s
<1>7. Selected(s, links, head)
  BY <1>1, <1>2, <1>3, <1>4, <1>5, <1>6 DEF Selected, BelongsTo, Heads, s
<1>. QED
  BY <1>1, <1>7

LEMMA NewSelected ==
  ASSUME IInv, NEW s \in Slabs, AllocFromNew(s)
  PROVE  \E l, head : Selected(s, l, head) /\ AllocFrom(s, l)
<1>. DEFINE l == ListAppend(links, s, Free)
<1>. USE SlabAssumption
<1>1. /\ links.next[Partial] = Partial /\ links.next[Free] = Free
      /\ s \notin grown /\ grown' = grown \cup {s} /\ AllocFrom(s, l)
  BY DEF AllocFromNew, ListEmpty
<1>2. /\ links \in LinksType /\ links.prev[Free] = Free /\ links.prev[Partial] = Partial
      /\ free[s] = 0 /\ links.next[s] = s
  BY <1>1 DEF IInv, TypeOK, LinksType, ListShape, UngrownUntouched, Heads
<1>3. /\ l \in LinksType
      /\ \A x \in Nodes :
           /\ l.next[x] = IF x = s THEN Free ELSE IF x = Free THEN s ELSE links.next[x]
           /\ l.prev[x] = IF x = s THEN Free ELSE IF x = Free THEN s ELSE links.prev[x]
  BY <1>1, <1>2, GrowResult
<1>. HIDE DEF l
<1>4. /\ s \in Nodes /\ Heads \subseteq Nodes /\ Slabs \subseteq Nodes /\ s \notin Heads
  BY DEF Nodes
<1>5. \A i \in Index : <<s, i>> \notin lost
  <2>1. Cardinality(Out(s)) = 0
    BY <1>2 DEF IInv, FreeCounts
  <2>. QED
    BY <2>1, OutFinite DEF Out
<1>6. /\ links.prev[Full] = links.next[Full]
      /\ \/ links.next[Full] = Full
         \/ /\ links.next[Full] \in Slabs
            /\ BelongsTo(links.next[Full], Full)
            /\ links.next[links.next[Full]] = Full
            /\ links.prev[links.next[Full]] = Full
  BY DEF IInv, ListShape, Heads
<1>7. \A h \in Heads :
       /\ l.prev[h] = l.next[h]
       /\ \/ l.next[h] = h
          \/ /\ l.next[h] \in Slabs
             /\ l.next[h] \in grown'
             /\ h = Full => free[l.next[h]] = NObjs
             /\ h = Partial => free[l.next[h]] > 0 /\ free[l.next[h]] < NObjs
             /\ h = Free => free[l.next[h]] = 0
             /\ \A i \in Index : <<l.next[h], i>> \notin lost
             /\ l.next[l.next[h]] = h
             /\ l.prev[l.next[h]] = h
  <2>. TAKE h \in Heads
  <2>1. CASE h = Free
    BY <2>1, <1>1, <1>2, <1>3, <1>4, <1>5 DEF Heads
  <2>2. CASE h = Partial
    BY <2>2, <1>1, <1>2, <1>3, <1>4 DEF Heads
  <2>3. CASE h = Full
    BY <2>3, <1>1, <1>2, <1>3, <1>4, <1>6 DEF Heads, BelongsTo
  <2>. QED
    BY <2>1, <2>2, <2>3 DEF Heads
<1>8. \A t \in Slabs \ grown' : l.next[t] = t /\ l.prev[t] = t
  <2>. TAKE t \in Slabs \ grown'
  <2>1. t # s /\ t \in Slabs \ grown /\ t \in Nodes /\ t # Free
    BY <1>1, <1>4 DEF Heads
  <2>2. links.next[t] = t /\ links.prev[t] = t
    BY <2>1 DEF IInv, UngrownUntouched
  <2>. QED
    BY <2>1, <2>2, <1>3
<1>9. Selected(s, l, Free)
  BY <1>1, <1>2, <1>3, <1>4, <1>5, <1>7, <1>8 DEF Selected, Heads
<1>. QED
  BY <1>1, <1>9

-----------------------------------------------------------------------------
(* cache_dealloc *)

\* A list that cache_dealloc searches has no slab but its first.
LEMMA OnlyFirstListed ==
  ASSUME ListShape, NEW head \in Heads, NEW s \in Slabs,
         s \in ListNodes(links, head, Nodes)
  PROVE  links.next[head] = s
<1>. DEFINE S == {head, links.next[head]}
<1>1. S \in SUBSET Nodes
  BY DEF ListShape, Nodes
<1>2. \A y \in S \ {head} : links.next[y] \in S
  BY DEF ListShape
<1>3. s \in S
  BY <1>1, <1>2 DEF ListNodes
<1>. QED
  BY <1>3, SlabAssumption

\* The lists after the two moves of cache_dealloc_within.
LEMMA DeallocLists ==
  ASSUME IInv, NEW s \in Slabs, NEW i \in Index, DeallocFound(s, i)
  PROVE  links' \in LinksType /\ ListShape' /\ UngrownUntouched'
<1>. DEFINE l1 == IF free[s] = NObjs THEN MoveToList(links, s, Partial) ELSE links
            l2 == IF free[s] - 1 = 0 THEN MoveToList(l1, s, Free) ELSE l1
<1>. USE SlabAssumption
<1>0. /\ s \in Nodes /\ Heads \subseteq Nodes /\ Slabs \subseteq Nodes
      /\ s \notin Heads /\ links \in LinksType
      /\ free \in [Slabs -> 0 .. NObjs]
      /\ free' = [free EXCEPT ![s] = @ - 1]
      /\ links' = l2 /\ lost' = lost /\ grown' = grown
  BY DEF Nodes, IInv, TypeOK, LinksType, DeallocFound, DeallocFrom
<1>1. PICK h0 \in {Full, Partial} : s \in ListNodes(links, h0, Nodes)
  BY DEF DeallocFound, Searched
<1>2. links.next[h0] = s
  BY <1>1, OnlyFirstListed DEF IInv, Heads
<1>3. /\ links.prev[h0] = s /\ links.next[s] = h0 /\ links.prev[s] = h0
      /\ BelongsTo(s, h0)
  BY <1>0, <1>1, <1>2 DEF IInv, ListShape, Heads
<1>4. /\ h0 = Full => free[s] = NObjs
      /\ h0 = Partial => free[s] < NObjs
      /\ free[s] > 0 /\ free[s] \in Nat /\ s \in grown
      /\ \A k \in Index : <<s, k>> \notin lost
  BY <1>0, <1>1, <1>3 DEF BelongsTo
<1>5. \A h \in Heads :
        /\ links.prev[h] = links.next[h]
        /\ \/ links.next[h] = h
           \/ /\ links.next[h] \in Slabs
              /\ BelongsTo(links.next[h], h)
              /\ links.next[links.next[h]] = h
              /\ links.prev[links.next[h]] = h
  BY DEF IInv, ListShape
<1>6. /\ l1 \in LinksType
      /\ l1.next[Partial] = s /\ l1.prev[Partial] = s
      /\ l1.next[s] = Partial /\ l1.prev[s] = Partial
      /\ l1.next[Full] = IF h0 = Full THEN Full ELSE links.next[Full]
      /\ l1.prev[Full] = IF h0 = Full THEN Full ELSE links.prev[Full]
      /\ l1.next[Free] = links.next[Free] /\ l1.prev[Free] = links.prev[Free]
      /\ \A t \in Slabs \ {s} : l1.next[t] = links.next[t] /\ l1.prev[t] = links.prev[t]
  <2>1. CASE h0 = Full
    <3>1. /\ l1 \in LinksType
          /\ \A x \in Nodes :
              /\ l1.next[x] = IF x = Partial THEN s ELSE IF x = s THEN Partial
                              ELSE IF x = Full THEN Full ELSE links.next[x]
              /\ l1.prev[x] = IF x = Partial THEN s ELSE IF x = s THEN Partial
                              ELSE IF x = Full THEN Full ELSE links.prev[x]
      BY <2>1, <1>0, <1>2, <1>3, <1>4, MoveToListResult DEF Heads
    <3>. QED
      BY <3>1, <2>1, <1>0 DEF Heads
  <2>2. CASE h0 = Partial
    BY <2>2, <1>0, <1>2, <1>3, <1>4 DEF Heads
  <2>. QED
    BY <2>1, <2>2, <1>1
<1>. HIDE DEF l1
<1>7. /\ l2 \in LinksType
      /\ l2.next[Full] = l1.next[Full] /\ l2.prev[Full] = l1.prev[Full]
      /\ \A t \in Slabs \ {s} : l2.next[t] = l1.next[t] /\ l2.prev[t] = l1.prev[t]
      /\ free[s] - 1 = 0 =>
           /\ l2.next[Free] = s /\ l2.prev[Free] = s
           /\ l2.next[s] = Free /\ l2.prev[s] = Free
           /\ l2.next[Partial] = Partial /\ l2.prev[Partial] = Partial
      /\ free[s] - 1 # 0 =>
           /\ l2.next[Free] = l1.next[Free] /\ l2.prev[Free] = l1.prev[Free]
           /\ l2.next[Partial] = s /\ l2.prev[Partial] = s
           /\ l2.next[s] = Partial /\ l2.prev[s] = Partial
  <2>1. CASE free[s] - 1 = 0
    <3>1. /\ l2 \in LinksType
          /\ \A x \in Nodes :
              /\ l2.next[x] = IF x = Free THEN s ELSE IF x = s THEN Free
                              ELSE IF x = Partial THEN Partial ELSE l1.next[x]
              /\ l2.prev[x] = IF x = Free THEN s ELSE IF x = s THEN Free
                              ELSE IF x = Partial THEN Partial ELSE l1.prev[x]
      BY <2>1, <1>6, MoveToListResult DEF Heads
    <3>. QED
      BY <3>1, <2>1, <1>0 DEF Heads
  <2>2. CASE free[s] - 1 # 0
    BY <2>2, <1>6
  <2>. QED
    BY <2>1, <2>2
<1>. HIDE DEF l2
<1>8. ListShape'
  <2>. SUFFICES ASSUME NEW h \in Heads
                PROVE  /\ links'.prev[h] = links'.next[h]
                       /\ \/ links'.next[h] = h
                          \/ /\ links'.next[h] \in Slabs
                             /\ BelongsTo(links.next[h], h)'
                             /\ links'.next[links'.next[h]] = h
                             /\ links'.prev[links'.next[h]] = h
    BY DEF ListShape
  <2>0. /\ \A t \in Slabs \ {s} : free'[t] = free[t]
        /\ free'[s] = free[s] - 1
    BY <1>0
  <2>1. CASE h = Free
    BY <2>0, <2>1, <1>0, <1>4, <1>5, <1>6, <1>7 DEF BelongsTo, Heads
  <2>2. CASE h = Partial
    BY <2>0, <2>2, <1>0, <1>4, <1>6, <1>7 DEF BelongsTo, Heads
  <2>3. CASE h = Full
    BY <2>0, <2>3, <1>0, <1>1, <1>4, <1>5, <1>6, <1>7 DEF BelongsTo, Heads
  <2>. QED
    BY <2>1, <2>2, <2>3 DEF Heads
<1>9. UngrownUntouched'
  <2>. SUFFICES ASSUME NEW t \in Slabs \ grown
                PROVE  free'[t] = 0 /\ l2.next[t] = t /\ l2.prev[t] = t
    BY <1>0 DEF UngrownUntouched
  <2>1. t # s
    BY <1>4
  <2>. QED
    BY <2>1, <1>0, <1>6, <1>7 DEF IInv, UngrownUntouched
<1>. QED
  BY <1>0, <1>7, <1>8, <1>9

\* Pushing the index of an object that comes back keeps the stack consistent.
LEMMA DeallocObjects ==
  ASSUME IInv, NEW s \in Slabs, NEW k \in Index, DeallocFound(s, k)
  PROVE  /\ NoDoubleAllocation' /\ FreeCounts' /\ InuseCounts' /\ HeldOrLost'
         /\ free' \in [Slabs -> 0 .. NObjs]
         /\ bufctl' \in [Slabs -> [Index -> Index]]
         /\ held' \in SUBSET Objects /\ inuse' \in Nat
<1>. USE SlabAssumption
<1>0. /\ free \in [Slabs -> 0 .. NObjs] /\ bufctl \in [Slabs -> [Index -> Index]]
      /\ held \in SUBSET Objects /\ lost \in SUBSET Objects /\ inuse \in Nat
      /\ free' = [free EXCEPT ![s] = @ - 1] /\ lost' = lost
      /\ bufctl' = [bufctl EXCEPT ![s][free[s] - 1] = k]
      /\ held' = held \ {<<s, k>>} /\ inuse' = inuse - 1 /\ <<s, k>> \in held
      /\ <<s, k>> \notin lost
  BY DEF IInv, TypeOK, DeallocFound, DeallocFrom, HeldOrLost
<1>1. free[s] \in Nat /\ free[s] > 0 /\ free[s] - 1 \in Index /\ Index \subseteq Nat
  <2>1. Cardinality(Out(s)) # 0 /\ Cardinality(Out(s)) \in Nat
    BY <1>0, OutFinite DEF Out
  <2>2. free[s] = Cardinality(Out(s))
    BY DEF IInv, FreeCounts
  <2>3. free[s] \in 0 .. NObjs
    BY <1>0
  <2>. QED
    BY <2>1, <2>2, <2>3 DEF Index
<1>2. FreeCounts'
  BY <1>0, OutShrinks DEF IInv
<1>3. NoDoubleAllocation'
  <2>. SUFFICES ASSUME NEW t \in Slabs, NEW i \in Index, i >= free'[t]
                PROVE  /\ <<t, bufctl'[t][i]>> \notin (held \ {<<s, k>>}) \cup lost
                       /\ \A j \in Index :
                            j >= free'[t] /\ bufctl'[t][j] = bufctl'[t][i] => i = j
    BY <1>0 DEF NoDoubleAllocation
  <2>1. CASE t # s
    BY <2>1, <1>0 DEF IInv, NoDoubleAllocation
  <2>2. CASE t = s
    <3>1. /\ free'[s] = free[s] - 1
          /\ \A j \in Index :
               bufctl'[s][j] = IF j = free[s] - 1 THEN k ELSE bufctl[s][j]
          /\ \A j \in Index : j >= free'[s] => j >= free[s] \/ j = free[s] - 1
      BY <1>0, <1>1
    <3>2. \A j \in Index : j >= free[s] =>
            /\ <<s, bufctl[s][j]>> \notin held \cup lost
            /\ bufctl[s][j] # k
            /\ j # free[s] - 1
            /\ \A m \in Index : m >= free[s] /\ bufctl[s][m] = bufctl[s][j] => j = m
      BY <1>0, <1>1 DEF IInv, NoDoubleAllocation
    <3>. QED
      BY <2>2, <3>1, <3>2, <1>0
  <2>. QED
    BY <2>1, <2>2
<1>4. InuseCounts'  /\ inuse' \in Nat
  <2>1. Cardinality(held') = Cardinality(held) - 1 /\ Cardinality(held') \in Nat
    BY <1>0, ObjectsFinite, FS_RemoveElement
  <2>2. Cardinality(held) \in Nat /\ Cardinality(lost) \in Nat
    BY <1>0, ObjectsFinite
  <2>. QED
    BY <2>1, <2>2, <1>0 DEF IInv, InuseCounts
<1>5. free' \in [Slabs -> 0 .. NObjs]
  BY <1>0, <1>1
<1>6. bufctl' \in [Slabs -> [Index -> Index]]
  BY <1>0, <1>1
<1>7. HeldOrLost' /\ held' \in SUBSET Objects
  BY <1>0 DEF IInv, HeldOrLost
<1>. QED
  BY <1>2, <1>3, <1>4, <1>5, <1>6, <1>7

LEMMA DeallocFoundIInv ==
  ASSUME IInv, NEW s \in Slabs, NEW i \in Index, DeallocFound(s, i)
  PROVE  IInv'
BY DeallocLists, DeallocObjects DEF IInv, TypeOK, LinksType, DeallocFound

\* An object that is not found leaves the cache as it was.
LEMMA DeallocNotFoundIInv ==
  ASSUME IInv, NEW s \in Slabs, NEW i \in Index, DeallocNotFound(s, i)
  PROVE  IInv'
<1>. USE SlabAssumption
<1>0. /\ <<s, i>> \in held /\ <<s, i>> \notin lost
      /\ held' = held \ {<<s, i>>} /\ lost' = lost \cup {<<s, i>>}
      /\ held \in SUBSET Objects /\ lost \in SUBSET Objects
      /\ held' \cup lost' = held \cup lost
      /\ links' = links /\ grown' = grown /\ free' = free
      /\ bufctl' = bufctl /\ inuse' = inuse
  BY DEF IInv, TypeOK, HeldOrLost, DeallocNotFound
<1>1. TypeOK' /\ HeldOrLost'
  BY <1>0 DEF IInv, TypeOK, HeldOrLost
<1>2. NoDoubleAllocation'
  BY <1>0 DEF IInv, NoDoubleAllocation
<1>3. FreeCounts'
  <2>1. \A t \in Slabs : Out(t)' = Out(t)
    BY <1>0 DEF Out
  <2>. QED
    BY <2>1, <1>0 DEF IInv, FreeCounts
<1>4. InuseCounts'
  <2>1. /\ Cardinality(held') = Cardinality(held) - 1
        /\ Cardinality(lost') = Cardinality(lost) + 1
        /\ Cardinality(held) \in Nat /\ Cardinality(lost) \in Nat
    BY <1>0, ObjectsFinite, FS_RemoveElement, FS_AddElement
  <2>. QED
    BY <2>1, <1>0 DEF IInv, InuseCounts
<1>5. UngrownUntouched'
  BY <1>0 DEF IInv, UngrownUntouched
<1>6. ListShape'
  <2>1. free[s] > 0
    <3>1. Cardinality(Out(s)) # 0 /\ Cardinality(Out(s)) \in Nat
      BY <1>0, OutFinite DEF Out
    <3>. QED
      BY <3>1 DEF IInv, FreeCounts
  <2>2. \A head \in {Full, Partial} :
          links.next[head] = s => s \in ListNodes(links, head, Nodes)
    BY DEF ListNodes, Nodes, Heads
  <2>3. \A head \in Heads : links.next[head] # s
    <3>1. links.next[Full] # s /\ links.next[Partial] # s
      BY <2>2 DEF DeallocNotFound, Searched
    <3>2. links.next[Free] # s
      BY <2>1 DEF IInv, ListShape, BelongsTo, Heads
    <3>. QED
      BY <3>1, <3>2 DEF Heads
  <2>. QED
    BY <1>0, <2>3 DEF IInv, ListShape, BelongsTo
<1>. QED
  BY <1>1, <1>2, <1>3, <1>4, <1>5, <1>6 DEF IInv

-----------------------------------------------------------------------------
LEMMA NextIInv == IInv /\ [Next]_vars => IInv'
<1>. SUFFICES ASSUME IInv, [Next]_vars PROVE IInv'
  OBVIOUS
<1>1. CASE AllocFromListed
  <2>1. grown' \in SUBSET Slabs
    BY <1>1 DEF AllocFromListed, IInv, TypeOK
  <2>. QED
    BY <1>1, <2>1, ListedSelected, AllocIInv
<1>2. ASSUME NEW s \in Slabs, AllocFromNew(s) PROVE IInv'
  <2>1. grown' \in SUBSET Slabs
    BY <1>2 DEF AllocFromNew, IInv, TypeOK
  <2>. QED
    BY <1>2, <2>1, NewSelected, AllocIInv
<1>3. CASE UNCHANGED vars
  BY <1>3 DEF vars, IInv, TypeOK, NoDoubleAllocation, FreeCounts, InuseCounts,
              HeldOrLost, UngrownUntouched, ListShape, BelongsTo, Out
<1>. QED
  BY <1>1, <1>2, <1>3, DeallocFoundIInv, DeallocNotFoundIInv DEF Next

\* The inductive invariant holds for every number of slabs and of objects.
THEOREM InductiveInvariant == Spec => []IInv
BY InitIInv, NextIInv, PTL DEF Spec

\* No two callers ever hold the same object.
THEOREM AllocatesOnce == Spec => []NoDoubleAllocation
<1>1. IInv => NoDoubleAllocation
  BY DEF IInv
<1>. QED
  BY <1>1, InductiveInvariant, PTL

\* The index stack is never read out of its bounds and assert(slab->free) holds.
THEOREM BoundsRespected == Spec => []StackInBounds
<1>1. IInv => StackInBounds
  <2>. SUFFICES ASSUME IInv PROVE StackInBounds
    OBVIOUS
  <2>1. ASSUME NEW head \in {Partial, Free}, ~ListEmpty(links, head)
        PROVE  links.next[head] \in grown /\ free[links.next[head]] < NObjs
    BY <2>1, SlabAssumption DEF IInv, ListShape, BelongsTo, ListEmpty, Heads
  <2>2. ASSUME NEW o \in held PROVE free[o[1]] > 0
    <3>1. o[1] \in Slabs /\ o[2] \in Index /\ o = <<o[1], o[2]>>
      BY <2>2 DEF IInv, TypeOK, Objects
    <3>2. o[2] \in Out(o[1])
      BY <2>2, <3>1 DEF Out
    <3>3. Cardinality(Out(o[1])) # 0 /\ Cardinality(Out(o[1])) \in Nat
      BY <3>1, <3>2, OutFinite
    <3>. QED
      BY <3>1, <3>3 DEF IInv, FreeCounts
  <2>. QED
    BY <2>1, <2>2 DEF StackInBounds
<1>. QED
  BY <1>1, InductiveInvariant, PTL

\* An object given back to a slab that no list reaches is never counted free
\* again: cache_alloc and cache_dealloc only touch slabs without lost objects.
THEOREM LostForEver == Spec => LostStaysLost
<1>. DEFINE Stays == lost \subseteq lost' /\ \A o \in lost : free'[o[1]] = free[o[1]]
<1>. USE SlabAssumption
<1>1. ASSUME IInv, Next PROVE Stays
  <2>0. \A o \in lost : o[1] \in Slabs /\ o[2] \in Index /\ o = <<o[1], o[2]>>
    BY <1>1 DEF IInv, TypeOK, Objects
  <2>1. ASSUME NEW s, NEW l, NEW head, Selected(s, l, head), AllocFrom(s, l)
        PROVE  Stays
    <3>1. \A o \in lost : o[1] # s
      BY <2>0, <2>1 DEF Selected
    <3>. QED
      BY <1>1, <2>0, <2>1, <3>1 DEF AllocFrom, IInv, TypeOK
  <2>2. ASSUME NEW s \in Slabs, NEW i \in Index, DeallocFound(s, i) PROVE Stays
    <3>1. PICK h0 \in {Full, Partial} : s \in ListNodes(links, h0, Nodes)
      BY <2>2 DEF DeallocFound, Searched
    <3>2. links.next[h0] = s
      BY <1>1, <3>1, OnlyFirstListed DEF IInv, Heads
    <3>3. BelongsTo(s, h0)
      BY <1>1, <3>2 DEF IInv, ListShape, Heads
    <3>4. \A o \in lost : o[1] # s
      BY <2>0, <3>3 DEF BelongsTo
    <3>. QED
      BY <1>1, <2>0, <2>2, <3>4 DEF DeallocFound, DeallocFrom, IInv, TypeOK
  <2>3. ASSUME NEW s \in Slabs, NEW i \in Index, DeallocNotFound(s, i) PROVE Stays
    BY <2>3 DEF DeallocNotFound
  <2>4. CASE AllocFromListed
    BY <1>1, <2>1, <2>4, ListedSelected
  <2>5. ASSUME NEW s \in Slabs, AllocFromNew(s) PROVE Stays
    BY <1>1, <2>1, <2>5, NewSelected
  <2>. QED
    BY <1>1, <2>2, <2>3, <2>4, <2>5 DEF Next
<1>2. IInv /\ [Next]_vars => [Stays]_vars
  BY <1>1
<1>. QED
  BY <1>2, InductiveInvariant, PTL DEF Spec, LostStaysLost

=============================================================================
