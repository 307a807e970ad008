---------------------------- MODULE ResourceProofs ----------------------------
(***************************************************************************)
(* Machine-checked proofs about Resource, for every set of processes and   *)
(* of inodes and every size of a block: the counts of the inodes are exact *)
(* whatever drops, opens and forks overlap, leaks have one of two causes,  *)
(* and only the first block of a table is ever used.                       *)
(***************************************************************************)
EXTENDS Resource, FiniteSetTheorems, SequenceTheorems, WellFoundedInduction, TLAPS

Contents == Inodes \cup {Null, NoInode}
Block == [occupied : 0 .. MaxOpens, data : [Index -> Contents]]

InDrop == {"drop", "destroy", "decrement", "exitdrop", "exitdestroy", "exitdecrement"}

\* A second block is appended only when the first has counted more opens than it has
\* slots, and from then on resource_add takes the first for the one that is not full.
FirstBlockOnly(c) ==
  \/ Len(c) = 1
  \/ Len(c) = 2 /\ c[1].occupied > RPB /\ c[2] = NewBlock

ChainsSound ==
  \A p \in Procs : IF pc[p] = "none" THEN blocks[p] = <<>> ELSE FirstBlockOnly(blocks[p])

\* The resource that a call is about is in the table.
CallsSound ==
  \A p \in Procs :
    /\ pc[p] = "open" => slot[p] \in Slots(p) /\ Content(p, slot[p]) = NoInode
    /\ pc[p] \in InDrop => slot[p] \in Slots(p) /\ Content(p, slot[p]) \in Inodes

\* Who has seen the count 1 has the last reference; who decrements has seen another.
DropsSound ==
  \A p \in Procs :
    /\ pc[p] \in {"destroy", "exitdestroy"} => shared[Content(p, slot[p])] = 1
    /\ pc[p] \in {"decrement", "exitdecrement"} => seen[p] # 1

FreeNotForgotten == \A i \in Inodes \ live : forgotten[i] = 0

IInv ==
  /\ CountExact
  /\ ChainsSound
  /\ CallsSound
  /\ DropsSound
  /\ FreeNotForgotten
  /\ LeaksExplained

-----------------------------------------------------------------------------
(* The table of one process *)

LEMMA Domains ==
  ASSUME TypeOK, NEW p \in Procs
  PROVE  /\ blocks[p] \in Seq(Block) /\ Len(blocks[p]) \in Nat
         /\ DOMAIN blocks[p] = 1 .. Len(blocks[p])
         /\ \A k \in DOMAIN blocks[p] : blocks[p][k] \in Block
         /\ \A s : s \in Slots(p) <=> /\ s = <<s[1], s[2]>>
                                      /\ s[1] \in DOMAIN blocks[p] /\ s[2] \in Index
         /\ \A s \in Slots(p) : Content(p, s) \in Contents
<1>1. blocks[p] \in Seq(Block)
  BY DEF TypeOK, Block, Contents
<1>2. /\ Len(blocks[p]) \in Nat /\ DOMAIN blocks[p] = 1 .. Len(blocks[p])
      /\ \A k \in DOMAIN blocks[p] : blocks[p][k] \in Block
  BY <1>1, LenProperties
<1>3. \A s : s \in Slots(p) <=> /\ s = <<s[1], s[2]>>
                                /\ s[1] \in DOMAIN blocks[p] /\ s[2] \in Index
  BY DEF Slots
<1>4. \A s \in Slots(p) : Content(p, s) \in Contents
  BY <1>2, <1>3 DEF Content, Block
<1>. QED
  BY <1>1, <1>2, <1>3, <1>4

\* Writing a slot changes that slot.
LEMMA PutKeeps ==
  ASSUME TypeOK, NEW p \in Procs, slot[p] \in Slots(p), NEW x \in Contents,
         blocks' = Put(p, x)
  PROVE  /\ blocks' \in [Procs -> Seq(Block)]
         /\ \A q \in Procs \ {p} : blocks'[q] = blocks[q]
         /\ Len(blocks'[p]) = Len(blocks[p])
         /\ \A q \in Procs : Slots(q)' = Slots(q)
         /\ \A k \in DOMAIN blocks[p] : blocks'[p][k].occupied = blocks[p][k].occupied
         /\ \A k \in DOMAIN blocks[p] : k # slot[p][1] => blocks'[p][k] = blocks[p][k]
         /\ \A q \in Procs : \A s \in Slots(q) :
              Content(q, s)' = IF q = p /\ s = slot[p] THEN x ELSE Content(q, s)
<1>. DEFINE k == slot[p][1]
            i == slot[p][2]
            c == blocks[p]
            b == [c[k] EXCEPT !.data[i] = x]
            d == [c EXCEPT ![k] = b]
<1>1. /\ c \in Seq(Block) /\ Len(c) \in Nat /\ DOMAIN c = 1 .. Len(c)
      /\ \A j \in DOMAIN c : c[j] \in Block
      /\ k \in DOMAIN c /\ i \in Index /\ slot[p] = <<k, i>>
  BY Domains
<1>2. blocks' = [blocks EXCEPT ![p] = d]
  BY DEF Put
<1>3. /\ b \in Block /\ b.occupied = c[k].occupied
      /\ \A j \in Index : b.data[j] = IF j = i THEN x ELSE c[k].data[j]
  BY <1>1 DEF Block
<1>4. d \in Seq(Block) /\ Len(d) = Len(c)
  BY <1>1, <1>3, ExceptSeq
<1>5. \A j \in DOMAIN c : d[j] = IF j = k THEN b ELSE c[j]
  OBVIOUS
<1>6. blocks \in [Procs -> Seq(Block)]
  BY DEF TypeOK, Block, Contents
<1>. HIDE DEF b, d
<1>7. /\ blocks'[p] = d /\ \A q \in Procs \ {p} : blocks'[q] = blocks[q]
      /\ blocks' \in [Procs -> Seq(Block)]
  BY <1>2, <1>4, <1>6
<1>8. DOMAIN d = DOMAIN c
  BY <1>1, <1>4, LenProperties
<1>9. \A q \in Procs : Slots(q)' = Slots(q)
  BY <1>7, <1>8 DEF Slots
<1>10. ASSUME NEW q \in Procs, NEW s \in Slots(q)
       PROVE  Content(q, s)' = IF q = p /\ s = slot[p] THEN x ELSE Content(q, s)
  <2>1. CASE q # p
    BY <1>7, <2>1 DEF Content
  <2>2. CASE q = p
    <3>1. s = <<s[1], s[2]>> /\ s[1] \in DOMAIN c /\ s[2] \in Index
      BY <2>2, Domains
    <3>2. Content(q, s)' = d[s[1]].data[s[2]] /\ Content(q, s) = c[s[1]].data[s[2]]
      BY <1>7, <2>2 DEF Content
    <3>3. CASE s[1] = k
      <4>1. d[s[1]].data[s[2]] = IF s[2] = i THEN x ELSE c[k].data[s[2]]
        BY <1>3, <1>5, <3>1, <3>3
      <4>2. s = slot[p] <=> s[2] = i
        BY <1>1, <3>1, <3>3
      <4>. QED
        BY <2>2, <3>2, <3>3, <4>1, <4>2
    <3>4. CASE s[1] # k
      <4>1. d[s[1]] = c[s[1]]
        BY <1>5, <3>1, <3>4
      <4>2. s # slot[p]
        BY <1>1, <3>4
      <4>. QED
        BY <3>2, <4>1, <4>2
    <3>. QED
      BY <3>3, <3>4
  <2>. QED
    BY <2>1, <2>2
<1>. QED
  BY <1>3, <1>4, <1>5, <1>7, <1>9, <1>10

\* There is a second block or not.
LEMMA OneOrTwo ==
  ASSUME TypeOK, NEW p \in Procs, FirstBlockOnly(blocks[p])
  PROVE  /\ 1 \in DOMAIN blocks[p] /\ DOMAIN blocks[p] \subseteq {1, 2}
         /\ Len(blocks[p]) = 1 <=> DOMAIN blocks[p] = {1}
<1>1. DOMAIN blocks[p] = 1 .. Len(blocks[p])
  BY Domains
<1>2. Len(blocks[p]) \in {1, 2}
  BY DEF FirstBlockOnly
<1>3. \A n \in {1, 2} : 1 \in 1 .. n /\ 1 .. n \subseteq {1, 2} /\ (n = 1 <=> 1 .. n = {1})
  OBVIOUS
<1>. QED
  BY <1>1, <1>2, <1>3

\* The block that resource_add takes is the first.
LEMMA AddBlockIsFirst ==
  ASSUME TypeOK, NEW p \in Procs, FirstBlockOnly(blocks[p])
  PROVE  AddBlock(p) = 1 /\ 1 \in DOMAIN blocks[p]
<1>1. /\ 1 \in DOMAIN blocks[p] /\ DOMAIN blocks[p] \subseteq {1, 2}
      /\ Len(blocks[p]) = 1 <=> DOMAIN blocks[p] = {1}
  BY OneOrTwo
<1>2. 1 \in DOMAIN blocks[p]
  BY <1>1
<1>3. CASE Full(p) = DOMAIN blocks[p]
  <2>1. Len(blocks[p]) = 1
    <3>1. blocks[p][1].occupied = RPB
      BY <1>2, <1>3 DEF Full
    <3>. QED
      BY <3>1, ResourceAssumption DEF FirstBlockOnly
  <2>. QED
    BY <1>2, <1>3, <2>1 DEF AddBlock
<1>4. CASE Full(p) # DOMAIN blocks[p]
  <2>. DEFINE S == DOMAIN blocks[p] \ Full(p)
  <2>1. S \subseteq {1, 2} /\ 1 \in S
    <3>1. DOMAIN blocks[p] \subseteq {1, 2}
      BY <1>1
    <3>2. 1 \notin Full(p)
      <4>1. CASE Len(blocks[p]) = 1
        <5>1. DOMAIN blocks[p] = {1}
          BY <1>1, <4>1
        <5>. QED
          BY <1>4, <5>1 DEF Full
      <4>2. CASE blocks[p][1].occupied > RPB
        BY <4>2, ResourceAssumption DEF Full
      <4>. QED
        BY <4>1, <4>2 DEF FirstBlockOnly
    <3>. QED
      BY <1>2, <3>1, <3>2
  <2>2. Min(S) = 1
    <3>1. \A x \in S : 1 <= x
      BY <2>1
    <3>2. \A y \in S : (\A x \in S : y <= x) => y = 1
      BY <2>1
    <3>. QED
      BY <2>1, <3>1, <3>2 DEF Min
  <2>. QED
    BY <1>2, <1>4, <2>2 DEF AddBlock
<1>. QED
  BY <1>3, <1>4

\* A set of numbers that is not empty has a least one.
LEMMA LeastNumber ==
  ASSUME NEW S \in SUBSET Nat, S # {}
  PROVE  \E x \in S : \A y \in S : x <= y
<1>1. PICK x \in S : \A y \in S : ~ (<<y, x>> \in OpToRel(<, Nat))
  BY WFMin, NatLessThanWellFounded
<1>2. ASSUME NEW y \in S PROVE x <= y
  <2>1. x \in Nat /\ y \in Nat
    OBVIOUS
  <2>2. ~ (y < x)
    BY <1>1, <2>1 DEF OpToRel
  <2>. QED
    BY <2>1, <2>2
<1>. QED
  BY <1>2

LEMMA MinIsIn ==
  ASSUME NEW S \in SUBSET Nat, S # {}
  PROVE  Min(S) \in S
BY LeastNumber DEF Min

\* The next slot that exit frees is one that is in use.
LEMMA NextInUseIsIn ==
  ASSUME TypeOK, NEW p \in Procs, InUse(p) # {}
  PROVE  NextInUse(p) \in InUse(p)
<1>. DEFINE T == {IdOf(s) : s \in InUse(p)}
<1>1. ASSUME NEW s \in InUse(p) PROVE IdOf(s) \in Nat
  <2>1. s[1] \in Nat \ {0} /\ s[2] \in Nat /\ RPB \in Nat
    BY Domains, ResourceAssumption DEF InUse, Index
  <2>2. s[1] - 1 \in Nat
    BY <2>1
  <2>3. (s[1] - 1) * RPB \in Nat
    BY <2>1, <2>2
  <2>. QED
    BY <2>1, <2>3 DEF IdOf
<1>2. T \in SUBSET Nat /\ T # {}
  BY <1>1
<1>3. PICK x \in T : \A y \in T : x <= y
  BY <1>2, LeastNumber
<1>4. \E s \in InUse(p) : \A r \in InUse(p) : IdOf(s) <= IdOf(r)
  BY <1>3
<1>. QED
  BY <1>4 DEF NextInUse

-----------------------------------------------------------------------------
(* References *)

LEMMA ReferringMember ==
  ASSUME NEW i
  PROVE  \A x : x \in Referring(i) <=> \E p \in Procs : \E s \in Holds(p, i) : x = <<p, s>>
BY DEF Referring

LEMMA ReferringFinite ==
  ASSUME TypeOK, ChainsSound, NEW i
  PROVE  /\ IsFiniteSet(Referring(i)) /\ Cardinality(Referring(i)) \in Nat
         /\ \A p \in Procs : IsFiniteSet(Holds(p, i))
<1>. DEFINE S == (1 .. 2) \X Index
<1>1. IsFiniteSet(S)
  <2>1. IsFiniteSet(1 .. 2) /\ IsFiniteSet(Index)
    <3>1. 0 \in Int /\ 1 \in Int /\ 2 \in Int /\ RPB - 1 \in Int
      BY ResourceAssumption
    <3>. QED
      BY <3>1, FS_Interval DEF Index
  <2>. QED
    BY <2>1, FS_Product
<1>2. IsFiniteSet(Procs \X S)
  BY <1>1, FS_Product, ResourceAssumption
<1>3. ASSUME NEW p \in Procs PROVE Holds(p, i) \subseteq S
  <2>1. DOMAIN blocks[p] \subseteq 1 .. 2
    <3>1. CASE pc[p] = "none"
      <4>1. blocks[p] = <<>>
        BY <3>1 DEF ChainsSound
      <4>. QED
        BY <4>1
    <3>2. CASE pc[p] # "none"
      <4>1. FirstBlockOnly(blocks[p])
        BY <3>2 DEF ChainsSound
      <4>. QED
        BY <4>1, OneOrTwo
    <3>. QED
      BY <3>1, <3>2
  <2>. QED
    BY <2>1 DEF Holds, Slots
<1>4. Referring(i) \subseteq Procs \X S
  BY <1>3, ReferringMember
<1>. QED
  BY <1>1, <1>2, <1>3, <1>4, FS_Subset, FS_CardinalityType

LEMMA RefsSame ==
  ASSUME NEW i, \A p \in Procs : Holds(p, i)' = Holds(p, i)
  PROVE  Refs(i)' = Refs(i)
<1>1. Referring(i)' = Referring(i)
  BY DEF Referring
<1>. QED
  BY <1>1 DEF Refs

LEMMA TableSame ==
  ASSUME blocks' = blocks
  PROVE  /\ \A p : Slots(p)' = Slots(p)
         /\ \A p, s : Content(p, s)' = Content(p, s)
         /\ \A p, i : Holds(p, i)' = Holds(p, i)
         /\ \A i : Refs(i)' = Refs(i)
<1>1. \A p : Slots(p)' = Slots(p)
  BY DEF Slots
<1>2. \A p, s : Content(p, s)' = Content(p, s)
  BY DEF Content
<1>3. \A p, i : Holds(p, i)' = Holds(p, i)
  BY <1>1, <1>2 DEF Holds
<1>. QED
  BY <1>1, <1>2, <1>3, RefsSame

\* What writing a slot does to the references to an inode.
LEMMA RefsAfterPut ==
  ASSUME TypeOK, ChainsSound, NEW p \in Procs, slot[p] \in Slots(p), NEW x \in Contents,
         blocks' = Put(p, x), NEW i \in Inodes
  PROVE  /\ \A q \in Procs \ {p} : Holds(q, i)' = Holds(q, i)
         /\ Refs(i)' = Refs(i) + (IF x = i THEN 1 ELSE 0)
                               - (IF Content(p, slot[p]) = i THEN 1 ELSE 0)
<1>. DEFINE c == Content(p, slot[p])
            r == <<p, slot[p]>>
<1>1. /\ \A q \in Procs : Slots(q)' = Slots(q)
      /\ \A q \in Procs : \A s \in Slots(q) :
           Content(q, s)' = IF q = p /\ s = slot[p] THEN x ELSE Content(q, s)
  BY PutKeeps
<1>2. \A q \in Procs \ {p} : Holds(q, i)' = Holds(q, i)
  BY <1>1 DEF Holds
<1>3. Holds(p, i)' = IF x = i THEN Holds(p, i) \cup {slot[p]} ELSE Holds(p, i) \ {slot[p]}
  BY <1>1 DEF Holds
<1>4. r \in Referring(i) <=> c = i
  <2>1. slot[p] \in Holds(p, i) <=> c = i
    BY DEF Holds
  <2>. QED
    BY <2>1, ReferringMember
<1>5. Referring(i)' = UNION {{q} \X Holds(q, i)' : q \in Procs}
  BY DEF Referring
<1>6. Referring(i)' = IF x = i THEN Referring(i) \cup {r} ELSE Referring(i) \ {r}
  <2>1. \A y : y \in Referring(i)' <=> \E q \in Procs : \E s \in Holds(q, i)' : y = <<q, s>>
    BY <1>5
  <2>2. \A y : y \in Referring(i) <=> \E q \in Procs : \E s \in Holds(q, i) : y = <<q, s>>
    BY ReferringMember
  <2>3. CASE x = i
    <3>1. \A y : y \in Referring(i)' <=> y \in Referring(i) \/ y = r
      BY <1>2, <1>3, <2>1, <2>2, <2>3
    <3>. QED
      BY <3>1, <2>3
  <2>4. CASE x # i
    <3>1. \A y : y \in Referring(i)' <=> y \in Referring(i) /\ y # r
      BY <1>2, <1>3, <2>1, <2>2, <2>4
    <3>. QED
      BY <3>1, <2>4
  <2>. QED
    BY <2>3, <2>4
<1>7. IsFiniteSet(Referring(i)) /\ Cardinality(Referring(i)) \in Nat
  BY ReferringFinite
<1>8. /\ Cardinality(Referring(i) \cup {r}) =
           IF c = i THEN Cardinality(Referring(i)) ELSE Cardinality(Referring(i)) + 1
      /\ Cardinality(Referring(i) \ {r}) =
           IF c = i THEN Cardinality(Referring(i)) - 1 ELSE Cardinality(Referring(i))
  BY <1>4, <1>7, FS_AddElement, FS_RemoveElement
<1>9. Cardinality(Referring(i)') = Cardinality(Referring(i)) + (IF x = i THEN 1 ELSE 0)
                                                             - (IF c = i THEN 1 ELSE 0)
  BY <1>6, <1>7, <1>8
<1>10. Refs(i)' = Cardinality(Referring(i)') + IF i \in Files THEN 1 ELSE 0
  BY DEF Refs
<1>11. Refs(i) = Cardinality(Referring(i)) + IF i \in Files THEN 1 ELSE 0
  BY DEF Refs
<1>12. ASSUME NEW n \in Nat, NEW m, NEW file \in {0, 1}, NEW more \in {0, 1}, NEW less \in {0, 1},
              m = n + more - less
       PROVE  m + file = n + file + more - less
  BY <1>12
<1>13. Refs(i)' = Refs(i) + (IF x = i THEN 1 ELSE 0) - (IF c = i THEN 1 ELSE 0)
  BY <1>7, <1>9, <1>10, <1>11, <1>12
<1>. QED
  BY <1>2, <1>13

\* A resource is a reference; the file system and other processes have others.
LEMMA RefsAtLeast ==
  ASSUME TypeOK, ChainsSound, NEW i \in Inodes
  PROVE  /\ Refs(i) \in Nat
         /\ i \in Files => Refs(i) >= 1
         /\ \A p \in Procs : Holds(p, i) # {} => Refs(i) >= 1 /\ (i \in Files => Refs(i) >= 2)
         /\ \A p, q \in Procs : p # q /\ Holds(p, i) # {} /\ Holds(q, i) # {} => Refs(i) >= 2
<1>. DEFINE R == Referring(i)
<1>1. IsFiniteSet(R) /\ Cardinality(R) \in Nat
  BY ReferringFinite
<1>2. \A x : x \in R <=> \E p \in Procs : \E s \in Holds(p, i) : x = <<p, s>>
  BY ReferringMember
<1>3. Refs(i) = Cardinality(R) + IF i \in Files THEN 1 ELSE 0
  BY DEF Refs
<1>. HIDE DEF R
<1>4. ASSUME NEW p \in Procs, Holds(p, i) # {}
      PROVE  Cardinality(R) >= 1
  <2>1. R # {}
    BY <1>2, <1>4
  <2>. QED
    BY <1>1, <2>1, FS_EmptySet
<1>5. ASSUME NEW p \in Procs, NEW q \in Procs, p # q, Holds(p, i) # {}, Holds(q, i) # {}
      PROVE  Cardinality(R) >= 2
  <2>1. PICK s \in Holds(p, i), r \in Holds(q, i) : TRUE
    BY <1>5
  <2>2. <<p, s>> \in R /\ <<q, r>> \in R /\ <<p, s>> # <<q, r>>
    BY <1>2, <1>5
  <2>3. Cardinality(R) # 1
    BY <1>1, <2>2, FS_Singleton
  <2>4. Cardinality(R) >= 1
    BY <1>4, <1>5
  <2>. QED
    BY <1>1, <2>3, <2>4
<1>6. Refs(i) \in Nat /\ (i \in Files => Refs(i) >= 1)
  BY <1>1, <1>3
<1>7. \A p \in Procs : Holds(p, i) # {} => Refs(i) >= 1 /\ (i \in Files => Refs(i) >= 2)
  BY <1>1, <1>3, <1>4
<1>8. \A p, q \in Procs : p # q /\ Holds(p, i) # {} /\ Holds(q, i) # {} => Refs(i) >= 2
  BY <1>1, <1>3, <1>5
<1>. QED
  BY <1>6, <1>7, <1>8

\* idrop only destroys the inode of the last reference.
LEMMA LastReference ==
  ASSUME IInv, NEW p \in Procs, pc[p] \in {"destroy", "exitdestroy"},
         NEW i, i = Content(p, slot[p])
  PROVE  /\ i \in Inodes /\ i \in live /\ i \notin Files
         /\ shared[i] = 1 /\ Refs(i) = 1 /\ forgotten[i] = 0
         /\ \A q \in Procs \ {p} : Holds(q, i) = {}
<1>1. slot[p] \in Slots(p) /\ i \in Inodes /\ shared[i] = 1
  BY DEF IInv, CallsSound, DropsSound, InDrop
<1>2. TypeOK /\ ChainsSound
  BY DEF IInv, CountExact
<1>3. slot[p] \in Holds(p, i)
  BY <1>1 DEF Holds
<1>4. /\ Refs(i) \in Nat /\ Refs(i) >= 1
      /\ i \in Files => Refs(i) >= 2
      /\ \A q \in Procs \ {p} : Holds(q, i) # {} => Refs(i) >= 2
  BY <1>1, <1>2, <1>3, RefsAtLeast
<1>5. forgotten[i] \in Nat
  BY <1>1, <1>2 DEF TypeOK
<1>6. i \in live /\ shared[i] = Refs(i) + forgotten[i]
  BY <1>1, <1>4 DEF IInv, CountExact
<1>7. Refs(i) = 1 /\ forgotten[i] = 0
  BY <1>1, <1>4, <1>5, <1>6
<1>. QED
  BY <1>1, <1>4, <1>6, <1>7

\* A process in idrop holds a reference, so its inode is allocated and counted.
LEMMA DropHolds ==
  ASSUME IInv, NEW p \in Procs, pc[p] \in InDrop, NEW i, i = Content(p, slot[p])
  PROVE  /\ slot[p] \in Slots(p) /\ i \in Inodes /\ slot[p] \in Holds(p, i)
         /\ Refs(i) \in Nat /\ Refs(i) >= 1
         /\ i \in live /\ shared[i] = Refs(i) + forgotten[i] /\ forgotten[i] \in Nat
<1>1. slot[p] \in Slots(p) /\ i \in Inodes
  BY DEF IInv, CallsSound
<1>2. TypeOK /\ ChainsSound
  BY DEF IInv, CountExact
<1>3. slot[p] \in Holds(p, i)
  BY <1>1 DEF Holds
<1>4. Refs(i) \in Nat /\ Refs(i) >= 1
  BY <1>1, <1>2, <1>3, RefsAtLeast
<1>5. i \in live /\ shared[i] = Refs(i) + forgotten[i] /\ forgotten[i] \in Nat
  BY <1>1, <1>2, <1>4 DEF IInv, CountExact, TypeOK
<1>. QED
  BY <1>1, <1>3, <1>4, <1>5

-----------------------------------------------------------------------------
(* The inductive invariant *)

LEMMA InitIInv == Init => IInv
<1>. SUFFICES ASSUME Init PROVE IInv
  OBVIOUS
<1>1. /\ RPB \in Nat /\ RPB > 0 /\ MaxOpens \in Nat /\ 0 \in Index /\ First \in Procs
      /\ Files \subseteq Inodes /\ Null \notin Inodes /\ NoInode \notin Inodes
  BY ResourceAssumption DEF Index
<1>2. NewBlock \in Block
  BY <1>1 DEF NewBlock, Block, Contents
<1>3. <<NewBlock>> \in Seq(Block) /\ <<>> \in Seq(Block)
  BY <1>2
<1>4. blocks \in [Procs -> Seq(Block)]
  BY <1>3 DEF Init
<1>5. TypeOK
  <2>1. live \in SUBSET Inodes /\ shared \in [Inodes -> Nat] /\ forgotten \in [Inodes -> Nat]
    BY <1>1 DEF Init
  <2>2. slot \in [Procs -> Nat \X Index]
    <3>1. <<1, 0>> \in Nat \X Index
      BY <1>1
    <3>. QED
      BY <3>1 DEF Init
  <2>3. pc \in [Procs -> PC] /\ seen \in [Procs -> Nat]
        /\ panicked \in SUBSET (Procs \X Causes)
        /\ raced \in SUBSET Inodes /\ abandoned \in SUBSET Procs
    BY DEF Init, PC
  <2>. QED
    BY <1>4, <2>1, <2>2, <2>3 DEF TypeOK, Block, Contents
<1>6. ChainsSound
  BY DEF Init, ChainsSound, FirstBlockOnly
<1>7. \A p \in Procs : \A s \in Slots(p) : Content(p, s) = Null
  <2>1. SUFFICES ASSUME NEW p \in Procs, NEW s \in Slots(p) PROVE Content(p, s) = Null
    OBVIOUS
  <2>2. s[1] \in DOMAIN blocks[p] /\ s[2] \in Index
    BY DEF Slots
  <2>3. CASE p = First
    <3>1. blocks[p] = <<NewBlock>>
      BY <1>1, <2>3 DEF Init
    <3>2. s[1] = 1
      BY <2>2, <3>1
    <3>. QED
      BY <2>2, <3>1, <3>2 DEF Content, NewBlock
  <2>4. CASE p # First
    <3>1. blocks[p] = <<>>
      BY <2>4 DEF Init
    <3>. QED
      BY <2>2, <3>1
  <2>. QED
    BY <2>3, <2>4
<1>8. \A i \in Inodes : Refs(i) = IF i \in Files THEN 1 ELSE 0
  <2>1. SUFFICES ASSUME NEW i \in Inodes PROVE Refs(i) = IF i \in Files THEN 1 ELSE 0
    OBVIOUS
  <2>2. \A p \in Procs : Holds(p, i) = {}
    BY <1>1, <1>7 DEF Holds
  <2>3. Referring(i) = {}
    BY <2>2, ReferringMember
  <2>. QED
    BY <2>3, FS_EmptySet DEF Refs
<1>9. CountExact
  <2>1. \A i \in Inodes : IF i \in live THEN shared[i] = Refs(i) + forgotten[i] ELSE Refs(i) = 0
    BY <1>1, <1>8 DEF Init
  <2>. QED
    BY <1>5, <2>1 DEF CountExact
<1>10. CallsSound /\ DropsSound
  BY DEF Init, CallsSound, DropsSound, InDrop
<1>11. FreeNotForgotten
  BY DEF Init, FreeNotForgotten
<1>12. LeaksExplained
  BY <1>1, <1>8 DEF Init, LeaksExplained
<1>. QED
  BY <1>6, <1>9, <1>10, <1>11, <1>12 DEF IInv

\* An action that writes the slot of its call.
LEMMA PutSound ==
  ASSUME IInv, NEW p \in Procs, pc[p] = "open" \/ pc[p] \in InDrop,
         NEW x \in Contents, blocks' = Put(p, x),
         NEW l \in PC \ {"none", "open"}, pc' = [pc EXCEPT ![p] = l],
         l \in InDrop => x \in Inodes,
         slot' = slot
  PROVE  /\ slot[p] \in Slots(p) /\ Content(p, slot[p]) # Null
         /\ blocks' \in [Procs -> Seq(Block)]
         /\ \A q \in Procs : pc'[q] = IF q = p THEN l ELSE pc[q]
         /\ \A q \in Procs : \A s \in Slots(q) :
              Content(q, s)' = IF q = p /\ s = slot[p] THEN x ELSE Content(q, s)
         /\ ChainsSound' /\ CallsSound'
<1>1. TypeOK /\ ChainsSound /\ CallsSound
  BY DEF IInv, CountExact
<1>2. slot[p] \in Slots(p) /\ Content(p, slot[p]) # Null
  BY <1>1, ResourceAssumption DEF CallsSound
<1>3. \A q \in Procs : pc'[q] = IF q = p THEN l ELSE pc[q]
  BY <1>1 DEF TypeOK
<1>4. /\ blocks' \in [Procs -> Seq(Block)]
      /\ \A q \in Procs \ {p} : blocks'[q] = blocks[q]
      /\ Len(blocks'[p]) = Len(blocks[p])
      /\ \A q \in Procs : Slots(q)' = Slots(q)
      /\ \A k \in DOMAIN blocks[p] : blocks'[p][k].occupied = blocks[p][k].occupied
      /\ \A k \in DOMAIN blocks[p] : k # slot[p][1] => blocks'[p][k] = blocks[p][k]
      /\ \A q \in Procs : \A s \in Slots(q) :
           Content(q, s)' = IF q = p /\ s = slot[p] THEN x ELSE Content(q, s)
  BY <1>1, <1>2, PutKeeps
<1>5. FirstBlockOnly(blocks[p])
  BY <1>1 DEF ChainsSound, InDrop
<1>6. FirstBlockOnly(blocks'[p])
  <2>1. CASE Len(blocks[p]) = 1
    BY <1>4, <2>1 DEF FirstBlockOnly
  <2>2. CASE Len(blocks[p]) = 2
    <3>1. blocks[p][1].occupied > RPB /\ blocks[p][2] = NewBlock
      BY <1>5, <2>2 DEF FirstBlockOnly
    <3>2. DOMAIN blocks[p] = 1 .. 2
      BY <1>1, <2>2, Domains
    <3>3. slot[p][1] # 2
      <4>1. slot[p][2] \in Index
        BY <1>1, <1>2, Domains
      <4>. QED
        BY <1>2, <3>1, <4>1 DEF Content, NewBlock
    <3>4. 1 \in DOMAIN blocks[p] /\ 2 \in DOMAIN blocks[p]
      BY <3>2
    <3>. QED
      BY <1>4, <2>2, <3>1, <3>3, <3>4 DEF FirstBlockOnly
  <2>. QED
    BY <1>5, <2>1, <2>2 DEF FirstBlockOnly
<1>7. ChainsSound'
  <2>1. ASSUME NEW q \in Procs
        PROVE  IF pc'[q] = "none" THEN blocks'[q] = <<>> ELSE FirstBlockOnly(blocks'[q])
    <3>1. CASE q = p
      BY <1>3, <1>6, <3>1
    <3>2. CASE q # p
      BY <1>1, <1>3, <1>4, <3>2 DEF ChainsSound
    <3>. QED
      BY <3>1, <3>2
  <2>. QED
    BY <2>1 DEF ChainsSound
<1>8. CallsSound'
  <2>1. ASSUME NEW q \in Procs
        PROVE  /\ pc'[q] = "open" => (slot[q] \in Slots(q))' /\ Content(q, slot[q])' = NoInode
               /\ pc'[q] \in InDrop => (slot[q] \in Slots(q))' /\ Content(q, slot[q])' \in Inodes
    <3>1. CASE q = p
      <4>1. pc'[q] = l /\ slot'[q] = slot[p]
        BY <1>3, <3>1
      <4>. QED
        BY <1>2, <1>4, <3>1, <4>1 DEF Content, Slots
    <3>2. CASE q # p
      <4>1. pc'[q] = pc[q] /\ slot'[q] = slot[q]
        BY <1>3, <3>2
      <4>. QED
        BY <1>1, <1>4, <3>2, <4>1 DEF CallsSound, Content, Slots
    <3>. QED
      BY <3>1, <3>2
  <2>. QED
    BY <2>1 DEF CallsSound
<1>. QED
  BY <1>2, <1>3, <1>4, <1>7, <1>8

\* An action that only moves a process on.
LEMMA MoveSound ==
  ASSUME IInv, NEW p \in Procs, pc[p] # "none",
         NEW l \in PC \ {"none", "open"}, pc' = [pc EXCEPT ![p] = l],
         NEW s \in Nat \X Index, slot' = [slot EXCEPT ![p] = s],
         l \in InDrop => s \in Slots(p) /\ Content(p, s) \in Inodes,
         NEW n \in Nat, seen' = [seen EXCEPT ![p] = n],
         l \in {"destroy", "exitdestroy"} => shared[Content(p, s)] = 1,
         l \in {"decrement", "exitdecrement"} => n # 1,
         abandoned' \in SUBSET Procs,
         UNCHANGED <<blocks, live, shared, panicked, forgotten, raced>>
  PROVE  IInv'
<1>1. TypeOK /\ CountExact /\ ChainsSound /\ CallsSound /\ DropsSound /\ FreeNotForgotten
      /\ LeaksExplained
  BY DEF IInv, CountExact
<1>2. /\ \A q : Slots(q)' = Slots(q)
      /\ \A q, r : Content(q, r)' = Content(q, r)
      /\ \A i : Refs(i)' = Refs(i)
  BY TableSame
<1>3. /\ \A q \in Procs : pc'[q] = IF q = p THEN l ELSE pc[q]
      /\ \A q \in Procs : slot'[q] = IF q = p THEN s ELSE slot[q]
      /\ \A q \in Procs : seen'[q] = IF q = p THEN n ELSE seen[q]
  BY <1>1 DEF TypeOK
<1>4. TypeOK'
  <2>1. pc' \in [Procs -> PC] /\ slot' \in [Procs -> Nat \X Index] /\ seen' \in [Procs -> Nat]
    BY <1>1 DEF TypeOK
  <2>. QED
    BY <1>1, <2>1 DEF TypeOK
<1>5. CountExact'
  BY <1>1, <1>2, <1>4 DEF CountExact
<1>6. ChainsSound'
  BY <1>1, <1>3 DEF ChainsSound
<1>7. CallsSound'
  <2>1. ASSUME NEW q \in Procs
        PROVE  /\ pc'[q] = "open" => (slot[q] \in Slots(q))' /\ Content(q, slot[q])' = NoInode
               /\ pc'[q] \in InDrop => (slot[q] \in Slots(q))' /\ Content(q, slot[q])' \in Inodes
    BY <1>1, <1>2, <1>3 DEF CallsSound, Content, Slots
  <2>. QED
    BY <2>1 DEF CallsSound
<1>8. DropsSound'
  <2>1. ASSUME NEW q \in Procs
        PROVE  /\ pc'[q] \in {"destroy", "exitdestroy"} => shared[Content(q, slot[q])]' = 1
               /\ pc'[q] \in {"decrement", "exitdecrement"} => seen'[q] # 1
    BY <1>1, <1>2, <1>3 DEF DropsSound, Content
  <2>. QED
    BY <2>1 DEF DropsSound
<1>9. FreeNotForgotten' /\ LeaksExplained'
  BY <1>1, <1>2 DEF FreeNotForgotten, LeaksExplained
<1>. QED
  BY <1>5, <1>6, <1>7, <1>8, <1>9 DEF IInv

\* resource_add: block 1 counts one more, and its slot i gets x.
LEMMA AddSound ==
  ASSUME IInv, NEW p \in Procs, pc[p] # "none",
         NEW i \in EmptySlots(p, 1), NEW x \in {Null, NoInode},
         blocks[p][1].occupied < MaxOpens,
         NEW b, b = [occupied |-> blocks[p][1].occupied + 1,
                     data |-> [blocks[p][1].data EXCEPT ![i] = x]],
         blocks' = [blocks EXCEPT ![p] = [Grown(p) EXCEPT ![1] = b]]
  PROVE  /\ blocks' \in [Procs -> Seq(Block)]
         /\ \A q \in Procs \ {p} : blocks'[q] = blocks[q]
         /\ FirstBlockOnly(blocks'[p])
         /\ <<1, i>> \in Slots(p) /\ Content(p, <<1, i>>) = Null
         /\ \A q \in Procs : \A s \in Slots(q) :
              /\ s \in Slots(q)'
              /\ Content(q, s)' = IF q = p /\ s = <<1, i>> THEN x ELSE Content(q, s)
         /\ \A q \in Procs, j \in Inodes : Holds(q, j)' = Holds(q, j)
         /\ \A q \in Procs : \A s \in Slots(q)' : s \notin Slots(q) => Content(q, s)' = Null
<1>. DEFINE c == blocks[p]
            g == Grown(p)
            d == [g EXCEPT ![1] = b]
            n == Len(c)
<1>1. TypeOK /\ FirstBlockOnly(c)
  BY DEF IInv, CountExact, ChainsSound
<1>2. /\ c \in Seq(Block) /\ n \in Nat /\ DOMAIN c = 1 .. n
      /\ \A k \in DOMAIN c : c[k] \in Block
      /\ 1 \in DOMAIN c /\ DOMAIN c \subseteq {1, 2}
      /\ n = 1 <=> DOMAIN c = {1}
  BY <1>1, Domains, OneOrTwo
<1>3. i \in Index /\ c[1].data[i] = Null
  BY DEF EmptySlots
<1>4. /\ b \in Block /\ b.occupied = c[1].occupied + 1
      /\ \A j \in Index : b.data[j] = IF j = i THEN x ELSE c[1].data[j]
  <2>1. c[1] \in Block
    BY <1>2
  <2>2. c[1].occupied + 1 \in 0 .. MaxOpens
    BY <2>1, ResourceAssumption DEF Block
  <2>3. [c[1].data EXCEPT ![i] = x] \in [Index -> Contents]
    BY <2>1 DEF Block, Contents
  <2>. QED
    BY <1>3, <2>1, <2>2, <2>3 DEF Block
<1>5. NewBlock \in Block
  BY ResourceAssumption DEF NewBlock, Block, Contents
\* The chain before the write.
<1>6. /\ g \in Seq(Block) /\ Len(g) \in {1, 2}
      /\ \A k \in DOMAIN c : k \in DOMAIN g /\ g[k] = c[k]
      /\ Len(g) = 2 => c[1].occupied >= RPB /\ g[2] = NewBlock
      /\ Len(g) = 1 => n = 1
      /\ DOMAIN g = 1 .. Len(g)
  <2>1. CASE Full(p) = DOMAIN c
    <3>1. c[1].occupied = RPB
      BY <1>2, <2>1 DEF Full
    <3>2. n = 1
      BY <1>1, <3>1, ResourceAssumption DEF FirstBlockOnly
    <3>3. g = Append(c, NewBlock)
      BY <2>1 DEF Grown
    <3>4. /\ g \in Seq(Block) /\ Len(g) = 2 /\ g[1] = c[1] /\ g[2] = NewBlock
      BY <1>2, <1>5, <3>2, <3>3, AppendProperties
    <3>5. DOMAIN g = 1 .. 2
      BY <3>4, LenProperties
    <3>6. DOMAIN c = {1}
      BY <1>2, <3>2
    <3>. QED
      BY <3>1, <3>2, <3>4, <3>5, <3>6, ResourceAssumption
  <2>2. CASE Full(p) # DOMAIN c
    <3>1. g = c
      BY <2>2 DEF Grown
    <3>2. Len(c) \in {1, 2} /\ (Len(c) = 2 => c[1].occupied > RPB /\ c[2] = NewBlock)
      BY <1>1 DEF FirstBlockOnly
    <3>3. c[1].occupied \in Nat
      BY <1>2 DEF Block
    <3>4. Len(c) = 2 => c[1].occupied >= RPB /\ c[2] = NewBlock
      BY <3>2, <3>3, ResourceAssumption
    <3>. QED
      BY <1>2, <3>1, <3>2, <3>4
  <2>. QED
    BY <2>1, <2>2
<1>. HIDE DEF g
<1>7. 1 \in DOMAIN g
  BY <1>2, <1>6
<1>8. /\ d \in Seq(Block) /\ Len(d) = Len(g) /\ DOMAIN d = DOMAIN g
      /\ \A k \in DOMAIN g : d[k] = IF k = 1 THEN b ELSE g[k]
  <2>1. d \in Seq(Block) /\ Len(d) = Len(g)
    BY <1>4, <1>6, <1>7, ExceptSeq
  <2>. QED
    BY <1>6, <2>1, LenProperties
<1>. HIDE DEF d
<1>9. blocks \in [Procs -> Seq(Block)]
  BY <1>1 DEF TypeOK, Block, Contents
<1>10. /\ blocks' \in [Procs -> Seq(Block)] /\ blocks'[p] = d
       /\ \A q \in Procs \ {p} : blocks'[q] = blocks[q]
  BY <1>8, <1>9 DEF d, g
<1>11. FirstBlockOnly(d)
  <2>1. CASE Len(g) = 1
    BY <1>8, <2>1 DEF FirstBlockOnly
  <2>2. CASE Len(g) = 2
    <3>1. c[1].occupied \in Nat
      BY <1>2 DEF Block
    <3>2. 2 \in DOMAIN g
      BY <1>6, <2>2
    <3>3. d[2] = NewBlock /\ d[1] = b
      BY <1>6, <1>7, <1>8, <2>2, <3>2
    <3>4. b.occupied > RPB
      BY <1>4, <1>6, <2>2, <3>1, ResourceAssumption
    <3>. QED
      BY <1>8, <2>2, <3>3, <3>4 DEF FirstBlockOnly
  <2>. QED
    BY <1>6, <2>1, <2>2
<1>12. <<1, i>> \in Slots(p) /\ Content(p, <<1, i>>) = Null
  BY <1>2, <1>3 DEF Slots, Content
<1>13. ASSUME NEW q \in Procs, NEW s \in Slots(q)
       PROVE  /\ s \in Slots(q)'
              /\ Content(q, s)' = IF q = p /\ s = <<1, i>> THEN x ELSE Content(q, s)
  <2>1. s = <<s[1], s[2]>> /\ s[1] \in DOMAIN blocks[q] /\ s[2] \in Index
    BY <1>1, Domains
  <2>2. CASE q # p
    BY <1>10, <2>1, <2>2 DEF Slots, Content
  <2>3. CASE q = p
    <3>1. s[1] \in DOMAIN g /\ g[s[1]] = c[s[1]]
      BY <1>6, <2>1, <2>3
    <3>2. s \in Slots(q)'
      BY <1>8, <1>10, <2>1, <2>3, <3>1 DEF Slots
    <3>3. Content(q, s)' = d[s[1]].data[s[2]] /\ Content(q, s) = c[s[1]].data[s[2]]
      BY <1>10, <2>3 DEF Content
    <3>4. CASE s[1] = 1
      <4>1. d[s[1]].data[s[2]] = IF s[2] = i THEN x ELSE c[1].data[s[2]]
        BY <1>4, <1>8, <2>1, <3>1, <3>4
      <4>2. s = <<1, i>> <=> s[2] = i
        BY <2>1, <3>4
      <4>. QED
        BY <2>3, <3>2, <3>3, <3>4, <4>1, <4>2
    <3>5. CASE s[1] # 1
      <4>1. d[s[1]] = c[s[1]]
        BY <1>8, <3>1, <3>5
      <4>. QED
        BY <3>2, <3>3, <3>5, <4>1
    <3>. QED
      BY <3>4, <3>5
  <2>. QED
    BY <2>2, <2>3
<1>14. ASSUME NEW q \in Procs, NEW s \in Slots(q)', s \notin Slots(q)
       PROVE  Content(q, s)' = Null
  <2>1. q = p
    BY <1>10, <1>14 DEF Slots
  <2>2. s[1] \in DOMAIN d /\ s[1] \notin DOMAIN c /\ s[2] \in Index
    BY <1>10, <1>14, <2>1 DEF Slots
  <2>3. s[1] = 2 /\ Len(g) = 2
    <3>1. \A k : k \in DOMAIN g => k = 1 \/ (k = 2 /\ Len(g) = 2)
      BY <1>6
    <3>. QED
      BY <1>2, <1>8, <2>2, <3>1
  <2>4. d[s[1]] = NewBlock
    BY <1>6, <1>8, <2>2, <2>3
  <2>. QED
    BY <1>10, <2>1, <2>2, <2>4 DEF Content, NewBlock
<1>15. ASSUME NEW q \in Procs, NEW j \in Inodes
       PROVE  Holds(q, j)' = Holds(q, j)
  <2>1. x # j /\ Null # j
    BY ResourceAssumption
  <2>2. ASSUME NEW s \in Slots(q)', s \notin Slots(q) PROVE Content(q, s)' # j
    BY <1>14, <2>1, <2>2
  <2>3. \A s : s \in Holds(q, j)' <=> s \in Slots(q)' /\ Content(q, s)' = j
    BY DEF Holds
  <2>4. \A s : s \in Holds(q, j) <=> s \in Slots(q) /\ Content(q, s) = j
    BY DEF Holds
  <2>5. \A s : s \in Holds(q, j)' <=> s \in Holds(q, j)
    BY <1>12, <1>13, <2>1, <2>2, <2>3, <2>4
  <2>. QED
    BY <2>5
<1>. QED
  BY <1>10, <1>11, <1>12, <1>13, <1>14, <1>15

LEMMA OpenAddWrites ==
  ASSUME IInv, NEW p \in Procs, OpenAdd(p)
  PROVE  \E i \in EmptySlots(p, 1) :
           /\ pc[p] = "user" /\ pc' = [pc EXCEPT ![p] = "open"]
           /\ slot' = [slot EXCEPT ![p] = <<1, i>>]
           /\ blocks[p][1].occupied < MaxOpens
           /\ blocks' = [blocks EXCEPT ![p] = [Grown(p) EXCEPT ![1] =
                           [occupied |-> blocks[p][1].occupied + 1,
                            data |-> [blocks[p][1].data EXCEPT ![i] = NoInode]]]]
           /\ UNCHANGED <<live, shared, panicked, seen, history>>
<1>1. pc[p] = "user" /\ TypeOK /\ FirstBlockOnly(blocks[p])
  BY DEF IInv, CountExact, ChainsSound, OpenAdd, Goto, At
<1>2. AddBlock(p) = 1 /\ 1 \in DOMAIN blocks[p]
  BY <1>1, AddBlockIsFirst
<1>. DEFINE i == Min(EmptySlots(p, 1))
            g == Grown(p)
<1>3. i \in EmptySlots(p, 1)
  <2>1. EmptySlots(p, 1) \in SUBSET Nat /\ EmptySlots(p, 1) # {}
    BY <1>2, ResourceAssumption DEF OpenAdd, EmptySlots, Index
  <2>. QED
    BY <2>1, MinIsIn
<1>4. /\ pc' = [pc EXCEPT ![p] = "open"]
      /\ slot' = [slot EXCEPT ![p] = <<1, i>>]
      /\ blocks[p][1].occupied < MaxOpens
      /\ blocks' = [blocks EXCEPT ![p] = [g EXCEPT
           ![1] = [occupied |-> g[1].occupied + 1, data |-> [g[1].data EXCEPT ![i] = NoInode]]]]
      /\ UNCHANGED <<live, shared, panicked, seen, history>>
  BY <1>2 DEF OpenAdd, Goto
<1>5. /\ g[1] = blocks[p][1] /\ 1 \in DOMAIN g /\ g[1] \in Block
  <2>1. blocks[p] \in Seq(Block) /\ blocks[p][1] \in Block
    BY <1>1, <1>2, Domains
  <2>2. NewBlock \in Block
    BY ResourceAssumption DEF NewBlock, Block, Contents
  <2>3. CASE g = Append(blocks[p], NewBlock)
    <3>1. g \in Seq(Block) /\ Len(g) = Len(blocks[p]) + 1 /\ g[1] = blocks[p][1]
      BY <1>1, <1>2, <2>1, <2>2, <2>3, AppendProperties, Domains
    <3>2. 1 \in DOMAIN g
      BY <1>1, <1>2, <3>1, LenProperties, Domains
    <3>. QED
      BY <2>1, <3>1, <3>2
  <2>4. CASE g = blocks[p]
    BY <1>2, <2>1, <2>4
  <2>. QED
    BY <2>3, <2>4 DEF Grown
<1>. HIDE DEF g
<1>. QED
  BY <1>1, <1>3, <1>4, <1>5 DEF g

LEMMA OpenAddIInv ==
  ASSUME IInv, NEW p \in Procs, OpenAdd(p)
  PROVE  IInv'
<1>1. PICK i \in EmptySlots(p, 1) :
        /\ pc[p] = "user" /\ pc' = [pc EXCEPT ![p] = "open"]
        /\ slot' = [slot EXCEPT ![p] = <<1, i>>]
        /\ blocks[p][1].occupied < MaxOpens
        /\ blocks' = [blocks EXCEPT ![p] = [Grown(p) EXCEPT ![1] =
                        [occupied |-> blocks[p][1].occupied + 1,
                         data |-> [blocks[p][1].data EXCEPT ![i] = NoInode]]]]
        /\ UNCHANGED <<live, shared, panicked, seen, history>>
  BY OpenAddWrites
<1>2. /\ TypeOK /\ CountExact /\ ChainsSound /\ CallsSound /\ DropsSound /\ FreeNotForgotten
      /\ LeaksExplained
  BY DEF IInv, CountExact
<1>3. /\ blocks' \in [Procs -> Seq(Block)]
      /\ \A q \in Procs \ {p} : blocks'[q] = blocks[q]
      /\ FirstBlockOnly(blocks'[p])
      /\ <<1, i>> \in Slots(p) /\ Content(p, <<1, i>>) = Null
      /\ \A q \in Procs : \A s \in Slots(q) :
           /\ s \in Slots(q)'
           /\ Content(q, s)' = IF q = p /\ s = <<1, i>> THEN NoInode ELSE Content(q, s)
      /\ \A q \in Procs, j \in Inodes : Holds(q, j)' = Holds(q, j)
  <2>1. pc[p] # "none"
    BY <1>1
  <2>. QED
    BY ONLY <1>1, <2>1, IInv, AddSound, p \in Procs
<1>4. /\ \A q \in Procs : pc'[q] = IF q = p THEN "open" ELSE pc[q]
      /\ \A q \in Procs : slot'[q] = IF q = p THEN <<1, i>> ELSE slot[q]
  BY <1>1, <1>2 DEF TypeOK
<1>5. TypeOK'
  <2>1. pc' \in [Procs -> PC]
    BY <1>1, <1>2 DEF TypeOK, PC
  <2>2. slot' \in [Procs -> Nat \X Index]
    <3>1. <<1, i>> \in Nat \X Index
      BY DEF EmptySlots
    <3>. QED
      BY <1>1, <1>2, <3>1 DEF TypeOK
  <2>. QED
    BY <1>1, <1>2, <1>3, <2>1, <2>2 DEF TypeOK, Block, Contents, history
<1>6. \A j \in Inodes : Refs(j)' = Refs(j)
  BY <1>3, RefsSame
<1>7. CountExact'
  BY <1>1, <1>2, <1>5, <1>6 DEF CountExact, history
<1>8. ChainsSound'
  <2>1. ASSUME NEW q \in Procs
        PROVE  IF pc'[q] = "none" THEN blocks'[q] = <<>> ELSE FirstBlockOnly(blocks'[q])
    BY <1>2, <1>3, <1>4 DEF ChainsSound
  <2>. QED
    BY <2>1 DEF ChainsSound
<1>9. ASSUME NEW q \in Procs \ {p}
      PROVE  /\ pc'[q] = pc[q] /\ slot'[q] = slot[q]
             /\ slot[q] \in Slots(q) => /\ (slot[q] \in Slots(q))'
                                        /\ Content(q, slot[q])' = Content(q, slot[q])
  <2>1. pc'[q] = pc[q] /\ slot'[q] = slot[q]
    BY <1>4
  <2>. QED
    BY <1>3, <2>1 DEF Slots, Content
<1>10. /\ (slot[p] \in Slots(p))' /\ Content(p, slot[p])' = NoInode
  BY <1>3, <1>4 DEF Slots, Content
<1>11. CallsSound'
  <2>1. ASSUME NEW q \in Procs
        PROVE  /\ pc'[q] = "open" => (slot[q] \in Slots(q))' /\ Content(q, slot[q])' = NoInode
               /\ pc'[q] \in InDrop => (slot[q] \in Slots(q))' /\ Content(q, slot[q])' \in Inodes
    <3>1. CASE q = p
      BY <1>4, <1>10, <3>1 DEF InDrop
    <3>2. CASE q # p
      BY <1>2, <1>9, <3>2 DEF CallsSound
    <3>. QED
      BY <3>1, <3>2
  <2>. QED
    BY <2>1 DEF CallsSound
<1>12. DropsSound'
  <2>1. ASSUME NEW q \in Procs
        PROVE  /\ pc'[q] \in {"destroy", "exitdestroy"} => shared[Content(q, slot[q])]' = 1
               /\ pc'[q] \in {"decrement", "exitdecrement"} => seen'[q] # 1
    <3>1. CASE q = p
      BY <1>4, <3>1
    <3>2. CASE q # p
      <4>1. pc'[q] \in {"destroy", "exitdestroy"} => slot[q] \in Slots(q)
        BY <1>2, <1>9, <3>2 DEF CallsSound, InDrop
      <4>. QED
        BY <1>1, <1>2, <1>9, <3>2, <4>1 DEF DropsSound
    <3>. QED
      BY <3>1, <3>2
  <2>. QED
    BY <2>1 DEF DropsSound
<1>13. FreeNotForgotten' /\ LeaksExplained'
  BY <1>1, <1>2, <1>6 DEF FreeNotForgotten, LeaksExplained, history, TypeOK
<1>. QED
  BY <1>7, <1>8, <1>11, <1>12, <1>13 DEF IInv

\* resource_add without memory for the resource: the slots keep their contents.
LEMMA OpenNoMemTable ==
  ASSUME IInv, NEW p \in Procs, OpenNoMem(p)
  PROVE  /\ pc[p] = "user" /\ blocks' \in [Procs -> Seq(Block)]
         /\ \A q \in Procs \ {p} : blocks'[q] = blocks[q]
         /\ FirstBlockOnly(blocks'[p])
         /\ \A q \in Procs : \A s \in Slots(q) : s \in Slots(q)' /\ Content(q, s)' = Content(q, s)
         /\ \A q \in Procs, j \in Inodes : Holds(q, j)' = Holds(q, j)
         /\ \A q \in Procs : \A s \in Slots(q)' : s \notin Slots(q) => Content(q, s)' = Null
         /\ UNCHANGED <<live, shared, pc, slot, panicked, seen, history>>
<1>1. /\ TypeOK /\ CountExact /\ ChainsSound /\ CallsSound /\ DropsSound /\ FreeNotForgotten
      /\ LeaksExplained
  BY DEF IInv, CountExact
<1>2. pc[p] = "user" /\ FirstBlockOnly(blocks[p])
  BY <1>1 DEF ChainsSound, OpenNoMem, At
<1>3. AddBlock(p) = 1 /\ 1 \in DOMAIN blocks[p]
  BY <1>1, <1>2, AddBlockIsFirst
<1>4. PICK i \in EmptySlots(p, 1) : TRUE
  BY <1>3 DEF OpenNoMem
<1>. DEFINE c == blocks[p]
            g == Grown(p)
            b == [occupied |-> c[1].occupied + 1, data |-> [c[1].data EXCEPT ![i] = Null]]
<1>5. /\ c[1].occupied < MaxOpens
      /\ blocks' = [blocks EXCEPT ![p] = [g EXCEPT ![1].occupied = @ + 1]]
      /\ UNCHANGED <<live, shared, pc, slot, panicked, seen, history>>
  BY <1>3 DEF OpenNoMem
<1>6. g[1] = c[1] /\ 1 \in DOMAIN g /\ c[1] \in Block
  <2>1. c \in Seq(Block) /\ c[1] \in Block
    BY <1>1, <1>3, Domains
  <2>2. NewBlock \in Block
    BY ResourceAssumption DEF NewBlock, Block, Contents
  <2>3. CASE g = Append(c, NewBlock)
    <3>1. g \in Seq(Block) /\ Len(g) = Len(c) + 1 /\ g[1] = c[1]
      BY <1>1, <1>3, <2>1, <2>2, <2>3, AppendProperties, Domains
    <3>2. 1 \in DOMAIN g
      BY <1>1, <1>3, <3>1, LenProperties, Domains
    <3>. QED
      BY <2>1, <3>1, <3>2
  <2>4. CASE g = c
    BY <1>3, <2>1, <2>4
  <2>. QED
    BY <2>3, <2>4 DEF Grown
<1>7. [g[1] EXCEPT !.occupied = @ + 1] = b
  <2>1. [c[1].data EXCEPT ![i] = Null] = c[1].data
    BY <1>6 DEF Block, EmptySlots
  <2>. QED
    BY <1>6, <2>1 DEF Block
<1>8. blocks' = [blocks EXCEPT ![p] = [g EXCEPT ![1] = b]]
  BY <1>5, <1>7
<1>. HIDE DEF b, g
<1>9. /\ blocks' \in [Procs -> Seq(Block)]
      /\ \A q \in Procs \ {p} : blocks'[q] = blocks[q]
      /\ FirstBlockOnly(blocks'[p])
      /\ <<1, i>> \in Slots(p) /\ Content(p, <<1, i>>) = Null
      /\ \A q \in Procs : \A s \in Slots(q) :
           /\ s \in Slots(q)'
           /\ Content(q, s)' = IF q = p /\ s = <<1, i>> THEN Null ELSE Content(q, s)
      /\ \A q \in Procs, j \in Inodes : Holds(q, j)' = Holds(q, j)
      /\ \A q \in Procs : \A s \in Slots(q)' : s \notin Slots(q) => Content(q, s)' = Null
  <2>1. pc[p] # "none"
    BY <1>2
  <2>. QED
    BY <1>5, <1>8, <2>1, AddSound DEF b, g
<1>. QED
  BY <1>2, <1>5, <1>9

LEMMA OpenNoMemIInv ==
  ASSUME IInv, NEW p \in Procs, OpenNoMem(p)
  PROVE  IInv'
<1>1. /\ TypeOK /\ CountExact /\ ChainsSound /\ CallsSound /\ DropsSound /\ FreeNotForgotten
      /\ LeaksExplained
  BY DEF IInv, CountExact
<1>2. /\ pc[p] = "user" /\ blocks' \in [Procs -> Seq(Block)]
      /\ \A q \in Procs \ {p} : blocks'[q] = blocks[q]
      /\ FirstBlockOnly(blocks'[p])
      /\ \A q \in Procs : \A s \in Slots(q) : s \in Slots(q)' /\ Content(q, s)' = Content(q, s)
      /\ \A q \in Procs, j \in Inodes : Holds(q, j)' = Holds(q, j)
      /\ UNCHANGED <<live, shared, pc, slot, panicked, seen, history>>
  BY OpenNoMemTable
<1>3. \A j \in Inodes : Refs(j)' = Refs(j)
  BY <1>2, RefsSame
<1>4. TypeOK'
  BY <1>1, <1>2 DEF TypeOK, Block, Contents, history
<1>5. CountExact'
  BY <1>1, <1>2, <1>3, <1>4 DEF CountExact, history
<1>6. ChainsSound'
  <2>1. ASSUME NEW q \in Procs
        PROVE  IF pc'[q] = "none" THEN blocks'[q] = <<>> ELSE FirstBlockOnly(blocks'[q])
    BY <1>1, <1>2 DEF ChainsSound
  <2>. QED
    BY <2>1 DEF ChainsSound
<1>7. ASSUME NEW q \in Procs
       PROVE  slot[q] \in Slots(q) => /\ (slot[q] \in Slots(q))'
                                      /\ Content(q, slot[q])' = Content(q, slot[q])
  BY <1>2 DEF Slots, Content
<1>8. CallsSound'
  BY <1>1, <1>2, <1>7 DEF CallsSound
<1>9. DropsSound'
  <2>1. \A q \in Procs : pc[q] \in {"destroy", "exitdestroy"} => slot[q] \in Slots(q)
    BY <1>1 DEF CallsSound, InDrop
  <2>. QED
    BY <1>1, <1>2, <1>7, <2>1 DEF DropsSound
<1>10. FreeNotForgotten' /\ LeaksExplained'
  BY <1>1, <1>2, <1>3 DEF FreeNotForgotten, LeaksExplained, history, TypeOK
<1>. QED
  BY <1>5, <1>6, <1>8, <1>9, <1>10 DEF IInv

\* The counts of the inodes that others are about to free stay 1.
LEMMA DropsSoundAfterPut ==
  ASSUME IInv, NEW p \in Procs,
         pc'[p] \notin {"destroy", "exitdestroy", "decrement", "exitdecrement"},
         \A q \in Procs \ {p} : pc'[q] = pc[q] /\ seen'[q] = seen[q],
         slot' = slot,
         \A q \in Procs \ {p} : \A s \in Slots(q) : Content(q, s)' = Content(q, s),
         \A q \in Procs \ {p} : \A j \in Inodes :
           pc[q] \in {"destroy", "exitdestroy"} /\ j = Content(q, slot[q]) => shared'[j] = shared[j]
  PROVE  DropsSound'
<1>1. CallsSound /\ DropsSound
  BY DEF IInv
<1>2. ASSUME NEW q \in Procs
      PROVE  /\ pc'[q] \in {"destroy", "exitdestroy"} => shared[Content(q, slot[q])]' = 1
             /\ pc'[q] \in {"decrement", "exitdecrement"} => seen'[q] # 1
  <2>1. CASE q = p
    BY <2>1
  <2>2. CASE q # p
    <3>1. pc'[q] = pc[q] /\ seen'[q] = seen[q]
      BY <2>2
    <3>2. ASSUME pc[q] \in {"destroy", "exitdestroy"}
          PROVE  shared[Content(q, slot[q])]' = 1
      <4>1. slot[q] \in Slots(q) /\ Content(q, slot[q]) \in Inodes
        BY <1>1, <3>2 DEF CallsSound, InDrop
      <4>2. Content(q, slot[q])' = Content(q, slot[q])
        BY <2>2, <4>1 DEF Content
      <4>3. shared[Content(q, slot[q])] = 1
        BY <1>1, <3>2 DEF DropsSound
      <4>4. shared'[Content(q, slot[q])] = shared[Content(q, slot[q])]
        BY <2>2, <3>2, <4>1
      <4>. QED
        BY <4>2, <4>3, <4>4
    <3>3. pc[q] \in {"decrement", "exitdecrement"} => seen[q] # 1
      BY <1>1 DEF DropsSound
    <3>. QED
      BY <3>1, <3>2, <3>3
  <2>. QED
    BY <2>1, <2>2
<1>. QED
  BY <1>2 DEF DropsSound

LEMMA OpenFileIInv ==
  ASSUME IInv, NEW p \in Procs, NEW f \in Files, OpenFile(p, f) \/ OpenTruncFails(p, f)
  PROVE  IInv'
<1>1. /\ TypeOK /\ CountExact /\ ChainsSound /\ CallsSound /\ FreeNotForgotten
      /\ LeaksExplained
  BY DEF IInv, CountExact
<1>2. PICK m \in {"user", "drop"} :
      /\ pc[p] = "open" /\ pc' = [pc EXCEPT ![p] = m]
      /\ shared' = [shared EXCEPT ![f] = @ + 1]
      /\ blocks' = Put(p, f)
      /\ UNCHANGED <<live, slot, panicked, seen, history>>
  BY DEF OpenFile, OpenTruncFails, Goto, At
<1>3. f \in Inodes /\ f \in Contents
  BY ResourceAssumption DEF Contents
<1>4. /\ slot[p] \in Slots(p) /\ Content(p, slot[p]) = NoInode
  BY <1>1, <1>2 DEF CallsSound
<1>5. /\ blocks' \in [Procs -> Seq(Block)]
      /\ \A q \in Procs : pc'[q] = IF q = p THEN m ELSE pc[q]
      /\ \A q \in Procs : \A s \in Slots(q) :
           Content(q, s)' = IF q = p /\ s = slot[p] THEN f ELSE Content(q, s)
      /\ ChainsSound' /\ CallsSound'
  <2>1. m \in PC \ {"none", "open"} /\ (m \in InDrop => f \in Inodes) /\ slot' = slot
    BY <1>2, <1>3 DEF PC
  <2>2. /\ pc[p] = "open" \/ pc[p] \in InDrop
        /\ pc' = [pc EXCEPT ![p] = m] /\ blocks' = Put(p, f)
    BY <1>2
  <2>. QED
    BY <1>3, <2>1, <2>2, PutSound
<1>6. \A i \in Inodes : Refs(i)' = Refs(i) + (IF f = i THEN 1 ELSE 0) /\ Refs(i) \in Nat
  <2>1. ASSUME NEW i \in Inodes PROVE Refs(i)' = Refs(i) + (IF f = i THEN 1 ELSE 0) /\ Refs(i) \in Nat
    <3>1. NoInode # i
      BY ResourceAssumption
    <3>2. Refs(i)' = Refs(i) + (IF f = i THEN 1 ELSE 0)
                             - (IF Content(p, slot[p]) = i THEN 1 ELSE 0)
      BY <1>1, <1>2, <1>3, <1>4, RefsAfterPut
    <3>3. Refs(i) \in Nat
      BY <1>1, RefsAtLeast
    <3>. QED
      BY <1>4, <3>1, <3>2, <3>3
  <2>. QED
    BY <2>1
<1>7. f \in live
  <2>1. Refs(f) >= 1 /\ Refs(f) \in Nat
    BY <1>1, <1>3, RefsAtLeast
  <2>2. f \notin live => Refs(f) = 0
    BY <1>1, <1>3 DEF CountExact
  <2>. QED
    BY <2>1, <2>2
<1>8. TypeOK'
  <2>1. shared' \in [Inodes -> Nat]
    BY <1>1, <1>2, <1>3 DEF TypeOK
  <2>2. pc' \in [Procs -> PC]
    BY <1>1, <1>2 DEF TypeOK, PC
  <2>. QED
    BY <1>1, <1>2, <1>5, <2>1, <2>2 DEF TypeOK, Block, Contents, history
<1>9. CountExact'
  <2>1. ASSUME NEW i \in Inodes
        PROVE  IF i \in live' THEN shared'[i] = Refs(i)' + forgotten'[i] ELSE Refs(i)' = 0
    <3>1. IF i \in live THEN shared[i] = Refs(i) + forgotten[i] ELSE Refs(i) = 0
      BY <1>1 DEF CountExact
    <3>2. shared[i] \in Nat /\ forgotten[i] \in Nat /\ live' = live /\ forgotten' = forgotten
      BY <1>1, <1>2 DEF TypeOK, history
    <3>3. shared'[i] = IF f = i THEN shared[i] + 1 ELSE shared[i]
      BY <1>1, <1>2 DEF TypeOK
    <3>. QED
      BY <1>6, <1>7, <3>1, <3>2, <3>3
  <2>. QED
    BY <1>8, <2>1 DEF CountExact
<1>10. DropsSound'
  <2>1. \A q \in Procs \ {p} : \A j \in Inodes :
          pc[q] \in {"destroy", "exitdestroy"} /\ j = Content(q, slot[q]) => shared'[j] = shared[j]
    BY <1>1, <1>2, LastReference DEF TypeOK
  <2>2. slot' = slot /\ \A q \in Procs \ {p} : pc'[q] = pc[q] /\ seen'[q] = seen[q]
    BY <1>2, <1>5
  <2>3. pc'[p] \notin {"destroy", "exitdestroy", "decrement", "exitdecrement"}
    BY <1>2, <1>5
  <2>4. \A q \in Procs \ {p} : \A s \in Slots(q) : Content(q, s)' = Content(q, s)
    BY <1>5
  <2>. QED
    BY ONLY <2>1, <2>2, <2>3, <2>4, DropsSoundAfterPut, IInv, p \in Procs
<1>11. FreeNotForgotten'
  BY <1>1, <1>2 DEF FreeNotForgotten, history
<1>12. LeaksExplained'
  <2>1. ASSUME NEW i \in live', Refs(i)' = 0 PROVE forgotten'[i] > 0 \/ i \in raced'
    <3>1. i \in Inodes /\ i \in live
      BY <1>1, <1>2, <2>1 DEF TypeOK
    <3>2. Refs(i) = 0
      BY <1>6, <2>1, <3>1
    <3>. QED
      BY <1>1, <1>2, <3>1, <3>2 DEF LeaksExplained, history
  <2>. QED
    BY <2>1 DEF LeaksExplained
<1>. QED
  BY <1>5, <1>9, <1>10, <1>11, <1>12 DEF IInv

LEMMA OpenNewIInv ==
  ASSUME IInv, NEW p \in Procs, NEW j \in Inodes, OpenNew(p, j)
  PROVE  IInv'
<1>1. /\ TypeOK /\ CountExact /\ ChainsSound /\ CallsSound /\ FreeNotForgotten
      /\ LeaksExplained
  BY DEF IInv, CountExact
<1>2. /\ pc[p] = "open" /\ pc' = [pc EXCEPT ![p] = "user"]
      /\ j \notin live /\ live' = live \cup {j}
      /\ shared' = [shared EXCEPT ![j] = 1]
      /\ blocks' = Put(p, j)
      /\ UNCHANGED <<slot, panicked, seen, history>>
  BY DEF OpenNew, Goto, At
<1>3. j \in Contents
  BY DEF Contents
<1>4. /\ slot[p] \in Slots(p) /\ Content(p, slot[p]) = NoInode
  BY <1>1, <1>2 DEF CallsSound
<1>5. /\ blocks' \in [Procs -> Seq(Block)]
      /\ \A q \in Procs : pc'[q] = IF q = p THEN "user" ELSE pc[q]
      /\ \A q \in Procs : \A s \in Slots(q) :
           Content(q, s)' = IF q = p /\ s = slot[p] THEN j ELSE Content(q, s)
      /\ ChainsSound' /\ CallsSound'
  <2>1. "user" \in PC \ {"none", "open"} /\ slot' = slot
    BY <1>2 DEF PC
  <2>. QED
    BY <1>2, <1>3, <2>1, PutSound
<1>6. \A i \in Inodes : Refs(i)' = Refs(i) + (IF j = i THEN 1 ELSE 0) /\ Refs(i) \in Nat
  <2>1. ASSUME NEW i \in Inodes PROVE Refs(i)' = Refs(i) + (IF j = i THEN 1 ELSE 0) /\ Refs(i) \in Nat
    <3>1. NoInode # i
      BY ResourceAssumption
    <3>2. Refs(i)' = Refs(i) + (IF j = i THEN 1 ELSE 0)
                             - (IF Content(p, slot[p]) = i THEN 1 ELSE 0)
      BY <1>1, <1>2, <1>3, <1>4, RefsAfterPut
    <3>3. Refs(i) \in Nat
      BY <1>1, RefsAtLeast
    <3>. QED
      BY <1>4, <3>1, <3>2, <3>3
  <2>. QED
    BY <2>1
<1>7. Refs(j) = 0 /\ forgotten[j] = 0
  BY <1>1, <1>2 DEF CountExact, FreeNotForgotten
<1>8. TypeOK'
  BY <1>1, <1>2, <1>5 DEF TypeOK, PC, Block, Contents, history
<1>9. CountExact'
  <2>1. ASSUME NEW i \in Inodes
        PROVE  IF i \in live' THEN shared'[i] = Refs(i)' + forgotten'[i] ELSE Refs(i)' = 0
    <3>1. IF i \in live THEN shared[i] = Refs(i) + forgotten[i] ELSE Refs(i) = 0
      BY <1>1 DEF CountExact
    <3>2. shared[i] \in Nat /\ forgotten[i] \in Nat /\ forgotten' = forgotten
      BY <1>1, <1>2 DEF TypeOK, history
    <3>3. shared'[i] = IF j = i THEN 1 ELSE shared[i]
      BY <1>1, <1>2 DEF TypeOK
    <3>. QED
      BY <1>2, <1>6, <1>7, <3>1, <3>2, <3>3
  <2>. QED
    BY <1>8, <2>1 DEF CountExact
<1>10. DropsSound'
  <2>1. \A q \in Procs \ {p} : \A i \in Inodes :
          pc[q] \in {"destroy", "exitdestroy"} /\ i = Content(q, slot[q]) => shared'[i] = shared[i]
    BY <1>1, <1>2, LastReference DEF TypeOK
  <2>2. slot' = slot /\ \A q \in Procs \ {p} : pc'[q] = pc[q] /\ seen'[q] = seen[q]
    BY <1>2, <1>5
  <2>3. pc'[p] \notin {"destroy", "exitdestroy", "decrement", "exitdecrement"}
    BY <1>2, <1>5
  <2>4. \A q \in Procs \ {p} : \A s \in Slots(q) : Content(q, s)' = Content(q, s)
    BY <1>5
  <2>. QED
    BY ONLY <2>1, <2>2, <2>3, <2>4, DropsSoundAfterPut, IInv, p \in Procs
<1>11. FreeNotForgotten'
  BY <1>1, <1>2 DEF FreeNotForgotten, history
<1>12. LeaksExplained'
  <2>1. ASSUME NEW i \in live', Refs(i)' = 0 PROVE forgotten'[i] > 0 \/ i \in raced'
    <3>1. i \in Inodes /\ i # j
      BY <1>1, <1>2, <1>6, <1>7, <2>1 DEF TypeOK
    <3>2. Refs(i) = 0 /\ i \in live
      BY <1>2, <1>6, <2>1, <3>1
    <3>. QED
      BY <1>1, <1>2, <3>2 DEF LeaksExplained, history
  <2>. QED
    BY <2>1 DEF LeaksExplained
<1>. QED
  BY <1>5, <1>9, <1>10, <1>11, <1>12 DEF IInv

LEMMA OpenFailsIInv ==
  ASSUME IInv, NEW p \in Procs, OpenFails(p)
  PROVE  IInv'
<1>1. /\ TypeOK /\ CountExact /\ ChainsSound /\ CallsSound /\ FreeNotForgotten
      /\ LeaksExplained
  BY DEF IInv, CountExact
<1>2. /\ pc[p] = "open" /\ pc' = [pc EXCEPT ![p] = "user"]
      /\ blocks' = Put(p, Null)
      /\ UNCHANGED <<live, shared, slot, panicked, seen, history>>
  BY DEF OpenFails, Goto, At
<1>3. Null \in Contents
  BY DEF Contents
<1>4. /\ slot[p] \in Slots(p) /\ Content(p, slot[p]) = NoInode
  BY <1>1, <1>2 DEF CallsSound
<1>5. /\ blocks' \in [Procs -> Seq(Block)]
      /\ \A q \in Procs : pc'[q] = IF q = p THEN "user" ELSE pc[q]
      /\ \A q \in Procs : \A s \in Slots(q) :
           Content(q, s)' = IF q = p /\ s = slot[p] THEN Null ELSE Content(q, s)
      /\ ChainsSound' /\ CallsSound'
  <2>1. "user" \in PC \ {"none", "open"} /\ slot' = slot /\ "user" \notin InDrop
    BY <1>2 DEF PC, InDrop
  <2>. QED
    BY <1>2, <1>3, <2>1, PutSound
<1>6. \A i \in Inodes : Refs(i)' = Refs(i)
  <2>1. ASSUME NEW i \in Inodes PROVE Refs(i)' = Refs(i)
    <3>1. NoInode # i /\ Null # i
      BY ResourceAssumption
    <3>2. Refs(i)' = Refs(i) + (IF Null = i THEN 1 ELSE 0)
                             - (IF Content(p, slot[p]) = i THEN 1 ELSE 0)
      BY <1>1, <1>2, <1>3, <1>4, RefsAfterPut
    <3>3. Refs(i) \in Nat
      BY <1>1, RefsAtLeast
    <3>. QED
      BY <1>4, <3>1, <3>2, <3>3
  <2>. QED
    BY <2>1
<1>7. TypeOK'
  BY <1>1, <1>2, <1>5 DEF TypeOK, PC, Block, Contents, history
<1>8. CountExact'
  BY <1>1, <1>2, <1>6, <1>7 DEF CountExact, history
<1>9. DropsSound'
  <2>1. \A q \in Procs \ {p} : \A i \in Inodes :
          pc[q] \in {"destroy", "exitdestroy"} /\ i = Content(q, slot[q]) => shared'[i] = shared[i]
    BY <1>2
  <2>2. slot' = slot /\ \A q \in Procs \ {p} : pc'[q] = pc[q] /\ seen'[q] = seen[q]
    BY <1>2, <1>5
  <2>3. pc'[p] \notin {"destroy", "exitdestroy", "decrement", "exitdecrement"}
    BY <1>2, <1>5
  <2>4. \A q \in Procs \ {p} : \A s \in Slots(q) : Content(q, s)' = Content(q, s)
    BY <1>5
  <2>. QED
    BY ONLY <2>1, <2>2, <2>3, <2>4, DropsSoundAfterPut, IInv, p \in Procs
<1>10. FreeNotForgotten' /\ LeaksExplained'
  BY <1>1, <1>2, <1>6 DEF FreeNotForgotten, LeaksExplained, TypeOK, history
<1>. QED
  BY <1>5, <1>8, <1>9, <1>10 DEF IInv

\* The actions that only move a process on.
LEMMA MoveIInv ==
  ASSUME IInv, NEW p \in Procs,
         \/ OpenCreatFails(p) \/ Exit(p) \/ ExitNext(p) \/ DropTest(p)
         \/ \E id : Close(p, id)
  PROVE  IInv'
<1>1. /\ TypeOK /\ CallsSound /\ slot[p] \in Nat \X Index /\ seen[p] \in Nat
      /\ slot = [slot EXCEPT ![p] = slot[p]] /\ seen = [seen EXCEPT ![p] = seen[p]]
  BY DEF IInv, CountExact, TypeOK
<1>2. ASSUME OpenCreatFails(p) PROVE IInv'
  <2>1. /\ pc[p] # "none" /\ pc' = [pc EXCEPT ![p] = "user"]
        /\ slot' = [slot EXCEPT ![p] = slot[p]] /\ seen' = [seen EXCEPT ![p] = seen[p]]
        /\ UNCHANGED <<blocks, live, shared, panicked, forgotten, raced>>
        /\ abandoned' \in SUBSET Procs
    BY <1>1, <1>2 DEF OpenCreatFails, history, TypeOK, Goto, At
  <2>2. "user" \in PC \ {"none", "open"} /\ "user" \notin InDrop
    BY DEF PC, InDrop
  <2>. QED
    BY <1>1, <2>1, <2>2, MoveSound
<1>3. ASSUME Exit(p) PROVE IInv'
  <2>1. /\ pc[p] # "none" /\ pc' = [pc EXCEPT ![p] = "exit"]
        /\ slot' = [slot EXCEPT ![p] = slot[p]] /\ seen' = [seen EXCEPT ![p] = seen[p]]
        /\ UNCHANGED <<blocks, live, shared, panicked, forgotten, raced>>
        /\ abandoned' \in SUBSET Procs
    BY <1>1, <1>3 DEF Exit, history, TypeOK, Goto, At
  <2>2. "exit" \in PC \ {"none", "open"} /\ "exit" \notin InDrop
    BY DEF PC, InDrop
  <2>. QED
    BY <1>1, <2>1, <2>2, MoveSound
<1>4. ASSUME ExitNext(p) PROVE IInv'
  <2>. DEFINE s == NextInUse(p)
  <2>1. s \in Slots(p) /\ Content(p, s) \in Inodes
    <3>1. s \in InUse(p) /\ Content(p, s) # NoInode
      BY <1>1, <1>4, NextInUseIsIn DEF ExitNext
    <3>2. s \in Slots(p) /\ Content(p, s) # Null
      BY <3>1 DEF InUse
    <3>. QED
      BY <1>1, <3>1, <3>2, Domains DEF Contents
  <2>2. s \in Nat \X Index
    BY <1>1, <2>1, Domains
  <2>3. /\ pc[p] # "none" /\ pc' = [pc EXCEPT ![p] = "exitdrop"]
        /\ slot' = [slot EXCEPT ![p] = s] /\ seen' = [seen EXCEPT ![p] = seen[p]]
        /\ UNCHANGED <<blocks, live, shared, panicked, forgotten, raced>>
        /\ abandoned' \in SUBSET Procs
    BY <1>1, <1>4 DEF ExitNext, history, TypeOK, Goto, At
  <2>4. "exitdrop" \in PC \ {"none", "open"}
    BY DEF PC
  <2>. HIDE DEF s
  <2>. QED
    BY <1>1, <2>1, <2>2, <2>3, <2>4, MoveSound
<1>5. ASSUME NEW id, Close(p, id) PROVE IInv'
  <2>. DEFINE s == Locate(id)
  <2>1. s \in Slots(p) /\ Content(p, s) \in Inodes
    BY <1>5 DEF Close
  <2>2. s \in Nat \X Index
    BY <1>1, <2>1, Domains
  <2>3. /\ pc[p] # "none" /\ pc' = [pc EXCEPT ![p] = "drop"]
        /\ slot' = [slot EXCEPT ![p] = s] /\ seen' = [seen EXCEPT ![p] = seen[p]]
        /\ UNCHANGED <<blocks, live, shared, panicked, forgotten, raced>>
        /\ abandoned' \in SUBSET Procs
    BY <1>1, <1>5 DEF Close, history, TypeOK, Goto, At
  <2>4. "drop" \in PC \ {"none", "open"}
    BY DEF PC
  <2>. HIDE DEF s
  <2>. QED
    BY <1>1, <2>1, <2>2, <2>3, <2>4, MoveSound
<1>6. ASSUME DropTest(p) PROVE IInv'
  <2>. DEFINE n == shared[Content(p, slot[p])]
  <2>1. /\ pc[p] \in InDrop
        /\ \E l \in {"destroy", "decrement", "exitdestroy", "exitdecrement"} :
             /\ pc' = [pc EXCEPT ![p] = l]
             /\ l \in {"destroy", "exitdestroy"} <=> n = 1
        /\ seen' = [seen EXCEPT ![p] = n] /\ slot' = [slot EXCEPT ![p] = slot[p]]
        /\ UNCHANGED <<blocks, live, shared, panicked, forgotten, raced>>
        /\ abandoned' \in SUBSET Procs
    BY <1>1, <1>6 DEF DropTest, history, TypeOK, At, InDrop
  <2>2. PICK l \in {"destroy", "decrement", "exitdestroy", "exitdecrement"} :
             /\ pc' = [pc EXCEPT ![p] = l]
             /\ l \in {"destroy", "exitdestroy"} <=> n = 1
    BY <2>1
  <2>3. slot[p] \in Slots(p) /\ Content(p, slot[p]) \in Inodes
    BY <1>1, <2>1 DEF CallsSound
  <2>4. n \in Nat
    BY <1>1, <2>3 DEF TypeOK
  <2>5. l \in PC \ {"none", "open"} /\ pc[p] # "none"
    BY <2>1 DEF PC, InDrop
  <2>6. l \in {"destroy", "exitdestroy"} => shared[Content(p, slot[p])] = 1
    BY <2>2
  <2>7. l \in {"decrement", "exitdecrement"} => n # 1
    BY <2>2
  <2>. HIDE DEF n
  <2>. QED
    BY <1>1, <2>1, <2>2, <2>3, <2>4, <2>5, <2>6, <2>7, MoveSound
<1>. QED
  BY <1>2, <1>3, <1>4, <1>5, <1>6

\* What the two ends of idrop do to the table and to the references.
LEMMA DropReturnsSound ==
  ASSUME IInv, NEW p \in Procs,
         \/ DropReturns(p, "destroy", "exitdestroy")
         \/ DropReturns(p, "decrement", "exitdecrement"),
         slot' = slot,
         NEW i, i = Content(p, slot[p])
  PROVE  /\ slot[p] \in Slots(p) /\ i \in Inodes /\ slot[p] \in Holds(p, i)
         /\ pc[p] \in InDrop /\ pc'[p] \in {"user", "exit"}
         /\ blocks' \in [Procs -> Seq(Block)]
         /\ pc' \in [Procs -> PC] /\ seen' \in [Procs -> Nat]
         /\ \A q \in Procs \ {p} : pc'[q] = pc[q] /\ seen'[q] = seen[q]
         /\ \A q \in Procs \ {p} : \A s \in Slots(q) : Content(q, s)' = Content(q, s)
         /\ \A j \in Inodes : Refs(j) \in Nat /\ Refs(j)' = Refs(j) - (IF j = i THEN 1 ELSE 0)
         /\ ChainsSound' /\ CallsSound'
<1>1. TypeOK /\ ChainsSound /\ CallsSound
  BY DEF IInv, CountExact
<1>2. PICK m \in {"user", "exit"} : pc' = [pc EXCEPT ![p] = m]
  BY DEF DropReturns, Goto
<1>3. /\ pc[p] \in InDrop /\ blocks' = Put(p, Null) /\ seen' = [seen EXCEPT ![p] = 0]
  BY DEF DropReturns, Goto, At, InDrop
<1>4. /\ slot[p] \in Slots(p) /\ i \in Inodes /\ slot[p] \in Holds(p, i)
  BY <1>3, DropHolds
<1>5. /\ m \in PC \ {"none", "open"} /\ m \notin InDrop /\ Null \in Contents
  BY <1>2 DEF PC, InDrop, Contents
<1>6. /\ blocks' \in [Procs -> Seq(Block)]
      /\ \A q \in Procs : pc'[q] = IF q = p THEN m ELSE pc[q]
      /\ \A q \in Procs : \A s \in Slots(q) :
           Content(q, s)' = IF q = p /\ s = slot[p] THEN Null ELSE Content(q, s)
      /\ ChainsSound' /\ CallsSound'
  BY <1>2, <1>3, <1>5, PutSound
<1>7. ASSUME NEW j \in Inodes
      PROVE  Refs(j) \in Nat /\ Refs(j)' = Refs(j) - (IF j = i THEN 1 ELSE 0)
  <2>1. Refs(j)' = Refs(j) + (IF Null = j THEN 1 ELSE 0)
                           - (IF Content(p, slot[p]) = j THEN 1 ELSE 0)
    BY <1>1, <1>3, <1>4, <1>5, RefsAfterPut
  <2>2. Refs(j) \in Nat /\ Null # j
    BY <1>1, RefsAtLeast, ResourceAssumption
  <2>. QED
    BY <2>1, <2>2
<1>8. pc' \in [Procs -> PC] /\ seen' \in [Procs -> Nat]
  BY <1>1, <1>2, <1>3, <1>5 DEF TypeOK
<1>9. \A q \in Procs \ {p} : pc'[q] = pc[q] /\ seen'[q] = seen[q]
  BY <1>1, <1>3, <1>6 DEF TypeOK
<1>10. pc'[p] \in {"user", "exit"}
  BY <1>2, <1>6
<1>11. \A q \in Procs \ {p} : \A s \in Slots(q) : Content(q, s)' = Content(q, s)
  BY <1>6
<1>. QED
  BY <1>3, <1>4, <1>6, <1>7, <1>8, <1>9, <1>10, <1>11

LEMMA DropDestroyIInv ==
  ASSUME IInv, NEW p \in Procs, DropDestroy(p)
  PROVE  IInv'
<1>. DEFINE i == Content(p, slot[p])
<1>1. /\ TypeOK /\ CountExact /\ FreeNotForgotten /\ LeaksExplained
  BY DEF IInv, CountExact
<1>2. /\ DropReturns(p, "destroy", "exitdestroy")
      /\ live' = live \ {i}
      /\ UNCHANGED <<shared, slot, panicked, history>>
  BY DEF DropDestroy
<1>3. pc[p] \in {"destroy", "exitdestroy"}
  BY <1>2 DEF DropReturns, Goto, At
<1>4. /\ i \in Inodes /\ i \in live /\ Refs(i) = 1 /\ forgotten[i] = 0
  BY <1>3, LastReference
<1>. HIDE DEF i
<1>5. /\ pc'[p] \in {"user", "exit"}
      /\ blocks' \in [Procs -> Seq(Block)]
      /\ pc' \in [Procs -> PC] /\ seen' \in [Procs -> Nat]
      /\ \A q \in Procs \ {p} : pc'[q] = pc[q] /\ seen'[q] = seen[q]
      /\ \A q \in Procs \ {p} : \A s \in Slots(q) : Content(q, s)' = Content(q, s)
      /\ \A j \in Inodes : Refs(j) \in Nat /\ Refs(j)' = Refs(j) - (IF j = i THEN 1 ELSE 0)
      /\ ChainsSound' /\ CallsSound'
  BY <1>2, DropReturnsSound DEF i
<1>6. TypeOK'
  BY <1>1, <1>2, <1>5 DEF TypeOK, Block, Contents, history
<1>7. CountExact'
  <2>1. ASSUME NEW j \in Inodes
        PROVE  IF j \in live' THEN shared'[j] = Refs(j)' + forgotten'[j] ELSE Refs(j)' = 0
    <3>1. IF j \in live THEN shared[j] = Refs(j) + forgotten[j] ELSE Refs(j) = 0
      BY <1>1 DEF CountExact
    <3>2. shared' = shared /\ forgotten' = forgotten
      BY <1>2 DEF history
    <3>. QED
      BY <1>2, <1>4, <1>5, <3>1, <3>2
  <2>. QED
    BY <1>6, <2>1 DEF CountExact
<1>8. DropsSound'
  <2>1. pc'[p] \notin {"destroy", "exitdestroy", "decrement", "exitdecrement"}
    BY <1>5
  <2>. QED
    BY <1>2, <1>5, <2>1, DropsSoundAfterPut
<1>9. FreeNotForgotten'
  BY <1>1, <1>2, <1>4 DEF FreeNotForgotten, history
<1>10. LeaksExplained'
  <2>1. ASSUME NEW j \in live', Refs(j)' = 0 PROVE forgotten'[j] > 0 \/ j \in raced'
    <3>1. j \in Inodes /\ j \in live /\ j # i
      BY <1>1, <1>2, <2>1 DEF TypeOK
    <3>2. Refs(j) = 0
      BY <1>5, <2>1, <3>1
    <3>. QED
      BY <1>1, <1>2, <3>1, <3>2 DEF LeaksExplained, history
  <2>. QED
    BY <2>1 DEF LeaksExplained
<1>. QED
  BY <1>5, <1>7, <1>8, <1>9, <1>10 DEF IInv

LEMMA DropDecrementIInv ==
  ASSUME IInv, NEW p \in Procs, DropDecrement(p)
  PROVE  IInv'
<1>. DEFINE i == Content(p, slot[p])
<1>1. /\ TypeOK /\ CountExact /\ DropsSound /\ FreeNotForgotten /\ LeaksExplained
  BY DEF IInv, CountExact
<1>2. /\ DropReturns(p, "decrement", "exitdecrement")
      /\ shared' = [shared EXCEPT ![i] = @ - 1]
      /\ raced' = IF shared[i] # seen[p] THEN raced \cup {i} ELSE raced
      /\ UNCHANGED <<live, slot, panicked, forgotten, abandoned>>
  BY DEF DropDecrement
<1>3. pc[p] \in {"decrement", "exitdecrement"}
  BY <1>2 DEF DropReturns, Goto, At
<1>4. /\ i \in Inodes /\ i \in live /\ slot[p] \in Holds(p, i)
      /\ Refs(i) \in Nat /\ Refs(i) >= 1
      /\ shared[i] = Refs(i) + forgotten[i] /\ forgotten[i] \in Nat
  BY <1>3, DropHolds DEF InDrop
<1>. HIDE DEF i
<1>5. /\ pc'[p] \in {"user", "exit"}
      /\ blocks' \in [Procs -> Seq(Block)]
      /\ pc' \in [Procs -> PC] /\ seen' \in [Procs -> Nat]
      /\ \A q \in Procs \ {p} : pc'[q] = pc[q] /\ seen'[q] = seen[q]
      /\ \A q \in Procs \ {p} : \A s \in Slots(q) : Content(q, s)' = Content(q, s)
      /\ \A j \in Inodes : Refs(j) \in Nat /\ Refs(j)' = Refs(j) - (IF j = i THEN 1 ELSE 0)
      /\ ChainsSound' /\ CallsSound'
  BY <1>2, DropReturnsSound DEF i
<1>6. /\ shared[i] \in Nat /\ shared[i] >= 1
      /\ \A j \in Inodes : shared'[j] = IF j = i THEN shared[i] - 1 ELSE shared[j]
      /\ shared' \in [Inodes -> Nat]
  <2>1. shared[i] \in Nat /\ shared[i] >= 1
    BY <1>1, <1>4
  <2>. QED
    BY <1>1, <1>2, <1>4, <2>1 DEF TypeOK
<1>7. TypeOK'
  BY <1>1, <1>2, <1>4, <1>5, <1>6 DEF TypeOK, Block, Contents
<1>8. CountExact'
  <2>1. ASSUME NEW j \in Inodes
        PROVE  IF j \in live' THEN shared'[j] = Refs(j)' + forgotten'[j] ELSE Refs(j)' = 0
    <3>1. IF j \in live THEN shared[j] = Refs(j) + forgotten[j] ELSE Refs(j) = 0
      BY <1>1 DEF CountExact
    <3>2. forgotten[j] \in Nat /\ Refs(j) \in Nat /\ live' = live /\ forgotten' = forgotten
      BY <1>1, <1>2, <1>5 DEF TypeOK
    <3>3. CASE j = i
      <4>1. shared'[j] = shared[j] - 1
        BY <1>4, <1>6, <3>3
      <4>2. shared[j] = Refs(j) + forgotten[j] /\ j \in live
        BY <1>4, <3>1, <3>3
      <4>3. Refs(j)' = Refs(j) - 1
        BY <1>5, <3>3
      <4>. QED
        BY <3>2, <4>1, <4>2, <4>3
    <3>4. CASE j # i
      <4>1. shared'[j] = shared[j] /\ Refs(j)' = Refs(j)
        BY <1>5, <1>6, <3>4
      <4>. QED
        BY <3>1, <3>2, <4>1
    <3>. QED
      BY <3>3, <3>4
  <2>. QED
    BY <1>7, <2>1 DEF CountExact
<1>9. DropsSound'
  <2>1. pc'[p] \notin {"destroy", "exitdestroy", "decrement", "exitdecrement"}
    BY <1>5
  <2>2. \A q \in Procs \ {p} : \A j \in Inodes :
          pc[q] \in {"destroy", "exitdestroy"} /\ j = Content(q, slot[q]) => shared'[j] = shared[j]
    <3>1. ASSUME NEW q \in Procs \ {p}, pc[q] \in {"destroy", "exitdestroy"}
          PROVE  Content(q, slot[q]) # i
      BY <1>4, <3>1, LastReference
    <3>. QED
      BY <1>6, <3>1
  <2>. QED
    BY <1>2, <1>5, <2>1, <2>2, DropsSoundAfterPut
<1>10. FreeNotForgotten'
  BY <1>1, <1>2 DEF FreeNotForgotten
<1>11. LeaksExplained'
  <2>1. ASSUME NEW j \in live', Refs(j)' = 0 PROVE forgotten'[j] > 0 \/ j \in raced'
    <3>1. j \in Inodes /\ j \in live
      BY <1>1, <1>2, <2>1 DEF TypeOK
    <3>2. CASE j # i
      <4>1. Refs(j) = 0
        BY <1>5, <2>1, <3>1, <3>2
      <4>. QED
        BY <1>1, <1>2, <3>1, <4>1 DEF LeaksExplained
    <3>3. CASE j = i
      <4>1. Refs(i) = 1
        BY <1>4, <1>5, <2>1, <3>3
      <4>2. seen[p] # 1
        BY <1>1, <1>3 DEF DropsSound
      <4>3. CASE forgotten[i] = 0
        BY <1>2, <1>4, <3>3, <4>1, <4>2, <4>3
      <4>4. CASE forgotten[i] # 0
        BY <1>2, <1>4, <3>3, <4>4
      <4>. QED
        BY <4>3, <4>4
    <3>. QED
      BY <3>2, <3>3
  <2>. QED
    BY <2>1 DEF LeaksExplained
<1>. QED
  BY <1>5, <1>8, <1>9, <1>10, <1>11 DEF IInv

LEMMA ExitDoneIInv ==
  ASSUME IInv, NEW p \in Procs, ExitDone(p)
  PROVE  IInv'
<1>1. /\ TypeOK /\ CountExact /\ ChainsSound /\ CallsSound /\ DropsSound /\ FreeNotForgotten
      /\ LeaksExplained
  BY DEF IInv, CountExact
<1>2. /\ pc[p] = "exit" /\ pc' = [pc EXCEPT ![p] = "none"]
      /\ InUse(p) = {}
      /\ blocks' = [blocks EXCEPT ![p] = <<>>]
      /\ slot' = [slot EXCEPT ![p] = <<1, 0>>]
      /\ abandoned' = abandoned \ {p}
      /\ UNCHANGED <<live, shared, panicked, seen, forgotten, raced>>
  BY DEF ExitDone, Goto, At
<1>3. blocks \in [Procs -> Seq(Block)]
  BY <1>1 DEF TypeOK, Block, Contents
<1>4. /\ blocks' \in [Procs -> Seq(Block)] /\ blocks'[p] = <<>>
      /\ \A q \in Procs \ {p} : blocks'[q] = blocks[q]
      /\ \A q \in Procs : pc'[q] = IF q = p THEN "none" ELSE pc[q]
      /\ \A q \in Procs \ {p} : slot'[q] = slot[q]
  BY <1>1, <1>2, <1>3 DEF TypeOK
<1>5. \A q \in Procs, i \in Inodes : Holds(q, i)' = Holds(q, i)
  <2>1. SUFFICES ASSUME NEW q \in Procs, NEW i \in Inodes PROVE Holds(q, i)' = Holds(q, i)
    OBVIOUS
  <2>2. CASE q = p
    <3>1. Holds(p, i) = {}
      BY <1>2, ResourceAssumption DEF Holds, InUse
    <3>2. Slots(p)' = {}
      BY <1>4 DEF Slots
    <3>. QED
      BY <2>2, <3>1, <3>2 DEF Holds
  <2>3. CASE q # p
    BY <1>4, <2>3 DEF Holds, Slots, Content
  <2>. QED
    BY <2>2, <2>3
<1>6. \A i \in Inodes : Refs(i)' = Refs(i)
  BY <1>5, RefsSame
<1>7. TypeOK'
  <2>1. <<1, 0>> \in Nat \X Index
    BY ResourceAssumption DEF Index
  <2>2. pc' \in [Procs -> PC] /\ slot' \in [Procs -> Nat \X Index]
    BY <1>1, <1>2, <2>1 DEF TypeOK, PC
  <2>. QED
    BY <1>1, <1>2, <1>4, <2>2 DEF TypeOK, Block, Contents
<1>8. CountExact'
  BY <1>1, <1>2, <1>6, <1>7 DEF CountExact
<1>9. ChainsSound'
  BY <1>1, <1>4 DEF ChainsSound
<1>10. CallsSound'
  <2>1. ASSUME NEW q \in Procs
        PROVE  /\ pc'[q] = "open" => (slot[q] \in Slots(q))' /\ Content(q, slot[q])' = NoInode
               /\ pc'[q] \in InDrop => (slot[q] \in Slots(q))' /\ Content(q, slot[q])' \in Inodes
    <3>1. CASE q = p
      BY <1>4, <3>1 DEF InDrop
    <3>2. CASE q # p
      BY <1>1, <1>4, <3>2 DEF CallsSound, Slots, Content
    <3>. QED
      BY <3>1, <3>2
  <2>. QED
    BY <2>1 DEF CallsSound
<1>11. DropsSound'
  <2>1. ASSUME NEW q \in Procs
        PROVE  /\ pc'[q] \in {"destroy", "exitdestroy"} => shared[Content(q, slot[q])]' = 1
               /\ pc'[q] \in {"decrement", "exitdecrement"} => seen'[q] # 1
    <3>1. CASE q = p
      BY <1>4, <3>1
    <3>2. CASE q # p
      BY <1>1, <1>2, <1>4, <3>2 DEF DropsSound, Content
    <3>. QED
      BY <3>1, <3>2
  <2>. QED
    BY <2>1 DEF DropsSound
<1>12. FreeNotForgotten' /\ LeaksExplained'
  BY <1>1, <1>2, <1>6 DEF FreeNotForgotten, LeaksExplained, TypeOK
<1>. QED
  BY <1>8, <1>9, <1>10, <1>11, <1>12 DEF IInv

\* A clone of the table holds as many references to an inode as the table does.
LEMMA RefsAfterClone ==
  ASSUME TypeOK, ChainsSound, NEW p \in Procs, NEW q \in Procs,
         NEW i \in Inodes, Holds(q, i) = {}, Holds(q, i)' = Holds(p, i),
         \A r \in Procs \ {q} : Holds(r, i)' = Holds(r, i)
  PROVE  Refs(i)' = Refs(i) + Cardinality(Holds(p, i))
<1>. DEFINE R == Referring(i)
            H == Holds(p, i)
            C == {q} \X H
<1>1. IsFiniteSet(R) /\ Cardinality(R) \in Nat /\ IsFiniteSet(H)
  BY ReferringFinite
<1>2. IsFiniteSet(C) /\ Cardinality(C) = Cardinality(H) /\ Cardinality(H) \in Nat
  <2>1. IsFiniteSet({q}) /\ Cardinality({q}) = 1
    BY FS_Singleton
  <2>2. IsFiniteSet(C) /\ Cardinality(C) = Cardinality({q}) * Cardinality(H)
    BY <1>1, <2>1, FS_Product
  <2>3. Cardinality(H) \in Nat
    BY <1>1, FS_CardinalityType
  <2>. QED
    BY <2>1, <2>2, <2>3
<1>3. R' = R \cup C /\ R \cap C = {}
  <2>1. R' = UNION {{r} \X Holds(r, i)' : r \in Procs}
    BY DEF Referring
  <2>2. \A x : x \in R' <=> \E r \in Procs : \E s \in Holds(r, i)' : x = <<r, s>>
    BY <2>1
  <2>3. \A x : x \in R <=> \E r \in Procs : \E s \in Holds(r, i) : x = <<r, s>>
    BY ReferringMember
  <2>4. \A x : x \in C <=> \E s \in H : x = <<q, s>>
    OBVIOUS
  <2>. HIDE DEF R, C, H
  <2>5. \A x : x \in R' <=> x \in R \/ x \in C
    BY <2>2, <2>3, <2>4 DEF H
  <2>6. \A x : ~ (x \in R /\ x \in C)
    BY <2>3, <2>4
  <2>7. R' = R \cup C
    BY <2>5
  <2>. QED
    BY <2>6, <2>7
<1>4. Cardinality(R') = Cardinality(R) + Cardinality(C) - Cardinality({})
  BY <1>1, <1>2, <1>3, FS_Union
<1>5. Cardinality(R') = Cardinality(R) + Cardinality(H)
  BY <1>1, <1>2, <1>4, FS_EmptySet
<1>6. Refs(i)' = Cardinality(R') + IF i \in Files THEN 1 ELSE 0
  BY DEF Refs
<1>7. Refs(i) = Cardinality(R) + IF i \in Files THEN 1 ELSE 0
  BY DEF Refs
<1>8. ASSUME NEW n \in Nat, NEW h \in Nat, NEW m, NEW file \in {0, 1}, m = n + h
      PROVE  m + file = n + file + h
  BY <1>8
<1>. QED
  BY <1>1, <1>2, <1>5, <1>6, <1>7, <1>8

LEMMA ForkIInv ==
  ASSUME IInv, NEW p \in Procs, NEW q \in Procs, Fork(p, q)
  PROVE  IInv'
<1>1. /\ TypeOK /\ CountExact /\ ChainsSound /\ CallsSound /\ DropsSound /\ FreeNotForgotten
      /\ LeaksExplained
  BY DEF IInv, CountExact
<1>2. /\ pc[p] = "user" /\ pc[q] = "none" /\ pc' = [pc EXCEPT ![q] = "user"]
      /\ blocks' = [blocks EXCEPT ![q] = blocks[p]]
      /\ shared' = [i \in Inodes |-> shared[i] + Cardinality(Holds(p, i))]
      /\ UNCHANGED <<live, slot, panicked, seen, history>>
  BY DEF Fork, At, Cloned
<1>3. blocks \in [Procs -> Seq(Block)]
  BY <1>1 DEF TypeOK, Block, Contents
<1>4. /\ blocks' \in [Procs -> Seq(Block)] /\ blocks'[q] = blocks[p]
      /\ \A r \in Procs \ {q} : blocks'[r] = blocks[r]
      /\ \A r \in Procs : pc'[r] = IF r = q THEN "user" ELSE pc[r]
  BY <1>1, <1>2, <1>3 DEF TypeOK
<1>5. ASSUME NEW i \in Inodes
      PROVE  /\ Holds(q, i) = {} /\ Holds(q, i)' = Holds(p, i)
             /\ \A r \in Procs \ {q} : Holds(r, i)' = Holds(r, i)
  <2>1. blocks[q] = <<>>
    BY <1>1, <1>2 DEF ChainsSound
  <2>2. Slots(q) = {}
    BY <2>1 DEF Slots
  <2>3. Holds(q, i) = {}
    BY <2>2 DEF Holds
  <2>. QED
    BY <1>4, <2>3 DEF Holds, Slots, Content
<1>6. ASSUME NEW i \in Inodes
      PROVE  /\ Cardinality(Holds(p, i)) \in Nat /\ Refs(i) \in Nat
             /\ Refs(i)' = Refs(i) + Cardinality(Holds(p, i))
             /\ Holds(p, i) = {} => Cardinality(Holds(p, i)) = 0
             /\ Holds(p, i) # {} => Refs(i) >= 1
  <2>1. IsFiniteSet(Holds(p, i))
    BY <1>1, ReferringFinite
  <2>2. Cardinality(Holds(p, i)) \in Nat /\ (Holds(p, i) = {} => Cardinality(Holds(p, i)) = 0)
    BY <2>1, FS_CardinalityType, FS_EmptySet
  <2>3. Refs(i)' = Refs(i) + Cardinality(Holds(p, i))
    BY <1>1, <1>5, RefsAfterClone
  <2>4. Refs(i) \in Nat /\ (Holds(p, i) # {} => Refs(i) >= 1)
    BY <1>1, RefsAtLeast
  <2>. QED
    BY <2>2, <2>3, <2>4
<1>7. TypeOK'
  <2>1. shared' \in [Inodes -> Nat]
    BY <1>1, <1>2, <1>6 DEF TypeOK
  <2>2. pc' \in [Procs -> PC]
    BY <1>1, <1>2 DEF TypeOK, PC
  <2>. QED
    BY <1>1, <1>2, <1>4, <2>1, <2>2 DEF TypeOK, Block, Contents, history
<1>8. CountExact'
  <2>1. ASSUME NEW i \in Inodes
        PROVE  IF i \in live' THEN shared'[i] = Refs(i)' + forgotten'[i] ELSE Refs(i)' = 0
    <3>1. IF i \in live THEN shared[i] = Refs(i) + forgotten[i] ELSE Refs(i) = 0
      BY <1>1 DEF CountExact
    <3>2. /\ shared[i] \in Nat /\ forgotten[i] \in Nat /\ live' = live /\ forgotten' = forgotten
          /\ shared'[i] = shared[i] + Cardinality(Holds(p, i))
      BY <1>1, <1>2 DEF TypeOK, history
    <3>. QED
      BY <1>6, <3>1, <3>2
  <2>. QED
    BY <1>7, <2>1 DEF CountExact
<1>9. ChainsSound'
  BY <1>1, <1>2, <1>4 DEF ChainsSound
<1>10. CallsSound'
  <2>1. ASSUME NEW r \in Procs
        PROVE  /\ pc'[r] = "open" => (slot[r] \in Slots(r))' /\ Content(r, slot[r])' = NoInode
               /\ pc'[r] \in InDrop => (slot[r] \in Slots(r))' /\ Content(r, slot[r])' \in Inodes
    <3>1. CASE r = q
      BY <1>4, <3>1 DEF InDrop
    <3>2. CASE r # q
      BY <1>1, <1>2, <1>4, <3>2 DEF CallsSound, Slots, Content
    <3>. QED
      BY <3>1, <3>2
  <2>. QED
    BY <2>1 DEF CallsSound
<1>11. DropsSound'
  <2>1. ASSUME NEW r \in Procs
        PROVE  /\ pc'[r] \in {"destroy", "exitdestroy"} => shared[Content(r, slot[r])]' = 1
               /\ pc'[r] \in {"decrement", "exitdecrement"} => seen'[r] # 1
    <3>1. CASE r = q
      BY <1>4, <3>1
    <3>2. CASE r # q
      <4>1. pc'[r] = pc[r] /\ seen'[r] = seen[r]
        BY <1>2, <1>4, <3>2
      <4>2. ASSUME pc[r] \in {"destroy", "exitdestroy"}
            PROVE  shared[Content(r, slot[r])]' = 1
        <5>. DEFINE j == Content(r, slot[r])
        <5>1. j' = j
          BY <1>2, <1>4, <3>2 DEF Content
        <5>2. r # p
          BY <1>2, <4>2
        <5>3. j \in Inodes /\ shared[j] = 1 /\ Holds(p, j) = {}
          BY <4>2, <5>2, LastReference
        <5>. HIDE DEF j
        <5>4. shared'[j] = 1
          BY <1>2, <1>6, <5>3
        <5>. QED
          BY <5>1, <5>4 DEF j
      <4>3. pc[r] \in {"decrement", "exitdecrement"} => seen[r] # 1
        BY <1>1 DEF DropsSound
      <4>. QED
        BY <4>1, <4>2, <4>3
    <3>. QED
      BY <3>1, <3>2
  <2>. QED
    BY <2>1 DEF DropsSound
<1>12. FreeNotForgotten'
  BY <1>1, <1>2 DEF FreeNotForgotten, history
<1>13. LeaksExplained'
  <2>1. ASSUME NEW i \in live', Refs(i)' = 0 PROVE forgotten'[i] > 0 \/ i \in raced'
    <3>1. i \in Inodes /\ i \in live
      BY <1>1, <1>2, <2>1 DEF TypeOK
    <3>2. Refs(i) = 0
      BY <1>6, <2>1, <3>1
    <3>. QED
      BY <1>1, <1>2, <3>1, <3>2 DEF LeaksExplained, history
  <2>. QED
    BY <2>1 DEF LeaksExplained
<1>. QED
  BY <1>8, <1>9, <1>10, <1>11, <1>12, <1>13 DEF IInv

LEMMA ForkFailsIInv ==
  ASSUME IInv, NEW p \in Procs, ForkFails(p)
  PROVE  IInv'
<1>1. /\ TypeOK /\ CountExact /\ ChainsSound /\ CallsSound /\ DropsSound /\ FreeNotForgotten
      /\ LeaksExplained
  BY DEF IInv, CountExact
<1>2. /\ pc[p] = "user"
      /\ shared' = [i \in Inodes |-> shared[i] + Cardinality(Holds(p, i))]
      /\ forgotten' = [i \in Inodes |-> forgotten[i] + Cardinality(Holds(p, i))]
      /\ UNCHANGED <<blocks, live, pc, slot, panicked, seen, raced, abandoned>>
  BY DEF ForkFails, At, Cloned
<1>3. /\ \A q : Slots(q)' = Slots(q)
      /\ \A q, r : Content(q, r)' = Content(q, r)
      /\ \A i : Refs(i)' = Refs(i)
  BY <1>2, TableSame
<1>4. ASSUME NEW i \in Inodes
      PROVE  /\ Cardinality(Holds(p, i)) \in Nat /\ Refs(i) \in Nat
             /\ Holds(p, i) = {} => Cardinality(Holds(p, i)) = 0
             /\ Holds(p, i) # {} => Refs(i) >= 1
  <2>1. IsFiniteSet(Holds(p, i))
    BY <1>1, ReferringFinite
  <2>2. Cardinality(Holds(p, i)) \in Nat /\ (Holds(p, i) = {} => Cardinality(Holds(p, i)) = 0)
    BY <2>1, FS_CardinalityType, FS_EmptySet
  <2>3. Refs(i) \in Nat /\ (Holds(p, i) # {} => Refs(i) >= 1)
    BY <1>1, RefsAtLeast
  <2>. QED
    BY <2>2, <2>3
<1>5. /\ shared' \in [Inodes -> Nat] /\ forgotten' \in [Inodes -> Nat]
      /\ \A i \in Inodes : /\ shared'[i] = shared[i] + Cardinality(Holds(p, i))
                           /\ forgotten'[i] = forgotten[i] + Cardinality(Holds(p, i))
                           /\ shared[i] \in Nat /\ forgotten[i] \in Nat
  BY <1>1, <1>2, <1>4 DEF TypeOK
<1>6. TypeOK'
  BY <1>1, <1>2, <1>5 DEF TypeOK
<1>7. CountExact'
  <2>1. ASSUME NEW i \in Inodes
        PROVE  IF i \in live' THEN shared'[i] = Refs(i)' + forgotten'[i] ELSE Refs(i)' = 0
    <3>1. IF i \in live THEN shared[i] = Refs(i) + forgotten[i] ELSE Refs(i) = 0
      BY <1>1 DEF CountExact
    <3>. QED
      BY <1>2, <1>3, <1>4, <1>5, <3>1
  <2>. QED
    BY <1>6, <2>1 DEF CountExact
<1>8. ChainsSound'
  BY <1>1, <1>2 DEF ChainsSound
<1>9. CallsSound'
  BY <1>1, <1>2 DEF CallsSound, Slots, Content
<1>10. DropsSound'
  <2>1. ASSUME NEW r \in Procs
        PROVE  /\ pc'[r] \in {"destroy", "exitdestroy"} => shared[Content(r, slot[r])]' = 1
               /\ pc'[r] \in {"decrement", "exitdecrement"} => seen'[r] # 1
    <3>1. ASSUME pc[r] \in {"destroy", "exitdestroy"}
          PROVE  shared[Content(r, slot[r])]' = 1
      <4>. DEFINE j == Content(r, slot[r])
      <4>1. j' = j
        BY <1>2 DEF Content
      <4>2. r # p
        BY <1>2, <3>1
      <4>3. j \in Inodes /\ shared[j] = 1 /\ Holds(p, j) = {}
        BY <3>1, <4>2, LastReference
      <4>. HIDE DEF j
      <4>4. shared'[j] = 1
        BY <1>4, <1>5, <4>3
      <4>. QED
        BY <4>1, <4>4 DEF j
    <3>. QED
      BY <1>1, <1>2, <3>1 DEF DropsSound
  <2>. QED
    BY <2>1 DEF DropsSound
<1>11. FreeNotForgotten'
  <2>1. ASSUME NEW i \in Inodes \ live PROVE forgotten'[i] = 0
    <3>1. Refs(i) = 0 /\ forgotten[i] = 0
      BY <1>1 DEF CountExact, FreeNotForgotten
    <3>2. Holds(p, i) = {}
      BY <1>4, <3>1
    <3>. QED
      BY <1>4, <1>5, <3>1, <3>2
  <2>. QED
    BY <1>2, <2>1 DEF FreeNotForgotten
<1>12. LeaksExplained'
  <2>1. ASSUME NEW i \in live', Refs(i)' = 0 PROVE forgotten'[i] > 0 \/ i \in raced'
    <3>1. i \in Inodes /\ i \in live /\ Refs(i) = 0
      BY <1>1, <1>2, <1>3, <2>1 DEF TypeOK
    <3>2. forgotten[i] > 0 \/ i \in raced
      BY <1>1, <3>1 DEF LeaksExplained
    <3>. QED
      BY <1>2, <1>4, <1>5, <3>1, <3>2
  <2>. QED
    BY <2>1 DEF LeaksExplained
<1>. QED
  BY <1>7, <1>8, <1>9, <1>10, <1>11, <1>12 DEF IInv

LEMMA PanicIInv ==
  ASSUME IInv, NEW p \in Procs, NEW cause \in Causes, Panic(p, cause)
  PROVE  IInv'
<1>1. /\ panicked' \in SUBSET (Procs \X Causes)
      /\ UNCHANGED <<blocks, live, shared, pc, slot, seen, forgotten, raced, abandoned>>
  BY DEF Panic, history
<1>2. \A i : Refs(i)' = Refs(i)
  BY <1>1, TableSame
<1>3. TypeOK'
  BY <1>1 DEF IInv, CountExact, TypeOK
<1>4. CountExact'
  BY <1>1, <1>2, <1>3 DEF IInv, CountExact
<1>5. ChainsSound' /\ CallsSound' /\ DropsSound' /\ FreeNotForgotten'
  BY <1>1 DEF IInv, ChainsSound, CallsSound, DropsSound, FreeNotForgotten, Slots, Content
<1>6. LeaksExplained'
  BY <1>1, <1>2 DEF IInv, LeaksExplained
<1>. QED
  BY <1>4, <1>5, <1>6 DEF IInv

LEMMA NextIInv == IInv /\ [Next]_vars => IInv'
<1>. SUFFICES ASSUME IInv, [Next]_vars PROVE IInv'
  OBVIOUS
<1>1. ASSUME NEW p \in Procs,
             \/ OpenPanics(p) \/ ExitFaults(p) \/ ForkFaults(p) \/ ForkFaultsNoMem(p)
             \/ \E id : CloseFaults(p, id)
      PROVE  IInv'
  <2>1. \E cause \in Causes : Panic(p, cause)
    BY <1>1 DEF OpenPanics, ExitFaults, ForkFaults, ForkFaultsNoMem, CloseFaults, Causes
  <2>. QED
    BY <2>1, PanicIInv
<1>2. CASE UNCHANGED vars
  <2>1. UNCHANGED <<blocks, live, shared, pc, slot, panicked, seen, forgotten, raced, abandoned>>
    BY <1>2 DEF vars
  <2>2. \A i : Refs(i)' = Refs(i)
    BY <2>1, TableSame
  <2>3. TypeOK' /\ CountExact'
    BY <2>1, <2>2 DEF IInv, CountExact, TypeOK
  <2>4. ChainsSound' /\ CallsSound' /\ DropsSound' /\ FreeNotForgotten' /\ LeaksExplained'
    BY <2>1, <2>2 DEF IInv, ChainsSound, CallsSound, DropsSound, FreeNotForgotten,
                      LeaksExplained, Slots, Content
  <2>. QED
    BY <2>3, <2>4 DEF IInv
<1>3. CASE Next
  BY <1>1, <1>3, OpenAddIInv, OpenNoMemIInv, OpenFileIInv, OpenNewIInv, OpenFailsIInv, MoveIInv,
     DropDestroyIInv, DropDecrementIInv, ExitDoneIInv, ForkIInv, ForkFailsIInv DEF Next
<1>. QED
  BY <1>2, <1>3

-----------------------------------------------------------------------------
(* The theorems *)

\* The invariant, with everything above: in particular that resource_add only ever uses
\* the first block of a table.
THEOREM Invariant == Spec => []IInv
BY InitIInv, NextIInv, PTL DEF Spec

-----------------------------------------------------------------------------
(* Resources without inode *)

\* A resource without inode has just been added by the open that is under way, or an open of
\* the same process has left it.
AbandonedSound ==
  \A p \in Procs : \A s \in Slots(p) :
    Content(p, s) = NoInode => p \in abandoned \/ (pc[p] = "open" /\ s = slot[p])

LEMMA AbandonedAfterPut ==
  ASSUME IInv, AbandonedSound, NEW p \in Procs, slot[p] \in Slots(p),
         NEW x \in Contents \ {NoInode}, blocks' = Put(p, x),
         NEW l, pc' = [pc EXCEPT ![p] = l], slot' = slot, abandoned' = abandoned
  PROVE  AbandonedSound'
<1>1. TypeOK
  BY DEF IInv, CountExact
<1>2. /\ \A q \in Procs : Slots(q)' = Slots(q)
      /\ \A q \in Procs : \A s \in Slots(q) :
           Content(q, s)' = IF q = p /\ s = slot[p] THEN x ELSE Content(q, s)
  BY <1>1, PutKeeps
<1>3. \A q \in Procs : q # p => pc'[q] = pc[q]
  BY <1>1 DEF TypeOK
<1>4. ASSUME NEW q \in Procs, NEW s \in Slots(q), Content(q, s)' = NoInode
      PROVE  q \in abandoned \/ (pc'[q] = "open" /\ s = slot[q])
  BY <1>2, <1>3, <1>4 DEF AbandonedSound
<1>. QED
  BY <1>2, <1>4 DEF AbandonedSound

\* resource_add puts x in a slot of p, which the open is about if x is NoInode.
LEMMA AbandonedAfterAdd ==
  ASSUME IInv, AbandonedSound, NEW p \in Procs, pc[p] = "user", NEW r, NEW x,
         \A q \in Procs \ {p} : blocks'[q] = blocks[q],
         \A s \in Slots(p) : Content(p, s)' = IF s = r THEN x ELSE Content(p, s),
         \A s \in Slots(p)' : s \notin Slots(p) => Content(p, s)' = Null,
         x = NoInode => pc'[p] = "open" /\ slot'[p] = r,
         \A q \in Procs \ {p} : pc'[q] = pc[q] /\ slot'[q] = slot[q],
         abandoned' = abandoned
  PROVE  AbandonedSound'
<1>1. ASSUME NEW s \in Slots(p)', Content(p, s)' = NoInode
      PROVE  p \in abandoned \/ (pc'[p] = "open" /\ s = slot'[p])
  <2>1. s \in Slots(p)
    BY <1>1, ResourceAssumption
  <2>. QED
    BY <1>1, <2>1 DEF AbandonedSound
<1>2. ASSUME NEW q \in Procs, q # p, NEW s \in Slots(q)', Content(q, s)' = NoInode
      PROVE  q \in abandoned \/ (pc'[q] = "open" /\ s = slot'[q])
  <2>1. s \in Slots(q) /\ Content(q, s) = NoInode
    BY <1>2 DEF Slots, Content
  <2>. QED
    BY <1>2, <2>1 DEF AbandonedSound
<1>. QED
  BY <1>1, <1>2 DEF AbandonedSound

LEMMA AbandonedInit == Init => AbandonedSound
<1>. SUFFICES ASSUME Init, NEW p \in Procs, NEW s \in Slots(p) PROVE Content(p, s) # NoInode
  BY DEF AbandonedSound
<1>1. p = First
  BY DEF Init, Slots
<1>2. s[1] \in DOMAIN <<NewBlock>> /\ s[2] \in Index /\ blocks[p] = <<NewBlock>>
  BY <1>1 DEF Init, Slots
<1>3. Content(p, s) = Null
  BY <1>2 DEF Content, NewBlock
<1>. QED
  BY <1>3, ResourceAssumption

LEMMA AbandonedNext == IInv /\ AbandonedSound /\ [Next]_vars => AbandonedSound'
<1>. SUFFICES ASSUME IInv, AbandonedSound, [Next]_vars PROVE AbandonedSound'
  OBVIOUS
<1>1. TypeOK /\ CallsSound
  BY DEF IInv, CountExact
\* The table and the calls of every process, or of all but p, stay as they are.
<1>2. ASSUME NEW p, UNCHANGED blocks, abandoned \subseteq abandoned', p \in abandoned' \/ pc[p] # "open",
             \A q \in Procs \ {p} : pc'[q] = pc[q] /\ slot'[q] = slot[q]
      PROVE  AbandonedSound'
  <2>1. /\ \A q : Slots(q)' = Slots(q)
        /\ \A q, s : Content(q, s)' = Content(q, s)
    BY <1>2, TableSame
  <2>. QED
    BY <1>2, <2>1 DEF AbandonedSound
<1>3. CASE UNCHANGED vars
  BY <1>3, TableSame DEF vars, AbandonedSound
<1>4. ASSUME NEW p \in Procs, OpenAdd(p) PROVE AbandonedSound'
  <2>1. PICK i \in EmptySlots(p, 1) :
          /\ pc[p] = "user" /\ pc' = [pc EXCEPT ![p] = "open"]
          /\ slot' = [slot EXCEPT ![p] = <<1, i>>]
          /\ blocks[p][1].occupied < MaxOpens
          /\ blocks' = [blocks EXCEPT ![p] = [Grown(p) EXCEPT ![1] =
                          [occupied |-> blocks[p][1].occupied + 1,
                           data |-> [blocks[p][1].data EXCEPT ![i] = NoInode]]]]
          /\ UNCHANGED <<live, shared, panicked, seen, history>>
    BY <1>4, OpenAddWrites
  <2>2. /\ \A q \in Procs \ {p} : blocks'[q] = blocks[q]
        /\ \A q \in Procs : \A s \in Slots(q) :
             /\ s \in Slots(q)'
             /\ Content(q, s)' = IF q = p /\ s = <<1, i>> THEN NoInode ELSE Content(q, s)
        /\ \A q \in Procs : \A s \in Slots(q)' : s \notin Slots(q) => Content(q, s)' = Null
    <3>1. pc[p] # "none"
      BY <2>1
    <3>. QED
      BY ONLY <2>1, <3>1, IInv, AddSound, p \in Procs
  <2>3. /\ pc'[p] = "open" /\ slot'[p] = <<1, i>>
        /\ \A q \in Procs \ {p} : pc'[q] = pc[q] /\ slot'[q] = slot[q]
        /\ abandoned' = abandoned
    BY <1>1, <2>1 DEF TypeOK, history
  <2>4. /\ pc[p] = "user"
        /\ \A s \in Slots(p) : Content(p, s)' = IF s = <<1, i>> THEN NoInode ELSE Content(p, s)
        /\ \A s \in Slots(p)' : s \notin Slots(p) => Content(p, s)' = Null
    BY ONLY <2>1, <2>2, p \in Procs
  <2>. QED
    BY ONLY <2>2, <2>3, <2>4, IInv, AbandonedSound, p \in Procs, AbandonedAfterAdd
<1>5. ASSUME NEW p \in Procs, OpenNoMem(p) PROVE AbandonedSound'
  <2>1. /\ pc[p] = "user"
        /\ \A q \in Procs \ {p} : blocks'[q] = blocks[q]
        /\ \A q \in Procs : \A s \in Slots(q) : s \in Slots(q)' /\ Content(q, s)' = Content(q, s)
        /\ \A q \in Procs : \A s \in Slots(q)' : s \notin Slots(q) => Content(q, s)' = Null
        /\ pc' = pc /\ slot' = slot /\ abandoned' = abandoned
    BY <1>5, OpenNoMemTable DEF history
  <2>2. ASSUME NEW q \in Procs, NEW s \in Slots(q)', Content(q, s)' = NoInode
        PROVE  q \in abandoned \/ (pc[q] = "open" /\ s = slot[q])
    <3>1. s \in Slots(q)
      BY <2>1, <2>2, ResourceAssumption
    <3>. QED
      BY <2>1, <2>2, <3>1 DEF AbandonedSound
  <2>. QED
    BY <2>1, <2>2 DEF AbandonedSound
<1>6. ASSUME NEW p \in Procs, NEW f \in Files, OpenFile(p, f) \/ OpenTruncFails(p, f)
      PROVE  AbandonedSound'
  <2>1. /\ slot[p] \in Slots(p) /\ blocks' = Put(p, f) /\ slot' = slot /\ abandoned' = abandoned
        /\ \E l : pc' = [pc EXCEPT ![p] = l]
    BY <1>1, <1>6 DEF CallsSound, OpenFile, OpenTruncFails, Goto, At, history
  <2>2. f \in Contents \ {NoInode}
    BY ResourceAssumption DEF Contents
  <2>. QED
    BY <2>1, <2>2, AbandonedAfterPut
<1>7. ASSUME NEW p \in Procs, NEW i \in Inodes, OpenNew(p, i) PROVE AbandonedSound'
  <2>1. /\ slot[p] \in Slots(p) /\ blocks' = Put(p, i) /\ slot' = slot /\ abandoned' = abandoned
        /\ pc' = [pc EXCEPT ![p] = "user"]
    BY <1>1, <1>7 DEF CallsSound, OpenNew, Goto, At, history
  <2>2. i \in Contents \ {NoInode}
    BY ResourceAssumption DEF Contents
  <2>. QED
    BY <2>1, <2>2, AbandonedAfterPut
<1>8. ASSUME NEW p \in Procs, OpenFails(p) \/ DropDestroy(p) \/ DropDecrement(p) PROVE AbandonedSound'
  <2>1. /\ slot[p] \in Slots(p) /\ blocks' = Put(p, Null) /\ slot' = slot /\ abandoned' = abandoned
        /\ \E l : pc' = [pc EXCEPT ![p] = l]
    BY <1>1, <1>8 DEF CallsSound, InDrop, OpenFails, DropDestroy, DropDecrement, DropReturns,
                      Goto, At, history
  <2>2. Null \in Contents \ {NoInode}
    BY ResourceAssumption DEF Contents
  <2>. QED
    BY <2>1, <2>2, AbandonedAfterPut
<1>9. ASSUME NEW p \in Procs,
             \/ OpenCreatFails(p) \/ Exit(p) \/ ExitNext(p) \/ DropTest(p) \/ ForkFails(p)
             \/ \E id : Close(p, id)
      PROVE  AbandonedSound'
  <2>1. /\ UNCHANGED blocks /\ abandoned \subseteq abandoned'
        /\ p \in abandoned' \/ pc[p] # "open"
        /\ \A q \in Procs \ {p} : pc'[q] = pc[q] /\ slot'[q] = slot[q]
    BY <1>1, <1>9 DEF TypeOK, OpenCreatFails, Exit, ExitNext, DropTest, ForkFails, Close, Goto, At,
                      history
  <2>. QED
    BY <1>2, <2>1
<1>10. ASSUME NEW p \in Procs, ExitDone(p) PROVE AbandonedSound'
  <2>1. /\ blocks' = [blocks EXCEPT ![p] = <<>>] /\ abandoned' = abandoned \ {p}
        /\ \A q \in Procs \ {p} : pc'[q] = pc[q] /\ slot'[q] = slot[q]
    BY <1>1, <1>10 DEF TypeOK, ExitDone, Goto, At
  <2>2. blocks'[p] = <<>> /\ \A q \in Procs \ {p} : blocks'[q] = blocks[q]
    BY <1>1, <2>1 DEF TypeOK
  <2>3. Slots(p)' = {}
    BY <2>2 DEF Slots
  <2>4. ASSUME NEW q \in Procs, NEW s \in Slots(q)', Content(q, s)' = NoInode
        PROVE  q \in abandoned' \/ (pc'[q] = "open" /\ s = slot'[q])
    <3>1. q # p
      BY <2>3, <2>4
    <3>2. s \in Slots(q) /\ Content(q, s) = NoInode
      BY <2>2, <2>4, <3>1 DEF Slots, Content
    <3>. QED
      BY <2>1, <3>1, <3>2 DEF AbandonedSound
  <2>. QED
    BY <2>4 DEF AbandonedSound
<1>11. ASSUME NEW p \in Procs, NEW q \in Procs, Fork(p, q) PROVE AbandonedSound'
  <2>1. /\ blocks' = [blocks EXCEPT ![q] = blocks[p]] /\ Holds(p, NoInode) = {}
        /\ \A r \in Procs \ {q} : pc'[r] = pc[r]
        /\ slot' = slot /\ abandoned' = abandoned
    BY <1>1, <1>11 DEF TypeOK, Fork, HasNoInode, history
  <2>2. blocks'[q] = blocks[p] /\ \A r \in Procs \ {q} : blocks'[r] = blocks[r]
    BY <1>1, <2>1 DEF TypeOK
  <2>3. ASSUME NEW r \in Procs, NEW s \in Slots(r)', Content(r, s)' = NoInode
        PROVE  r \in abandoned \/ (pc'[r] = "open" /\ s = slot[r])
    <3>1. r # q
      BY <2>1, <2>2, <2>3 DEF Holds, Slots, Content
    <3>2. s \in Slots(r) /\ Content(r, s) = NoInode
      BY <2>2, <2>3, <3>1 DEF Slots, Content
    <3>. QED
      BY <2>1, <3>1, <3>2 DEF AbandonedSound
  <2>. QED
    BY <2>1, <2>3 DEF AbandonedSound
<1>12. ASSUME NEW p \in Procs,
              \/ OpenPanics(p) \/ ExitFaults(p) \/ ForkFaults(p) \/ ForkFaultsNoMem(p)
              \/ \E id : CloseFaults(p, id)
       PROVE  AbandonedSound'
  <2>1. UNCHANGED <<blocks, pc, slot, abandoned>>
    BY <1>12 DEF OpenPanics, ExitFaults, ForkFaults, ForkFaultsNoMem, CloseFaults, Panic, history
  <2>. QED
    BY <2>1, TableSame DEF AbandonedSound
<1>13. CASE Next
  BY <1>4, <1>5, <1>6, <1>7, <1>8, <1>9, <1>10, <1>11, <1>12, <1>13 DEF Next
<1>. QED
  BY <1>3, <1>13

LEMMA Abandoned == Spec => []AbandonedSound
BY AbandonedInit, AbandonedNext, Invariant, PTL DEF Spec

-----------------------------------------------------------------------------
(* What holds of every behaviour *)

\* CountExact for every number of processes, inodes and slots: no overlap of the steps of
\* idrop with opens, forks and other drops frees an inode that a resource refers to.
THEOREM Counts == Spec => []CountExact
<1>1. IInv => CountExact
  BY DEF IInv
<1>. QED
  BY <1>1, Invariant, PTL

\* LeaksExplained: an inode that nothing refers to was forgotten by a fork that failed, or
\* two drops of it overlapped.
THEOREM Leaks == Spec => []LeaksExplained
<1>1. IInv => LeaksExplained
  BY DEF IInv
<1>. QED
  BY <1>1, Invariant, PTL

\* AddedIsFound: a new descriptor was free, is found, and leaves the others alone.
THEOREM Added == Spec => AddedIsFound
<1>. DEFINE P == \A p \in Procs : Opens(p) =>
                   /\ Locate(IdOf(slot'[p])) = slot'[p]
                   /\ \A s \in Slots(p) :
                        IF s = slot'[p] THEN Content(p, s) = Null /\ Content(p, s)' = NoInode
                                        ELSE Content(p, s)' = Content(p, s)
<1>1. ASSUME IInv, [Next]_vars PROVE [P]_vars
  <2>1. SUFFICES ASSUME NEW p \in Procs, pc[p] = "user", pc'[p] = "open"
                 PROVE  /\ Locate(IdOf(slot'[p])) = slot'[p]
                        /\ \A s \in Slots(p) :
                             IF s = slot'[p] THEN Content(p, s) = Null /\ Content(p, s)' = NoInode
                                             ELSE Content(p, s)' = Content(p, s)
    BY DEF Opens
  <2>2. TypeOK
    BY <1>1 DEF IInv, CountExact
  <2>3. OpenAdd(p)
    <3>1. Next
      BY <1>1, <2>1 DEF vars
    <3>2. ASSUME NEW q \in Procs, OpenAdd(q) PROVE q = p
      BY <2>1, <2>2, <3>2 DEF OpenAdd, Goto, TypeOK
    <3>. QED
      BY <2>1, <2>2, <3>1, <3>2
         DEF Next, OpenNoMem, OpenPanics, OpenFile, OpenTruncFails, OpenNew, OpenFails,
             OpenCreatFails, Close, CloseFaults, DropTest, DropDestroy, DropDecrement, DropReturns,
             Exit, ExitNext, ExitFaults, ExitDone, Fork, ForkFails, ForkFaults,
             ForkFaultsNoMem, Panic, Goto, At, TypeOK
  <2>4. PICK i \in EmptySlots(p, 1) :
          /\ pc[p] = "user" /\ pc' = [pc EXCEPT ![p] = "open"]
          /\ slot' = [slot EXCEPT ![p] = <<1, i>>]
          /\ blocks[p][1].occupied < MaxOpens
          /\ blocks' = [blocks EXCEPT ![p] = [Grown(p) EXCEPT ![1] =
                          [occupied |-> blocks[p][1].occupied + 1,
                           data |-> [blocks[p][1].data EXCEPT ![i] = NoInode]]]]
          /\ UNCHANGED <<live, shared, panicked, seen, history>>
    BY <1>1, <2>3, OpenAddWrites
  <2>5. slot'[p] = <<1, i>> /\ i \in Index
    BY <2>2, <2>4 DEF TypeOK, EmptySlots
  <2>6. Locate(IdOf(<<1, i>>)) = <<1, i>>
    <3>1. i \in Nat /\ i < RPB /\ RPB \in Nat
      BY <2>5, ResourceAssumption DEF Index
    <3>2. IdOf(<<1, i>>) = i
      BY <3>1 DEF IdOf
    <3>. QED
      BY <3>1, <3>2 DEF Locate
  <2>7. /\ <<1, i>> \in Slots(p) /\ Content(p, <<1, i>>) = Null
        /\ \A s \in Slots(p) : Content(p, s)' = IF s = <<1, i>> THEN NoInode ELSE Content(p, s)
    <3>1. pc[p] # "none" /\ NoInode \in {Null, NoInode}
      BY <2>1
    <3>2. IInv
      BY <1>1
    <3>3. /\ blocks' \in [Procs -> Seq(Block)]
          /\ \A q \in Procs \ {p} : blocks'[q] = blocks[q]
          /\ FirstBlockOnly(blocks'[p])
          /\ <<1, i>> \in Slots(p) /\ Content(p, <<1, i>>) = Null
          /\ \A q \in Procs : \A s \in Slots(q) :
               /\ s \in Slots(q)'
               /\ Content(q, s)' = IF q = p /\ s = <<1, i>> THEN NoInode ELSE Content(q, s)
          /\ \A q \in Procs, j \in Inodes : Holds(q, j)' = Holds(q, j)
      BY ONLY <2>4, <3>1, <3>2, AddSound, p \in Procs
    <3>. QED
      BY <3>3
  <2>. QED
    BY <2>5, <2>6, <2>7
<1>. QED
  BY <1>1, Invariant, PTL DEF Spec, AddedIsFound

\* PanicExplained: a process stops the kernel in resource_add only if it has exactly as many
\* descriptors as a block has slots, through a NULL inode only if an open of its own has left
\* a resource without one, and through a NULL resource only in a fork that copies one.
THEOREM Panics == Spec => PanicExplained
<1>. DEFINE E(p, cause) ==
              \/ cause = "unreachable" /\ pc[p] = "user" /\ Cardinality(InUse(p)) = RPB
              \/ cause = "inode" /\ pc[p] \in {"user", "exit"} /\ p \in abandoned
              \/ cause = "resource" /\ pc[p] = "user" /\ InUse(p) # {}
            P == \A p \in Procs : \A cause \in Causes :
                   <<p, cause>> \in panicked' \ panicked => E(p, cause)
<1>1. ASSUME IInv, AbandonedSound, [Next]_vars PROVE [P]_vars
  <2>1. SUFFICES ASSUME Next, NEW p \in Procs, NEW cause \in Causes,
                        <<p, cause>> \in panicked' \ panicked
                 PROVE  E(p, cause)
    BY <1>1 DEF vars
  <2>2. TypeOK
    BY <1>1 DEF IInv, CountExact
  <2>3. \/ OpenPanics(p) /\ cause = "unreachable"
        \/ (ExitFaults(p) \/ ForkFaults(p) \/ \E id : CloseFaults(p, id)) /\ cause = "inode"
        \/ ForkFaultsNoMem(p) /\ cause = "resource"
    BY <2>1 DEF Next, OpenAdd, OpenNoMem, OpenFile, OpenTruncFails, OpenNew, OpenFails,
                OpenCreatFails, Close, DropTest, DropDestroy, DropDecrement, Exit, ExitNext,
                ExitDone, Fork, ForkFails, OpenPanics, ExitFaults, ForkFaults, CloseFaults,
                ForkFaultsNoMem, Panic
  <2>4. CASE ForkFaultsNoMem(p) /\ cause = "resource"
    BY <2>4 DEF ForkFaultsNoMem, At
  <2>5. CASE (ExitFaults(p) \/ ForkFaults(p) \/ \E id : CloseFaults(p, id)) /\ cause = "inode"
    <3>1. pc[p] \in {"user", "exit"}
      BY <2>5 DEF ExitFaults, ForkFaults, CloseFaults, At
    <3>2. \E s \in Slots(p) : Content(p, s) = NoInode
      <4>1. CASE ExitFaults(p)
        BY <2>2, <4>1, NextInUseIsIn DEF ExitFaults, InUse
      <4>2. CASE ForkFaults(p)
        BY <4>2 DEF ForkFaults, HasNoInode, Holds
      <4>3. CASE \E id : CloseFaults(p, id)
        BY <4>3 DEF CloseFaults
      <4>. QED
        BY <2>5, <4>1, <4>2, <4>3
    <3>. QED
      BY <1>1, <2>5, <3>1, <3>2 DEF AbandonedSound
  <2>6. CASE OpenPanics(p) /\ cause = "unreachable"
    <3>1. pc[p] # "none" /\ FirstBlockOnly(blocks[p])
      BY <1>1, <2>6 DEF OpenPanics, At, IInv, ChainsSound
    <3>2. AddBlock(p) = 1 /\ 1 \in DOMAIN blocks[p]
      BY <2>2, <3>1, AddBlockIsFirst
    <3>3. \A i \in Index : blocks[p][1].data[i] # Null
      BY <2>6, <3>2 DEF OpenPanics, EmptySlots
    <3>4. InUse(p) = {1} \X Index
      <4>1. ASSUME NEW s \in InUse(p) PROVE s \in {1} \X Index
        <5>1. s = <<s[1], s[2]>> /\ s[1] \in DOMAIN blocks[p] /\ s[2] \in Index
          BY <2>2, Domains DEF InUse
        <5>2. s[1] # 2
          <6>1. ASSUME 2 \in DOMAIN blocks[p] PROVE blocks[p][2] = NewBlock
            <7>1. Len(blocks[p]) # 1
              <8>1. DOMAIN blocks[p] = 1 .. Len(blocks[p])
                BY <2>2, Domains
              <8>2. 2 \in 1 .. Len(blocks[p])
                BY <6>1, <8>1
              <8>3. 2 \notin 1 .. 1
                OBVIOUS
              <8>. QED
                BY <8>2, <8>3
            <7>. QED
              BY <3>1, <7>1 DEF FirstBlockOnly
          <6>. QED
            BY <5>1, <6>1 DEF InUse, Content, NewBlock
        <5>3. s[1] \in {1, 2}
          BY <2>2, <3>1, <5>1, OneOrTwo
        <5>. QED
          BY <5>1, <5>2, <5>3
      <4>2. ASSUME NEW i \in Index PROVE <<1, i>> \in InUse(p)
        BY <3>2, <3>3 DEF InUse, Slots, Content
      <4>. QED
        BY <4>1, <4>2
    <3>5. IsFiniteSet(Index) /\ Cardinality(Index) = RPB
      <4>1. 0 \in Int /\ RPB - 1 \in Int /\ ~ (0 > RPB - 1) /\ (RPB - 1) - 0 + 1 = RPB
        BY ResourceAssumption
      <4>. QED
        BY <4>1, FS_Interval DEF Index
    <3>6. Cardinality({1} \X Index) = 1 * RPB
      <4>1. IsFiniteSet({1}) /\ Cardinality({1}) = 1
        BY FS_Singleton
      <4>. QED
        BY <3>5, <4>1, FS_Product
    <3>7. Cardinality(InUse(p)) = RPB
      BY <3>4, <3>6, ResourceAssumption
    <3>. QED
      BY <2>6, <3>7 DEF OpenPanics, At
  <2>. QED
    BY <2>3, <2>4, <2>5, <2>6
<1>. QED
  BY <1>1, Invariant, Abandoned, PTL DEF Spec, PanicExplained

=============================================================================
