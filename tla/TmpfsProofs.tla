------------------------------ MODULE TmpfsProofs ------------------------------
(***************************************************************************)
(* Machine-checked proofs about Tmpfs, for every finite set of processes,  *)
(* every size of the blocks and every bound on directories and files: a    *)
(* directory has the entries that its size says, a file the blocks, and    *)
(* reads, writes and truncates implement FlatFile.                         *)
(***************************************************************************)
EXTENDS Tmpfs, FiniteSetTheorems, SequenceTheorems, TLAPS

Creating == {p \in Procs : pc[p] # "user"}

\* A process only begins to create an entry when there are fewer than MaxEntries.
CreatorsCounted == entries + Cardinality(Creating) <= MaxEntries + Cardinality(Procs)

\* A slot is in a block that is linked, or in one that will be linked to one.
PlacesSound ==
  \A p \in Procs : pc[p] # "user" =>
    /\ name[p] \in Names
    /\ pc[p] = "store" =>
         /\ index[p] > 0
         /\ block[p] = "in" => index[p] <= Len(slots)
         /\ block[p] = "new" => First(p) <= Len(slots)

Alone == \A p, q \in Creating : p = q

Fresh(n) == n \in bound \/ \A i \in 1 .. entries : slots[i] # n

\* What tmpfs_find and tmpfs_put have found is still so.
FoundSound ==
  \A p \in Procs :
    /\ pc[p] \in {"scan", "store"} => Fresh(name[p])
    /\ pc[p] = "store" =>
         /\ index[p] = entries + 1
         /\ block[p] # "gone"
         /\ block[p] = "new" => entries = Len(slots)

DirSound ==
  /\ CreatorsCounted
  /\ PlacesSound
  /\ overlapped \/ (Alone /\ FoundSound)
  /\ DirectoryExact

IInv == BlocksFit /\ DirSound

-----------------------------------------------------------------------------
(* Arithmetic *)

\* The smaller and the larger one of two numbers, as the code compares sizes.
LEMMA MinIs ==
  ASSUME NEW a \in Int, NEW b \in Int
  PROVE  Min({a, b}) = IF a <= b THEN a ELSE b
<1>1. PICK x \in {a, b} : \A y \in {a, b} : x <= y
  OBVIOUS
<1>2. /\ Min({a, b}) \in {a, b}
      /\ \A y \in {a, b} : Min({a, b}) <= y
  BY <1>1 DEF Min
<1> QED
  BY <1>2

LEMMA MaxIs ==
  ASSUME NEW a \in Int, NEW b \in Int
  PROVE  Max({a, b}) = IF a >= b THEN a ELSE b
<1>1. PICK x \in {a, b} : \A y \in {a, b} : x >= y
  OBVIOUS
<1>2. /\ Max({a, b}) \in {a, b}
      /\ \A y \in {a, b} : Max({a, b}) >= y
  BY <1>1 DEF Max
<1> QED
  BY <1>2

LEMMA Min3Is ==
  ASSUME NEW a \in Int, NEW b \in Int, NEW c \in Int
  PROVE  Min({a, b, c}) = IF a <= b THEN IF a <= c THEN a ELSE c ELSE IF b <= c THEN b ELSE c
<1>1. PICK x \in {a, b, c} : \A y \in {a, b, c} : x <= y
  <2>1. CASE a <= b /\ a <= c
    BY <2>1
  <2>2. CASE b <= a /\ b <= c
    BY <2>2
  <2>3. CASE c <= a /\ c <= b
    BY <2>3
  <2> QED
    BY <2>1, <2>2, <2>3
<1>2. /\ Min({a, b, c}) \in {a, b, c}
      /\ \A y \in {a, b, c} : Min({a, b, c}) <= y
  BY <1>1 DEF Min
<1> QED
  BY <1>2

\* Between two multiples of d there is room for d.
LEMMA Multiples ==
  ASSUME NEW d \in Nat \ {0}, NEW a \in Int, NEW b \in Int, a < b
  PROVE  a * d + d <= b * d
<1>1. b - a - 1 \in Nat
  OBVIOUS
<1>2. (b - a - 1) * d >= 0
  BY <1>1
<1>3. (b - a - 1) * d = b * d - a * d - d
  OBVIOUS
<1>4. a * d \in Int /\ b * d \in Int
  OBVIOUS
<1> QED
  BY <1>2, <1>3, <1>4

LEMMA Quotient ==
  ASSUME NEW d \in Nat \ {0}, NEW n \in Nat
  PROVE  /\ n \div d \in Nat /\ n % d \in 0 .. d - 1
         /\ n = d * (n \div d) + (n % d)
  OBVIOUS

\* A number of whole blocks.
LEMMA WholeBlocks ==
  ASSUME NEW d \in Nat \ {0}, NEW n \in Nat, n % d = 0
  PROVE  n \div d \in Nat /\ n = (n \div d) * d
<1>1. n \div d \in Nat /\ n = d * (n \div d) + (n % d)
  BY Quotient
<1>2. d * (n \div d) = (n \div d) * d
  BY <1>1
<1> QED
  BY <1>1, <1>2

LEMMA BlocksOf ==
  ASSUME NEW d \in Nat \ {0}, NEW c \in Nat
  PROVE  c * d \in Nat /\ (c * d) % d = 0 /\ (c * d) \div d = c
<1>1. c * d \in Nat
  OBVIOUS
<1> DEFINE q == (c * d) \div d
           r == (c * d) % d
<1>2. q \in Nat /\ r \in 0 .. d - 1 /\ c * d = d * q + r
  BY <1>1, Quotient
<1>3. d * q = q * d
  BY <1>2
<1> HIDE DEF q, r
<1>4. ~(q < c)
  <2> SUFFICES ASSUME q < c PROVE FALSE
    OBVIOUS
  <2>1. q * d + d <= c * d
    BY <1>2, Multiples
  <2>2. q * d \in Int
    BY <1>2
  <2> QED
    BY <1>1, <1>2, <1>3, <2>1, <2>2
<1>5. ~(c < q)
  <2> SUFFICES ASSUME c < q PROVE FALSE
    OBVIOUS
  <2>1. c * d + d <= q * d
    BY <1>2, Multiples
  <2>2. q * d \in Int
    BY <1>2
  <2> QED
    BY <1>1, <1>2, <1>3, <2>1, <2>2
<1>6. q = c
  BY <1>2, <1>4, <1>5
<1>7. r = 0
  BY <1>1, <1>2, <1>3, <1>6
<1> QED
  BY <1>1, <1>6, <1>7 DEF q, r

LEMMA NoBlocks ==
  ASSUME NEW d \in Nat \ {0}
  PROVE  0 % d = 0 /\ 0 \div d = 0
<1> DEFINE q == 0 \div d
           r == 0 % d
<1>1. q \in Nat /\ r \in 0 .. d - 1 /\ 0 = d * q + r
  BY Quotient
<1> HIDE DEF q, r
<1>2. d * q \in Nat
  BY <1>1
<1>3. r = 0 /\ d * q = 0
  BY <1>1, <1>2
<1>4. q = 0
  BY <1>1, <1>3
<1> QED
  BY <1>3, <1>4 DEF q, r

\* As many blocks as n bytes need.
LEMMA CeilDivIs ==
  ASSUME NEW d \in Nat \ {0}, NEW n \in Nat
  PROVE  /\ CeilDiv(n, d) \in Nat
         /\ n <= CeilDiv(n, d) * d /\ CeilDiv(n, d) * d < n + d
<1>1. n + d - 1 \in Nat
  OBVIOUS
<1> DEFINE q == (n + d - 1) \div d
           r == (n + d - 1) % d
<1>2. q \in Nat /\ r \in 0 .. d - 1 /\ n + d - 1 = d * q + r
  BY <1>1, Quotient
<1>3. d * q = q * d /\ q * d \in Nat
  BY <1>2
<1>4. CeilDiv(n, d) = q
  BY DEF CeilDiv
<1> HIDE DEF q, r
<1> QED
  BY <1>2, <1>3, <1>4

LEMMA CeilDivUnique ==
  ASSUME NEW d \in Nat \ {0}, NEW n \in Nat, NEW c \in Int,
         n <= c * d, c * d < n + d
  PROVE  CeilDiv(n, d) = c
<1> DEFINE q == CeilDiv(n, d)
<1>1. q \in Nat /\ n <= q * d /\ q * d < n + d
  BY CeilDivIs
<1> HIDE DEF q
<1>2. c * d \in Int /\ q * d \in Int
  BY <1>1
<1>3. ~(q < c)
  <2> SUFFICES ASSUME q < c PROVE FALSE
    OBVIOUS
  <2>1. q * d + d <= c * d
    BY <1>1, Multiples
  <2> QED
    BY <1>1, <1>2, <2>1
<1>4. ~(c < q)
  <2> SUFFICES ASSUME c < q PROVE FALSE
    OBVIOUS
  <2>1. c * d + d <= q * d
    BY <1>1, Multiples
  <2> QED
    BY <1>1, <1>2, <2>1
<1>5. q = c
  BY <1>1, <1>3, <1>4
<1> QED
  BY <1>5 DEF q

LEMMA CeilDivMonotonic ==
  ASSUME NEW d \in Nat \ {0}, NEW m \in Nat, NEW n \in Nat, m <= n
  PROVE  CeilDiv(m, d) <= CeilDiv(n, d)
<1> DEFINE a == CeilDiv(m, d)
           b == CeilDiv(n, d)
<1>1. a \in Nat /\ a * d < m + d
  BY CeilDivIs
<1>2. b \in Nat /\ n <= b * d
  BY CeilDivIs
<1> HIDE DEF a, b
<1>3. a * d \in Int /\ b * d \in Int
  BY <1>1, <1>2
<1>4. ~(b < a)
  <2> SUFFICES ASSUME b < a PROVE FALSE
    OBVIOUS
  <2>1. b * d + d <= a * d
    BY <1>1, <1>2, Multiples
  <2> QED
    BY <1>1, <1>2, <1>3, <2>1
<1>5. a <= b
  BY <1>1, <1>2, <1>4
<1> QED
  BY <1>5 DEF a, b

-----------------------------------------------------------------------------
(* The directory *)

\* The slots of the blocks before slot n + 1.
LEMMA FirstIs ==
  ASSUME NEW p \in Procs, NEW n \in Nat, index[p] = n + 1
  PROVE  /\ First(p) \in Nat /\ First(p) <= n /\ n < First(p) + Dents
         /\ First(p) % Dents = 0 /\ (First(p) + Dents) % Dents = 0
<1>1. Dents \in Nat \ {0}
  BY TmpfsAssumption
<1>2. /\ n \div Dents \in Nat /\ n % Dents \in 0 .. Dents - 1
      /\ n = Dents * (n \div Dents) + (n % Dents)
  BY <1>1, Quotient
<1>3. First(p) = Dents * (n \div Dents)
  BY DEF First
<1> DEFINE c == n \div Dents
<1>4. c \in Nat /\ Dents * c = c * Dents /\ (c + 1) * Dents = c * Dents + Dents
  BY <1>1, <1>2
<1>5. c * Dents \in Nat /\ (c * Dents) % Dents = 0 /\ ((c + 1) * Dents) % Dents = 0
  BY <1>1, <1>4, BlocksOf
<1> QED
  BY <1>1, <1>2, <1>3, <1>4, <1>5

LEMMA CreatingFinite ==
  /\ IsFiniteSet(Creating) /\ Cardinality(Creating) \in Nat /\ Cardinality(Procs) \in Nat
  /\ Cardinality(Creating) <= Cardinality(Procs)
<1>1. IsFiniteSet(Procs) /\ Creating \subseteq Procs
  BY TmpfsAssumption DEF Creating
<1> QED
  BY <1>1, FS_Subset, FS_CardinalityType

\* Of one process at most, none or one is between tmpfs_put and the size.
LEMMA CountingIs ==
  ASSUME Alone, NEW p \in Creating
  PROVE  Counting = (IF pc[p] = "count" THEN {p} ELSE {})
BY DEF Alone, Creating, Counting

LEMMA NoneOrOne == Cardinality({}) = 0 /\ \A p : Cardinality({p}) = 1
BY FS_EmptySet, FS_Singleton

LEMMA InitDirSound ==
  ASSUME Init
  PROVE  IInv
<1>1. Creating = {} /\ Counting = {}
  BY DEF Init, InitDir, Creating, Counting
<1>2. MaxEntries \in Nat /\ MaxSize \in Nat /\ Dents \in Nat \ {0} /\ BlockBytes \in Nat \ {0}
  BY TmpfsAssumption
<1>3. Cardinality(Procs) \in Nat
  BY CreatingFinite
<1>4. 0 % Dents = 0 /\ 0 % BlockBytes = 0 /\ 0 \div BlockBytes = 0
  <2>1. 0 % Dents = 0
    BY <1>2, NoBlocks, Zenon
  <2>2. 0 % BlockBytes = 0 /\ 0 \div BlockBytes = 0
    BY <1>2, NoBlocks, Zenon
  <2> QED
    BY <2>1, <2>2
<1>5. TypeOK
  <2>1. /\ <<>> \in Seq(Names \cup {None}) /\ <<>> \in Seq(Bytes) /\ Len(<<>>) = 0
        /\ 0 \in 0 .. MaxEntries + Cardinality(Procs) /\ 0 \in 0 .. MaxSize
    BY <1>2, <1>3, EmptySeq
  <2>2. /\ pc \in [Procs -> {"user", "scan", "store", "count"}]
        /\ name \in [Procs -> Names \cup {None}] /\ block \in [Procs -> {"in", "new", "gone"}]
        /\ index \in [Procs -> 0 .. MaxEntries + Cardinality(Procs)]
        /\ entries \in 0 .. MaxEntries + Cardinality(Procs)
        /\ overlapped \in BOOLEAN /\ bound \subseteq Names
    BY <2>1 DEF Init, InitDir
  <2>3. slots \in Seq(Names \cup {None}) /\ Len(slots) % Dents = 0
    BY <1>4, <2>1 DEF Init, InitDir
  <2>4. /\ size \in 0 .. MaxSize /\ data \in Seq(Bytes) /\ Len(data) % BlockBytes = 0
        /\ grown \in BOOLEAN /\ dangling \in BOOLEAN /\ got \in Seq(Bytes)
    BY <1>4, <2>1 DEF Init, InitFile
  <2> QED
    BY <2>2, <2>3, <2>4 DEF TypeOK
<1>6. CeilDiv(0, BlockBytes) = 0
  BY <1>2, CeilDivUnique
<1>7. BlocksFit
  BY <1>4, <1>5, <1>6 DEF BlocksFit, Blocks, Init, InitFile
<1>8. CreatorsCounted
  BY <1>1, <1>2, <1>3, NoneOrOne DEF CreatorsCounted, Init, InitDir
<1>9. PlacesSound /\ Alone /\ FoundSound
  <2>1. \A p \in Procs : pc[p] = "user"
    BY DEF Init, InitDir
  <2> QED
    BY <1>1, <2>1 DEF PlacesSound, Alone, FoundSound
<1>10. DirectoryExact
  BY <1>1, <1>2, NoneOrOne DEF DirectoryExact, Init, InitDir
<1> QED
  BY <1>7, <1>8, <1>9, <1>10 DEF IInv, DirSound

\* The names, places and counts of a step in which the directory and its size stay.
LEMMA CreatSound ==
  ASSUME IInv, NEW p \in Procs, NEW n \in Names, NEW socket \in BOOLEAN, Creat(p, n, socket)
  PROVE  IInv'
<1>1. /\ pc[p] = "user" /\ pc' = [pc EXCEPT ![p] = "scan"]
      /\ name' = [name EXCEPT ![p] = n]
      /\ index' = index /\ block' = block /\ slots' = slots /\ entries' = entries
      /\ entries < MaxEntries
      /\ bound' = (IF socket THEN bound \cup {n} ELSE bound)
      /\ overlapped' = (overlapped \/ \E q \in Procs : pc[q] # "user")
      /\ size' = size /\ data' = data /\ grown' = grown /\ dangling' = dangling /\ got' = got
      /\ socket \/ ~Has(n)
  BY DEF Creat, Goto, file
<1>2. TypeOK /\ DirSound /\ BlocksFit
  BY DEF IInv, BlocksFit
<1>3. MaxEntries \in Nat /\ Dents \in Nat \ {0} /\ None \notin Names
  BY TmpfsAssumption
<1>4. TypeOK'
  BY <1>1, <1>2 DEF TypeOK
<1>5. BlocksFit'
  BY <1>1, <1>2, <1>4 DEF BlocksFit, Blocks
<1>6. /\ pc'[p] = "scan" /\ name'[p] = n
      /\ \A q \in Procs \ {p} : pc'[q] = pc[q] /\ name'[q] = name[q]
  BY <1>1, <1>2 DEF TypeOK
<1>7. Creating' = Creating \cup {p} /\ p \notin Creating /\ Counting' = Counting
  BY <1>1, <1>6 DEF Creating, Counting
<1>8. CreatorsCounted'
  <2>1. Cardinality(Creating') <= Cardinality(Procs) /\ Cardinality(Creating') \in Nat
    <3>1. IsFiniteSet(Procs) /\ Creating' \subseteq Procs
      BY TmpfsAssumption DEF Creating
    <3> QED
      BY <3>1, FS_Subset, FS_CardinalityType
  <2> QED
    BY <1>1, <1>2, <1>3, <2>1, CreatingFinite DEF CreatorsCounted, TypeOK
<1>9. PlacesSound'
  BY <1>1, <1>2, <1>6 DEF DirSound, PlacesSound, First
<1>10. ASSUME ~overlapped' PROVE (Alone /\ FoundSound)'
  <2>1. ~overlapped /\ \A q \in Procs : pc[q] = "user"
    BY <1>1, <1>10
  <2>2. Creating' = {p}
    BY <1>7, <2>1 DEF Creating
  <2>3. Fresh(n)'
    <3>1. CASE socket
      BY <1>1, <3>1 DEF Fresh
    <3>2. CASE ~Has(n)
      <4>1. Counting = {}
        BY <2>1 DEF Counting
      <4>2. entries <= Len(slots) /\ entries \in Nat /\ Len(slots) \in Nat
        BY <1>2, <2>1, <4>1, NoneOrOne DEF TypeOK, DirSound, DirectoryExact
      <4>3. Min({entries, Len(slots)}) = entries
        BY <4>2, MinIs
      <4> QED
        BY <1>1, <3>2, <4>3 DEF Has, Fresh
    <3> QED
      BY <1>1, <3>1, <3>2
  <2>4. Alone'
    BY <2>2 DEF Alone
  <2>5. FoundSound'
    BY <1>6, <2>1, <2>3 DEF FoundSound, Fresh
  <2> QED
    BY <2>4, <2>5
<1>11. DirectoryExact'
  <2>1. CASE overlapped'
    BY <2>1 DEF DirectoryExact
  <2>2. CASE ~overlapped'
    <3>1. ~overlapped /\ bound \subseteq bound'
      BY <1>1, <2>2
    <3> QED
      BY <1>1, <1>2, <1>7, <3>1 DEF DirSound, DirectoryExact
  <2> QED
    BY <2>1, <2>2
<1> QED
  BY <1>5, <1>8, <1>9, <1>10, <1>11 DEF IInv, DirSound

LEMMA ScanSound ==
  ASSUME IInv, NEW p \in Procs, Scan(p)
  PROVE  IInv'
<1>1. /\ pc[p] = "scan" /\ pc' = [pc EXCEPT ![p] = "store"]
      /\ index' = [index EXCEPT ![p] = entries + 1]
      /\ block' = [block EXCEPT ![p] = IF Full THEN "new" ELSE "in"]
      /\ entries < Len(slots) + Dents
      /\ name' = name /\ slots' = slots /\ entries' = entries /\ overlapped' = overlapped
      /\ bound' = bound /\ size' = size /\ data' = data /\ grown' = grown
      /\ dangling' = dangling /\ got' = got
  BY DEF Scan, Goto, file
<1>2. TypeOK /\ DirSound /\ BlocksFit
  BY DEF IInv, BlocksFit
<1>3. MaxEntries \in Nat /\ Dents \in Nat \ {0} /\ None \notin Names
  BY TmpfsAssumption
<1>4. entries \in Nat /\ Len(slots) \in Nat
  BY <1>2, <1>3, CreatingFinite DEF TypeOK
<1>5. /\ pc'[p] = "store" /\ index'[p] = entries + 1
      /\ block'[p] = (IF Full THEN "new" ELSE "in")
      /\ \A q \in Procs \ {p} : pc'[q] = pc[q] /\ index'[q] = index[q] /\ block'[q] = block[q]
  BY <1>1, <1>2 DEF TypeOK
<1>6. Creating' = Creating /\ Counting' = Counting /\ p \in Creating
  BY <1>1, <1>5 DEF Creating, Counting
<1>7. CreatorsCounted'
  BY <1>1, <1>2, <1>6 DEF CreatorsCounted, DirSound
<1>8. entries + 1 <= MaxEntries + Cardinality(Procs)
  <2>1. Cardinality(Creating) # 0
    BY <1>6, CreatingFinite, FS_EmptySet
  <2> QED
    BY <1>2, <1>3, <1>4, <2>1, CreatingFinite DEF CreatorsCounted, DirSound
<1>9. TypeOK'
  <2>1. index' \in [Procs -> 0 .. MaxEntries + Cardinality(Procs)]
    BY <1>1, <1>2, <1>3, <1>4, <1>8, CreatingFinite DEF TypeOK
  <2>2. block' \in [Procs -> {"in", "new", "gone"}] /\ pc' \in [Procs -> {"user", "scan", "store", "count"}]
    BY <1>1, <1>2 DEF TypeOK
  <2> QED
    BY <1>1, <1>2, <2>1, <2>2 DEF TypeOK
<1>10. BlocksFit'
  BY <1>1, <1>2, <1>9 DEF BlocksFit, Blocks
\* The block behind the linked ones, if those are full.
<1>11. /\ Full => First(p)' = Len(slots)
       /\ ~Full => index'[p] <= Len(slots)
  <2>1. ASSUME Full PROVE First(p)' = Len(slots)
    <3>1. Len(slots) <= entries
      BY <1>4, <2>1 DEF Full
    <3> DEFINE c == Len(slots) \div Dents
    <3>2. Len(slots) = c * Dents /\ c \in Nat
      BY <1>2, <1>3, <1>4, WholeBlocks DEF TypeOK
    <3> HIDE DEF c
    <3> DEFINE q == entries \div Dents
    <3>3. q \in Nat /\ q * Dents <= entries /\ entries < q * Dents + Dents /\ q * Dents \in Nat
          /\ Dents * q = q * Dents
      <4>1. q \in Nat /\ entries % Dents \in 0 .. Dents - 1 /\ entries = Dents * q + (entries % Dents)
        BY <1>3, <1>4, Quotient
      <4> HIDE DEF q
      <4>2. Dents * q = q * Dents /\ q * Dents \in Nat
        BY <1>3, <4>1
      <4> QED
        BY <1>3, <1>4, <4>1, <4>2
    <3>4. First(p)' = Dents * q
      BY <1>4, <1>5 DEF First
    <3> HIDE DEF q
    <3>5. c * Dents \in Nat
      BY <1>3, <3>2
    <3>6. ~(q < c)
      <4> SUFFICES ASSUME q < c PROVE FALSE
        OBVIOUS
      <4>1. q * Dents + Dents <= c * Dents
        BY <1>3, <3>2, <3>3, Multiples
      <4> QED
        BY <1>3, <1>4, <3>1, <3>2, <3>3, <3>5, <4>1
    <3>7. ~(c < q)
      <4> SUFFICES ASSUME c < q PROVE FALSE
        OBVIOUS
      <4>1. c * Dents + Dents <= q * Dents
        BY <1>3, <3>2, <3>3, Multiples
      <4> QED
        BY <1>1, <1>3, <1>4, <3>2, <3>3, <3>5, <4>1
    <3>8. q = c
      BY <3>2, <3>3, <3>6, <3>7
    <3> QED
      BY <3>2, <3>3, <3>4, <3>8
  <2>2. ASSUME ~Full PROVE index'[p] <= Len(slots)
    BY <1>4, <1>5, <2>2 DEF Full
  <2> QED
    BY <2>1, <2>2
<1>12. PlacesSound'
  <2> SUFFICES ASSUME NEW q \in Procs, pc'[q] # "user"
               PROVE  /\ name'[q] \in Names
                      /\ pc'[q] = "store" =>
                           /\ index'[q] > 0
                           /\ block'[q] = "in" => index'[q] <= Len(slots')
                           /\ block'[q] = "new" => First(q)' <= Len(slots')
    BY DEF PlacesSound
  <2>1. CASE q = p
    BY <1>1, <1>2, <1>4, <1>5, <1>11, <2>1 DEF PlacesSound, DirSound
  <2>2. CASE q # p
    <3>1. First(q)' = First(q)
      BY <1>5, <2>2 DEF First
    <3> QED
      BY <1>1, <1>2, <1>5, <2>2, <3>1 DEF PlacesSound, DirSound
  <2> QED
    BY <2>1, <2>2
<1>13. ASSUME ~overlapped' PROVE (Alone /\ FoundSound)'
  <2>1. Alone /\ FoundSound /\ DirectoryExact /\ ~overlapped
    BY <1>1, <1>2, <1>13 DEF DirSound
  <2>2. Alone'
    BY <1>6, <2>1 DEF Alone
  <2>3. Full => entries = Len(slots)
    <3>1. Counting = {}
      BY <1>1, <1>6, <2>1, CountingIs
    <3> QED
      BY <1>4, <2>1, <3>1, NoneOrOne DEF DirectoryExact, Full
  <2>4. FoundSound'
    <3>1. \A q \in Procs \ {p} : pc'[q] = "user"
      BY <1>5, <1>6, <2>1 DEF Alone, Creating
    <3>2. Fresh(name[p])'
      BY <1>1, <2>1 DEF FoundSound, Fresh
    <3> QED
      BY <1>1, <1>5, <2>3, <3>1, <3>2 DEF FoundSound
  <2> QED
    BY <2>2, <2>4
<1>14. DirectoryExact'
  BY <1>1, <1>2, <1>6 DEF DirSound, DirectoryExact
<1> QED
  BY <1>7, <1>10, <1>12, <1>13, <1>14 DEF IInv, DirSound

LEMMA ScanFailsSound ==
  ASSUME IInv, NEW p \in Procs, ScanFails(p)
  PROVE  IInv'
<1>1. /\ pc[p] = "scan" /\ pc' = [pc EXCEPT ![p] = "user"]
      /\ name' = [name EXCEPT ![p] = None]
      /\ index' = index /\ block' = block /\ slots' = slots /\ entries' = entries
      /\ overlapped' = overlapped
      /\ bound' = bound /\ size' = size /\ data' = data /\ grown' = grown
      /\ dangling' = dangling /\ got' = got
  BY DEF ScanFails, Goto, file
<1>2. TypeOK /\ DirSound /\ BlocksFit
  BY DEF IInv, BlocksFit
<1>3. /\ pc'[p] = "user"
      /\ \A q \in Procs \ {p} : pc'[q] = pc[q] /\ name'[q] = name[q]
  BY <1>1, <1>2 DEF TypeOK
<1>4. Creating' = Creating \ {p} /\ Counting' = Counting /\ p \in Creating
  BY <1>1, <1>3 DEF Creating, Counting
<1>5. CreatorsCounted'
  <2>1. Cardinality(Creating') <= Cardinality(Creating) /\ Cardinality(Creating') \in Nat
    BY <1>4, CreatingFinite, FS_Subset, FS_CardinalityType
  <2>2. entries \in Nat /\ MaxEntries \in Nat
    BY <1>2, CreatingFinite, TmpfsAssumption DEF TypeOK
  <2> QED
    BY <1>1, <1>2, <2>1, <2>2, CreatingFinite DEF CreatorsCounted, DirSound
<1>6. TypeOK'
  BY <1>1, <1>2 DEF TypeOK
<1>7. BlocksFit'
  BY <1>1, <1>2, <1>6 DEF BlocksFit, Blocks
<1>8. PlacesSound'
  BY <1>1, <1>2, <1>3 DEF PlacesSound, DirSound, First
<1>9. ASSUME ~overlapped' PROVE (Alone /\ FoundSound)'
  <2>1. Alone /\ FoundSound
    BY <1>1, <1>2, <1>9 DEF DirSound
  <2>2. Alone'
    BY <1>4, <2>1 DEF Alone
  <2>3. FoundSound'
    BY <1>1, <1>3, <2>1 DEF FoundSound, Fresh
  <2> QED
    BY <2>2, <2>3
<1>10. DirectoryExact'
  BY <1>1, <1>2, <1>4 DEF DirSound, DirectoryExact
<1> QED
  BY <1>5, <1>7, <1>8, <1>9, <1>10 DEF IInv, DirSound

LEMMA StoreSound ==
  ASSUME IInv, NEW p \in Procs, Store(p)
  PROVE  IInv'
<1> DEFINE linked == [k \in 1 .. First(p) + Dents |-> IF k <= First(p) THEN slots[k] ELSE None]
<1>1. /\ pc[p] = "store" /\ pc' = [pc EXCEPT ![p] = "count"]
      /\ slots' = CASE block[p] = "new" -> Put(p, linked)
                    [] block[p] = "in" -> Put(p, slots)
                    [] block[p] = "gone" -> slots
      /\ block' = [q \in Procs |->
                     IF block[p] = "new" /\ q # p /\ CutOff(q, p) THEN "gone" ELSE block[q]]
      /\ name' = name /\ index' = index /\ entries' = entries /\ overlapped' = overlapped
      /\ bound' = bound /\ size' = size /\ data' = data /\ grown' = grown
      /\ dangling' = dangling /\ got' = got
  BY DEF Store, Goto, file
<1>2. TypeOK /\ DirSound /\ BlocksFit
  BY DEF IInv, BlocksFit
<1>3. MaxEntries \in Nat /\ Dents \in Nat \ {0} /\ None \notin Names
  BY TmpfsAssumption
<1>4. entries \in Nat /\ Len(slots) \in Nat
  BY <1>2, <1>3, CreatingFinite DEF TypeOK
<1>5. /\ pc'[p] = "count"
      /\ \A q \in Procs \ {p} : pc'[q] = pc[q]
      /\ \A q \in Procs : block'[q] = block[q] \/ block'[q] = "gone"
  BY <1>1, <1>2 DEF TypeOK
<1>6. Creating' = Creating /\ Counting' = Counting \cup {p} /\ p \in Creating
  BY <1>1, <1>5 DEF Creating, Counting
<1>7. CreatorsCounted'
  BY <1>1, <1>2, <1>6 DEF CreatorsCounted, DirSound
\* What the step does to the slots.
<1>8. /\ name[p] \in Names /\ index[p] \in Nat \ {0}
      /\ block[p] = "in" => index[p] <= Len(slots)
      /\ block[p] = "new" => First(p) <= Len(slots)
  BY <1>1, <1>2, <1>3, CreatingFinite DEF PlacesSound, DirSound, TypeOK
<1>9. /\ First(p) \in Nat /\ First(p) < index[p] /\ index[p] <= First(p) + Dents
      /\ (First(p) + Dents) % Dents = 0
  <2>1. index[p] - 1 \in Nat /\ index[p] = (index[p] - 1) + 1
    BY <1>8
  <2>2. /\ First(p) \in Nat /\ First(p) <= index[p] - 1 /\ index[p] - 1 < First(p) + Dents
        /\ (First(p) + Dents) % Dents = 0
    BY <2>1, FirstIs
  <2> QED
    BY <1>3, <1>8, <2>2
<1>10. CASE block[p] = "new"
  <2>1. linked \in Seq(Names \cup {None}) /\ Len(linked) = First(p) + Dents
        /\ \A k \in 1 .. First(p) + Dents : linked[k] = IF k <= First(p) THEN slots[k] ELSE None
    <3>1. \A k \in 1 .. Len(slots) : slots[k] \in Names \cup {None}
      BY <1>2, ElementOfSeq DEF TypeOK
    <3>2. \A k \in 1 .. First(p) + Dents : linked[k] \in Names \cup {None}
      BY <1>3, <1>4, <1>8, <1>9, <1>10, <3>1
    <3>3. linked \in [1 .. First(p) + Dents -> Names \cup {None}] /\ First(p) + Dents \in Nat
      BY <1>3, <1>9, <3>2
    <3> HIDE DEF linked
    <3>4. linked \in Seq(Names \cup {None}) /\ Len(linked) = First(p) + Dents
      BY <3>3
    <3> QED
      BY <3>4 DEF linked
  <2> HIDE DEF linked
  <2>2. slots' = [linked EXCEPT ![index[p]] = name[p]]
    BY <1>1, <1>10 DEF Put
  <2>3. /\ slots' \in Seq(Names \cup {None}) /\ Len(slots') = First(p) + Dents
        /\ \A k \in 1 .. First(p) + Dents :
             slots'[k] = IF k = index[p] THEN name[p] ELSE IF k <= First(p) THEN slots[k] ELSE None
    <3>1. index[p] \in 1 .. Len(linked) /\ name[p] \in Names \cup {None}
      BY <1>3, <1>8, <1>9, <2>1
    <3>2. /\ slots' \in Seq(Names \cup {None}) /\ Len(slots') = Len(linked)
          /\ \A k \in 1 .. Len(linked) : slots'[k] = IF k = index[p] THEN name[p] ELSE linked[k]
      BY <2>1, <2>2, <3>1, ExceptSeq
    <3> QED
      BY <2>1, <3>2
  <2>4. TypeOK'
    <3>1. block' \in [Procs -> {"in", "new", "gone"}] /\ pc' \in [Procs -> {"user", "scan", "store", "count"}]
      BY <1>1, <1>2, <1>5 DEF TypeOK
    <3>2. Len(slots') % Dents = 0
      BY <1>9, <2>3
    <3> QED
      BY <1>1, <1>2, <2>3, <3>1, <3>2 DEF TypeOK
  <2>5. BlocksFit'
    BY <1>1, <1>2, <2>4 DEF BlocksFit, Blocks
  <2>6. PlacesSound'
    <3> SUFFICES ASSUME NEW q \in Procs, pc'[q] # "user"
                 PROVE  /\ name'[q] \in Names
                        /\ pc'[q] = "store" =>
                             /\ index'[q] > 0
                             /\ block'[q] = "in" => index'[q] <= Len(slots')
                             /\ block'[q] = "new" => First(q)' <= Len(slots')
      BY DEF PlacesSound
    <3>1. CASE q = p
      BY <1>1, <1>5, <1>8, <3>1
    <3>2. CASE q # p
      <4>1. /\ pc[q] = pc'[q] /\ name'[q] = name[q] /\ index'[q] = index[q]
            /\ name[q] \in Names
            /\ pc[q] = "store" => index[q] > 0
        BY <1>1, <1>2, <1>5, <3>2 DEF PlacesSound, DirSound
      <4>2. block'[q] = IF CutOff(q, p) THEN "gone" ELSE block[q]
        BY <1>1, <1>10, <3>2
      <4>3. First(q)' = First(q)
        BY <4>1 DEF First
      <4>4. ASSUME pc[q] = "store", block'[q] = "in" PROVE index[q] <= Len(slots')
        <5>1. ~(index[q] > First(p)) /\ index[q] \in Nat
          BY <1>2, <1>3, <4>2, <4>4, CreatingFinite DEF CutOff, TypeOK
        <5> QED
          BY <1>3, <1>9, <2>3, <5>1
      <4>5. ASSUME pc[q] = "store", block'[q] = "new" PROVE First(q) <= Len(slots')
        <5>1. ~(First(q) > First(p)) /\ index[q] \in Nat \ {0}
          BY <1>2, <1>3, <4>1, <4>2, <4>5, CreatingFinite DEF CutOff, TypeOK
        <5>2. First(q) \in Nat
          <6>1. index[q] - 1 \in Nat /\ index[q] = (index[q] - 1) + 1
            BY <5>1
          <6> QED
            BY <6>1, FirstIs
        <5> QED
          BY <1>3, <1>9, <2>3, <5>1, <5>2
      <4> QED
        BY <4>1, <4>3, <4>4, <4>5
    <3> QED
      BY <3>1, <3>2
  <2>7. ASSUME ~overlapped' PROVE (Alone /\ FoundSound /\ DirectoryExact)'
    <3>1. Alone /\ FoundSound /\ DirectoryExact /\ ~overlapped
      BY <1>1, <1>2, <2>7 DEF DirSound
    <3>2. Alone'
      BY <1>6, <3>1 DEF Alone
    <3>3. \A q \in Procs \ {p} : pc'[q] = "user"
      BY <1>5, <1>6, <3>1 DEF Alone, Creating
    <3>4. FoundSound'
      BY <1>5, <3>3 DEF FoundSound
    <3>5. Counting = {} /\ Counting' = {p}
      BY <1>1, <1>6, <3>1, CountingIs
    <3>6. index[p] = entries + 1 /\ entries = Len(slots) /\ Fresh(name[p])
      BY <1>1, <1>10, <3>1 DEF FoundSound
    <3>7. First(p) = entries
      <4>1. index[p] = entries + 1 /\ First(p) <= entries /\ entries < First(p) + Dents
        BY <1>4, <3>6, FirstIs
      <4> DEFINE c == entries \div Dents
      <4>2. c \in Nat /\ entries = c * Dents /\ Dents * c = c * Dents
        BY <1>2, <1>3, <1>4, <3>6, WholeBlocks DEF TypeOK
      <4>3. First(p) = Dents * c
        BY <1>4, <3>6 DEF First
      <4> HIDE DEF c
      <4> QED
        BY <4>2, <4>3
    <3>8. /\ \A i \in 1 .. entries : slots[i] # None
          /\ \A i, j \in 1 .. entries : slots[i] = slots[j] => i = j \/ slots[i] \in bound
      BY <1>4, <3>1, <3>5, <3>6, NoneOrOne DEF DirectoryExact
    <3>9. DirectoryExact'
      <4>1. Len(slots') = entries + Dents /\ entries' + Cardinality(Counting') = entries + 1
        BY <1>1, <2>3, <3>5, <3>7, NoneOrOne
      <4>2. \A k \in 1 .. entries + Dents :
              slots'[k] = IF k = entries + 1 THEN name[p] ELSE IF k <= entries THEN slots[k] ELSE None
        BY <2>3, <3>6, <3>7
      <4>3. DOMAIN slots' = 1 .. entries + Dents
        BY <2>3, <4>1, LenProperties
      <4>4. \A i \in DOMAIN slots' : slots'[i] # None <=> i <= entries + 1
        BY <1>3, <1>4, <1>8, <3>8, <4>2, <4>3
      <4>5. entries + 1 <= Len(slots') /\ Len(slots') < entries + 1 + Dents
        BY <1>3, <1>4, <4>1
      <4>6. \A i, j \in 1 .. entries + 1 : slots'[i] = slots'[j] => i = j \/ slots'[i] \in bound'
        <5>1. /\ slots'[entries + 1] = name[p]
              /\ \A k \in 1 .. entries : slots'[k] = slots[k] /\ k # entries + 1
          BY <1>3, <1>4, <4>2
        <5>2. \A k \in 1 .. entries : slots'[k] = name[p] => name[p] \in bound
          BY <3>6, <5>1 DEF Fresh
        <5>3. \A k \in 1 .. entries + 1 : k \in 1 .. entries \/ k = entries + 1
          BY <1>4
        <5>0. bound' = bound
          BY <1>1
        <5> SUFFICES ASSUME NEW i \in 1 .. entries + 1, NEW j \in 1 .. entries + 1,
                            slots'[i] = slots'[j], i # j
                     PROVE  slots'[i] \in bound'
          OBVIOUS
        <5>4. CASE i \in 1 .. entries /\ j \in 1 .. entries
          BY <3>8, <5>0, <5>1, <5>4
        <5>5. CASE i = entries + 1
          BY <5>0, <5>1, <5>2, <5>3, <5>5
        <5>6. CASE j = entries + 1
          BY <5>0, <5>1, <5>2, <5>3, <5>6
        <5> QED
          BY <5>3, <5>4, <5>5, <5>6
      <4> QED
        BY <4>1, <4>4, <4>5, <4>6 DEF DirectoryExact
    <3> QED
      BY <3>2, <3>4, <3>9
  <2>8. DirectoryExact'
    BY <2>7 DEF DirectoryExact
  <2> QED
    BY <1>7, <2>5, <2>6, <2>7, <2>8 DEF IInv, DirSound
<1>11. CASE block[p] # "new"
  <2>1. block' = block
    BY <1>1, <1>2, <1>11 DEF TypeOK
  <2>2. \/ block[p] = "in" /\ slots' = [slots EXCEPT ![index[p]] = name[p]]
        \/ block[p] = "gone" /\ slots' = slots
    <3>1. block[p] \in {"in", "gone"}
      BY <1>2, <1>11 DEF TypeOK
    <3> HIDE DEF linked
    <3> QED
      BY <1>1, <3>1 DEF Put
  <2>3. /\ slots' \in Seq(Names \cup {None}) /\ Len(slots') = Len(slots)
        /\ block[p] = "in" => \A k \in 1 .. Len(slots) : slots'[k] = IF k = index[p] THEN name[p] ELSE slots[k]
    <3>1. CASE block[p] = "in"
      <4>1. index[p] \in 1 .. Len(slots) /\ name[p] \in Names \cup {None} /\ slots \in Seq(Names \cup {None})
        BY <1>2, <1>4, <1>8, <3>1 DEF TypeOK
      <4> QED
        BY <2>2, <3>1, <4>1, ExceptSeq
    <3>2. CASE block[p] = "gone"
      BY <1>2, <2>2, <3>2 DEF TypeOK
    <3> QED
      BY <2>2, <3>1, <3>2
  <2>4. TypeOK'
    BY <1>1, <1>2, <2>1, <2>3 DEF TypeOK
  <2>5. BlocksFit'
    BY <1>1, <1>2, <2>4 DEF BlocksFit, Blocks
  <2>6. PlacesSound'
    <3> SUFFICES ASSUME NEW q \in Procs, pc'[q] # "user"
                 PROVE  /\ name'[q] \in Names
                        /\ pc'[q] = "store" =>
                             /\ index'[q] > 0
                             /\ block'[q] = "in" => index'[q] <= Len(slots')
                             /\ block'[q] = "new" => First(q)' <= Len(slots')
      BY DEF PlacesSound
    <3>1. First(q)' = First(q)
      BY <1>1 DEF First
    <3>2. CASE q = p
      BY <1>1, <1>5, <1>8, <3>2
    <3>3. CASE q # p
      BY <1>1, <1>2, <1>5, <2>1, <2>3, <3>1, <3>3 DEF PlacesSound, DirSound
    <3> QED
      BY <3>2, <3>3
  <2>7. ASSUME ~overlapped' PROVE (Alone /\ FoundSound /\ DirectoryExact)'
    <3>1. Alone /\ FoundSound /\ DirectoryExact /\ ~overlapped
      BY <1>1, <1>2, <2>7 DEF DirSound
    <3>2. Alone'
      BY <1>6, <3>1 DEF Alone
    <3>3. \A q \in Procs \ {p} : pc'[q] = "user"
      BY <1>5, <1>6, <3>1 DEF Alone, Creating
    <3>4. FoundSound'
      BY <1>5, <3>3 DEF FoundSound
    <3>5. Counting = {} /\ Counting' = {p}
      BY <1>1, <1>6, <3>1, CountingIs
    <3>6. index[p] = entries + 1 /\ block[p] = "in" /\ Fresh(name[p])
      BY <1>1, <1>2, <1>11, <3>1 DEF FoundSound, TypeOK
    <3>7. entries + 1 <= Len(slots)
      BY <1>8, <3>6
    <3>8. /\ \A i \in 1 .. Len(slots) : slots[i] # None <=> i <= entries
          /\ Len(slots) < entries + Dents
          /\ \A i, j \in 1 .. entries : slots[i] = slots[j] => i = j \/ slots[i] \in bound
      <4>1. DOMAIN slots = 1 .. Len(slots)
        BY <1>2, LenProperties DEF TypeOK
      <4> QED
        BY <1>4, <3>1, <3>5, <4>1, NoneOrOne DEF DirectoryExact
    <3>9. DirectoryExact'
      <4>1. Len(slots') = Len(slots) /\ entries' + Cardinality(Counting') = entries + 1
        BY <1>1, <2>3, <3>5, NoneOrOne
      <4>2. \A k \in 1 .. Len(slots) : slots'[k] = IF k = entries + 1 THEN name[p] ELSE slots[k]
        BY <2>3, <3>6
      <4>3. DOMAIN slots' = 1 .. Len(slots)
        BY <2>3, LenProperties
      <4>4. \A i \in DOMAIN slots' : slots'[i] # None <=> i <= entries + 1
        BY <1>3, <1>4, <1>8, <3>8, <4>2, <4>3
      <4>5. entries + 1 <= Len(slots') /\ Len(slots') < entries + 1 + Dents
        BY <1>3, <1>4, <3>7, <3>8, <4>1
      <4>6. \A i, j \in 1 .. entries + 1 : slots'[i] = slots'[j] => i = j \/ slots'[i] \in bound'
        BY <1>1, <1>3, <1>4, <3>6, <3>7, <3>8, <4>2 DEF Fresh
      <4> QED
        BY <4>1, <4>4, <4>5, <4>6 DEF DirectoryExact
    <3> QED
      BY <3>2, <3>4, <3>9
  <2>8. DirectoryExact'
    BY <2>7 DEF DirectoryExact
  <2> QED
    BY <1>7, <2>5, <2>6, <2>7, <2>8 DEF IInv, DirSound
<1> QED
  BY <1>10, <1>11

LEMMA CountSound ==
  ASSUME IInv, NEW p \in Procs, Count(p)
  PROVE  IInv'
<1>1. /\ pc[p] = "count" /\ pc' = [pc EXCEPT ![p] = "user"]
      /\ entries' = entries + 1
      /\ name' = [name EXCEPT ![p] = None]
      /\ index' = [index EXCEPT ![p] = 0] /\ block' = [block EXCEPT ![p] = "in"]
      /\ slots' = slots /\ overlapped' = overlapped
      /\ bound' = bound /\ size' = size /\ data' = data /\ grown' = grown
      /\ dangling' = dangling /\ got' = got
  BY DEF Count, Goto, file
<1>2. TypeOK /\ DirSound /\ BlocksFit
  BY DEF IInv, BlocksFit
<1>3. MaxEntries \in Nat /\ Dents \in Nat \ {0} /\ None \notin Names
  BY TmpfsAssumption
<1>4. entries \in Nat /\ Len(slots) \in Nat
  BY <1>2, <1>3, CreatingFinite DEF TypeOK
<1>5. /\ pc'[p] = "user"
      /\ \A q \in Procs \ {p} :
           pc'[q] = pc[q] /\ name'[q] = name[q] /\ index'[q] = index[q] /\ block'[q] = block[q]
  BY <1>1, <1>2 DEF TypeOK
<1>6. Creating' = Creating \ {p} /\ Counting' = Counting \ {p} /\ p \in Creating
  BY <1>1, <1>5 DEF Creating, Counting
<1>7. entries' + Cardinality(Creating') = entries + Cardinality(Creating)
      /\ Cardinality(Creating') \in Nat
  <2>1. Cardinality(Creating') = Cardinality(Creating) - 1
    BY <1>6, CreatingFinite, FS_RemoveElement
  <2>2. Cardinality(Creating') \in Nat
    BY <1>6, CreatingFinite, FS_Subset, FS_CardinalityType
  <2> QED
    BY <1>1, <1>4, <2>1, <2>2, CreatingFinite
<1>8. CreatorsCounted'
  BY <1>2, <1>7 DEF CreatorsCounted, DirSound
<1>9. TypeOK'
  <2>1. entries' \in 0 .. MaxEntries + Cardinality(Procs)
    BY <1>1, <1>3, <1>4, <1>7, <1>8, CreatingFinite DEF CreatorsCounted
  <2>2. index' \in [Procs -> 0 .. MaxEntries + Cardinality(Procs)]
    BY <1>1, <1>2, <1>3, CreatingFinite DEF TypeOK
  <2> QED
    BY <1>1, <1>2, <2>1, <2>2 DEF TypeOK
<1>10. BlocksFit'
  BY <1>1, <1>2, <1>9 DEF BlocksFit, Blocks
<1>11. PlacesSound'
  <2>1. \A q \in Procs \ {p} : First(q)' = First(q)
    BY <1>5 DEF First
  <2> QED
    BY <1>1, <1>2, <1>5, <2>1 DEF PlacesSound, DirSound
<1>12. ASSUME ~overlapped' PROVE (Alone /\ FoundSound /\ DirectoryExact)'
  <2>1. Alone /\ FoundSound /\ DirectoryExact /\ ~overlapped
    BY <1>1, <1>2, <1>12 DEF DirSound
  <2>2. Alone'
    BY <1>6, <2>1 DEF Alone
  <2>3. \A q \in Procs : pc'[q] = "user"
    BY <1>5, <1>6, <2>1 DEF Alone, Creating
  <2>4. FoundSound'
    BY <2>3 DEF FoundSound
  <2>5. Counting = {p} /\ Counting' = {}
    BY <1>1, <1>6, <2>1, CountingIs
  <2>6. entries' + Cardinality(Counting') = entries + Cardinality(Counting)
    <3>1. Cardinality(Counting) = 1 /\ Cardinality(Counting') = 0
      BY <2>5, NoneOrOne
    <3> QED
      BY <1>1, <1>4, <3>1
  <2>7. DirectoryExact'
    BY <1>1, <2>1, <2>6 DEF DirectoryExact
  <2> QED
    BY <2>2, <2>4, <2>7
<1>13. DirectoryExact'
  BY <1>12 DEF DirectoryExact
<1> QED
  BY <1>8, <1>10, <1>11, <1>12, <1>13 DEF IInv, DirSound

-----------------------------------------------------------------------------
(* The file *)

LEMMA FileFacts ==
  ASSUME IInv
  PROVE  /\ BlockBytes \in Nat \ {0} /\ MaxSize \in Nat
         /\ size \in Nat /\ size <= MaxSize /\ data \in Seq(Bytes) /\ Len(data) \in Nat
         /\ Blocks \in Nat /\ Len(data) = Blocks * BlockBytes
         /\ ~grown => Blocks = CeilDiv(size, BlockBytes) /\ size <= Len(data)
<1>1. BlockBytes \in Nat \ {0} /\ MaxSize \in Nat
  BY TmpfsAssumption
<1>2. size \in 0 .. MaxSize /\ data \in Seq(Bytes) /\ Len(data) % BlockBytes = 0
  BY DEF IInv, BlocksFit, TypeOK
<1>3. Len(data) \in Nat
  BY <1>2
<1>4. Blocks \in Nat /\ Len(data) = Blocks * BlockBytes
  BY <1>1, <1>2, <1>3, WholeBlocks DEF Blocks
<1>5. size \in Nat /\ size <= MaxSize
  BY <1>1, <1>2
<1>6. ASSUME ~grown PROVE Blocks = CeilDiv(size, BlockBytes) /\ size <= Len(data)
  <2>1. Blocks = CeilDiv(size, BlockBytes)
    BY <1>6 DEF IInv, BlocksFit
  <2> QED
    BY <1>1, <1>4, <1>5, <2>1, CeilDivIs
<1> QED
  BY <1>1, <1>2, <1>3, <1>4, <1>5, <1>6

\* The directory is as it was: a step of the file.
LEMMA DirStays ==
  ASSUME IInv, UNCHANGED dir
  PROVE  DirSound'
<1>1. /\ pc' = pc /\ name' = name /\ index' = index /\ block' = block /\ slots' = slots
      /\ entries' = entries /\ overlapped' = overlapped /\ bound' = bound
  BY DEF dir
<1> QED
  BY <1>1 DEF IInv, DirSound, CreatorsCounted, Creating, PlacesSound, First, Alone, FoundSound, Fresh,
              DirectoryExact, Counting

\* What a step of the file must keep.
LEMMA FileKept ==
  ASSUME IInv, UNCHANGED dir,
         size' \in 0 .. MaxSize, data' \in Seq(Bytes), Len(data') % BlockBytes = 0,
         grown' \in BOOLEAN, dangling' \in BOOLEAN, got' \in Seq(Bytes),
         ~grown' => Len(data') \div BlockBytes = CeilDiv(size', BlockBytes)
  PROVE  IInv'
<1>1. TypeOK'
  BY DEF IInv, BlocksFit, TypeOK, dir
<1>2. BlocksFit'
  BY <1>1 DEF BlocksFit, Blocks
<1> QED
  BY <1>2, DirStays DEF IInv

\* The first n bytes.
LEMMA PrefixIs ==
  ASSUME NEW S, NEW s \in Seq(S), NEW n \in 0 .. Len(s)
  PROVE  /\ SubSeq(s, 1, n) \in Seq(S) /\ Len(SubSeq(s, 1, n)) = n
         /\ \A i \in 1 .. n : SubSeq(s, 1, n)[i] = s[i]
<1>1. \A i \in 1 .. n : s[i] \in S
  BY ElementOfSeq
<1>2. n \in Int /\ 1 \in Int
  OBVIOUS
<1>3. /\ SubSeq(s, 1, n) \in Seq(S)
      /\ Len(SubSeq(s, 1, n)) = IF 1 <= n THEN n - 1 + 1 ELSE 0
      /\ \A i \in 1 .. n - 1 + 1 : SubSeq(s, 1, n)[i] = s[1 + i - 1]
  BY <1>1, <1>2, SubSeqProperties
<1> QED
  BY <1>3

LEMMA ZerosIs ==
  ASSUME NEW n \in Nat
  PROVE  /\ n * BlockBytes \in Nat
         /\ Zeros(n) \in Seq(Bytes) /\ Len(Zeros(n)) = n * BlockBytes
         /\ \A i \in 1 .. n * BlockBytes : Zeros(n)[i] = Zero
<1>1. BlockBytes \in Nat /\ Zero \in Bytes
  BY TmpfsAssumption
<1>2. n * BlockBytes \in Nat
  BY <1>1
<1> DEFINE m == n * BlockBytes
<1>3. Zeros(n) = [i \in 1 .. m |-> Zero]
  BY DEF Zeros
<1> HIDE DEF m
<1>4. Zeros(n) \in Seq(Bytes) /\ Len(Zeros(n)) = m /\ \A i \in 1 .. m : Zeros(n)[i] = Zero
  BY <1>1, <1>2, <1>3 DEF m
<1> QED
  BY <1>2, <1>4 DEF m

LEMMA OverlayIs ==
  ASSUME NEW s \in Seq(Bytes), NEW off \in Nat, NEW bytes \in Seq(Bytes)
  PROVE  /\ Overlay(s, off, bytes) \in Seq(Bytes) /\ Len(Overlay(s, off, bytes)) = Len(s)
         /\ \A i \in 1 .. Len(s) : Overlay(s, off, bytes)[i] =
              IF i > off /\ i <= off + Len(bytes) THEN bytes[i - off] ELSE s[i]
<1>1. DOMAIN s = 1 .. Len(s) /\ Len(s) \in Nat /\ Len(bytes) \in Nat
  BY LenProperties
<1>2. \A i \in 1 .. Len(s) :
        (IF i > off /\ i <= off + Len(bytes) THEN bytes[i - off] ELSE s[i]) \in Bytes
  <2> SUFFICES ASSUME NEW i \in 1 .. Len(s)
               PROVE  (IF i > off /\ i <= off + Len(bytes) THEN bytes[i - off] ELSE s[i]) \in Bytes
    OBVIOUS
  <2>1. s[i] \in Bytes
    BY ElementOfSeq
  <2>2. ASSUME i > off, i <= off + Len(bytes) PROVE bytes[i - off] \in Bytes
    <3>1. i - off \in 1 .. Len(bytes)
      BY <1>1, <2>2
    <3> QED
      BY <3>1, ElementOfSeq
  <2> QED
    BY <2>1, <2>2
<1>3. Overlay(s, off, bytes) = [i \in 1 .. Len(s) |->
        IF i > off /\ i <= off + Len(bytes) THEN bytes[i - off] ELSE s[i]]
  BY <1>1 DEF Overlay
<1>4. Overlay(s, off, bytes) \in [1 .. Len(s) -> Bytes]
  BY <1>2, <1>3
<1>5. Overlay(s, off, bytes) \in Seq(Bytes) /\ Len(Overlay(s, off, bytes)) = Len(s)
  BY <1>1, <1>4
<1> QED
  BY <1>3, <1>5

\* A write that has got k new blocks, and written w bytes.
Wrote(off, bytes, k, w) ==
  /\ k > 0 => Blocks + k <= CeilDiv(off + Len(bytes), BlockBytes)
  /\ (Blocks + k) * BlockBytes \in Nat /\ Len(data) <= (Blocks + k) * BlockBytes
  /\ w = IF Len(bytes) <= (Blocks + k) * BlockBytes - off THEN Len(bytes)
         ELSE (Blocks + k) * BlockBytes - off
  /\ got' = SubSeq(bytes, 1, w)
  /\ data' \in Seq(Bytes) /\ Len(data') = (Blocks + k) * BlockBytes
  /\ \A i \in 1 .. (Blocks + k) * BlockBytes :
       data'[i] = IF i > off /\ i <= off + w THEN bytes[i - off]
                  ELSE IF i <= Len(data) THEN data[i] ELSE Zero
  /\ size' = IF w = 0 THEN size ELSE IF size >= off + w THEN size ELSE off + w

LEMMA WriteSteps ==
  ASSUME IInv, NEW off \in 0 .. MaxSize, NEW n \in 1 .. MaxSize, NEW bytes \in [1 .. n -> Bytes],
         Write(off, bytes)
  PROVE  /\ bytes \in Seq(Bytes) /\ Len(bytes) = n /\ off + n <= MaxSize
         /\ off <= size /\ off <= Len(data)
         /\ \E k \in Nat, w \in 0 .. n : Wrote(off, bytes, k, w)
<1>1. /\ BlockBytes \in Nat \ {0} /\ MaxSize \in Nat
      /\ size \in Nat /\ size <= MaxSize /\ data \in Seq(Bytes) /\ Len(data) \in Nat
      /\ Blocks \in Nat /\ Len(data) = Blocks * BlockBytes
  BY FileFacts
<1>2. n \in Nat \ {0} /\ off \in Nat /\ bytes \in Seq(Bytes) /\ Len(bytes) = n
  BY <1>1
<1> DEFINE needed == Max({0, CeilDiv(off + Len(bytes), BlockBytes) - Blocks})
           room(k) == data \o Zeros(k)
           written(k) == SubSeq(bytes, 1, Min({Len(bytes), Len(room(k)) - off}))
<1>3. PICK k \in 0 .. needed :
        /\ data' = Overlay(room(k), off, written(k))
        /\ size' = IF written(k) = <<>> THEN size ELSE SizeAfter(off + Len(written(k)))
        /\ got' = written(k)
  BY DEF Write
<1>4. off <= Min({size, Len(data)}) /\ off + Len(bytes) <= MaxSize
  BY DEF Write
<1>5. off <= size /\ off <= Len(data) /\ off + n <= MaxSize
  BY <1>1, <1>2, <1>4, MinIs
<1>6. /\ k \in Nat
      /\ k > 0 => Blocks + k <= CeilDiv(off + Len(bytes), BlockBytes)
  <2>1. CeilDiv(off + Len(bytes), BlockBytes) \in Nat
    <3>1. off + Len(bytes) \in Nat
      BY <1>2
    <3> QED
      BY <1>1, <3>1, CeilDivIs
  <2> DEFINE c == CeilDiv(off + Len(bytes), BlockBytes) - Blocks
  <2>2. c \in Int /\ needed = IF 0 >= c THEN 0 ELSE c
    BY <1>1, <2>1, MaxIs
  <2> HIDE DEF needed, c
  <2>3. k \in Nat /\ (k > 0 => k <= c)
    BY <2>2
  <2> QED
    BY <1>1, <2>1, <2>3 DEF c
<1> HIDE DEF needed
<1> DEFINE len == (Blocks + k) * BlockBytes
<1>7. /\ len \in Nat /\ Len(data) <= len
      /\ room(k) \in Seq(Bytes) /\ Len(room(k)) = len
      /\ \A i \in 1 .. len : room(k)[i] = IF i <= Len(data) THEN data[i] ELSE Zero
  <2>1. /\ k * BlockBytes \in Nat /\ Zeros(k) \in Seq(Bytes) /\ Len(Zeros(k)) = k * BlockBytes
        /\ \A i \in 1 .. k * BlockBytes : Zeros(k)[i] = Zero
    BY <1>6, ZerosIs
  <2>2. len = Blocks * BlockBytes + k * BlockBytes
    BY <1>1, <1>6
  <2> DEFINE z == k * BlockBytes
  <2>3. len = Len(data) + z /\ z \in Nat
    BY <1>1, <2>1, <2>2
  <2>4. /\ room(k) \in Seq(Bytes) /\ Len(room(k)) = Len(data) + Len(Zeros(k))
        /\ \A i \in 1 .. Len(data) + Len(Zeros(k)) : room(k)[i] =
             IF i <= Len(data) THEN data[i] ELSE Zeros(k)[i - Len(data)]
    BY <1>1, <2>1, ConcatProperties
  <2> HIDE DEF len, room
  <2>5. \A i \in 1 .. len : i > Len(data) => i - Len(data) \in 1 .. z
    BY <1>1, <2>3
  <2> HIDE DEF z
  <2>6. Len(Zeros(k)) = z /\ \A i \in 1 .. z : Zeros(k)[i] = Zero
    BY <2>1 DEF z
  <2> QED
    BY <1>1, <2>3, <2>4, <2>5, <2>6
<1> DEFINE w == Min({Len(bytes), Len(room(k)) - off})
<1>8. /\ w \in 0 .. n
      /\ w = IF Len(bytes) <= len - off THEN Len(bytes) ELSE len - off
  <2> HIDE DEF len, room
  <2>1. w = IF Len(bytes) <= len - off THEN Len(bytes) ELSE len - off
    BY <1>2, <1>7, MinIs
  <2> HIDE DEF w
  <2> QED
    BY <1>1, <1>2, <1>5, <1>7, <2>1
<1>9. /\ written(k) \in Seq(Bytes) /\ Len(written(k)) = w
      /\ \A i \in 1 .. w : written(k)[i] = bytes[i]
  <2>1. written(k) = SubSeq(bytes, 1, w)
    OBVIOUS
  <2> HIDE DEF w, written
  <2> QED
    BY <1>2, <1>8, <2>1, PrefixIs
<1>10. got' = SubSeq(bytes, 1, w)
  BY <1>3
<1> HIDE DEF len, room, w, written
<1>11. /\ data' \in Seq(Bytes) /\ Len(data') = len
       /\ \A i \in 1 .. len :
            data'[i] = IF i > off /\ i <= off + w THEN bytes[i - off]
                       ELSE IF i <= Len(data) THEN data[i] ELSE Zero
  <2>1. /\ data' \in Seq(Bytes) /\ Len(data') = len
        /\ \A i \in 1 .. len : data'[i] =
             IF i > off /\ i <= off + w THEN written(k)[i - off] ELSE room(k)[i]
    BY <1>2, <1>3, <1>7, <1>9, OverlayIs
  <2>2. \A i \in 1 .. len : i > off /\ i <= off + w => written(k)[i - off] = bytes[i - off]
    <3>1. \A i \in 1 .. len : i > off /\ i <= off + w => i - off \in 1 .. w
      BY <1>2, <1>7, <1>8
    <3> QED
      BY <1>9, <3>1
  <2> QED
    BY <1>7, <2>1, <2>2
<1>12. size' = IF w = 0 THEN size ELSE IF size >= off + w THEN size ELSE off + w
  <2>1. written(k) = <<>> <=> w = 0
    BY <1>9, EmptySeq
  <2>2. SizeAfter(off + w) = IF size >= off + w THEN size ELSE off + w
    BY <1>1, <1>2, <1>8, MaxIs DEF SizeAfter
  <2> QED
    BY <1>3, <1>9, <2>1, <2>2
<1>13. Wrote(off, bytes, k, w)
  BY <1>6, <1>7, <1>8, <1>10, <1>11, <1>12 DEF Wrote, len
<1> QED
  BY <1>2, <1>5, <1>6, <1>8, <1>13

LEMMA WriteSound ==
  ASSUME IInv, NEW off \in 0 .. MaxSize, NEW n \in 1 .. MaxSize, NEW bytes \in [1 .. n -> Bytes],
         Write(off, bytes)
  PROVE  IInv'
<1>1. /\ bytes \in Seq(Bytes) /\ Len(bytes) = n /\ off + n <= MaxSize
      /\ off <= size /\ off <= Len(data)
  BY WriteSteps
<1>2. PICK k \in Nat, w \in 0 .. n : Wrote(off, bytes, k, w)
  BY WriteSteps
<1>3. /\ BlockBytes \in Nat \ {0} /\ MaxSize \in Nat
      /\ size \in Nat /\ size <= MaxSize /\ Len(data) \in Nat
      /\ Blocks \in Nat /\ Len(data) = Blocks * BlockBytes
      /\ ~grown => Blocks = CeilDiv(size, BlockBytes) /\ size <= Len(data)
  BY FileFacts
<1>4. UNCHANGED dir /\ grown' = grown /\ dangling' = dangling
  BY DEF Write
<1> DEFINE len == (Blocks + k) * BlockBytes
<1>5. /\ k > 0 => Blocks + k <= CeilDiv(off + n, BlockBytes)
      /\ len \in Nat /\ Len(data) <= len
      /\ w = IF n <= len - off THEN n ELSE len - off
      /\ got' = SubSeq(bytes, 1, w)
      /\ data' \in Seq(Bytes) /\ Len(data') = len
      /\ size' = IF w = 0 THEN size ELSE IF size >= off + w THEN size ELSE off + w
  BY <1>1, <1>2 DEF Wrote
<1>6. len % BlockBytes = 0 /\ len \div BlockBytes = Blocks + k
  BY <1>3, BlocksOf
<1> HIDE DEF len
<1>8. off \in Nat /\ n \in Nat \ {0} /\ w \in Nat
  BY <1>3
<1>9. size' \in 0 .. MaxSize
  BY <1>1, <1>3, <1>5, <1>8
<1>10. got' \in Seq(Bytes)
  BY <1>1, <1>5, PrefixIs
<1>11. ASSUME ~grown PROVE Blocks + k = CeilDiv(size', BlockBytes)
  <2>1. Blocks = CeilDiv(size, BlockBytes) /\ size <= Len(data)
    BY <1>3, <1>11
  <2>2. size <= Blocks * BlockBytes /\ Blocks * BlockBytes < size + BlockBytes
    BY <1>3, <2>1, CeilDivIs
  <2>3. size' <= len /\ size <= size' /\ size' \in Nat
    BY <1>1, <1>3, <1>5, <1>8, <2>1
  <2>4. len < size' + BlockBytes
    <3>1. CASE k = 0
      <4>1. len = Blocks * BlockBytes
        BY <1>3, <3>1 DEF len
      <4>2. len < size + BlockBytes
        BY <2>2, <4>1
      <4> QED
        BY <1>3, <1>5, <2>3, <4>2
    <3>2. CASE k > 0
      <4> DEFINE c == CeilDiv(off + n, BlockBytes)
      <4>1. c \in Nat /\ c * BlockBytes < off + n + BlockBytes
        <5>1. off + n \in Nat
          BY <1>8
        <5> QED
          BY <1>3, <5>1, CeilDivIs
      <4>2. Blocks + k <= c
        BY <1>5, <3>2
      <4> HIDE DEF c
      <4>3. len <= c * BlockBytes
        <5>1. CASE Blocks + k = c
          BY <1>5, <5>1 DEF len
        <5>2. CASE Blocks + k < c
          BY <1>3, <1>5, <4>1, <5>2, Multiples DEF len
        <5> QED
          BY <1>3, <4>1, <4>2, <5>1, <5>2
      <4>4. c * BlockBytes \in Nat
        BY <1>3, <4>1
      <4>5. Blocks * BlockBytes + BlockBytes <= len
        BY <1>3, <3>2, Multiples DEF len
      <4>6. len < off + w + BlockBytes /\ w > 0
        BY <1>1, <1>3, <1>5, <1>8, <4>1, <4>3, <4>4, <4>5
      <4>7. size' >= off + w
        BY <1>3, <1>5, <1>8, <4>6
      <4> QED
        BY <1>3, <1>5, <1>8, <2>3, <4>6, <4>7
    <3> QED
      BY <3>1, <3>2
  <2>5. Blocks + k \in Int
    BY <1>3
  <2> QED
    BY <1>3, <2>3, <2>4, <2>5, CeilDivUnique DEF len
<1> QED
  <2>1. grown \in BOOLEAN /\ dangling \in BOOLEAN
    BY DEF IInv, BlocksFit, TypeOK
  <2> QED
    BY <1>4, <1>5, <1>6, <1>9, <1>10, <1>11, <2>1, FileKept

\* As much of the list as tmpfs_truncate keeps.
LEMMA WalkedIs ==
  ASSUME IInv, NEW n \in Nat
  PROVE  /\ Walked(n) \in Nat /\ Walked(n) <= Blocks /\ Walked(n) <= CeilDiv(n, BlockBytes)
         /\ CeilDiv(n, BlockBytes) <= Blocks => Walked(n) = CeilDiv(n, BlockBytes)
         /\ Walked(n) * BlockBytes \in 0 .. Len(data)
         /\ (Walked(n) * BlockBytes) % BlockBytes = 0
         /\ (Walked(n) * BlockBytes) \div BlockBytes = Walked(n)
<1>1. BlockBytes \in Nat \ {0} /\ Blocks \in Nat /\ Len(data) = Blocks * BlockBytes
  BY FileFacts
<1> DEFINE c == CeilDiv(n, BlockBytes)
<1>2. c \in Nat
  BY <1>1, CeilDivIs
<1>3. Walked(n) = IF Blocks <= c THEN Blocks ELSE c
  BY <1>1, <1>2, MinIs DEF Walked
<1> HIDE DEF c
<1>4. Walked(n) \in Nat /\ Walked(n) <= Blocks /\ Walked(n) <= c /\ (c <= Blocks => Walked(n) = c)
  BY <1>1, <1>2, <1>3
<1> DEFINE m == Walked(n)
<1>5. m * BlockBytes \in Nat /\ Blocks * BlockBytes \in Nat
  BY <1>1, <1>4
<1>6. m * BlockBytes <= Blocks * BlockBytes
  <2>1. m \in Nat /\ m <= Blocks
    BY <1>4
  <2> HIDE DEF m
  <2>2. CASE m = Blocks
    BY <1>5, <2>2
  <2>3. CASE m < Blocks
    <3>1. m * BlockBytes + BlockBytes <= Blocks * BlockBytes
      BY <1>1, <2>1, <2>3, Multiples
    <3> QED
      BY <1>1, <1>5, <3>1
  <2> QED
    BY <1>1, <2>1, <2>2, <2>3
<1>7. (m * BlockBytes) % BlockBytes = 0 /\ (m * BlockBytes) \div BlockBytes = m
  BY <1>1, <1>4, BlocksOf
<1> QED
  BY <1>1, <1>4, <1>5, <1>6, <1>7 DEF c

LEMMA ShrinkSound ==
  ASSUME IInv, NEW n \in 0 .. MaxSize, Shrink(n)
  PROVE  IInv'
<1>1. /\ n < size /\ size' = n /\ data' = SubSeq(data, 1, Walked(n) * BlockBytes)
      /\ grown' = (grown /\ (n > 0 \/ data' # <<>>)) /\ UNCHANGED dir
      /\ dangling' = dangling /\ got' = got
  BY DEF Shrink
<1>2. /\ BlockBytes \in Nat \ {0} /\ MaxSize \in Nat
      /\ size \in Nat /\ size <= MaxSize /\ data \in Seq(Bytes) /\ Len(data) \in Nat
      /\ Blocks \in Nat /\ Len(data) = Blocks * BlockBytes
      /\ ~grown => Blocks = CeilDiv(size, BlockBytes) /\ size <= Len(data)
  BY FileFacts
<1>3. n \in Nat
  BY <1>2
<1> DEFINE m == Walked(n) * BlockBytes
<1>4. /\ m \in 0 .. Len(data) /\ m % BlockBytes = 0 /\ m \div BlockBytes = Walked(n)
      /\ CeilDiv(n, BlockBytes) <= Blocks => Walked(n) = CeilDiv(n, BlockBytes)
  BY <1>3, WalkedIs
<1> HIDE DEF m
<1>5. data' \in Seq(Bytes) /\ Len(data') = m
  BY <1>1, <1>2, <1>4, PrefixIs DEF m
<1>6. ASSUME ~grown' PROVE m \div BlockBytes = CeilDiv(n, BlockBytes)
  <2>1. CASE ~grown
    <3>1. CeilDiv(n, BlockBytes) <= Blocks
      BY <1>1, <1>2, <1>3, <2>1, CeilDivMonotonic
    <3> QED
      BY <1>4, <3>1
  <2>2. CASE n = 0 /\ data' = <<>>
    <3>1. m = 0
      BY <1>5, <2>2, EmptySeq
    <3>2. m \div BlockBytes = 0
      BY <1>2, <3>1, NoBlocks
    <3>3. CeilDiv(n, BlockBytes) = 0
      BY <1>2, <2>2, CeilDivUnique
    <3> QED
      BY <3>2, <3>3
  <2>3. n = 0 \/ n > 0
    BY <1>3
  <2>4. ~grown \/ ~(n > 0 \/ data' # <<>>)
    BY <1>1, <1>6, Zenon
  <2> QED
    BY <2>1, <2>2, <2>3, <2>4, Zenon
<1> QED
  <2>1. grown \in BOOLEAN /\ dangling \in BOOLEAN /\ got \in Seq(Bytes)
    BY DEF IInv, BlocksFit, TypeOK
  <2>2. size' \in 0 .. MaxSize /\ grown' \in BOOLEAN
    BY <1>1, <2>1
  <2> QED
    BY <1>1, <1>4, <1>5, <1>6, <2>1, <2>2, FileKept

LEMMA GrowEmptySound ==
  ASSUME IInv, NEW n \in 0 .. MaxSize, GrowEmpty(n)
  PROVE  IInv'
<1>1. /\ size' = n /\ grown' = TRUE /\ UNCHANGED dir
      /\ data' = data /\ dangling' = dangling /\ got' = got
  BY DEF GrowEmpty
<1>2. data \in Seq(Bytes) /\ Len(data) % BlockBytes = 0 /\ dangling \in BOOLEAN /\ got \in Seq(Bytes)
  BY DEF IInv, BlocksFit, TypeOK
<1> QED
  BY <1>1, <1>2, FileKept

LEMMA GrowSound ==
  ASSUME IInv, NEW n \in 0 .. MaxSize, Grow(n)
  PROVE  IInv'
<1> DEFINE kept == Walked(size)
           needed == CeilDiv(n, BlockBytes) - kept + 1
<1>1. /\ size > 0 /\ n \in size + 1 .. MaxSize /\ grown' = TRUE /\ UNCHANGED dir /\ got' = got
  BY DEF Grow
<1>2. PICK k \in 0 .. needed :
        /\ data' = SubSeq(data, 1, kept * BlockBytes) \o (IF k = needed THEN Zeros(k) ELSE <<>>)
        /\ size' = IF k = needed THEN n ELSE size
        /\ dangling' = (k \in 1 .. needed - 1)
  BY DEF Grow
<1>3. /\ BlockBytes \in Nat \ {0} /\ MaxSize \in Nat
      /\ size \in Nat /\ size <= MaxSize /\ data \in Seq(Bytes) /\ Len(data) \in Nat
      /\ Blocks \in Nat /\ Len(data) = Blocks * BlockBytes
  BY FileFacts
<1> DEFINE m == kept * BlockBytes
           rest == IF k = needed THEN Zeros(k) ELSE <<>>
<1>4. kept \in Nat /\ m \in 0 .. Len(data)
  BY <1>3, WalkedIs
<1>5. CeilDiv(n, BlockBytes) \in Nat
  BY <1>3, CeilDivIs
<1>6. k \in Nat
  OBVIOUS
<1> HIDE DEF kept, needed
<1>7. PICK z \in Nat : rest \in Seq(Bytes) /\ Len(rest) = z * BlockBytes
  <2>1. CASE k = needed
    BY <1>6, <2>1, ZerosIs
  <2>2. CASE k # needed
    <3>1. rest = <<>> /\ <<>> \in Seq(Bytes) /\ Len(<<>>) = 0
      BY <2>2, EmptySeq
    <3>2. 0 * BlockBytes = 0
      BY <1>3
    <3> QED
      BY <3>1, <3>2
  <2> QED
    BY <2>1, <2>2
<1> HIDE DEF rest
<1>8. SubSeq(data, 1, m) \in Seq(Bytes) /\ Len(SubSeq(data, 1, m)) = m
  <2> HIDE DEF m
  <2> QED
    BY <1>3, <1>4, PrefixIs
<1>9. data' \in Seq(Bytes) /\ Len(data') = m + z * BlockBytes
  <2>1. data' = SubSeq(data, 1, m) \o rest
    BY <1>2 DEF rest
  <2> HIDE DEF m
  <2>2. /\ SubSeq(data, 1, m) \o rest \in Seq(Bytes)
        /\ Len(SubSeq(data, 1, m) \o rest) = Len(SubSeq(data, 1, m)) + Len(rest)
    BY <1>7, <1>8, ConcatProperties
  <2> QED
    BY <1>7, <1>8, <2>1, <2>2
<1>10. Len(data') % BlockBytes = 0
  <2>1. m + z * BlockBytes = (kept + z) * BlockBytes /\ kept + z \in Nat
    BY <1>3, <1>4, <1>7
  <2>2. ((kept + z) * BlockBytes) % BlockBytes = 0
    BY <1>3, <2>1, BlocksOf
  <2> QED
    BY <1>9, <2>1, <2>2
<1>11. size' \in 0 .. MaxSize
  BY <1>1, <1>2, <1>3
<1> QED
  <2>1. got \in Seq(Bytes) /\ dangling' \in BOOLEAN
    BY <1>2 DEF IInv, BlocksFit, TypeOK
  <2> QED
    BY <1>1, <1>9, <1>10, <1>11, <2>1, FileKept

LEMMA ReadSound ==
  ASSUME IInv, NEW off \in 0 .. MaxSize, NEW n \in 1 .. MaxSize, Read(off, n)
  PROVE  IInv'
<1>1. /\ got' = SubSeq(data, off + 1, ReadEnd(off, n)) /\ UNCHANGED dir
      /\ size' = size /\ data' = data /\ grown' = grown /\ dangling' = dangling
  BY DEF Read
<1>2. MaxSize \in Nat /\ size \in Nat /\ data \in Seq(Bytes) /\ Len(data) \in Nat
  BY FileFacts
<1>3. ReadEnd(off, n) \in Int /\ ReadEnd(off, n) <= Len(data)
  <2>1. off + n \in Int
    BY <1>2
  <2> DEFINE end == off + n
  <2>2. ReadEnd(off, n) = Min({end, size, Len(data)})
    BY DEF ReadEnd
  <2> HIDE DEF end
  <2>3. /\ ReadEnd(off, n) \in {end, size, Len(data)}
        /\ ReadEnd(off, n) <= Len(data)
    <3>1. end \in Int /\ size \in Int /\ Len(data) \in Int
      BY <1>2, <2>1 DEF end
    <3> QED
      BY <2>2, <3>1, Min3Is
  <2> QED
    BY <1>2, <2>1, <2>3 DEF end
<1>4. got' \in Seq(Bytes)
  <2>1. \A i \in off + 1 .. ReadEnd(off, n) : data[i] \in Bytes
    <3>1. \A i \in off + 1 .. ReadEnd(off, n) : i \in 1 .. Len(data)
      BY <1>2, <1>3
    <3> QED
      BY <1>2, <3>1, ElementOfSeq
  <2>2. off + 1 \in Int
    BY <1>2
  <2> QED
    BY <1>1, <1>3, <2>1, <2>2, SubSeqProperties
<1> QED
  BY <1>1, <1>4, FileKept DEF IInv, BlocksFit, TypeOK, Blocks

LEMMA StepSound ==
  ASSUME IInv, [Next]_vars
  PROVE  IInv'
<1>1. CASE UNCHANGED vars
  BY <1>1, FileKept DEF vars, file, IInv, BlocksFit, Blocks, TypeOK
<1>2. CASE Next
  <2>1. ASSUME NEW p \in Procs, NEW n \in Names, NEW socket \in BOOLEAN, Creat(p, n, socket)
        PROVE  IInv'
    BY <2>1, CreatSound
  <2>2. ASSUME NEW p \in Procs, Scan(p) \/ ScanFails(p) \/ Store(p) \/ Count(p)
        PROVE  IInv'
    BY <2>2, ScanSound, ScanFailsSound, StoreSound, CountSound
  <2>3. ASSUME NEW off \in 0 .. MaxSize, NEW n \in 1 .. MaxSize, NEW bytes \in [1 .. n -> Bytes],
               Write(off, bytes)
        PROVE  IInv'
    BY <2>3, WriteSound
  <2>4. ASSUME NEW off \in 0 .. MaxSize, NEW n \in 1 .. MaxSize, Read(off, n)
        PROVE  IInv'
    BY <2>4, ReadSound
  <2>5. ASSUME NEW n \in 0 .. MaxSize, Shrink(n) \/ GrowEmpty(n) \/ Grow(n)
        PROVE  IInv'
    BY <2>5, ShrinkSound, GrowEmptySound, GrowSound
  <2> QED
    BY <1>2, <2>1, <2>2, <2>3, <2>4, <2>5 DEF Next
<1> QED
  BY <1>1, <1>2

\* The directory and the file are as DirSound and BlocksFit say, in all behaviours.
THEOREM Invariant == Spec => []IInv
<1>1. Init => IInv
  BY InitDirSound
<1>2. IInv /\ [Next]_vars => IInv'
  BY StepSound
<1> QED
  BY <1>1, <1>2, PTL DEF Spec

\* tmpfs_creat, tmpfs_put: as long as no two processes create at once, the slots before the
\* size have the entries, and each name is there once unless it is a socket's.
THEOREM Directories == Spec => []DirectoryExact
<1>1. IInv => DirectoryExact
  BY DEF IInv, DirSound
<1> QED
  BY <1>1, Invariant, PTL

\* tmpfs_write, tmpfs_truncate: a file has the blocks that its size needs, unless truncate
\* has made it longer.
THEOREM Files == Spec => []BlocksFit
<1>1. IInv => BlocksFit
  BY DEF IInv
<1> QED
  BY <1>1, Invariant, PTL

-----------------------------------------------------------------------------
(* The refinement: what FlatFile sees *)

Content == IF grown THEN <<>> ELSE SubSeq(data, 1, size)

FlatVars == <<Content, grown, asked, got>>

LEMMA SizeFits ==
  ASSUME NEW d \in Seq(Bytes), NEW s \in Nat,
         Len(d) % BlockBytes = 0, Len(d) \div BlockBytes = CeilDiv(s, BlockBytes)
  PROVE  s \in 0 .. Len(d)
<1>1. BlockBytes \in Nat \ {0} /\ Len(d) \in Nat
  BY TmpfsAssumption
<1>2. Len(d) = CeilDiv(s, BlockBytes) * BlockBytes
  BY <1>1, WholeBlocks
<1>3. s <= Len(d)
  BY <1>1, <1>2, CeilDivIs
<1> QED
  BY <1>1, <1>3

LEMMA FlatMaxIs ==
  ASSUME NEW a \in Int, NEW b \in Int
  PROVE  Flat!Max({a, b}) = IF a >= b THEN a ELSE b
<1>1. PICK x \in {a, b} : \A y \in {a, b} : x >= y
  OBVIOUS
<1>2. /\ Flat!Max({a, b}) \in {a, b}
      /\ \A y \in {a, b} : Flat!Max({a, b}) >= y
  BY <1>1 DEF Flat!Max
<1> QED
  BY <1>2

LEMMA FlatMinIs ==
  ASSUME NEW a \in Int, NEW b \in Int
  PROVE  Flat!Min({a, b}) = IF a <= b THEN a ELSE b
<1>1. PICK x \in {a, b} : \A y \in {a, b} : x <= y
  OBVIOUS
<1>2. /\ Flat!Min({a, b}) \in {a, b}
      /\ \A y \in {a, b} : Flat!Min({a, b}) <= y
  BY <1>1 DEF Flat!Min
<1> QED
  BY <1>2

LEMMA FlatOverlayIs ==
  ASSUME NEW s \in Seq(Bytes), NEW off \in Nat, NEW bytes \in Seq(Bytes), off <= Len(s),
         NEW end, end = IF Len(s) >= off + Len(bytes) THEN Len(s) ELSE off + Len(bytes)
  PROVE  /\ Flat!Overlay(s, off, bytes) \in Seq(Bytes) /\ Len(Flat!Overlay(s, off, bytes)) = end
         /\ \A i \in 1 .. end : Flat!Overlay(s, off, bytes)[i] =
              IF i > off /\ i <= off + Len(bytes) THEN bytes[i - off] ELSE s[i]
<1> DEFINE o(i) == IF i > off /\ i <= off + Len(bytes) THEN bytes[i - off] ELSE s[i]
<1>1. Len(s) \in Nat /\ Len(bytes) \in Nat /\ off + Len(bytes) \in Nat
  BY LenProperties
<1>2. end \in Nat /\ Flat!Max({Len(s), off + Len(bytes)}) = end
  BY <1>1, FlatMaxIs
<1>3. Flat!Overlay(s, off, bytes) = [i \in 1 .. end |-> o(i)]
  BY <1>2 DEF Flat!Overlay
<1>4. \A i \in 1 .. end : o(i) \in Bytes
  <2> SUFFICES ASSUME NEW i \in 1 .. end PROVE o(i) \in Bytes
    OBVIOUS
  <2>1. CASE i > off /\ i <= off + Len(bytes)
    <3>1. i - off \in 1 .. Len(bytes)
      BY <1>1, <2>1
    <3> QED
      BY <2>1, <3>1, ElementOfSeq
  <2>2. CASE ~(i > off /\ i <= off + Len(bytes))
    <3>1. i \in 1 .. Len(s)
      BY <1>1, <2>2
    <3> QED
      BY <2>2, <3>1, ElementOfSeq
  <2> QED
    BY <2>1, <2>2
<1>5. /\ Flat!Overlay(s, off, bytes) \in Seq(Bytes)
      /\ Len(Flat!Overlay(s, off, bytes)) = end
      /\ \A i \in 1 .. end : Flat!Overlay(s, off, bytes)[i] = o(i)
  <2> HIDE DEF o
  <2>1. Flat!Overlay(s, off, bytes) \in [1 .. end -> Bytes]
    BY <1>3, <1>4
  <2> QED
    BY <1>2, <1>3, <2>1
<1> QED
  BY <1>5

LEMMA ContentIs ==
  ASSUME IInv, ~grown
  PROVE  /\ Content = SubSeq(data, 1, size) /\ size \in 0 .. Len(data)
         /\ Content \in Seq(Bytes) /\ Len(Content) = size
         /\ \A i \in 1 .. size : Content[i] = data[i]
<1>1. size \in Nat /\ data \in Seq(Bytes) /\ size <= Len(data) /\ Len(data) \in Nat
  BY FileFacts
<1>2. size \in 0 .. Len(data) /\ Content = SubSeq(data, 1, size)
  BY <1>1 DEF Content
<1> QED
  BY <1>1, <1>2, PrefixIs

\* Once truncate has made the file longer all that FlatFile says is that it has.
LEMMA BrokenStep ==
  ASSUME grown, grown' \/ Content' = <<>>
  PROVE  Flat!Next
<1>1. Content = <<>> /\ Content' = <<>>
  BY DEF Content
<1> QED
  BY <1>1 DEF Content, Flat!Next, Flat!Broken

LEMMA WriteFlat ==
  ASSUME IInv, IInv', NEW off \in 0 .. MaxSize, NEW n \in 1 .. MaxSize, NEW bytes \in [1 .. n -> Bytes],
         Write(off, bytes)
  PROVE  Flat!Next
<1>1. /\ bytes \in Seq(Bytes) /\ Len(bytes) = n /\ off + n <= MaxSize
      /\ off <= size /\ off <= Len(data)
  BY WriteSteps
<1>2. PICK k \in Nat, w \in 0 .. n : Wrote(off, bytes, k, w)
  BY WriteSteps
<1>3. grown' = grown /\ asked' = <<off, Len(bytes), bytes>>
  BY DEF Write
<1>4. CASE grown
  BY <1>3, <1>4, BrokenStep
<1>5. CASE ~grown
  <2>1. /\ size \in Nat /\ MaxSize \in Nat /\ Len(data) \in Nat
        /\ off \in Nat /\ n \in Nat \ {0} /\ w \in Nat /\ w <= n
    BY FileFacts
  <2>2. /\ Content = SubSeq(data, 1, size) /\ size \in 0 .. Len(data)
        /\ Content \in Seq(Bytes) /\ Len(Content) = size
        /\ \A i \in 1 .. size : Content[i] = data[i]
    BY <1>5, ContentIs
  <2> DEFINE len == (Blocks + k) * BlockBytes
  <2>3. /\ len \in Nat /\ Len(data) <= len
        /\ got' = SubSeq(bytes, 1, w)
        /\ data' \in Seq(Bytes) /\ Len(data') = len
        /\ \A i \in 1 .. len :
             data'[i] = IF i > off /\ i <= off + w THEN bytes[i - off]
                        ELSE IF i <= Len(data) THEN data[i] ELSE Zero
        /\ size' = IF w = 0 THEN size ELSE IF size >= off + w THEN size ELSE off + w
    BY <1>2 DEF Wrote
  <2> HIDE DEF len
  <2>4. /\ got' \in Seq(Bytes) /\ Len(got') = w
        /\ \A i \in 1 .. w : got'[i] = bytes[i]
    BY <1>1, <2>1, <2>3, PrefixIs
  <2>5. size' \in 0 .. len /\ size' \in Nat
    <3>1. /\ size' \in Nat /\ Len(data') % BlockBytes = 0
          /\ Len(data') \div BlockBytes = CeilDiv(size', BlockBytes)
      BY <1>3, <1>5, <2>1 DEF IInv, BlocksFit, TypeOK, Blocks
    <3> QED
      BY <2>3, <3>1, SizeFits
  <2>6. /\ Content' = SubSeq(data', 1, size')
        /\ Content' \in Seq(Bytes) /\ Len(Content') = size'
        /\ \A i \in 1 .. size' : Content'[i] = data'[i]
    <3>1. Content' = SubSeq(data', 1, size')
      BY <1>3, <1>5 DEF Content
    <3> QED
      BY <2>3, <2>5, <3>1, PrefixIs
  <2>7. Content' = IF w = 0 THEN Content ELSE Flat!Overlay(Content, off, got')
    <3>1. CASE w = 0
      <4>1. \A i \in 1 .. size : Content'[i] = Content[i]
        BY <2>1, <2>2, <2>3, <2>6, <3>1
      <4> QED
        BY <2>2, <2>3, <2>6, <3>1, <4>1, SeqEqual
    <3>2. CASE w # 0
      <4> DEFINE o == Flat!Overlay(Content, off, got')
      <4>1. /\ o \in Seq(Bytes) /\ Len(o) = size'
            /\ \A i \in 1 .. size' :
                 o[i] = IF i > off /\ i <= off + w THEN got'[i - off] ELSE Content[i]
        <5>1. size' = IF Len(Content) >= off + Len(got') THEN Len(Content) ELSE off + Len(got')
          BY <2>2, <2>3, <2>4, <3>2
        <5> HIDE DEF o
        <5>2. off <= Len(Content)
          BY <1>1, <2>2
        <5>3. Content \in Seq(Bytes) /\ off \in Nat /\ got' \in Seq(Bytes)
          BY <2>1, <2>2, <2>4
        <5>4. /\ o \in Seq(Bytes) /\ Len(o) = size'
              /\ \A i \in 1 .. size' : o[i] =
                   IF i > off /\ i <= off + Len(got') THEN got'[i - off] ELSE Content[i]
          <6>1. PICK c \in Seq(Bytes), g \in Seq(Bytes) : c = Content /\ g = got'
            BY <5>3
          <6>2. o = Flat!Overlay(c, off, g)
            BY <6>1 DEF o
          <6>3. PICK end \in Nat : end = size'
            BY <2>5
          <6>4. end = IF Len(c) >= off + Len(g) THEN Len(c) ELSE off + Len(g)
            BY <5>1, <6>1, <6>3
          <6>5. off <= Len(c) /\ off \in Nat
            BY <5>2, <5>3, <6>1
          <6>6. /\ Flat!Overlay(c, off, g) \in Seq(Bytes) /\ Len(Flat!Overlay(c, off, g)) = end
                /\ \A i \in 1 .. end : Flat!Overlay(c, off, g)[i] =
                     IF i > off /\ i <= off + Len(g) THEN g[i - off] ELSE c[i]
            BY <6>4, <6>5, FlatOverlayIs
          <6> QED
            BY <6>1, <6>2, <6>3, <6>6
        <5> QED
          BY <2>4, <5>4
      <4> HIDE DEF o
      <4>2. \A i \in 1 .. size' : Content'[i] = o[i]
        <5> SUFFICES ASSUME NEW i \in 1 .. size' PROVE Content'[i] = o[i]
          OBVIOUS
        <5>1. i \in 1 .. len /\ i \in Nat
          BY <2>3, <2>5
        <5>2. CASE i > off /\ i <= off + w
          <6>1. i - off \in 1 .. w
            BY <2>1, <5>1, <5>2
          <6> QED
            BY <2>3, <2>4, <2>6, <4>1, <5>1, <5>2, <6>1
        <5>3. CASE ~(i > off /\ i <= off + w)
          <6>1. i \in 1 .. size /\ i <= Len(data)
            BY <1>1, <2>1, <2>2, <2>3, <5>1, <5>3
          <6> QED
            BY <2>2, <2>3, <2>6, <4>1, <5>1, <5>3, <6>1
        <5> QED
          BY <5>2, <5>3
      <4>3. Content' = o
        BY <2>6, <4>1, <4>2, SeqEqual
      <4> QED
        BY <3>2, <4>3 DEF o
    <3> QED
      BY <3>1, <3>2
  <2>8. Flat!Write(off, bytes)
    <3>1. w \in 0 .. Len(bytes)
      BY <1>1
    <3>2. off <= Len(Content)
      BY <1>1, <2>2
    <3> QED
      BY <1>3, <2>3, <2>7, <3>1, <3>2 DEF Flat!Write, Content
  <2> QED
    BY <1>5, <2>8 DEF Flat!Next
<1> QED
  BY <1>4, <1>5

LEMMA ReadFlat ==
  ASSUME IInv, NEW off \in 0 .. MaxSize, NEW n \in 1 .. MaxSize, Read(off, n)
  PROVE  Flat!Next
<1>1. /\ off <= size /\ got' = SubSeq(data, off + 1, ReadEnd(off, n))
      /\ size' = size /\ data' = data /\ grown' = grown /\ asked' = <<off, n, <<>>>>
  BY DEF Read
<1>2. CASE grown
  BY <1>1, <1>2, BrokenStep
<1>3. CASE ~grown
  <2>1. MaxSize \in Nat /\ size \in Nat /\ data \in Seq(Bytes) /\ Len(data) \in Nat
    BY FileFacts
  <2>2. /\ size \in 0 .. Len(data)
        /\ Content \in Seq(Bytes) /\ Len(Content) = size
        /\ \A i \in 1 .. size : Content[i] = data[i]
    BY <1>3, ContentIs
  <2> DEFINE end == off + n
  <2>3. end \in Int /\ size \in Int /\ Len(data) \in Int
    BY <2>1
  <2>4. ReadEnd(off, n) = Min({end, size, Len(data)})
    BY DEF ReadEnd
  <2>5. Flat!Min({end, Len(Content)}) = IF end <= size THEN end ELSE size
    BY <2>2, <2>3, FlatMinIs
  <2> HIDE DEF end
  <2> DEFINE last == IF end <= size THEN end ELSE size
  <2>6. ReadEnd(off, n) = last
    <3>1. /\ ReadEnd(off, n) \in {end, size, Len(data)}
          /\ ReadEnd(off, n) <= end /\ ReadEnd(off, n) <= size /\ ReadEnd(off, n) <= Len(data)
      BY <2>3, <2>4, Min3Is
    <3> QED
      BY <2>2, <2>3, <3>1
  <2>7. last \in Int /\ last <= size /\ off + 1 \in Int /\ off \in Nat
    BY <2>1, <2>3
  <2> HIDE DEF last
  <2>8. SubSeq(Content, off + 1, last) = SubSeq(data, off + 1, last)
    <3>1. \A i \in off + 1 .. last : i \in 1 .. size /\ i \in 1 .. Len(data)
      BY <2>1, <2>2, <2>7
    <3>2. \A i \in off + 1 .. last : Content[i] \in Bytes /\ data[i] \in Bytes
      BY <2>1, <2>2, <3>1, ElementOfSeq
    <3> DEFINE a == SubSeq(Content, off + 1, last)
               b == SubSeq(data, off + 1, last)
               m == off + 1
    <3>3. /\ a \in Seq(Bytes)
          /\ Len(a) = IF m <= last THEN last - m + 1 ELSE 0
          /\ \A i \in 1 .. last - m + 1 : a[i] = Content[m + i - 1]
      BY <2>7, <3>2, SubSeqProperties
    <3>4. /\ b \in Seq(Bytes)
          /\ Len(b) = IF m <= last THEN last - m + 1 ELSE 0
          /\ \A i \in 1 .. last - m + 1 : b[i] = data[m + i - 1]
      BY <2>7, <3>2, SubSeqProperties
    <3> HIDE DEF a, b
    <3>5. \A i \in 1 .. Len(a) : a[i] = b[i]
      <4> SUFFICES ASSUME NEW i \in 1 .. Len(a) PROVE a[i] = b[i]
        OBVIOUS
      <4>1. i \in 1 .. last - m + 1 /\ m + i - 1 \in 1 .. size
        BY <2>1, <2>3, <2>7, <3>3
      <4> QED
        BY <2>2, <3>3, <3>4, <4>1
    <3>6. a = b
      BY <3>3, <3>4, <3>5, SeqEqual
    <3> QED
      BY <3>6 DEF a, b
  <2>9. Content' = Content
    BY <1>1 DEF Content
  <2>10. Flat!Read(off, n)
    BY <1>1, <2>2, <2>5, <2>6, <2>8, <2>9 DEF Flat!Read, Content, end, last
  <2> QED
    BY <1>3, <2>10 DEF Flat!Next
<1> QED
  BY <1>2, <1>3

LEMMA ShrinkFlat ==
  ASSUME IInv, IInv', NEW n \in 0 .. MaxSize, Shrink(n)
  PROVE  Flat!Next
<1>1. /\ n < size /\ size' = n /\ data' = SubSeq(data, 1, Walked(n) * BlockBytes)
      /\ grown' = (grown /\ (n > 0 \/ data' # <<>>))
      /\ asked' = <<n, 0, <<>>>> /\ got' = got
  BY DEF Shrink
<1>2. MaxSize \in Nat /\ size \in Nat /\ data \in Seq(Bytes) /\ Len(data) \in Nat /\ n \in Nat
  BY FileFacts
<1>3. CASE grown
  <2>1. ASSUME ~grown' PROVE Content' = <<>>
    <3>1. n = 0 \/ n > 0
      BY <1>2
    <3>2. ~(n > 0 \/ data' # <<>>)
      BY <1>1, <1>3, <2>1, Zenon
    <3>3. n = 0
      BY <3>1, <3>2
    <3>4. Content' = SubSeq(data', 1, 0)
      BY <1>1, <2>1, <3>3 DEF Content
    <3> QED
      BY <3>4, SubSeqEmpty
  <2> QED
    BY <1>3, <2>1, BrokenStep
<1>4. CASE ~grown
  <2>1. /\ size \in 0 .. Len(data)
        /\ Content \in Seq(Bytes) /\ Len(Content) = size
        /\ \A i \in 1 .. size : Content[i] = data[i]
    BY <1>4, ContentIs
  <2>2. grown' = FALSE
    BY <1>1, <1>4
  <2>3. data' \in Seq(Bytes) /\ n \in 0 .. Len(data')
    <3>1. /\ data' \in Seq(Bytes) /\ Len(data') % BlockBytes = 0
          /\ Len(data') \div BlockBytes = CeilDiv(n, BlockBytes)
      BY <1>1, <2>2 DEF IInv, BlocksFit, TypeOK, Blocks
    <3> QED
      BY <1>2, <3>1, SizeFits
  <2> DEFINE m == Walked(n) * BlockBytes
  <2>4. m \in 0 .. Len(data)
    BY <1>2, WalkedIs
  <2> HIDE DEF m
  <2>5. Len(data') = m /\ \A i \in 1 .. m : data'[i] = data[i]
    BY <1>1, <1>2, <2>4, PrefixIs DEF m
  <2>6. /\ Content' = SubSeq(data', 1, n)
        /\ Content' \in Seq(Bytes) /\ Len(Content') = n
        /\ \A i \in 1 .. n : Content'[i] = data'[i]
    <3>1. Content' = SubSeq(data', 1, n)
      BY <1>1, <2>2 DEF Content
    <3> QED
      BY <2>3, <3>1, PrefixIs
  <2>7. /\ SubSeq(Content, 1, n) \in Seq(Bytes) /\ Len(SubSeq(Content, 1, n)) = n
        /\ \A i \in 1 .. n : SubSeq(Content, 1, n)[i] = Content[i]
    <3>1. n \in 0 .. Len(Content)
      BY <1>1, <1>2, <2>1
    <3> QED
      BY <2>1, <3>1, PrefixIs
  <2>8. \A i \in 1 .. n : Content'[i] = SubSeq(Content, 1, n)[i]
    <3>1. \A i \in 1 .. n : i \in 1 .. m /\ i \in 1 .. size
      BY <1>1, <1>2, <2>3, <2>5
    <3> QED
      BY <2>1, <2>5, <2>6, <2>7, <3>1
  <2>9. Content' = SubSeq(Content, 1, n)
    BY <2>6, <2>7, <2>8, SeqEqual
  <2>10. n <= Len(Content)
    BY <1>1, <1>2, <2>1
  <2>11. Flat!Shorten(n)
    <3>1. grown' = grown
      BY <1>4, <2>2 DEF IInv, BlocksFit, TypeOK
    <3> QED
      BY <1>1, <2>9, <2>10, <3>1 DEF Flat!Shorten, Content
  <2> QED
    BY <1>4, <2>11 DEF Flat!Next
<1> QED
  BY <1>3, <1>4

LEMMA GrowFlat ==
  ASSUME NEW n \in 0 .. MaxSize, GrowEmpty(n) \/ Grow(n)
  PROVE  Flat!Next
<1>1. grown' = TRUE
  BY DEF GrowEmpty, Grow
<1>2. CASE grown
  BY <1>1, <1>2, BrokenStep
<1>3. CASE ~grown
  BY <1>1, <1>3 DEF Flat!Next, Flat!Lengthen
<1> QED
  BY <1>2, <1>3

LEMMA InitFlat ==
  ASSUME Init
  PROVE  Flat!Init
<1>1. size = 0 /\ data = <<>> /\ grown = FALSE /\ asked = <<>> /\ got = <<>>
  BY DEF Init, InitFile
<1>2. SubSeq(data, 1, size) = <<>>
  BY <1>1, SubSeqEmpty
<1> QED
  BY <1>1, <1>2 DEF Flat!Init

LEMMA StepFlat ==
  ASSUME IInv, IInv', [Next]_vars
  PROVE  [Flat!Next]_FlatVars
<1>1. CASE UNCHANGED file
  BY <1>1 DEF file, FlatVars, Content
<1>2. CASE UNCHANGED vars
  BY <1>1, <1>2 DEF vars
<1>3. CASE Next
  <2>1. ASSUME NEW p \in Procs, NEW n \in Names, NEW socket \in BOOLEAN, Creat(p, n, socket)
        PROVE  UNCHANGED file
    BY <2>1 DEF Creat
  <2>2. ASSUME NEW p \in Procs, Scan(p) \/ ScanFails(p) \/ Store(p) \/ Count(p)
        PROVE  UNCHANGED file
    BY <2>2 DEF Scan, ScanFails, Store, Count
  <2>3. ASSUME NEW off \in 0 .. MaxSize, NEW n \in 1 .. MaxSize, NEW bytes \in [1 .. n -> Bytes],
               Write(off, bytes)
        PROVE  Flat!Next
    BY <2>3, WriteFlat
  <2>4. ASSUME NEW off \in 0 .. MaxSize, NEW n \in 1 .. MaxSize, Read(off, n)
        PROVE  Flat!Next
    BY <2>4, ReadFlat
  <2>5. ASSUME NEW n \in 0 .. MaxSize, Shrink(n) \/ GrowEmpty(n) \/ Grow(n)
        PROVE  Flat!Next
    BY <2>5, ShrinkFlat, GrowFlat
  <2> QED
    BY <1>1, <1>3, <2>1, <2>2, <2>3, <2>4, <2>5 DEF Next
<1> QED
  BY <1>2, <1>3

\* tmpfs_read, tmpfs_write and tmpfs_truncate implement FlatFile: as long as truncate has not
\* made the file longer, what is read is what was written.
THEOREM Refinement == Spec => ReadsWhatWasWritten
<1>1. Init => Flat!Init
  BY InitFlat
<1>2. IInv /\ IInv' /\ [Next]_vars => [Flat!Next]_FlatVars
  BY StepFlat
<1> QED
  BY <1>1, <1>2, Invariant, PTL DEF Spec, ReadsWhatWasWritten, Flat!Spec, FlatVars, Content

=============================================================================
