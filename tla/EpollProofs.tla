------------------------------ MODULE EpollProofs ------------------------------
(***************************************************************************)
(* Machine-checked proofs about Epoll, for every set of processes and of   *)
(* descriptors and every bound: no entry is leaked or freed twice; and, if *)
(* one process makes the calls, a wait without timeout returns an event;   *)
(* and, if that process has room for all events, the assertion of a poll   *)
(* holds and the two lists implement EpollAbstract.                        *)
(***************************************************************************)
EXTENDS Epoll, FiniteSetTheorems, SequenceTheorems, WellFoundedInduction, TLAPS

\* A child may inherit the epoll, and close it, but leaves it alone otherwise.
OneCaller == \A p, q \in Callers : p = q

\* As miniterm, mimux and gt.h call it, with 16, 120 and 128 events: a wait has room for
\* each descriptor.
RoomForAll == \A n \in Batches : Cardinality(Fds) <= n

\* A process that waits holds the epoll until it is back.
WaitsSound ==
  \A p \in Procs :
    pc[p] \in {"poll", "blocked", "collect"} =>
      /\ p \in Callers /\ p \in holders /\ batch[p] \in Batches
      /\ pc[p] = "poll" => mode[p] = "poll"
      /\ pc[p] = "blocked" => mode[p] # "poll"

IInv == EntriesAccounted /\ WaitsSound

\* What ended a wait without timeout is still there when its caller looks.
ForeverSound ==
  \A p \in Procs :
    pc[p] = "collect" /\ mode[p] = "forever" =>
      \/ panicked
      \/ ready # <<>>
      \/ \E i \in DOMAIN unready : unready[i].fd \notin open[p]

\* A descriptor is in one entry of the lists.
OneEntryEach ==
  /\ \A i, j \in DOMAIN unready : unready[i].fd = unready[j].fd => i = j
  /\ \A i, j \in DOMAIN ready : ready[i].fd = ready[j].fd => i = j
  /\ \A i \in DOMAIN unready, j \in DOMAIN ready : unready[i].fd # ready[j].fd

AnswersAsked == \A i \in DOMAIN ready : ready[i].got \in ready[i].want

\* Events are in the ready list between a poll and the return to its caller.
ReadyOnlyToCollect == ready # <<>> => \E p \in Procs : pc[p] = "collect"

SetSound == ~panicked /\ OneEntryEach /\ AnswersAsked /\ ReadyOnlyToCollect

-----------------------------------------------------------------------------
(* The places of a list *)

\* A set of numbers that is not empty has a least one.
LEMMA LeastNumber ==
  ASSUME NEW S \in SUBSET Nat, S # {}
  PROVE  \E x \in S : \A y \in S : x <= y
<1>1. PICK x \in S : \A y \in S : ~ (<<y, x>> \in OpToRel(<, Nat))
  BY WFMin, NatLessThanWellFounded
<1>2. ASSUME NEW y \in S PROVE x <= y
  <2>1. x \in Nat /\ y \in Nat
    OBVIOUS
  <2>2. ~ (y < x)
    BY <1>1, <2>1 DEF OpToRel
  <2>. QED
    BY <2>1, <2>2
<1>. QED
  BY <1>2

LEMMA FirstNumbers ==
  ASSUME NEW n \in Nat
  PROVE  IsFiniteSet(1 .. n) /\ Cardinality(1 .. n) = n
BY FS_Interval

\* How many of the places are not behind n.
UpTo(S, n) == Cardinality({j \in S : j <= n})

LEMMA UpToType ==
  ASSUME NEW S \in SUBSET Nat, IsFiniteSet(S), NEW n \in Nat
  PROVE  IsFiniteSet({j \in S : j <= n}) /\ UpTo(S, n) \in 0 .. Cardinality(S) /\ Cardinality(S) \in Nat
<1>1. IsFiniteSet({j \in S : j <= n}) /\ Cardinality({j \in S : j <= n}) <= Cardinality(S)
  BY FS_Subset
<1>. QED
  BY <1>1, FS_CardinalityType DEF UpTo

\* A later place has more up to it.
LEMMA UpToGrows ==
  ASSUME NEW S \in SUBSET Nat, IsFiniteSet(S), NEW m \in S, NEW n \in S, m < n
  PROVE  UpTo(S, m) < UpTo(S, n)
<1>. DEFINE A == {j \in S : j <= m}
            B == {j \in S : j <= n}
<1>0. m \in Nat /\ n \in Nat /\ \A j \in S : j \in Nat
  OBVIOUS
<1>1. A \subseteq B /\ n \in B /\ n \notin A
  <2>1. \A j \in S : j <= m => j <= n
    BY <1>0
  <2>2. n <= n /\ ~(n <= m)
    BY <1>0
  <2>. QED
    BY <2>1, <2>2
<1>2. IsFiniteSet(A) /\ IsFiniteSet(B)
  BY <1>0, UpToType
<1>. HIDE DEF A, B
<1>3. Cardinality(A) <= Cardinality(B) /\ (Cardinality(A) = Cardinality(B) => A = B)
  BY <1>1, <1>2, FS_Subset
<1>4. Cardinality(A) \in Nat /\ Cardinality(B) \in Nat
  BY <1>2, FS_CardinalityType
<1>5. Cardinality(A) < Cardinality(B)
  BY <1>1, <1>3, <1>4
<1>. QED
  BY <1>5 DEF UpTo, A, B

LEMMA UpToDistinct ==
  ASSUME NEW S \in SUBSET Nat, IsFiniteSet(S), NEW m \in S, NEW n \in S, UpTo(S, m) = UpTo(S, n)
  PROVE  m = n
<1>1. m \in Nat /\ n \in Nat
  OBVIOUS
<1>2. UpTo(S, m) \in Nat
  <2>1. UpTo(S, m) \in 0 .. Cardinality(S) /\ Cardinality(S) \in Nat
    BY <1>1, UpToType
  <2>. QED
    BY <2>1
<1>3. ~(m < n) /\ ~(n < m)
  BY <1>2, UpToGrows
<1>. QED
  BY <1>1, <1>3

\* Every number up to that of all places is that of one of them.
LEMMA UpToOnto ==
  ASSUME NEW S \in SUBSET Nat, IsFiniteSet(S), NEW k \in 1 .. Cardinality(S)
  PROVE  \E n \in S : UpTo(S, n) = k
<1>. DEFINE f == [n \in S |-> UpTo(S, n)]
            T == 1 .. Cardinality(S)
<1>1. Cardinality(S) \in Nat
  BY FS_CardinalityType
<1>2. ASSUME NEW n \in S PROVE UpTo(S, n) \in T
  <2>1. n \in Nat /\ n \in {j \in S : j <= n}
    OBVIOUS
  <2>2. UpTo(S, n) \in 0 .. Cardinality(S) /\ IsFiniteSet({j \in S : j <= n})
    BY <2>1, UpToType
  <2>3. UpTo(S, n) # 0
    BY <2>1, <2>2, FS_EmptySet DEF UpTo
  <2>. QED
    BY <1>1, <2>2, <2>3
<1>3. f \in Injection(S, T)
  BY <1>2, UpToDistinct DEF Injection, IsInjective
<1>4. IsFiniteSet(T) /\ Cardinality(T) = Cardinality(S)
  BY <1>1, FirstNumbers
<1>5. f \in Surjection(S, T)
  BY <1>3, <1>4, FS_Injection
<1>. QED
  BY <1>5 DEF Surjection

\* Nth: each place has its number.
LEMMA NthIs ==
  ASSUME NEW S \in SUBSET Nat, IsFiniteSet(S), NEW k \in 1 .. Cardinality(S)
  PROVE  Nth(S, k) \in S /\ UpTo(S, Nth(S, k)) = k
BY UpToOnto DEF Nth, UpTo

LEMMA NthOnto ==
  ASSUME NEW S \in SUBSET Nat, IsFiniteSet(S), NEW n \in S
  PROVE  \E k \in 1 .. Cardinality(S) : Nth(S, k) = n
<1>. DEFINE k == UpTo(S, n)
<1>1. n \in Nat /\ n \in {j \in S : j <= n}
  OBVIOUS
<1>2. k \in 0 .. Cardinality(S) /\ IsFiniteSet({j \in S : j <= n}) /\ Cardinality(S) \in Nat
  BY <1>1, UpToType
<1>3. k # 0
  BY <1>1, <1>2, FS_EmptySet DEF UpTo
<1>4. k \in 1 .. Cardinality(S)
  BY <1>2, <1>3
<1>5. Nth(S, k) \in S /\ UpTo(S, Nth(S, k)) = UpTo(S, n)
  BY <1>4, NthIs
<1>6. Nth(S, k) = n
  <2>. HIDE DEF k
  <2>1. PICK m \in S : m = Nth(S, k) /\ UpTo(S, m) = UpTo(S, n)
    BY <1>5
  <2>2. m = n
    BY <2>1, UpToDistinct
  <2>. QED
    BY <2>1, <2>2
<1>. QED
  BY <1>4, <1>6

\* Selected: the entries at the places, each once.
LEMMA SelectedIs ==
  ASSUME NEW E, NEW s \in Seq(E), NEW S \in SUBSET DOMAIN s
  PROVE  /\ IsFiniteSet(S) /\ Cardinality(S) \in Nat
         /\ Selected(s, S) \in Seq(E) /\ Len(Selected(s, S)) = Cardinality(S)
         /\ DOMAIN Selected(s, S) = 1 .. Cardinality(S)
         /\ \A k \in 1 .. Cardinality(S) : Nth(S, k) \in S /\ Selected(s, S)[k] = s[Nth(S, k)]
         /\ \A k, l \in 1 .. Cardinality(S) : Nth(S, k) = Nth(S, l) => k = l
         /\ \A i \in S : \E k \in 1 .. Cardinality(S) : Nth(S, k) = i
<1>1. S \in SUBSET Nat /\ DOMAIN s = 1 .. Len(s) /\ Len(s) \in Nat
  OBVIOUS
<1>2. IsFiniteSet(S)
  <2>1. IsFiniteSet(1 .. Len(s)) /\ S \in SUBSET (1 .. Len(s))
    BY <1>1, FirstNumbers
  <2>. QED
    BY <2>1, FS_Subset
<1>3. Cardinality(S) \in Nat
  BY <1>2, FS_CardinalityType
<1>4. \A k \in 1 .. Cardinality(S) : Nth(S, k) \in S /\ UpTo(S, Nth(S, k)) = k
  BY <1>1, <1>2, NthIs
<1>5. \A i \in S : s[i] \in E
  BY <1>1
<1>6. Selected(s, S) \in [1 .. Cardinality(S) -> E]
  BY <1>4, <1>5 DEF Selected
<1>7. Selected(s, S) \in Seq(E) /\ Len(Selected(s, S)) = Cardinality(S)
  BY <1>3, <1>6
<1>8. \A i \in S : \E k \in 1 .. Cardinality(S) : Nth(S, k) = i
  BY <1>1, <1>2, NthOnto
<1>9. \A k, l \in 1 .. Cardinality(S) : Nth(S, k) = Nth(S, l) => k = l
  BY <1>4
<1>. QED
  BY <1>2, <1>3, <1>4, <1>6, <1>7, <1>8, <1>9 DEF Selected

-----------------------------------------------------------------------------
(* What the operations do to the lists *)

LEMMA ListTypes ==
  ASSUME TypeOK
  PROVE  /\ Len(unready) \in Nat /\ DOMAIN unready = 1 .. Len(unready)
         /\ Len(ready) \in Nat /\ DOMAIN ready = 1 .. Len(ready)
         /\ \A i \in DOMAIN unready : unready[i] \in Entry
         /\ \A i \in DOMAIN ready : ready[i] \in ReadyEntry
BY DEF TypeOK

\* epoll_find returns an entry of the descriptor if there is one.
LEMMA FindIs ==
  ASSUME TypeOK, NEW fd
  PROVE  /\ Find(fd) = 0 <=> \A i \in DOMAIN unready : unready[i].fd # fd
         /\ Find(fd) # 0 => Find(fd) \in DOMAIN unready /\ unready[Find(fd)].fd = fd
<1>. DEFINE I == {i \in 1 .. Len(unready) : unready[i].fd = fd}
<1>1. Find(fd) = IF I # {} THEN Min(I) ELSE 0
  BY DEF Find, SelectInSeq
<1>2. DOMAIN unready = 1 .. Len(unready) /\ Len(unready) \in Nat
  BY ListTypes
<1>3. I # {} => Min(I) \in I
  <2>1. I \in SUBSET Nat
    BY <1>2
  <2>. QED
    BY <2>1, LeastNumber DEF Min
<1>4. CASE I = {}
  BY <1>1, <1>2, <1>4
<1>5. CASE I # {}
  <2>1. Find(fd) \in I
    BY <1>1, <1>3, <1>5
  <2>. QED
    BY <1>2, <1>5, <2>1
<1>. QED
  BY <1>4, <1>5

\* An event that is reported was asked for.
LEMMA GotIs ==
  ASSUME TypeOK, NEW e \in Entry, Hits(e) # {}
  PROVE  Got(e) \in e.want /\ Got(e) \in Events
<1>1. e.want \in SUBSET Events /\ Hits(e) \subseteq e.want
  BY DEF Entry, Hits
<1>2. Hits(e) \subseteq {"in", "out", "hup"}
  BY <1>1, EpollAssumption
<1>3. Got(e) \in Hits(e)
  BY <1>2 DEF Got
<1>. QED
  BY <1>1, <1>3

\* Of the places of a list, some and the others are as many as there are.
LEMMA PlacesSplit ==
  ASSUME NEW n \in Nat, NEW A \in SUBSET (1 .. n)
  PROVE  Cardinality(A) + Cardinality((1 .. n) \ A) = n
<1>. DEFINE B == (1 .. n) \ A
<1>1. IsFiniteSet(1 .. n) /\ Cardinality(1 .. n) = n
  BY FirstNumbers
<1>2. IsFiniteSet(A) /\ IsFiniteSet(B)
  BY <1>1, FS_Subset, FS_Difference
<1>3. A \cup B = 1 .. n /\ A \cap B = {}
  OBVIOUS
<1>4. Cardinality(A \cup B) = Cardinality(A) + Cardinality(B) - Cardinality(A \cap B)
  BY <1>2, FS_Union
<1>5. Cardinality(A) \in Nat /\ Cardinality(B) \in Nat /\ Cardinality(A \cap B) = 0
  BY <1>2, <1>3, FS_CardinalityType, FS_EmptySet
<1>6. Cardinality(A \cup B) = n
  BY <1>1, <1>3
<1>. HIDE DEF B
<1>7. Cardinality(A) + Cardinality(B) = n
  BY <1>4, <1>5, <1>6
<1>. QED
  BY <1>7 DEF B

\* epoll_poll moves the entries with an event, each once, and leaves the others.
LEMMA PollMoves ==
  ASSUME TypeOK, NEW p \in Procs, ready = <<>>, PollLists(p)
  PROVE  /\ panicked' = panicked
         /\ unready' \in Seq(Entry) /\ ready' \in Seq(ReadyEntry)
         /\ Len(unready') + Len(ready') = Len(unready)
         /\ Firing(p) \subseteq DOMAIN unready
         /\ \A k \in DOMAIN ready' :
              /\ Nth(Firing(p), k) \in Firing(p)
              /\ ready'[k].fd = unready[Nth(Firing(p), k)].fd
              /\ ready'[k].want = unready[Nth(Firing(p), k)].want
              /\ ready'[k].got \in ready'[k].want
         /\ \A k, l \in DOMAIN ready' : Nth(Firing(p), k) = Nth(Firing(p), l) => k = l
         /\ \A i \in Firing(p) : \E k \in DOMAIN ready' : Nth(Firing(p), k) = i
         /\ \A k \in DOMAIN unready' :
              /\ Nth(DOMAIN unready \ Firing(p), k) \in DOMAIN unready \ Firing(p)
              /\ unready'[k] = unready[Nth(DOMAIN unready \ Firing(p), k)]
         /\ \A k, l \in DOMAIN unready' :
              Nth(DOMAIN unready \ Firing(p), k) = Nth(DOMAIN unready \ Firing(p), l) => k = l
         /\ \A i \in DOMAIN unready \ Firing(p) :
              \E k \in DOMAIN unready' : Nth(DOMAIN unready \ Firing(p), k) = i
<1>. DEFINE A == Firing(p)
            B == DOMAIN unready \ A
            fired == Selected(unready, A)
<1>1. /\ unready \in Seq(Entry) /\ Len(unready) \in Nat /\ DOMAIN unready = 1 .. Len(unready)
      /\ \A i \in DOMAIN unready : unready[i] \in Entry
  BY ListTypes DEF TypeOK
<1>2. A \in SUBSET DOMAIN unready /\ B \in SUBSET DOMAIN unready
  BY DEF Firing
<1>3. /\ panicked' = panicked
      /\ ready' = [i \in DOMAIN fired |->
                     [fd |-> fired[i].fd, want |-> fired[i].want, got |-> Got(fired[i])]]
      /\ unready' = Selected(unready, B)
  BY DEF PollLists
<1>4. \A i \in A : Hits(unready[i]) # {}
  BY DEF Firing, Fires
<1>. HIDE DEF A, B
<1>5. /\ Cardinality(A) \in Nat
      /\ DOMAIN fired = 1 .. Cardinality(A)
      /\ \A k \in 1 .. Cardinality(A) : Nth(A, k) \in A /\ fired[k] = unready[Nth(A, k)]
      /\ \A k, l \in 1 .. Cardinality(A) : Nth(A, k) = Nth(A, l) => k = l
      /\ \A i \in A : \E k \in 1 .. Cardinality(A) : Nth(A, k) = i
  BY <1>1, <1>2, SelectedIs
<1>6. /\ Cardinality(B) \in Nat
      /\ unready' \in Seq(Entry) /\ Len(unready') = Cardinality(B)
      /\ DOMAIN unready' = 1 .. Cardinality(B)
      /\ \A k \in 1 .. Cardinality(B) : Nth(B, k) \in B /\ unready'[k] = unready[Nth(B, k)]
      /\ \A k, l \in 1 .. Cardinality(B) : Nth(B, k) = Nth(B, l) => k = l
      /\ \A i \in B : \E k \in 1 .. Cardinality(B) : Nth(B, k) = i
  BY <1>1, <1>2, <1>3, SelectedIs
<1>. HIDE DEF fired
<1>7. /\ DOMAIN ready' = 1 .. Cardinality(A)
      /\ \A k \in 1 .. Cardinality(A) :
           ready'[k] = [fd |-> fired[k].fd, want |-> fired[k].want, got |-> Got(fired[k])]
  BY <1>3, <1>5
<1>8. ASSUME NEW k \in 1 .. Cardinality(A)
      PROVE  /\ ready'[k] \in ReadyEntry
             /\ ready'[k].fd = unready[Nth(A, k)].fd
             /\ ready'[k].want = unready[Nth(A, k)].want
             /\ ready'[k].got \in ready'[k].want
  <2>1. fired[k] \in Entry /\ Hits(fired[k]) # {} /\ fired[k] = unready[Nth(A, k)]
    BY <1>1, <1>2, <1>4, <1>5
  <2>2. Got(fired[k]) \in fired[k].want /\ Got(fired[k]) \in Events
    BY <2>1, GotIs
  <2>. QED
    BY <1>7, <2>1, <2>2 DEF Entry, ReadyEntry
<1>9. ready' \in Seq(ReadyEntry) /\ Len(ready') = Cardinality(A)
  <2>1. ready' \in [1 .. Cardinality(A) -> ReadyEntry]
    BY <1>3, <1>5, <1>7, <1>8
  <2>. QED
    BY <1>5, <2>1
<1>10. Len(unready') + Len(ready') = Len(unready)
  <2>1. Cardinality(A) + Cardinality(B) = Len(unready)
    BY <1>1, <1>2, PlacesSplit DEF B
  <2>. QED
    BY <1>5, <1>6, <1>9, <2>1
<1>. QED
  BY <1>2, <1>3, <1>5, <1>6, <1>7, <1>8, <1>9, <1>10 DEF A, B

\* sys_epoll_wait takes as many entries as there is room for, and puts them back.
LEMMA CollectMoves ==
  ASSUME TypeOK, NEW p \in Procs, Collect(p)
  PROVE  /\ Taken(p) \in 0 .. Len(ready) /\ (Taken(p) = Len(ready) \/ Taken(p) = batch[p])
         /\ unready' \in Seq(Entry) /\ Len(unready') = Len(unready) + Taken(p)
         /\ ready' \in Seq(ReadyEntry) /\ Len(ready') = Len(ready) - Taken(p)
         /\ \A i \in 1 .. Len(unready) : unready'[i] = unready[i]
         /\ \A i \in 1 .. Taken(p) :
              unready'[Len(unready) + i] = [fd |-> ready[i].fd, want |-> ready[i].want]
         /\ \A i \in 1 .. Len(ready) - Taken(p) : ready'[i] = ready[Taken(p) + i]
         /\ reply' = Reply("wait", "ok", {<<ready[i].fd, ready[i].got>> : i \in 1 .. Taken(p)})
<1>. DEFINE n == Taken(p)
            taken == SubSeq(ready, 1, n)
            back == [i \in DOMAIN taken |-> [fd |-> taken[i].fd, want |-> taken[i].want]]
<1>1. /\ Len(unready) \in Nat /\ Len(ready) \in Nat
      /\ unready \in Seq(Entry) /\ ready \in Seq(ReadyEntry)
      /\ DOMAIN ready = 1 .. Len(ready) /\ \A i \in DOMAIN ready : ready[i] \in ReadyEntry
  BY ListTypes DEF TypeOK
<1>2. n \in 0 .. Len(ready) /\ (n = Len(ready) \/ n = batch[p])
  <2>1. batch[p] \in Nat
    <3>1. batch[p] \in {0} \cup Batches
      BY DEF TypeOK
    <3>2. Batches \subseteq Nat
      BY EpollAssumption
    <3>3. {0} \cup Batches \subseteq Nat
      BY <3>2
    <3>. QED
      BY <3>1, <3>3, Zenon
  <2>2. Min({batch[p], Len(ready)}) = IF batch[p] <= Len(ready) THEN batch[p] ELSE Len(ready)
    <3>1. PICK x \in {batch[p], Len(ready)} : \A y \in {batch[p], Len(ready)} : x <= y
      BY <1>1, <2>1
    <3>2. /\ Min({batch[p], Len(ready)}) \in {batch[p], Len(ready)}
          /\ \A y \in {batch[p], Len(ready)} : Min({batch[p], Len(ready)}) <= y
      BY <3>1 DEF Min
    <3>. QED
      BY <1>1, <2>1, <3>2
  <2>. QED
    BY <1>1, <2>1, <2>2 DEF Taken
<1>3. /\ ready' = SubSeq(ready, n + 1, Len(ready))
      /\ unready' = unready \o back
      /\ reply' = Reply("wait", "ok", {<<e.fd, e.got>> : e \in ToSet(taken)})
  BY DEF Collect
<1>. HIDE DEF n
<1>11. /\ n \in Nat /\ n <= Len(ready)
      /\ \A i \in 1 .. Len(ready) : ready[i] \in ReadyEntry
  <2>1. Len(ready) \in Nat
    BY <1>1
  <2>2. n \in Nat /\ n <= Len(ready)
    BY <1>2, <2>1
  <2>. QED
    BY <1>1, <2>2
<1>4. /\ taken \in Seq(ReadyEntry) /\ Len(taken) = n /\ DOMAIN taken = 1 .. n
      /\ \A i \in 1 .. n : taken[i] = ready[i]
  <2>1. \A i \in 1 .. n : ready[i] \in ReadyEntry
    BY <1>1, <1>11
  <2>2. /\ taken \in Seq(ReadyEntry) /\ Len(taken) = IF 1 <= n THEN n - 1 + 1 ELSE 0
        /\ \A i \in 1 .. n - 1 + 1 : taken[i] = ready[1 + i - 1]
    BY <1>1, <1>11, <2>1, SubSeqProperties
  <2>. QED
    BY <1>1, <1>11, <2>2
<1>5. /\ ready' \in Seq(ReadyEntry) /\ Len(ready') = Len(ready) - n
      /\ \A i \in 1 .. Len(ready) - n : ready'[i] = ready[n + i]
  <2>1. \A i \in n + 1 .. Len(ready) : ready[i] \in ReadyEntry
    BY <1>1, <1>11
  <2>2. /\ ready' \in Seq(ReadyEntry)
        /\ Len(ready') = IF n + 1 <= Len(ready) THEN Len(ready) - (n + 1) + 1 ELSE 0
        /\ \A i \in 1 .. Len(ready) - (n + 1) + 1 : ready'[i] = ready[n + 1 + i - 1]
    BY <1>1, <1>11, <1>3, <2>1, SubSeqProperties
  <2>3. Len(ready) \in Nat /\ n \in Nat /\ n <= Len(ready)
    BY <1>1, <1>11
  <2>4. Len(ready') = Len(ready) - n
    BY <2>2, <2>3
  <2>5. ASSUME NEW i \in 1 .. Len(ready) - n PROVE ready'[i] = ready[n + i]
    <3>1. i \in 1 .. Len(ready) - (n + 1) + 1 /\ n + 1 + i - 1 = n + i
      BY <2>3
    <3>. QED
      BY <2>2, <3>1
  <2>. QED
    BY <2>2, <2>4, <2>5
<1>. HIDE DEF taken
<1>6. back \in Seq(Entry) /\ Len(back) = n
  <2>1. ASSUME NEW i \in 1 .. n
        PROVE  [fd |-> taken[i].fd, want |-> taken[i].want] \in Entry
    <3>1. taken[i] \in ReadyEntry
      BY <1>1, <1>2, <1>4
    <3>. QED
      BY <3>1 DEF ReadyEntry, Entry
  <2>2. back \in [1 .. n -> Entry]
    BY <1>4, <2>1
  <2>. QED
    BY <1>2, <2>2
<1>7. \A i \in 1 .. n : back[i] = [fd |-> ready[i].fd, want |-> ready[i].want]
  BY <1>4
<1>. HIDE DEF back
<1>8. /\ unready' \in Seq(Entry) /\ Len(unready') = Len(unready) + n
      /\ \A i \in 1 .. Len(unready) + n :
           unready'[i] = IF i <= Len(unready) THEN unready[i] ELSE back[i - Len(unready)]
  BY <1>1, <1>3, <1>6, ConcatProperties
<1>9. /\ \A i \in 1 .. Len(unready) : unready'[i] = unready[i]
      /\ \A i \in 1 .. n : unready'[Len(unready) + i] = back[i]
  BY <1>1, <1>11, <1>8
<1>10. {<<e.fd, e.got>> : e \in ToSet(taken)} = {<<ready[i].fd, ready[i].got>> : i \in 1 .. n}
  <2>1. ToSet(taken) = {ready[i] : i \in 1 .. n}
    BY <1>4 DEF ToSet
  <2>. QED
    BY <2>1
<1>. QED
  BY <1>2, <1>3, <1>5, <1>7, <1>8, <1>9, <1>10 DEF n

\* epoll_del takes one entry out.
LEMMA RemoveMoves ==
  ASSUME TypeOK, NEW k \in DOMAIN unready, unready' = RemoveAt(unready, k)
  PROVE  /\ unready' \in Seq(Entry) /\ Len(unready') = Len(unready) - 1
         /\ \A i \in 1 .. k - 1 : unready'[i] = unready[i]
         /\ \A i \in k .. Len(unready) - 1 : unready'[i] = unready[i + 1]
<1>. DEFINE before == SubSeq(unready, 1, k - 1)
            behind == SubSeq(unready, k + 1, Len(unready))
<1>1. /\ Len(unready) \in Nat /\ DOMAIN unready = 1 .. Len(unready) /\ k \in 1 .. Len(unready)
      /\ \A i \in 1 .. Len(unready) : unready[i] \in Entry
  BY ListTypes
<1>2. /\ before \in Seq(Entry) /\ Len(before) = k - 1
      /\ \A i \in 1 .. k - 1 : before[i] = unready[i]
  <2>1. \A i \in 1 .. k - 1 : unready[i] \in Entry
    BY <1>1
  <2>2. /\ before \in Seq(Entry) /\ Len(before) = IF 1 <= k - 1 THEN k - 1 - 1 + 1 ELSE 0
        /\ \A i \in 1 .. k - 1 - 1 + 1 : before[i] = unready[1 + i - 1]
    BY <1>1, <2>1, SubSeqProperties
  <2>. QED
    BY <1>1, <2>2
<1>3. /\ behind \in Seq(Entry) /\ Len(behind) = Len(unready) - k
      /\ \A i \in 1 .. Len(unready) - k : behind[i] = unready[k + i]
  <2>1. \A i \in k + 1 .. Len(unready) : unready[i] \in Entry
    BY <1>1
  <2>2. /\ behind \in Seq(Entry)
        /\ Len(behind) = IF k + 1 <= Len(unready) THEN Len(unready) - (k + 1) + 1 ELSE 0
        /\ \A i \in 1 .. Len(unready) - (k + 1) + 1 : behind[i] = unready[k + 1 + i - 1]
    BY <1>1, <2>1, SubSeqProperties
  <2>. QED
    BY <1>1, <2>2
<1>4. unready' = before \o behind
  BY DEF RemoveAt
<1>. HIDE DEF before, behind
<1>5. /\ unready' \in Seq(Entry) /\ Len(unready') = Len(before) + Len(behind)
      /\ \A i \in 1 .. Len(before) + Len(behind) :
           unready'[i] = IF i <= Len(before) THEN before[i] ELSE behind[i - Len(before)]
  BY <1>2, <1>3, <1>4, ConcatProperties
<1>6. Len(unready') = Len(unready) - 1
  BY <1>1, <1>2, <1>3, <1>5
<1>7. \A i \in 1 .. k - 1 : unready'[i] = unready[i]
  BY <1>1, <1>2, <1>3, <1>5
<1>8. ASSUME NEW i \in k .. Len(unready) - 1 PROVE unready'[i] = unready[i + 1]
  <2>1. unready'[i] = behind[i - (k - 1)] /\ i - (k - 1) \in 1 .. Len(unready) - k
    BY <1>1, <1>2, <1>3, <1>5
  <2>2. behind[i - (k - 1)] = unready[k + (i - (k - 1))]
    BY <1>3, <2>1
  <2>3. k + (i - (k - 1)) = i + 1
    BY <1>1
  <2>. QED
    BY <2>1, <2>2, <2>3
<1>. QED
  BY <1>5, <1>6, <1>7, <1>8

-----------------------------------------------------------------------------
(* The inductive invariant *)

LEMMA InitIInv == Init => IInv
<1>. SUFFICES ASSUME Init
              PROVE  IInv
  OBVIOUS
<1>1. First \in Procs
  BY EpollAssumption
<1>2. unready \in Seq(Entry) /\ ready \in Seq(ReadyEntry) /\ Len(unready) = 0 /\ Len(ready) = 0
  BY DEF Init
<1>3. TypeOK
  BY <1>1, <1>2 DEF Init, TypeOK, Modes
<1>. QED
  BY <1>2, <1>3 DEF Init, IInv, EntriesAccounted, WaitsSound

\* epoll_ctl
LEMMA AddAccounted ==
  ASSUME EntriesAccounted, NEW p \in Procs, NEW fd \in Fds, NEW want \in SUBSET Events,
         Add(p, fd, want)
  PROVE  EntriesAccounted'
<1>1. CASE UNCHANGED <<unready, allocated>>
  BY <1>1 DEF Add, EntriesAccounted, TypeOK, env, thread
<1>2. CASE /\ unready' = Append(unready, [fd |-> fd, want |-> want])
           /\ allocated' = allocated + 1
  <2>1. [fd |-> fd, want |-> want] \in Entry /\ unready \in Seq(Entry)
    BY DEF Entry, EntriesAccounted, TypeOK
  <2>2. unready' \in Seq(Entry) /\ Len(unready') = Len(unready) + 1
    BY <1>2, <2>1, AppendProperties
  <2>3. TypeOK'
    BY <1>2, <2>2 DEF Add, EntriesAccounted, TypeOK, env, thread
  <2>4. Len(unready) \in Nat /\ Len(ready) \in Nat /\ Len(ready') = Len(ready)
    BY ListTypes DEF Add, EntriesAccounted
  <2>. QED
    BY <1>2, <2>2, <2>3, <2>4 DEF EntriesAccounted
<1>. QED
  BY <1>1, <1>2 DEF Add

LEMMA ModAccounted ==
  ASSUME EntriesAccounted, NEW p \in Procs, NEW fd \in Fds, NEW want \in SUBSET Events,
         Mod(p, fd, want)
  PROVE  EntriesAccounted'
<1>1. unready' \in Seq(Entry) /\ Len(unready') = Len(unready)
  <2>1. CASE Find(fd) = 0
    BY <2>1 DEF Mod, EntriesAccounted, TypeOK
  <2>2. CASE Find(fd) # 0
    <3>1. Find(fd) \in DOMAIN unready /\ unready[Find(fd)] \in Entry
      BY <2>2, FindIs, ListTypes DEF EntriesAccounted
    <3>2. unready' = [unready EXCEPT ![Find(fd)] = [unready[Find(fd)] EXCEPT !.want = want]]
      BY <2>2 DEF Mod
    <3>3. [unready[Find(fd)] EXCEPT !.want = want] \in Entry
      BY <3>1 DEF Entry
    <3>. QED
      BY <3>1, <3>2, <3>3, ExceptSeq DEF EntriesAccounted, TypeOK
  <2>. QED
    BY <2>1, <2>2
<1>. QED
  BY <1>1 DEF Mod, EntriesAccounted, TypeOK, env, thread

LEMMA DelAccounted ==
  ASSUME EntriesAccounted, NEW p \in Procs, NEW fd \in Fds, Del(p, fd)
  PROVE  EntriesAccounted'
<1>1. CASE Find(fd) = 0
  BY <1>1 DEF Del, EntriesAccounted, TypeOK, env, thread
<1>2. CASE Find(fd) # 0
  <2>1. Find(fd) \in DOMAIN unready
    BY <1>2, FindIs DEF EntriesAccounted
  <2>2. unready' = RemoveAt(unready, Find(fd)) /\ allocated' = allocated - 1
    BY <1>2 DEF Del
  <2>3. unready' \in Seq(Entry) /\ Len(unready') = Len(unready) - 1
    BY <2>1, <2>2, RemoveMoves DEF EntriesAccounted
  <2>4. /\ Len(unready) \in Nat /\ Len(ready) \in Nat /\ Len(unready) > 0
        /\ ready' = ready /\ allocated = Len(unready) + Len(ready)
    BY <2>1, ListTypes DEF Del, EntriesAccounted
  <2>5. allocated' \in Nat /\ allocated' = Len(unready') + Len(ready')
    BY <2>2, <2>3, <2>4
  <2>6. TypeOK'
    BY <2>3, <2>5 DEF Del, EntriesAccounted, TypeOK, env, thread
  <2>. QED
    BY <2>5, <2>6 DEF EntriesAccounted
<1>. QED
  BY <1>1, <1>2

\* epoll_poll and what follows it
LEMMA PollAccounted ==
  ASSUME EntriesAccounted, NEW p \in Procs, Poll(p) \/ Resolve(p)
  PROVE  EntriesAccounted'
<1>1. /\ PollLists(p) /\ pc' = [pc EXCEPT ![p] = "collect"]
      /\ UNCHANGED <<holders, open, cond, allocated, mode, batch>>
  BY DEF Poll, Resolve, Goto, env
<1>2. /\ unready' \in Seq(Entry) /\ ready' \in Seq(ReadyEntry) /\ panicked' \in BOOLEAN
      /\ Len(unready') + Len(ready') = Len(unready) + Len(ready)
  <2>1. CASE ready = <<>>
    <3>1. Len(ready) = 0 /\ Len(unready) \in Nat
      BY <2>1, ListTypes DEF EntriesAccounted
    <3>2. TypeOK /\ allocated = Len(unready) + Len(ready)
      BY DEF EntriesAccounted
    <3>3. /\ unready' \in Seq(Entry) /\ ready' \in Seq(ReadyEntry) /\ panicked' = panicked
          /\ Len(unready') + Len(ready') = Len(unready)
      BY <1>1, <2>1, <3>2, PollMoves
    <3>4. panicked \in BOOLEAN
      BY <3>2 DEF TypeOK
    <3>. QED
      BY <3>1, <3>3, <3>4
  <2>2. CASE ready # <<>>
    BY <1>1, <2>2 DEF PollLists, EntriesAccounted, TypeOK
  <2>. QED
    BY <2>1, <2>2
<1>. QED
  BY <1>1, <1>2 DEF EntriesAccounted, TypeOK

LEMMA CollectAccounted ==
  ASSUME EntriesAccounted, NEW p \in Procs, Collect(p)
  PROVE  EntriesAccounted'
<1>1. /\ Taken(p) \in 0 .. Len(ready)
      /\ unready' \in Seq(Entry) /\ Len(unready') = Len(unready) + Taken(p)
      /\ ready' \in Seq(ReadyEntry) /\ Len(ready') = Len(ready) - Taken(p)
  BY CollectMoves DEF EntriesAccounted
<1>2. Len(unready) \in Nat /\ Len(ready) \in Nat
  BY ListTypes DEF EntriesAccounted
<1>3. Len(unready') + Len(ready') = Len(unready) + Len(ready)
  BY <1>1, <1>2
<1>. QED
  BY <1>1, <1>3 DEF Collect, Goto, EntriesAccounted, TypeOK, env

\* epoll_cleanup frees each entry once.
LEMMA CloseAccounted ==
  ASSUME EntriesAccounted, NEW p \in Procs, Close(p)
  PROVE  EntriesAccounted'
<1>1. CASE holders = {p}
  <2>1. allocated' = allocated - Len(unready) - Len(ready) /\ unready' = <<>> /\ ready' = <<>>
    BY <1>1 DEF Close, Cleanup
  <2>2. Len(unready) \in Nat /\ Len(ready) \in Nat /\ allocated = Len(unready) + Len(ready)
    BY ListTypes DEF EntriesAccounted
  <2>3. allocated' = 0 /\ Len(unready') = 0 /\ Len(ready') = 0
    BY <2>1, <2>2
  <2>4. unready' \in Seq(Entry) /\ ready' \in Seq(ReadyEntry)
    BY <2>1
  <2>. QED
    BY <2>3, <2>4 DEF Close, EntriesAccounted, TypeOK, env, thread
<1>2. CASE holders # {p}
  BY <1>2 DEF Close, EntriesAccounted, TypeOK, env, thread, lists
<1>. QED
  BY <1>1, <1>2

ThreadTypes ==
  /\ pc \in [Procs -> {"none", "user", "poll", "blocked", "collect"}]
  /\ mode \in [Procs -> Modes] /\ batch \in [Procs -> {0} \cup Batches]

\* The steps that leave the lists alone.
LEMMA QuietAccounted ==
  ASSUME EntriesAccounted, NEW p \in Procs,
         \/ Expire(p) \/ Create(p)
         \/ \E m \in Modes, n \in Batches : Wait(p, m, n)
         \/ \E fd \in Fds : OpenFd(p, fd) \/ CloseFd(p, fd)
         \/ \E q \in Procs : Fork(p, q)
         \/ \E fd \in Fds, ev \in Events : Change(fd, ev)
  PROVE  EntriesAccounted'
<1>1. UNCHANGED lists
  BY DEF Expire, Create, Wait, OpenFd, CloseFd, Fork, Change
<1>2. holders' \in SUBSET Procs /\ panicked' \in BOOLEAN
  BY DEF Expire, Create, Wait, OpenFd, CloseFd, Fork, Change, EntriesAccounted, TypeOK
<1>3. open' \in [Procs -> SUBSET Fds]
  <2>1. open \in [Procs -> SUBSET Fds]
    BY DEF EntriesAccounted, TypeOK
  <2>2. ASSUME NEW fd \in Fds, OpenFd(p, fd) \/ CloseFd(p, fd)
        PROVE  open' \in [Procs -> SUBSET Fds]
    BY <2>1, <2>2 DEF OpenFd, CloseFd
  <2>3. ASSUME NEW q \in Procs, Fork(p, q)
        PROVE  open' \in [Procs -> SUBSET Fds]
    BY <2>1, <2>3 DEF Fork
  <2>. QED
    BY <2>1, <2>2, <2>3 DEF Expire, Create, Wait, Change, env
<1>4. cond' \in [Fds -> SUBSET Events]
  <2>1. CASE UNCHANGED cond
    BY <2>1 DEF EntriesAccounted, TypeOK
  <2>2. ASSUME NEW fd \in Fds, NEW ev \in Events, Change(fd, ev)
        PROVE  cond' \in [Fds -> SUBSET Events]
    BY <2>2 DEF Change, SymDiff, EntriesAccounted, TypeOK
  <2>. QED
    BY <2>1, <2>2 DEF Expire, Create, Wait, OpenFd, CloseFd, Fork, env
<1>5. ThreadTypes'
  <2>1. CASE UNCHANGED thread
    BY <2>1 DEF EntriesAccounted, TypeOK, ThreadTypes, thread
  <2>2. ASSUME NEW m \in Modes, NEW n \in Batches, Wait(p, m, n)
        PROVE  ThreadTypes'
    BY <2>2 DEF Wait, EntriesAccounted, TypeOK, ThreadTypes
  <2>3. CASE Expire(p)
    BY <2>3 DEF Expire, Goto, EntriesAccounted, TypeOK, ThreadTypes
  <2>4. ASSUME NEW q \in Procs, Fork(p, q)
        PROVE  ThreadTypes'
    BY <2>4 DEF Fork, EntriesAccounted, TypeOK, ThreadTypes
  <2>. QED
    BY <2>1, <2>2, <2>3, <2>4 DEF Create, OpenFd, CloseFd, Change
<1>. QED
  BY <1>1, <1>2, <1>3, <1>4, <1>5 DEF lists, EntriesAccounted, TypeOK, ThreadTypes

LEMMA WaitsStep ==
  ASSUME IInv, Next
  PROVE  WaitsSound'
<1>1. PICK p \in Procs :
        \/ Step(p)
        \/ \E fd \in Fds, want \in SUBSET Events : Add(p, fd, want) \/ Mod(p, fd, want)
        \/ \E fd \in Fds : Del(p, fd) \/ OpenFd(p, fd) \/ CloseFd(p, fd)
        \/ \E m \in Modes, max \in Batches : Wait(p, m, max)
        \/ Close(p) \/ Create(p)
        \/ \E q \in Procs : Fork(p, q)
        \/ \E fd \in Fds, ev \in Events : Change(fd, ev)
  BY EpollAssumption DEF Next
<1>2. CASE UNCHANGED <<holders, thread>>
  BY <1>2 DEF IInv, WaitsSound, thread
<1>3. CASE Step(p)
  BY <1>3 DEF Step, Poll, Resolve, Expire, Collect, Goto, At, IInv, WaitsSound, EntriesAccounted, TypeOK
<1>4. ASSUME NEW m \in Modes, NEW n \in Batches, Wait(p, m, n)
      PROVE  WaitsSound'
  BY <1>4 DEF Wait, Uses, Calls, At, IInv, WaitsSound, EntriesAccounted, TypeOK
<1>5. CASE Close(p)
  BY <1>5 DEF Close, Calls, At, thread, IInv, WaitsSound, EntriesAccounted, TypeOK
<1>6. CASE Create(p)
  BY <1>6 DEF Create, thread, IInv, WaitsSound
<1>7. ASSUME NEW q \in Procs, Fork(p, q)
      PROVE  WaitsSound'
  BY <1>7 DEF Fork, IInv, WaitsSound, EntriesAccounted, TypeOK
<1>. QED
  BY <1>1, <1>2, <1>3, <1>4, <1>5, <1>6, <1>7 DEF Add, Mod, Del, OpenFd, CloseFd, Change

LEMMA NextIInv == IInv /\ [Next]_vars => IInv'
<1>1. CASE UNCHANGED vars /\ IInv
  BY <1>1 DEF vars, env, lists, thread, IInv, EntriesAccounted, TypeOK, WaitsSound
<1>2. ASSUME IInv, Next PROVE IInv'
  <2>1. EntriesAccounted'
    BY <1>2, AddAccounted, ModAccounted, DelAccounted, PollAccounted, CollectAccounted,
       CloseAccounted, QuietAccounted, EpollAssumption DEF Next, Step, IInv
  <2>. QED
    BY <1>2, <2>1, WaitsStep DEF IInv
<1>. QED
  BY <1>1, <1>2

-----------------------------------------------------------------------------
(* One process makes the calls *)

Acts(p) ==
  \/ Step(p)
  \/ \E fd \in Fds, want \in SUBSET Events : Add(p, fd, want) \/ Mod(p, fd, want)
  \/ \E fd \in Fds : Del(p, fd) \/ OpenFd(p, fd) \/ CloseFd(p, fd)
  \/ \E m \in Modes, max \in Batches : Wait(p, m, max)
  \/ Close(p) \/ Create(p)
  \/ \E q \in Procs : Fork(p, q)

LEMMA NextActs ==
  Next => (\E p \in Procs : Acts(p)) \/ (\E fd \in Fds, ev \in Events : Change(fd, ev))
BY DEF Next, Acts

\* While a process waits, what another one can do is close the epoll, which is not
\* released then, and fork.
LEMMA WhileWaiting ==
  ASSUME OneCaller, IInv, NEW p \in Procs, pc[p] \in {"poll", "blocked", "collect"}, Next
  PROVE  \/ Step(p)
         \/ /\ UNCHANGED <<lists, thread, env, panicked>>
            /\ reply' = reply
         \/ /\ UNCHANGED <<lists, open, thread, panicked, reply>>
         \/ /\ UNCHANGED <<lists, mode, batch, panicked, reply, cond>>
            /\ \E q \in Procs : /\ pc[q] = "none" /\ pc' = [pc EXCEPT ![q] = "user"]
                                /\ \A r \in Procs \ {q} : open'[r] = open[r]
<1>1. p \in Callers /\ p \in holders
  BY DEF IInv, WaitsSound
<1>2. CASE \E fd \in Fds, ev \in Events : Change(fd, ev)
  BY <1>2 DEF Change
<1>3. ASSUME NEW q \in Procs, Acts(q), q # p
      PROVE  Close(q) \/ \E r \in Procs : Fork(q, r)
  <2>1. q \notin Callers
    BY <1>1, <1>3 DEF OneCaller
  <2>2. pc[q] \notin {"poll", "blocked", "collect"}
    BY <2>1 DEF IInv, WaitsSound
  <2>. QED
    BY <1>3, <2>1, <2>2 DEF Acts, Step, Poll, Resolve, Expire, Collect, Goto, At, Uses, Add, Mod,
       Del, OpenFd, CloseFd, Wait, Create
<1>4. ASSUME NEW q \in Procs, Acts(q), q = p
      PROVE  Step(p)
  BY <1>4 DEF Acts, Uses, Calls, At, Add, Mod, Del, OpenFd, CloseFd, Wait, Close, Create, Fork
<1>5. ASSUME NEW q \in Procs, Close(q), q # p
      PROVE  UNCHANGED <<lists, thread, env, panicked>> /\ reply' = reply
  BY <1>1, <1>5 DEF Close
<1>6. ASSUME NEW q \in Procs, NEW r \in Procs, Fork(q, r)
      PROVE  /\ UNCHANGED <<lists, mode, batch, panicked, reply, cond>>
             /\ pc[r] = "none" /\ pc' = [pc EXCEPT ![r] = "user"]
             /\ \A x \in Procs \ {r} : open'[x] = open[x]
  BY <1>6 DEF Fork, IInv, EntriesAccounted, TypeOK
<1>. QED
  BY <1>2, <1>3, <1>4, <1>5, <1>6, NextActs

\* A wait begins to collect after the poll of it that ended it.
LEMMA StartsToCollect ==
  ASSUME IInv, Next, NEW p \in Procs, pc[p] # "collect", pc'[p] = "collect"
  PROVE  Poll(p) \/ Resolve(p) \/ Expire(p)
<1>1. PICK q \in Procs : Acts(q)
  BY NextActs DEF Change, thread
<1>2. pc \in [Procs -> {"none", "user", "poll", "blocked", "collect"}]
  BY DEF IInv, EntriesAccounted, TypeOK
<1>3. CASE Step(q)
  <2>1. q = p
    BY <1>2, <1>3 DEF Step, Poll, Resolve, Expire, Collect, Goto
  <2>. QED
    BY <1>2, <1>3, <2>1 DEF Step, Collect, Goto
<1>4. CASE \E m \in Modes, max \in Batches : Wait(q, m, max)
  BY <1>2, <1>4 DEF Wait
<1>5. CASE \E r \in Procs : Fork(q, r)
  BY <1>2, <1>5 DEF Fork
<1>. QED
  BY <1>1, <1>3, <1>4, <1>5 DEF Acts, Add, Mod, Del, OpenFd, CloseFd, Close, Create, thread

LEMMA InitForever == Init => ForeverSound
BY DEF Init, ForeverSound

\* What ends a blocked wait without timeout.
LEMMA ResolveFinds ==
  ASSUME TypeOK, NEW p \in Procs, Resolve(p), ~panicked'
  PROVE  ready' # <<>> \/ \E i \in DOMAIN unready' : unready'[i].fd \notin open'[p]
<1>1. PollLists(p) /\ (Terminal(p) \/ ready # <<>>) /\ open' = open
  BY DEF Resolve, env
<1>2. ready = <<>>
  BY <1>1 DEF PollLists
<1>3. PICK i \in DOMAIN unready : unready[i].fd \notin open[p] \/ Fires(p, unready[i])
  BY <1>1, <1>2 DEF Terminal
<1>4. CASE i \in Firing(p)
  <2>1. PICK k \in DOMAIN ready' : Nth(Firing(p), k) = i
    BY <1>1, <1>2, <1>4, PollMoves
  <2>. QED
    BY <2>1
<1>5. CASE i \notin Firing(p)
  <2>1. i \in DOMAIN unready \ Firing(p) /\ unready[i].fd \notin open[p]
    BY <1>3, <1>5 DEF Firing
  <2>2. PICK k \in DOMAIN unready' : Nth(DOMAIN unready \ Firing(p), k) = i
    BY <1>1, <1>2, <2>1, PollMoves
  <2>3. unready'[k] = unready[i]
    BY <1>1, <1>2, <2>2, PollMoves
  <2>. QED
    BY <1>1, <2>1, <2>3
<1>. QED
  BY <1>4, <1>5

LEMMA ForeverStep ==
  ASSUME OneCaller, IInv, ForeverSound, [Next]_vars
  PROVE  ForeverSound'
<1>1. CASE UNCHANGED vars
  BY <1>1 DEF vars, env, lists, thread, ForeverSound
<1>2. CASE Next
  <2>. SUFFICES ASSUME NEW p \in Procs, pc'[p] = "collect", mode'[p] = "forever", ~panicked'
                PROVE  ready' # <<>> \/ \E i \in DOMAIN unready' : unready'[i].fd \notin open'[p]
    BY DEF ForeverSound
  <2>1. pc \in [Procs -> {"none", "user", "poll", "blocked", "collect"}] /\ TypeOK
    BY DEF IInv, EntriesAccounted, TypeOK
  <2>2. CASE pc[p] = "collect"
    <3>1. ~Step(p)
      BY <2>1, <2>2 DEF Step, Poll, Resolve, Expire, Collect, Goto, At
    <3>2. /\ UNCHANGED <<lists, mode, panicked>>
          /\ open'[p] = open[p]
      BY <1>2, <2>1, <2>2, <3>1, WhileWaiting DEF thread, env
    <3>. QED
      BY <2>2, <3>2 DEF ForeverSound, lists
  <2>3. CASE pc[p] # "collect"
    <3>1. Poll(p) \/ Resolve(p) \/ Expire(p)
      BY <1>2, <2>3, StartsToCollect
    <3>2. ~Poll(p) /\ ~Expire(p)
      BY DEF Poll, Expire, Goto, At, IInv, WaitsSound
    <3>. QED
      BY <2>1, <3>1, <3>2, ResolveFinds
  <2>. QED
    BY <2>2, <2>3
<1>. QED
  BY <1>1, <1>2

-----------------------------------------------------------------------------
(* The interest set *)

Interest == [fd \in Fds |-> InterestOf(fd)]

\* In one of two lists there is an entry of the descriptor for these events.
AsksIn(u, r, fd, w) ==
  \/ \E i \in DOMAIN u : u[i].fd = fd /\ u[i].want = w
  \/ \E i \in DOMAIN r : r[i].fd = fd /\ r[i].want = w

WantsIn(u, r, fd) == {e.want : e \in {x \in ToSet(u) \cup ToSet(r) : x.fd = fd}}

LEMMA WantsAre ==
  ASSUME NEW u \in Seq(Entry), NEW r \in Seq(ReadyEntry), NEW fd
  PROVE  WantsIn(u, r, fd) = {w \in SUBSET Events : AsksIn(u, r, fd, w)}
<1>1. ToSet(u) = {u[i] : i \in DOMAIN u} /\ ToSet(r) = {r[i] : i \in DOMAIN r}
  BY DEF ToSet
<1>2. \A i \in DOMAIN u : u[i].want \in SUBSET Events
  <2>1. \A i \in DOMAIN u : u[i] \in Entry
    OBVIOUS
  <2>. QED
    BY <2>1 DEF Entry
<1>3. \A i \in DOMAIN r : r[i].want \in SUBSET Events
  <2>1. \A i \in DOMAIN r : r[i] \in ReadyEntry
    OBVIOUS
  <2>. QED
    BY <2>1 DEF ReadyEntry
<1>. QED
  BY <1>1, <1>2, <1>3 DEF WantsIn, AsksIn

LEMMA InterestIs ==
  /\ \A fd : InterestOf(fd) = IF WantsIn(unready, ready, fd) = {} THEN None
                              ELSE UNION WantsIn(unready, ready, fd)
  /\ \A fd : InterestOf(fd)' = IF WantsIn(unready', ready', fd) = {} THEN None
                               ELSE UNION WantsIn(unready', ready', fd)
BY DEF InterestOf, WantsIn

\* A descriptor without an entry has no interest, one with an entry has that of its entry.
LEMMA InterestOfNone ==
  ASSUME TypeOK, NEW fd, \A w \in SUBSET Events : ~AsksIn(unready, ready, fd, w)
  PROVE  InterestOf(fd) = None
<1>1. WantsIn(unready, ready, fd) = {}
  BY WantsAre DEF TypeOK
<1>. QED
  BY <1>1, InterestIs

LEMMA InterestOfSome ==
  ASSUME TypeOK, OneEntryEach, NEW fd, NEW w \in SUBSET Events, AsksIn(unready, ready, fd, w)
  PROVE  InterestOf(fd) = w /\ InterestOf(fd) # None
<1>1. ASSUME NEW v \in SUBSET Events, AsksIn(unready, ready, fd, v)
      PROVE  v = w
  BY <1>1 DEF AsksIn, OneEntryEach
<1>2. WantsIn(unready, ready, fd) = {w}
  BY <1>1, WantsAre DEF TypeOK
<1>3. InterestOf(fd) = UNION {w}
  BY <1>2, InterestIs
<1>4. None # w
  BY EpollAssumption
<1>. QED
  BY <1>3, <1>4

\* The same lists, in this sense, are the same interest set.
LEMMA InterestKept ==
  ASSUME TypeOK, TypeOK', NEW fd,
         \A w \in SUBSET Events :
           AsksIn(unready', ready', fd, w) <=> AsksIn(unready, ready, fd, w)
  PROVE  InterestOf(fd)' = InterestOf(fd)
<1>1. WantsIn(unready, ready, fd) = {w \in SUBSET Events : AsksIn(unready, ready, fd, w)}
  BY WantsAre DEF TypeOK
<1>2. WantsIn(unready', ready', fd) = {w \in SUBSET Events : AsksIn(unready', ready', fd, w)}
  BY WantsAre DEF TypeOK
<1>3. WantsIn(unready', ready', fd) = WantsIn(unready, ready, fd)
  BY <1>1, <1>2
<1>. QED
  BY <1>3, InterestIs

\* An entry of a descriptor is added, changed or removed.
LEMMA InterestSetTo ==
  ASSUME TypeOK, TypeOK', NEW fd \in Fds, NEW want \in SUBSET Events,
         \A f \in Fds \ {fd} : \A w \in SUBSET Events :
           AsksIn(unready', ready', f, w) <=> AsksIn(unready, ready, f, w),
         \A w \in SUBSET Events : AsksIn(unready', ready', fd, w) <=> w = want
  PROVE  Interest' = [Interest EXCEPT ![fd] = want]
<1>1. \A f \in Fds \ {fd} : InterestOf(f)' = InterestOf(f)
  BY InterestKept
<1>2. InterestOf(fd)' = want
  <2>1. WantsIn(unready', ready', fd) = {w \in SUBSET Events : AsksIn(unready', ready', fd, w)}
    BY WantsAre DEF TypeOK
  <2>2. WantsIn(unready', ready', fd) = {want}
    BY <2>1
  <2>3. InterestOf(fd)' = UNION {want}
    BY <2>2, InterestIs
  <2>. QED
    BY <2>3
<1>. QED
  BY <1>1, <1>2 DEF Interest

LEMMA InterestRemoved ==
  ASSUME TypeOK, TypeOK', NEW fd \in Fds,
         \A f \in Fds \ {fd} : \A w \in SUBSET Events :
           AsksIn(unready', ready', f, w) <=> AsksIn(unready, ready, f, w),
         \A w \in SUBSET Events : ~AsksIn(unready', ready', fd, w)
  PROVE  Interest' = [Interest EXCEPT ![fd] = None]
<1>1. \A f \in Fds \ {fd} : InterestOf(f)' = InterestOf(f)
  BY InterestKept
<1>2. InterestOf(fd)' = None
  <2>1. WantsIn(unready', ready', fd) = {w \in SUBSET Events : AsksIn(unready', ready', fd, w)}
    BY WantsAre DEF TypeOK
  <2>2. WantsIn(unready', ready', fd) = {}
    BY <2>1
  <2>. QED
    BY <2>2, InterestIs
<1>. QED
  BY <1>1, <1>2 DEF Interest

\* Whoever calls while another one does not wait finds the ready list empty.
LEMMA NothingReady ==
  ASSUME OneCaller, IInv, SetSound, NEW p \in Callers, p \in Procs, pc[p] # "collect"
  PROVE  ready = <<>>
BY DEF IInv, WaitsSound, SetSound, ReadyOnlyToCollect, OneCaller

-----------------------------------------------------------------------------
(* Each operation keeps the lists sound and does what EpollAbstract says *)

LEMMA AddImplements ==
  ASSUME OneCaller, IInv, IInv', SetSound,
         NEW p \in Procs, NEW fd \in Fds, NEW want \in SUBSET Events, Add(p, fd, want)
  PROVE  SetSound' /\ Abstract!Add(fd, want)
<1>1. TypeOK /\ TypeOK' /\ OneEntryEach /\ ready = <<>> /\ ready' = <<>>
  BY NothingReady DEF IInv, EntriesAccounted, SetSound, Add, Uses, Calls, At
<1>2. /\ Len(unready) \in Nat /\ DOMAIN unready = 1 .. Len(unready) /\ unready \in Seq(Entry)
      /\ \A i \in DOMAIN unready : unready[i] \in Entry
  BY <1>1, ListTypes DEF TypeOK
<1>3. UNCHANGED <<pc, panicked>>
  BY DEF Add, thread
<1>4. CASE /\ Find(fd) = 0 /\ unready' = Append(unready, [fd |-> fd, want |-> want])
           /\ reply' = Reply("add", "ok", {})
  <2>. DEFINE new == [fd |-> fd, want |-> want]
  <2>1. new \in Entry
    BY DEF Entry
  <2>2. /\ Len(unready') = Len(unready) + 1 /\ DOMAIN unready' = 1 .. Len(unready) + 1
        /\ \A i \in 1 .. Len(unready) : unready'[i] = unready[i]
        /\ unready'[Len(unready) + 1] = new
    BY <1>2, <1>4, <2>1, AppendProperties
  <2>3. new.fd = fd /\ new.want = want
    OBVIOUS
  <2>. HIDE DEF new
  <2>4. \A i \in DOMAIN unready : unready[i].fd # fd
    BY <1>1, <1>4, FindIs
  <2>5. OneEntryEach'
    <3>1. ASSUME NEW i \in DOMAIN unready', NEW j \in DOMAIN unready', unready'[i].fd = unready'[j].fd
          PROVE  i = j
      BY <1>1, <1>2, <2>2, <2>3, <2>4, <3>1 DEF OneEntryEach
    <3>. QED
      BY <1>1, <3>1 DEF OneEntryEach
  <2>6. \A f \in Fds, w \in SUBSET Events :
          AsksIn(unready', ready', f, w) <=> AsksIn(unready, ready, f, w) \/ (f = fd /\ w = want)
    BY <1>1, <1>2, <2>2, <2>3 DEF AsksIn
  <2>7. \A w \in SUBSET Events : ~AsksIn(unready, ready, fd, w)
    BY <1>1, <2>4 DEF AsksIn
  <2>8. Interest' = [Interest EXCEPT ![fd] = want]
    BY <1>1, <2>6, <2>7, InterestSetTo
  <2>9. InterestOf(fd) = None
    BY <1>1, <2>7, InterestOfNone
  <2>. QED
    BY <1>1, <1>3, <1>4, <2>5, <2>8, <2>9 DEF SetSound, AnswersAsked, ReadyOnlyToCollect,
       Abstract!Add, Abstract!Set, Abstract!Reply, Reply, Interest
<1>5. ASSUME unready' = unready
      PROVE  SetSound' /\ Interest' = Interest
  BY <1>1, <1>3, <1>5 DEF SetSound, OneEntryEach, AnswersAsked, ReadyOnlyToCollect,
     Interest, InterestOf
<1>6. CASE Find(fd) # 0 /\ unready' = unready /\ reply' = Reply("add", "exists", {})
  <2>1. Find(fd) \in DOMAIN unready /\ unready[Find(fd)].fd = fd
    BY <1>1, <1>6, FindIs
  <2>2. unready[Find(fd)].want \in SUBSET Events
    BY <1>2, <2>1 DEF Entry
  <2>3. AsksIn(unready, ready, fd, unready[Find(fd)].want)
    BY <2>1 DEF AsksIn
  <2>4. InterestOf(fd) # None
    BY <1>1, <2>2, <2>3, InterestOfSome
  <2>. QED
    BY <1>5, <1>6, <2>4 DEF Abstract!Add, Abstract!Reply, Reply, Interest
<1>7. CASE unready' = unready /\ reply' = Reply("add", "nomem", {})
  BY <1>5, <1>7 DEF Abstract!Add, Abstract!Reply, Reply, Interest
<1>. QED
  BY <1>4, <1>6, <1>7 DEF Add

LEMMA ModImplements ==
  ASSUME OneCaller, IInv, IInv', SetSound,
         NEW p \in Procs, NEW fd \in Fds, NEW want \in SUBSET Events, Mod(p, fd, want)
  PROVE  SetSound' /\ Abstract!Mod(fd, want)
<1>1. TypeOK /\ TypeOK' /\ OneEntryEach /\ ready = <<>> /\ ready' = <<>>
  BY NothingReady DEF IInv, EntriesAccounted, SetSound, Mod, Uses, Calls, At
<1>2. /\ Len(unready) \in Nat /\ DOMAIN unready = 1 .. Len(unready) /\ unready \in Seq(Entry)
      /\ \A i \in DOMAIN unready : unready[i] \in Entry
  BY <1>1, ListTypes DEF TypeOK
<1>3. UNCHANGED <<pc, panicked>>
  BY DEF Mod, thread
<1>4. CASE Find(fd) = 0
  <2>1. unready' = unready /\ reply' = Reply("mod", "notfound", {})
    BY <1>4 DEF Mod
  <2>2. \A w \in SUBSET Events : ~AsksIn(unready, ready, fd, w)
    BY <1>1, <1>4, FindIs DEF AsksIn
  <2>3. InterestOf(fd) = None
    BY <1>1, <2>2, InterestOfNone
  <2>4. SetSound' /\ Interest' = Interest
    BY <1>1, <1>3, <2>1 DEF SetSound, OneEntryEach, AnswersAsked, ReadyOnlyToCollect,
       Interest, InterestOf
  <2>. QED
    BY <2>1, <2>3, <2>4 DEF Abstract!Mod, Abstract!Reply, Reply, Interest
<1>5. CASE Find(fd) # 0
  <2>. DEFINE k == Find(fd)
              new == [unready[k] EXCEPT !.want = want]
  <2>1. k \in DOMAIN unready /\ unready[k].fd = fd
    BY <1>1, <1>5, FindIs
  <2>2. unready' = [unready EXCEPT ![k] = new] /\ reply' = Reply("mod", "ok", {})
    BY <1>5 DEF Mod
  <2>. HIDE DEF k
  <2>3. new \in Entry /\ new.fd = fd /\ new.want = want /\ unready[k].want \in SUBSET Events
    BY <1>2, <2>1 DEF Entry
  <2>. HIDE DEF new
  <2>4. /\ DOMAIN unready' = DOMAIN unready
        /\ \A i \in DOMAIN unready : unready'[i] = IF i = k THEN new ELSE unready[i]
    BY <1>2, <2>1, <2>2
  <2>5. OneEntryEach'
    BY <1>1, <2>1, <2>3, <2>4 DEF OneEntryEach
  <2>6. \A i \in DOMAIN unready : unready[i].fd = fd => i = k
    BY <1>1, <2>1 DEF OneEntryEach
  <2>7. \A f \in Fds \ {fd} : \A w \in SUBSET Events :
          AsksIn(unready', ready', f, w) <=> AsksIn(unready, ready, f, w)
    BY <1>1, <2>1, <2>3, <2>4, <2>6 DEF AsksIn
  <2>8. \A w \in SUBSET Events : AsksIn(unready', ready', fd, w) <=> w = want
    BY <1>1, <2>1, <2>3, <2>4, <2>6 DEF AsksIn
  <2>9. Interest' = [Interest EXCEPT ![fd] = want]
    BY <1>1, <2>7, <2>8, InterestSetTo
  <2>10. InterestOf(fd) # None
    <3>1. AsksIn(unready, ready, fd, unready[k].want)
      BY <2>1 DEF AsksIn
    <3>. QED
      BY <1>1, <2>3, <3>1, InterestOfSome
  <2>. QED
    BY <1>1, <1>3, <2>2, <2>5, <2>9, <2>10 DEF SetSound, AnswersAsked, ReadyOnlyToCollect,
       Abstract!Mod, Abstract!Set, Abstract!Reply, Reply, Interest
<1>. QED
  BY <1>4, <1>5

LEMMA DelImplements ==
  ASSUME OneCaller, IInv, IInv', SetSound, NEW p \in Procs, NEW fd \in Fds, Del(p, fd)
  PROVE  SetSound' /\ Abstract!Del(fd)
<1>1. TypeOK /\ TypeOK' /\ OneEntryEach /\ ready = <<>> /\ ready' = <<>>
  BY NothingReady DEF IInv, EntriesAccounted, SetSound, Del, Uses, Calls, At
<1>2. /\ Len(unready) \in Nat /\ DOMAIN unready = 1 .. Len(unready)
      /\ Len(unready') \in Nat /\ DOMAIN unready' = 1 .. Len(unready')
      /\ \A i \in DOMAIN unready : unready[i] \in Entry
  <2>1. TypeOK
    BY <1>1
  <2>2. unready' \in Seq(Entry)
    BY <1>1 DEF TypeOK
  <2>. QED
    BY <2>1, <2>2, ListTypes
<1>3. UNCHANGED <<pc, panicked>>
  BY DEF Del, thread
<1>4. CASE Find(fd) = 0
  <2>1. unready' = unready /\ reply' = Reply("del", "notfound", {})
    BY <1>4 DEF Del
  <2>2. \A w \in SUBSET Events : ~AsksIn(unready, ready, fd, w)
    BY <1>1, <1>4, FindIs DEF AsksIn
  <2>3. InterestOf(fd) = None
    BY <1>1, <2>2, InterestOfNone
  <2>4. SetSound' /\ Interest' = Interest
    BY <1>1, <1>3, <2>1 DEF SetSound, OneEntryEach, AnswersAsked, ReadyOnlyToCollect,
       Interest, InterestOf
  <2>. QED
    BY <2>1, <2>3, <2>4 DEF Abstract!Del, Abstract!Reply, Reply, Interest
<1>5. CASE Find(fd) # 0
  <2>. DEFINE k == Find(fd)
  <2>1. k \in DOMAIN unready /\ unready[k].fd = fd
    BY <1>1, <1>5, FindIs
  <2>2. unready' = RemoveAt(unready, k) /\ reply' = Reply("del", "ok", {})
    BY <1>5 DEF Del
  <2>. HIDE DEF k
  <2>3. /\ Len(unready') = Len(unready) - 1
        /\ \A i \in 1 .. k - 1 : unready'[i] = unready[i]
        /\ \A i \in k .. Len(unready) - 1 : unready'[i] = unready[i + 1]
    BY <1>1, <2>1, <2>2, RemoveMoves
  <2>. DEFINE from(i) == IF i < k THEN i ELSE i + 1
  <2>4. /\ \A i \in DOMAIN unready' :
              from(i) \in DOMAIN unready \ {k} /\ unready'[i] = unready[from(i)]
        /\ \A i, j \in DOMAIN unready' : from(i) = from(j) => i = j
        /\ \A j \in DOMAIN unready \ {k} : \E i \in DOMAIN unready' : from(i) = j
    <3>1. ASSUME NEW j \in DOMAIN unready \ {k}
          PROVE  \E i \in DOMAIN unready' : from(i) = j
      <4>1. CASE j < k
        <5>1. j \in DOMAIN unready' /\ from(j) = j
          BY <1>2, <2>1, <2>3, <4>1
        <5>. QED
          BY <5>1
      <4>2. CASE ~(j < k)
        <5>1. j - 1 \in DOMAIN unready' /\ from(j - 1) = j
          BY <1>2, <2>1, <2>3, <4>2
        <5>. QED
          BY <5>1
      <4>. QED
        BY <4>1, <4>2
    <3>2. ASSUME NEW i \in DOMAIN unready'
          PROVE  from(i) \in DOMAIN unready \ {k} /\ unready'[i] = unready[from(i)]
      BY <1>2, <2>1, <2>3
    <3>3. \A i, j \in DOMAIN unready' : from(i) = from(j) => i = j
      BY <1>2, <2>1, <2>3
    <3>. QED
      BY <3>1, <3>2, <3>3
  <2>. HIDE DEF from
  <2>5. OneEntryEach'
    <3>1. ASSUME NEW i \in DOMAIN unready', NEW j \in DOMAIN unready', unready'[i].fd = unready'[j].fd
          PROVE  i = j
      BY <1>1, <2>4, <3>1 DEF OneEntryEach
    <3>. QED
      BY <1>1, <3>1 DEF OneEntryEach
  <2>6. \A i \in DOMAIN unready : unready[i].fd = fd => i = k
    BY <1>1, <2>1 DEF OneEntryEach
  <2>7. ASSUME NEW f \in Fds \ {fd}, NEW w \in SUBSET Events
        PROVE  AsksIn(unready', ready', f, w) <=> AsksIn(unready, ready, f, w)
    <3>1. ASSUME NEW i \in DOMAIN unready, unready[i].fd = f, unready[i].want = w
          PROVE  \E j \in DOMAIN unready' : unready'[j].fd = f /\ unready'[j].want = w
      <4>1. PICK j \in DOMAIN unready' : from(j) = i
        BY <2>1, <2>4, <3>1
      <4>. QED
        BY <2>4, <3>1, <4>1
    <3>2. ASSUME NEW j \in DOMAIN unready', unready'[j].fd = f, unready'[j].want = w
          PROVE  \E i \in DOMAIN unready : unready[i].fd = f /\ unready[i].want = w
      BY <2>4, <3>2
    <3>. QED
      BY <1>1, <3>1, <3>2 DEF AsksIn
  <2>8. \A w \in SUBSET Events : ~AsksIn(unready', ready', fd, w)
    BY <1>1, <2>4, <2>6 DEF AsksIn
  <2>9. Interest' = [Interest EXCEPT ![fd] = None]
    BY <1>1, <2>7, <2>8, InterestRemoved
  <2>10. InterestOf(fd) # None
    <3>1. AsksIn(unready, ready, fd, unready[k].want) /\ unready[k].want \in SUBSET Events
      BY <1>2, <2>1 DEF AsksIn, Entry
    <3>. QED
      BY <1>1, <3>1, InterestOfSome
  <2>. QED
    BY <1>1, <1>3, <2>2, <2>5, <2>9, <2>10 DEF SetSound, AnswersAsked, ReadyOnlyToCollect,
       Abstract!Del, Abstract!Set, Abstract!Reply, Reply, Interest
<1>. QED
  BY <1>4, <1>5

\* A poll finds the assertion true, and moves entries that stay in the interest set.
LEMMA PollImplements ==
  ASSUME OneCaller, IInv, IInv', SetSound, NEW p \in Procs, Poll(p) \/ Resolve(p)
  PROVE  SetSound' /\ UNCHANGED Abstract!vars
<1>1. TypeOK /\ TypeOK' /\ OneEntryEach /\ p \in Callers /\ ready = <<>>
  <2>1. pc[p] \in {"poll", "blocked"}
    BY DEF Poll, Resolve, Goto, At
  <2>. QED
    BY <2>1, NothingReady DEF IInv, WaitsSound, EntriesAccounted, SetSound
<1>2. PollLists(p) /\ pc' = [pc EXCEPT ![p] = "collect"] /\ reply' = reply
  BY DEF Poll, Resolve, Goto
<1>. DEFINE A == Firing(p)
            B == DOMAIN unready \ Firing(p)
<1>3. /\ panicked' = panicked
      /\ A \subseteq DOMAIN unready
      /\ \A k \in DOMAIN ready' :
           /\ Nth(A, k) \in A
           /\ ready'[k].fd = unready[Nth(A, k)].fd
           /\ ready'[k].want = unready[Nth(A, k)].want
           /\ ready'[k].got \in ready'[k].want
      /\ \A k, l \in DOMAIN ready' : Nth(A, k) = Nth(A, l) => k = l
      /\ \A i \in A : \E k \in DOMAIN ready' : Nth(A, k) = i
  BY <1>1, <1>2, PollMoves
<1>4. /\ \A k \in DOMAIN unready' : Nth(B, k) \in B /\ unready'[k] = unready[Nth(B, k)]
      /\ \A k, l \in DOMAIN unready' : Nth(B, k) = Nth(B, l) => k = l
      /\ \A i \in B : \E k \in DOMAIN unready' : Nth(B, k) = i
  BY <1>1, <1>2, PollMoves
<1>5. A \cap B = {} /\ DOMAIN unready = A \cup B
  BY <1>3
<1>. HIDE DEF A, B
<1>6. OneEntryEach'
  <2>1. \A i, j \in DOMAIN unready : unready[i].fd = unready[j].fd => i = j
    BY <1>1 DEF OneEntryEach
  <2>2. ASSUME NEW k \in DOMAIN unready', NEW l \in DOMAIN unready', unready'[k].fd = unready'[l].fd
        PROVE  k = l
    BY <1>4, <1>5, <2>1, <2>2
  <2>3. ASSUME NEW k \in DOMAIN ready', NEW l \in DOMAIN ready', ready'[k].fd = ready'[l].fd
        PROVE  k = l
    BY <1>3, <1>5, <2>1, <2>3
  <2>4. ASSUME NEW k \in DOMAIN unready', NEW l \in DOMAIN ready'
        PROVE  unready'[k].fd # ready'[l].fd
    BY <1>3, <1>4, <1>5, <2>1
  <2>. QED
    BY <2>2, <2>3, <2>4 DEF OneEntryEach
<1>7. ASSUME NEW fd, NEW w
      PROVE  AsksIn(unready', ready', fd, w) <=> AsksIn(unready, ready, fd, w)
  <2>1. ASSUME NEW i \in DOMAIN unready, unready[i].fd = fd, unready[i].want = w
        PROVE  AsksIn(unready', ready', fd, w)
    <3>1. CASE i \in A
      <4>1. PICK k \in DOMAIN ready' : Nth(A, k) = i
        BY <1>3, <3>1
      <4>. QED
        BY <1>3, <2>1, <4>1 DEF AsksIn
    <3>2. CASE i \in B
      <4>1. PICK k \in DOMAIN unready' : Nth(B, k) = i
        BY <1>4, <3>2
      <4>. QED
        BY <1>4, <2>1, <4>1 DEF AsksIn
    <3>. QED
      BY <1>5, <3>1, <3>2
  <2>2. AsksIn(unready', ready', fd, w) => AsksIn(unready, ready, fd, w)
    BY <1>3, <1>4, <1>5 DEF AsksIn
  <2>. QED
    BY <1>1, <2>1, <2>2 DEF AsksIn
<1>8. Interest' = Interest
  <2>1. \A fd \in Fds : InterestOf(fd)' = InterestOf(fd)
    BY <1>1, <1>7, InterestKept
  <2>. QED
    BY <2>1 DEF Interest
<1>9. AnswersAsked'
  BY <1>3 DEF AnswersAsked
<1>10. ReadyOnlyToCollect'
  BY <1>1, <1>2 DEF ReadyOnlyToCollect, TypeOK
<1>. QED
  BY <1>2, <1>3, <1>6, <1>8, <1>9, <1>10 DEF SetSound, Abstract!vars, Interest

\* A wait takes every event, one for each descriptor, and returns what was asked for.
LEMMA CollectTakesAll ==
  ASSUME RoomForAll, IInv, SetSound, NEW p \in Procs, Collect(p)
  PROVE  Taken(p) = Len(ready)
<1>1. TypeOK /\ OneEntryEach /\ batch[p] \in Batches
  BY DEF IInv, WaitsSound, EntriesAccounted, SetSound, Collect, Goto, At
<1>2. /\ Taken(p) \in 0 .. Len(ready) /\ (Taken(p) = Len(ready) \/ Taken(p) = batch[p])
      /\ Len(ready) \in Nat /\ DOMAIN ready = 1 .. Len(ready)
      /\ \A i \in DOMAIN ready : ready[i] \in ReadyEntry
  BY <1>1, CollectMoves, ListTypes
<1>3. Len(ready) <= Cardinality(Fds)
  <2>. DEFINE f == [i \in 1 .. Len(ready) |-> ready[i].fd]
  <2>1. \A i \in 1 .. Len(ready) : ready[i].fd \in Fds
    BY <1>2 DEF ReadyEntry
  <2>2. f \in Injection(1 .. Len(ready), Fds)
    BY <1>1, <1>2, <2>1 DEF OneEntryEach, Injection, IsInjective
  <2>3. IsFiniteSet(Fds)
    BY EpollAssumption
  <2>4. Cardinality(1 .. Len(ready)) <= Cardinality(Fds)
    BY <2>2, <2>3, FS_Injection
  <2>5. Cardinality(1 .. Len(ready)) = Len(ready)
    <3>1. Len(ready) \in Nat
      BY <1>2
    <3>. QED
      BY <3>1, FirstNumbers
  <2>. QED
    BY <2>4, <2>5
<1>4. Cardinality(Fds) \in Nat
  BY FS_CardinalityType, EpollAssumption
<1>5. Cardinality(Fds) <= batch[p] /\ batch[p] \in Nat
  BY <1>1, EpollAssumption DEF RoomForAll
<1>. QED
  BY <1>2, <1>3, <1>4, <1>5

LEMMA CollectImplements ==
  ASSUME OneCaller, RoomForAll, IInv, IInv', SetSound, NEW p \in Procs, Collect(p)
  PROVE  SetSound' /\ Abstract!Wait
<1>1. TypeOK /\ TypeOK' /\ OneEntryEach /\ AnswersAsked
  BY DEF IInv, EntriesAccounted, SetSound
<1>2. /\ Len(unready) \in Nat /\ DOMAIN unready = 1 .. Len(unready)
      /\ Len(ready) \in Nat /\ DOMAIN ready = 1 .. Len(ready)
      /\ \A i \in DOMAIN ready : ready[i] \in ReadyEntry
  BY <1>1, ListTypes
<1>. DEFINE m == Len(unready)
            n == Len(ready)
<1>3. /\ unready' \in Seq(Entry) /\ Len(unready') = m + n
      /\ ready' \in Seq(ReadyEntry) /\ Len(ready') = 0
      /\ \A i \in 1 .. m : unready'[i] = unready[i]
      /\ \A i \in 1 .. n : unready'[m + i] = [fd |-> ready[i].fd, want |-> ready[i].want]
      /\ reply' = Reply("wait", "ok", {<<ready[i].fd, ready[i].got>> : i \in 1 .. n})
  <2>1. Taken(p) = Len(ready)
    BY CollectTakesAll
  <2>2. /\ unready' \in Seq(Entry) /\ Len(unready') = Len(unready) + Taken(p)
        /\ ready' \in Seq(ReadyEntry) /\ Len(ready') = Len(ready) - Taken(p)
        /\ \A i \in 1 .. Len(unready) : unready'[i] = unready[i]
        /\ \A i \in 1 .. Taken(p) :
             unready'[Len(unready) + i] = [fd |-> ready[i].fd, want |-> ready[i].want]
        /\ reply' = Reply("wait", "ok", {<<ready[i].fd, ready[i].got>> : i \in 1 .. Taken(p)})
    BY <1>1, CollectMoves
  <2>. QED
    BY <1>2, <2>1, <2>2
<1>. HIDE DEF m, n
<1>4. m \in Nat /\ n \in Nat /\ DOMAIN unready = 1 .. m /\ DOMAIN ready = 1 .. n
  BY <1>2 DEF m, n
<1>5. ready' = <<>> /\ DOMAIN ready' = {} /\ DOMAIN unready' = 1 .. m + n
  BY <1>3, <1>4
<1>6. \A i \in DOMAIN unready' :
        \/ i \in 1 .. m /\ unready'[i] = unready[i]
        \/ /\ i - m \in 1 .. n
           /\ unready'[i].fd = ready[i - m].fd /\ unready'[i].want = ready[i - m].want
  <2>1. ASSUME NEW i \in 1 .. m + n, i \notin 1 .. m
        PROVE  /\ i - m \in 1 .. n
               /\ unready'[i].fd = ready[i - m].fd /\ unready'[i].want = ready[i - m].want
    <3>1. i - m \in 1 .. n /\ m + (i - m) = i
      BY <1>4, <2>1
    <3>2. unready'[m + (i - m)] = [fd |-> ready[i - m].fd, want |-> ready[i - m].want]
      BY <1>3, <3>1
    <3>. QED
      BY <3>1, <3>2
  <2>. QED
    BY <1>3, <1>5, <2>1
<1>7. OneEntryEach'
  <2>1. ASSUME NEW i \in DOMAIN unready', NEW j \in DOMAIN unready', unready'[i].fd = unready'[j].fd
        PROVE  i = j
    <3>1. i \in Nat /\ j \in Nat
      BY <1>4, <1>5
    <3>2. CASE i \in 1 .. m /\ unready'[i] = unready[i]
      BY <1>1, <1>4, <1>6, <2>1, <3>1, <3>2 DEF OneEntryEach
    <3>3. CASE i - m \in 1 .. n /\ unready'[i].fd = ready[i - m].fd
      <4>1. j - m \in 1 .. n /\ unready'[j].fd = ready[j - m].fd
        BY <1>1, <1>4, <1>6, <2>1, <3>1, <3>3 DEF OneEntryEach
      <4>2. i - m = j - m
        BY <1>1, <1>4, <2>1, <3>3, <4>1 DEF OneEntryEach
      <4>. QED
        BY <1>4, <3>1, <4>2
    <3>. QED
      BY <1>6, <3>2, <3>3
  <2>. QED
    BY <1>5, <2>1 DEF OneEntryEach
<1>8. ASSUME NEW fd, NEW w
      PROVE  AsksIn(unready', ready', fd, w) <=> AsksIn(unready, ready, fd, w)
  <2>1. ASSUME NEW i \in DOMAIN unready, unready[i].fd = fd, unready[i].want = w
        PROVE  AsksIn(unready', ready', fd, w)
    <3>1. i \in DOMAIN unready' /\ unready'[i] = unready[i]
      BY <1>3, <1>4, <1>5
    <3>. QED
      BY <2>1, <3>1 DEF AsksIn
  <2>2. ASSUME NEW i \in DOMAIN ready, ready[i].fd = fd, ready[i].want = w
        PROVE  AsksIn(unready', ready', fd, w)
    <3>1. i \in 1 .. n /\ m + i \in DOMAIN unready'
      BY <1>4, <1>5, <2>2
    <3>2. unready'[m + i] = [fd |-> ready[i].fd, want |-> ready[i].want]
      BY <1>3, <3>1
    <3>3. unready'[m + i].fd = fd /\ unready'[m + i].want = w
      BY <2>2, <3>2
    <3>. QED
      BY <3>1, <3>3 DEF AsksIn
  <2>3. AsksIn(unready', ready', fd, w) => AsksIn(unready, ready, fd, w)
    BY <1>4, <1>5, <1>6 DEF AsksIn
  <2>. QED
    BY <2>1, <2>2, <2>3 DEF AsksIn
<1>9. Interest' = Interest
  <2>1. \A fd \in Fds : InterestOf(fd)' = InterestOf(fd)
    BY <1>1, <1>8, InterestKept
  <2>. QED
    BY <2>1 DEF Interest
<1>10. SetSound'
  BY <1>5, <1>7 DEF SetSound, AnswersAsked, ReadyOnlyToCollect, Collect
<1>11. ASSUME NEW e \in reply'.events
       PROVE  \E i \in DOMAIN ready : e = <<ready[i].fd, ready[i].got>>
  BY <1>3, <1>4 DEF Reply
<1>12. ASSUME NEW i \in DOMAIN ready
       PROVE  /\ ready[i].fd \in Fds /\ ready[i].got \in Events
              /\ Interest[ready[i].fd] # None /\ ready[i].got \in Interest[ready[i].fd]
  <2>1. /\ ready[i].fd \in Fds /\ ready[i].got \in Events /\ ready[i].want \in SUBSET Events
        /\ ready[i].got \in ready[i].want
    BY <1>1, <1>2 DEF ReadyEntry, AnswersAsked
  <2>2. AsksIn(unready, ready, ready[i].fd, ready[i].want)
    BY DEF AsksIn
  <2>3. InterestOf(ready[i].fd) = ready[i].want /\ InterestOf(ready[i].fd) # None
    BY <1>1, <2>1, <2>2, InterestOfSome
  <2>. QED
    BY <2>1, <2>3 DEF Interest
<1>13. /\ reply'.events \subseteq Fds \X Events
       /\ \A e \in reply'.events : Interest[e[1]] # None /\ e[2] \in Interest[e[1]]
  BY <1>11, <1>12
<1>14. \A e, f \in reply'.events : e[1] = f[1] => e = f
  BY <1>1, <1>11 DEF OneEntryEach
<1>15. reply' = Abstract!Reply("wait", "ok", reply'.events)
  BY <1>3 DEF Reply, Abstract!Reply
<1>. QED
  BY <1>9, <1>10, <1>13, <1>14, <1>15 DEF Abstract!Wait, Interest

\* The last close forgets the interest set; another one is not seen.
LEMMA CloseImplements ==
  ASSUME IInv, IInv', SetSound, NEW p \in Procs, Close(p)
  PROVE  SetSound' /\ (Abstract!Close \/ UNCHANGED Abstract!vars)
<1>1. UNCHANGED <<pc, panicked>>
  BY DEF Close, thread
<1>2. CASE holders = {p}
  <2>1. unready' = <<>> /\ ready' = <<>> /\ reply' = Reply("close", "ok", {})
    BY <1>2 DEF Close, Cleanup
  <2>2. \A fd : WantsIn(unready', ready', fd) = {}
    BY <2>1 DEF WantsIn, ToSet
  <2>3. Interest' = Abstract!Empty
    BY <2>2, InterestIs DEF Interest, Abstract!Empty
  <2>4. SetSound'
    BY <1>1, <2>1 DEF SetSound, OneEntryEach, AnswersAsked, ReadyOnlyToCollect
  <2>. QED
    BY <2>1, <2>3, <2>4 DEF Abstract!Close, Abstract!Reply, Reply, Interest
<1>3. CASE holders # {p}
  <2>1. unready' = unready /\ ready' = ready /\ reply' = reply
    BY <1>3 DEF Close, lists
  <2>2. SetSound'
    BY <1>1, <2>1 DEF SetSound, OneEntryEach, AnswersAsked, ReadyOnlyToCollect
  <2>. QED
    BY <2>1, <2>2 DEF Abstract!vars, InterestOf
<1>. QED
  BY <1>2, <1>3

\* The other steps are not seen.
LEMMA QuietImplements ==
  ASSUME SetSound, UNCHANGED <<unready, ready, reply, panicked>>,
         \A q \in Procs : pc[q] = "collect" => pc'[q] = "collect"
  PROVE  SetSound' /\ UNCHANGED Abstract!vars
<1>1. SetSound'
  BY DEF SetSound, OneEntryEach, AnswersAsked, ReadyOnlyToCollect
<1>. QED
  BY <1>1 DEF Abstract!vars, InterestOf

LEMMA QuietSteps ==
  ASSUME IInv, NEW p \in Procs,
         \/ Expire(p) \/ Create(p)
         \/ \E fd \in Fds : OpenFd(p, fd) \/ CloseFd(p, fd)
         \/ \E m \in Modes, n \in Batches : Wait(p, m, n)
         \/ \E q \in Procs : Fork(p, q)
         \/ \E fd \in Fds, ev \in Events : Change(fd, ev)
  PROVE  /\ UNCHANGED <<unready, ready, reply, panicked>>
         /\ \A q \in Procs : pc[q] = "collect" => pc'[q] = "collect"
<1>1. pc \in [Procs -> {"none", "user", "poll", "blocked", "collect"}]
  BY DEF IInv, EntriesAccounted, TypeOK
<1>2. CASE UNCHANGED <<lists, thread, reply, panicked>>
  BY <1>2 DEF lists, thread
<1>3. CASE Expire(p)
  BY <1>1, <1>3 DEF Expire, Goto, lists
<1>4. ASSUME NEW m \in Modes, NEW n \in Batches, Wait(p, m, n)
      PROVE  /\ UNCHANGED <<unready, ready, reply, panicked>>
             /\ \A q \in Procs : pc[q] = "collect" => pc'[q] = "collect"
  BY <1>1, <1>4 DEF Wait, Uses, Calls, At, lists
<1>5. ASSUME NEW r \in Procs, Fork(p, r)
      PROVE  /\ UNCHANGED <<unready, ready, reply, panicked>>
             /\ \A q \in Procs : pc[q] = "collect" => pc'[q] = "collect"
  BY <1>1, <1>5 DEF Fork, lists
<1>. QED
  BY <1>2, <1>3, <1>4, <1>5 DEF Create, OpenFd, CloseFd, Change

LEMMA InitImplements == Init => SetSound /\ Abstract!Init
<1>. SUFFICES ASSUME Init
              PROVE  SetSound /\ Abstract!Init
  OBVIOUS
<1>1. unready = <<>> /\ ready = <<>> /\ panicked = FALSE /\ reply = Reply("create", "ok", {})
  BY DEF Init
<1>2. \A fd : WantsIn(unready, ready, fd) = {}
  BY <1>1 DEF WantsIn, ToSet
<1>3. Interest = Abstract!Empty
  BY <1>2, InterestIs DEF Interest, Abstract!Empty
<1>4. SetSound
  BY <1>1 DEF SetSound, OneEntryEach, AnswersAsked, ReadyOnlyToCollect
<1>. QED
  BY <1>1, <1>3, <1>4 DEF Abstract!Init, Abstract!Reply, Reply, Interest

LEMMA NextImplements ==
  ASSUME OneCaller, RoomForAll, IInv, IInv', SetSound, [Next]_vars
  PROVE  SetSound' /\ [Abstract!Next]_Abstract!vars
<1>1. CASE UNCHANGED vars
  BY <1>1, QuietImplements DEF vars, lists, thread
<1>2. CASE \E fd \in Fds, ev \in Events : Change(fd, ev)
  BY <1>2, QuietImplements DEF Change, lists, thread
<1>3. ASSUME NEW p \in Procs, Acts(p)
      PROVE  SetSound' /\ [Abstract!Next]_Abstract!vars
  <2>1. ASSUME NEW fd \in Fds, NEW want \in SUBSET Events, Add(p, fd, want) \/ Mod(p, fd, want)
        PROVE  SetSound' /\ Abstract!Next
    BY <2>1, AddImplements, ModImplements DEF Abstract!Next
  <2>2. ASSUME NEW fd \in Fds, Del(p, fd)
        PROVE  SetSound' /\ Abstract!Next
    BY <2>2, DelImplements DEF Abstract!Next
  <2>3. CASE Poll(p) \/ Resolve(p)
    BY <2>3, PollImplements
  <2>4. CASE Collect(p)
    BY <2>4, CollectImplements DEF Abstract!Next
  <2>5. CASE Close(p)
    BY <2>5, CloseImplements DEF Abstract!Next
  <2>6. CASE \/ Expire(p) \/ Create(p)
             \/ \E fd \in Fds : OpenFd(p, fd) \/ CloseFd(p, fd)
             \/ \E m \in Modes, n \in Batches : Wait(p, m, n)
             \/ \E q \in Procs : Fork(p, q)
    BY <2>6, QuietSteps, QuietImplements
  <2>. QED
    BY <1>3, <2>1, <2>2, <2>3, <2>4, <2>5, <2>6 DEF Acts, Step
<1>. QED
  BY <1>1, <1>2, <1>3, NextActs

-----------------------------------------------------------------------------
(* The theorems *)

\* The inductive invariant: what is allocated is on the lists, and a process that waits
\* is a caller that holds the epoll.
THEOREM Invariant == Spec => []IInv
BY InitIInv, NextIInv, PTL DEF Spec

\* Every entry that is allocated is on one of the lists: a refused add, a del, a wait
\* that returns some of the events and the last close of an epoll that several processes
\* held leak none and free none twice (epoll_ctl_*, sys_epoll_wait, epoll_cleanup).
THEOREM Accounted == Spec => []EntriesAccounted
<1>1. IInv => EntriesAccounted
  BY DEF IInv
<1>. QED
  BY <1>1, Invariant, PTL

\* If one process makes the calls, a wait without timeout that has room for an event
\* returns one, unless a descriptor in the epoll is closed (try_resolve_epoll wakes it
\* for nothing else, and nobody takes the events before it does).
THEOREM ForeverReturns == OneCaller => (Spec => ForeverReturnsEvents)
<1>. SUFFICES ASSUME OneCaller
              PROVE  Spec => ForeverReturnsEvents
  OBVIOUS
<1>1. IInv /\ ForeverSound /\ [Next]_vars => ForeverSound'
  BY ForeverStep
<1>2. ASSUME IInv, ForeverSound, Next, NEW p \in Procs,
             pc[p] = "collect", pc'[p] = "user", mode[p] = "forever", batch[p] > 0
      PROVE  reply'.events # {} \/ \E i \in DOMAIN unready : unready[i].fd \notin open[p]
  <2>1. pc \in [Procs -> {"none", "user", "poll", "blocked", "collect"}] /\ TypeOK
    BY <1>2 DEF IInv, EntriesAccounted, TypeOK
  <2>2. Collect(p)
    <3>1. Step(p)
      BY <1>2, <2>1, WhileWaiting DEF thread
    <3>. QED
      BY <1>2, <3>1 DEF Step, Poll, Resolve, Expire, Goto, At
  <2>3. ready # <<>> \/ \E i \in DOMAIN unready : unready[i].fd \notin open[p]
    BY <1>2, <2>2 DEF ForeverSound, Collect, Goto, At
  <2>4. CASE ready # <<>>
    <3>1. /\ Taken(p) \in 0 .. Len(ready) /\ (Taken(p) = Len(ready) \/ Taken(p) = batch[p])
          /\ reply' = Reply("wait", "ok", {<<ready[i].fd, ready[i].got>> : i \in 1 .. Taken(p)})
      BY <2>1, <2>2, CollectMoves
    <3>2. Len(ready) \in Nat /\ Len(ready) # 0
      BY <2>1, <2>4 DEF TypeOK
    <3>3. 1 \in 1 .. Taken(p)
      BY <1>2, <3>1, <3>2
    <3>4. <<ready[1].fd, ready[1].got>> \in reply'.events
      BY <3>1, <3>3 DEF Reply
    <3>. QED
      BY <3>4
  <2>. QED
    BY <2>3, <2>4
<1>3. IInv /\ ForeverSound /\ [Next]_vars =>
        [\A p \in Procs :
           pc[p] = "collect" /\ pc'[p] = "user" /\ mode[p] = "forever" /\ batch[p] > 0
           => \/ reply'.events # {}
              \/ \E i \in DOMAIN unready : unready[i].fd \notin open[p]]_vars
  BY <1>2
<1>. QED
  BY <1>1, <1>3, InitForever, Invariant, PTL DEF Spec, ForeverReturnsEvents

\* The lists of an epoll that one process uses, with room for all events.
LEMMA SetInvariant == OneCaller /\ RoomForAll => (Spec => []SetSound)
<1>. SUFFICES ASSUME OneCaller, RoomForAll
              PROVE  Spec => []SetSound
  OBVIOUS
<1>1. IInv /\ IInv' /\ SetSound /\ [Next]_vars => SetSound'
  BY NextImplements
<1>2. Init => SetSound
  BY InitImplements
<1>. QED
  BY <1>1, <1>2, Invariant, PTL DEF Spec

\* If one process makes the calls and its waits have room for all events, a poll finds the
\* ready list empty, as it asserts (epoll.c:51).
THEOREM ReadyEmpty == OneCaller /\ RoomForAll => (Spec => []ReadyEmptyAtPoll)
<1>1. SetSound => ReadyEmptyAtPoll
  BY DEF SetSound, ReadyEmptyAtPoll
<1>. QED
  BY <1>1, SetInvariant, PTL

\* To such a process the two lists are an interest set, whatever the polls move between
\* them: add, mod and del find a descriptor exactly if it was added and not deleted, and a
\* wait reports at most one event of a descriptor, which was asked for.
THEOREM Refinement == OneCaller /\ RoomForAll => (Spec => InterestSet)
<1>. SUFFICES ASSUME OneCaller, RoomForAll
              PROVE  Spec => InterestSet
  OBVIOUS
<1>1. Init => Abstract!Init
  BY InitImplements
<1>2. IInv /\ IInv' /\ SetSound /\ [Next]_vars => [Abstract!Next]_Abstract!vars
  BY NextImplements
<1>. QED
  BY <1>1, <1>2, Invariant, SetInvariant, PTL DEF Spec, InterestSet, Abstract!Spec

=============================================================================
