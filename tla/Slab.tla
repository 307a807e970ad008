-------------------------------- MODULE Slab --------------------------------
(***************************************************************************)
(* The slab allocator behind every kernel object: processes, tasks, file   *)
(* resources, epoll entries, socket connections (mem/slab.c, mem/slab.h).  *)
(*                                                                         *)
(* A cache keeps three lists of slabs. A slab holds NObjs objects and a    *)
(* stack of their indexes, bufctl, whose entries from `free` on are the    *)
(* objects not handed out. One cache is modelled; its mutex makes each     *)
(* call one action. The lists are the kernel's pointer rings (List), so    *)
(* what list_append really does with its two arguments is what happens.    *)
(***************************************************************************)
EXTENDS Naturals, FiniteSets, List

CONSTANTS
  Slabs,                \* the addresses kernel_malloc can return for a slab
  NObjs,                \* objs_per_slab
  Full, Partial, Free   \* the three list heads of the cache

Heads == {Full, Partial, Free}
Nodes == Slabs \cup Heads

ASSUME SlabAssumption ==
  /\ IsFiniteSet(Slabs)
  /\ NObjs \in Nat \ {0}
  /\ Full # Partial /\ Full # Free /\ Partial # Free
  /\ Heads \cap Slabs = {}

Index == 0 .. NObjs - 1
Objects == Slabs \X Index

VARIABLES
  links,     \* next and prev of every head and slab
  grown,     \* the slabs cache_grow has created
  free,      \* per slab: top of the index stack
  bufctl,    \* per slab: the index stack
  inuse,     \* cache->inuse
  held,      \* objects the callers have got and not given back
  lost       \* objects given back that cache_dealloc did not find

vars == <<links, grown, free, bufctl, inuse, held, lost>>

Init ==
  /\ links = ListInitAll(Nodes)
  /\ grown = {}
  /\ free = [s \in Slabs |-> 0]
  /\ bufctl = [s \in Slabs |-> [i \in Index |-> i]]
  /\ inuse = 0
  /\ held = {}
  /\ lost = {}

-----------------------------------------------------------------------------
\* slab.c passes list_append(&cache->partial, &slab->list), so the head is what
\* is inserted, after the slab.
MoveToList(l, s, head) == ListAppend(ListRemove(l, s), head, s)

\* cache_alloc on slab s: pop an index, and move s as it stops being free and
\* as it becomes full. l is the state of the lists after cache_select.
AllocFrom(s, l) ==
  LET index == bufctl[s][free[s]]
      l1 == IF free[s] = 0 THEN MoveToList(l, s, Partial) ELSE l
      l2 == IF free[s] + 1 = NObjs THEN MoveToList(l1, s, Full) ELSE l1
  IN  /\ links' = l2
      /\ free' = [free EXCEPT ![s] = @ + 1]
      /\ inuse' = inuse + 1
      /\ held' = held \cup {<<s, index>>}
      /\ UNCHANGED <<bufctl, lost>>

\* cache_select: a slab of the partial list, else of the free list.
AllocFromListed ==
  LET head == IF ListEmpty(links, Partial) THEN Free ELSE Partial
  IN  /\ ~ListEmpty(links, head)
      /\ AllocFrom(links.next[head], links)
      /\ UNCHANGED grown

\* cache_select: both lists are empty, so cache_grow makes a new slab first,
\* whose stack lists every index (as Init left it).
AllocFromNew(s) ==
  /\ ListEmpty(links, Partial)
  /\ ListEmpty(links, Free)
  /\ s \notin grown
  /\ grown' = grown \cup {s}
  /\ AllocFrom(s, ListAppend(links, s, Free))

-----------------------------------------------------------------------------
\* Faulty: the slab is not moved, and its stack still has the index that was on it.
DeallocFromFaulty(s, index) ==
  /\ free' = [free EXCEPT ![s] = @ - 1]
  /\ inuse' = inuse - 1
  /\ UNCHANGED <<links, bufctl>>

\* cache_dealloc_within on the slab s that contains the object.
DeallocFrom(s, index) ==
  LET l1 == IF free[s] = NObjs THEN MoveToList(links, s, Partial) ELSE links
      l2 == IF free[s] - 1 = 0 THEN MoveToList(l1, s, Free) ELSE l1
  IN  /\ links' = l2
      /\ free' = [free EXCEPT ![s] = @ - 1]
      /\ bufctl' = [bufctl EXCEPT ![s][free[s] - 1] = index]
      /\ inuse' = inuse - 1

\* Faulty: only the full list is searched.
SearchedFaulty == ListNodes(links, Full, Nodes)

\* cache_dealloc looks for the slab in the full and in the partial list only.
Searched == ListNodes(links, Full, Nodes) \cup ListNodes(links, Partial, Nodes)

DeallocFound(s, index) ==
  /\ <<s, index>> \in held
  /\ s \in Searched
  /\ DeallocFrom(s, index)
  /\ held' = held \ {<<s, index>>}
  /\ UNCHANGED <<grown, lost>>

\* Faulty: what is not found counts as taken back.
DeallocNotFoundFaulty(s, index) ==
  /\ <<s, index>> \in held
  /\ s \notin Searched
  /\ held' = held \ {<<s, index>>}
  /\ lost' = lost \cup {<<s, index>>}
  /\ inuse' = inuse - 1
  /\ UNCHANGED <<links, grown, free, bufctl>>

\* No list it searches has the slab: cache_dealloc returns without a word.
DeallocNotFound(s, index) ==
  /\ <<s, index>> \in held
  /\ s \notin Searched
  /\ held' = held \ {<<s, index>>}
  /\ lost' = lost \cup {<<s, index>>}
  /\ UNCHANGED <<links, grown, free, bufctl, inuse>>

Next ==
  \/ AllocFromListed
  \/ \E s \in Slabs : AllocFromNew(s)
  \/ \E s \in Slabs, i \in Index : DeallocFound(s, i) \/ DeallocNotFound(s, i)

Spec == Init /\ [][Next]_vars

-----------------------------------------------------------------------------
TypeOK ==
  /\ links \in [next : [Nodes -> Nodes], prev : [Nodes -> Nodes]]
  /\ grown \in SUBSET Slabs
  /\ free \in [Slabs -> 0 .. NObjs]
  /\ bufctl \in [Slabs -> [Index -> Index]]
  /\ inuse \in Nat
  /\ held \in SUBSET Objects
  /\ lost \in SUBSET Objects

\* The object the next cache_alloc returns is held by nobody: the stack of a
\* slab, from its top on, names only objects that are not handed out, each of
\* them once, whatever the order of allocations and deallocations.
NoDoubleAllocation ==
  \A s \in Slabs : \A i \in Index : i >= free[s] =>
    /\ <<s, bufctl[s][i]>> \notin held \cup lost
    /\ \A j \in Index : j >= free[s] /\ bufctl[s][j] = bufctl[s][i] => i = j

\* cache_alloc never reads the stack of a slab beyond its end, and the
\* assert(slab->free) of cache_dealloc_within holds for every object a caller
\* gives back.
StackInBounds ==
  /\ \A head \in {Partial, Free} :
       ~ListEmpty(links, head) =>
         /\ links.next[head] \in grown
         /\ free[links.next[head]] < NObjs
  /\ \A o \in held : free[o[1]] > 0

\* cache->inuse counts the objects that were handed out and not taken back, the
\* lost ones included.
InuseCounts == inuse = Cardinality(held) + Cardinality(lost)

-----------------------------------------------------------------------------
(* The inductive invariant behind the three invariants above. *)

\* The indexes of s that have left its stack.
Out(s) == {i \in Index : <<s, i>> \in held \cup lost}

\* free is the number of objects of the slab that are out.
FreeCounts == \A s \in Slabs : free[s] = Cardinality(Out(s))

\* A slab outside the cache is untouched and alone.
UngrownUntouched ==
  \A s \in Slabs \ grown :
    /\ free[s] = 0
    /\ links.next[s] = s
    /\ links.prev[s] = s

\* What a slab of each list looks like.
BelongsTo(s, head) ==
  /\ s \in grown
  /\ head = Full => free[s] = NObjs
  /\ head = Partial => free[s] > 0 /\ free[s] < NObjs
  /\ head = Free => free[s] = 0
  /\ \A i \in Index : <<s, i>> \notin lost

\* A list is empty or has one slab, of the right kind: with its arguments the
\* other way round, list_append makes the new slab the only one.
ListShape ==
  \A head \in Heads :
    /\ links.prev[head] = links.next[head]
    /\ \/ links.next[head] = head
       \/ /\ links.next[head] \in Slabs
          /\ BelongsTo(links.next[head], head)
          /\ links.next[links.next[head]] = head
          /\ links.prev[links.next[head]] = head

HeldOrLost == held \cap lost = {}

IInv ==
  TypeOK /\ NoDoubleAllocation /\ FreeCounts /\ InuseCounts
         /\ HeldOrLost /\ UngrownUntouched /\ ListShape

-----------------------------------------------------------------------------
\* An object is lost only in a slab that has dropped out of every list, and its
\* slab stays out: the memory is never used again.
LostStaysLost ==
  [][lost \subseteq lost' /\
     \A o \in lost : free'[o[1]] = free[o[1]]]_vars

\* slab.h:11-15, "Linked list to either: fully filled blocks, partially filled
\* blocks, free blocks": each slab of the cache is in one of the lists.
EverySlabListed ==
  \A s \in grown : \E head \in Heads : s \in ListNodes(links, head, Nodes)

=============================================================================
