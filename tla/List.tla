-------------------------------- MODULE List --------------------------------
(***************************************************************************)
(* The intrusive doubly-linked list of the kernel (collections/list.h),    *)
(* pointer by pointer. links.next and links.prev hold the two pointers of  *)
(* every node; a list is the ring through its head, which is a node too.   *)
(* The operators return the links after the C function has run, with the   *)
(* stores in the order in which it makes them.                             *)
(***************************************************************************)

SetNext(links, x, y) == [links EXCEPT !.next[x] = y]
SetPrev(links, x, y) == [links EXCEPT !.prev[x] = y]

\* Every node alone in a ring of its own, as list_init leaves it.
ListInitAll(nodes) ==
  [next |-> [x \in nodes |-> x], prev |-> [x \in nodes |-> x]]

ListInit(links, x) == SetPrev(SetNext(links, x, x), x, x)

\* Makes new the predecessor of link: with a head as link, new goes to the tail.
ListInsert(links, new, link) ==
  LET l1 == SetPrev(links, new, links.prev[link])
      l2 == SetNext(l1, new, link)
      l3 == SetNext(l2, l2.prev[new], new)
  IN  SetPrev(l3, l3.next[new], new)

\* Makes new the successor of into.
ListAppend(links, new, into) == ListInsert(links, new, links.next[into])

ListRemove(links, x) ==
  LET l1 == SetNext(links, links.prev[x], links.next[x])
      l2 == SetPrev(l1, l1.next[x], l1.prev[x])
  IN  ListInit(l2, x)

ListEmpty(links, x) == links.next[x] = x

\* The nodes of the ring of head that a walk along next meets before it is back
\* at head: they belong to every set that is closed under next.
ListNodes(links, head, nodes) ==
  {x \in nodes \ {head} :
     \A S \in SUBSET nodes :
        /\ links.next[head] \in S
        /\ \A y \in S \ {head} : links.next[y] \in S
        => x \in S}

\* The ring is consistent at x: its two neighbours point back at it.
Linked(links, x) ==
  /\ links.prev[links.next[x]] = x
  /\ links.next[links.prev[x]] = x

=============================================================================
