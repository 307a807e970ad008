------------------------------- MODULE Resource -------------------------------
(***************************************************************************)
(* The descriptor tables of the processes (resource.c) and the reference   *)
(* counts of the inodes they refer to (iget, idrop: vfs.c), under open,    *)
(* close, fork and exit (arch/x86_64/syscall.c).                           *)
(*                                                                         *)
(* A table is a chain of blocks of RPB slots. A slot is empty (Null), or   *)
(* its resource has an inode, or not yet (NoInode). Each process has one   *)
(* thread and only looks at its own table, so what concerns the table      *)
(* alone is one action; the counts are shared, and every read and write of *)
(* one is a step of its own: processes run on several processors.          *)
(***************************************************************************)
EXTENDS Naturals, Sequences, FiniteSets, FiniteSetsExt

CONSTANTS
  Procs,     \* processes
  First,     \* the one that runs at first
  RPB,       \* RESOURCES_PER_BLOCK
  Inodes,    \* addresses of inodes
  Files,     \* those of the file system, which holds one reference to each
  MaxOpens,  \* bound on block->occupied
  MaxForgotten,  \* bound on the references a failed fork forgets
  Null, NoInode

ASSUME ResourceAssumption ==
  /\ First \in Procs /\ IsFiniteSet(Procs)
  /\ RPB \in Nat \ {0} /\ MaxOpens \in Nat /\ MaxForgotten \in Nat
  /\ IsFiniteSet(Inodes) /\ Files \subseteq Inodes
  /\ Null \notin Inodes /\ NoInode \notin Inodes /\ Null # NoInode

Index == 0 .. RPB - 1

VARIABLES
  blocks,     \* per process: its chain of blocks
  live,       \* inodes that are allocated
  shared,     \* inode->shared
  pc,
  slot,       \* per process: <<block, index>> of the resource its call is about
  panicked,   \* the process that has stopped the kernel, and through what
  \* The history, which the code does not keep:
  forgotten,  \* per inode: references whose resources were freed without idrop
  seen,       \* per process: the count that idrop has tested
  raced,      \* inodes whose count had changed between idrop's test and decrement
  abandoned   \* processes whose open has left a resource without inode in the table

history == <<forgotten, raced, abandoned>>
vars == <<blocks, live, shared, pc, slot, panicked, forgotten, seen, raced, abandoned>>

\* Through what: debug_assert(false && "Unreachable!"), or a NULL pointer to an inode or to
\* a resource.
Causes == {"unreachable", "inode", "resource"}

NewBlock == [occupied |-> 0, data |-> [i \in Index |-> Null]]

Init ==
  /\ blocks = [p \in Procs |-> IF p = First THEN <<NewBlock>> ELSE <<>>]
  /\ live = Files
  /\ shared = [i \in Inodes |-> IF i \in Files THEN 1 ELSE 0]
  /\ pc = [p \in Procs |-> IF p = First THEN "user" ELSE "none"]
  /\ slot = [p \in Procs |-> <<1, 0>>]
  /\ panicked = {}
  /\ forgotten = [i \in Inodes |-> 0]
  /\ seen = [p \in Procs |-> 0]
  /\ raced = {}
  /\ abandoned = {}

-----------------------------------------------------------------------------
At(p, label) == panicked = {} /\ pc[p] = label
Goto(p, from, to) == At(p, from) /\ pc' = [pc EXCEPT ![p] = to]

Panic(p, cause) ==
  /\ panicked' = {<<p, cause>>}
  /\ UNCHANGED <<blocks, live, shared, pc, slot, seen, history>>

Slots(p) == (DOMAIN blocks[p]) \X Index
Content(p, s) == blocks[p][s[1]].data[s[2]]
Put(p, x) == [blocks EXCEPT ![p][slot[p][1]].data[slot[p][2]] = x]

\* resource_find_by_id: id walks to the next block while it is above RPB.
Locate(id) ==
  LET hops == IF id <= RPB THEN 0 ELSE (id - 1) \div RPB
  IN  <<hops + 1, id - hops * RPB>>

-----------------------------------------------------------------------------
(* resource_add *)

Full(p) == {k \in DOMAIN blocks[p] : blocks[p][k].occupied = RPB}

\* The first block that is not full. If all are, the loop appends a block and then
\* stays at the last full one.
AddBlock(p) ==
  IF Full(p) = DOMAIN blocks[p] THEN Len(blocks[p]) ELSE Min(DOMAIN blocks[p] \ Full(p))

\* The chain after the loop.
Grown(p) ==
  IF Full(p) = DOMAIN blocks[p] THEN Append(blocks[p], NewBlock) ELSE blocks[p]

\* Faulty: a resource without inode counts as an empty slot.
EmptySlotsFaulty(p, k) == {i \in Index : blocks[p][k].data[i] \in {Null, NoInode}}

EmptySlots(p, k) == {i \in Index : blocks[p][k].data[i] = Null}

\* The descriptor returned for slot s.
IdOf(s) == (s[1] - 1) * RPB + s[2]

OpenAdd(p) ==
  LET k == AddBlock(p)
      i == Min(EmptySlots(p, k))
  IN  /\ Goto(p, "user", "open")
      /\ EmptySlots(p, k) # {}
      /\ blocks[p][k].occupied < MaxOpens
      /\ blocks' = [blocks EXCEPT ![p] = [Grown(p) EXCEPT
           ![k] = [occupied |-> @.occupied + 1, data |-> [@.data EXCEPT ![i] = NoInode]]]]
      /\ slot' = [slot EXCEPT ![p] = <<k, i>>]
      /\ UNCHANGED <<live, shared, panicked, seen, history>>

\* No memory for the resource: its slot stays empty, and is counted. (Without memory
\* for a block nothing changes.)
OpenNoMem(p) ==
  LET k == AddBlock(p) IN
  /\ At(p, "user")
  /\ EmptySlots(p, k) # {}
  /\ blocks[p][k].occupied < MaxOpens
  /\ blocks' = [blocks EXCEPT ![p] = [Grown(p) EXCEPT ![k].occupied = @ + 1]]
  /\ UNCHANGED <<live, shared, pc, slot, panicked, seen, history>>

\* Faulty: no block after the first.
OpenPanicsFaulty(p) ==
  /\ At(p, "user")
  /\ Full(p) = DOMAIN blocks[p]
  /\ Panic(p, "unreachable")

\* debug_assert(false && "Unreachable!")
OpenPanics(p) ==
  /\ At(p, "user")
  /\ EmptySlots(p, AddBlock(p)) = {}
  /\ Panic(p, "unreachable")

-----------------------------------------------------------------------------
(* The rest of open, socket and epoll_create1 *)

\* vfs_find or vfs_creat returns an inode of the file system, after iget.
OpenFile(p, f) ==
  /\ Goto(p, "open", "user")
  /\ shared' = [shared EXCEPT ![f] = @ + 1]
  /\ blocks' = Put(p, f)
  /\ UNCHANGED <<live, slot, panicked, seen, history>>

\* The truncation fails: idrop, then resource_remove. (That the resource does not
\* have the inode yet makes no difference: nobody else sees it.)
OpenTruncFails(p, f) ==
  /\ Goto(p, "open", "drop")
  /\ shared' = [shared EXCEPT ![f] = @ + 1]
  /\ blocks' = Put(p, f)
  /\ UNCHANGED <<live, slot, panicked, seen, history>>

\* new_inode, epoll_new: an inode with one reference.
OpenNew(p, i) ==
  /\ Goto(p, "open", "user")
  /\ i \notin live
  /\ live' = live \cup {i}
  /\ shared' = [shared EXCEPT ![i] = 1]
  /\ blocks' = Put(p, i)
  /\ UNCHANGED <<slot, panicked, seen, history>>

\* Not found, or no memory: resource_remove.
OpenFails(p) ==
  /\ Goto(p, "open", "user")
  /\ blocks' = Put(p, Null)
  /\ UNCHANGED <<live, shared, slot, panicked, seen, history>>

\* vfs_creat fails: return e, and the resource stays.
OpenCreatFails(p) ==
  /\ Goto(p, "open", "user")
  /\ abandoned' = abandoned \cup {p}
  /\ UNCHANGED <<blocks, live, shared, slot, panicked, seen, forgotten, raced>>

-----------------------------------------------------------------------------
(* close and exit: idrop, then the resource is freed *)

\* (A descriptor that is not located in the table is not modelled.)
Close(p, id) ==
  /\ Goto(p, "user", "drop")
  /\ Locate(id) \in Slots(p) /\ Content(p, Locate(id)) \in Inodes
  /\ slot' = [slot EXCEPT ![p] = Locate(id)]
  /\ UNCHANGED <<blocks, live, shared, panicked, seen, history>>

\* idrop(NULL)
CloseFaults(p, id) ==
  /\ At(p, "user")
  /\ Locate(id) \in Slots(p) /\ Content(p, Locate(id)) = NoInode
  /\ Panic(p, "inode")

\* Faulty: the last reference is not seen.
DropTestFaulty(p) ==
  LET n == shared[Content(p, slot[p])] IN
  /\ \/ Goto(p, "drop", "decrement")
     \/ Goto(p, "exitdrop", "exitdecrement")
  /\ seen' = [seen EXCEPT ![p] = n]
  /\ UNCHANGED <<blocks, live, shared, slot, panicked, history>>

\* if(inode->shared == 1)
DropTest(p) ==
  LET n == shared[Content(p, slot[p])] IN
  /\ \/ At(p, "drop") /\ pc' = [pc EXCEPT ![p] = IF n = 1 THEN "destroy" ELSE "decrement"]
     \/ At(p, "exitdrop") /\ pc' = [pc EXCEPT ![p] = IF n = 1 THEN "exitdestroy"
                                                             ELSE "exitdecrement"]
  /\ seen' = [seen EXCEPT ![p] = n]
  /\ UNCHANGED <<blocks, live, shared, slot, panicked, history>>

\* Where idrop returns to, and the resource is freed.
DropReturns(p, inClose, inExit) ==
  /\ Goto(p, inClose, "user") \/ Goto(p, inExit, "exit")
  /\ blocks' = Put(p, Null)
  /\ seen' = [seen EXCEPT ![p] = 0]

\* idestroy
DropDestroy(p) ==
  /\ DropReturns(p, "destroy", "exitdestroy")
  /\ live' = live \ {Content(p, slot[p])}
  /\ UNCHANGED <<shared, slot, panicked, history>>

\* inode->shared--
DropDecrement(p) ==
  LET i == Content(p, slot[p]) IN
  /\ DropReturns(p, "decrement", "exitdecrement")
  /\ shared' = [shared EXCEPT ![i] = @ - 1]
  /\ raced' = IF shared[i] # seen[p] THEN raced \cup {i} ELSE raced
  /\ UNCHANGED <<live, slot, panicked, forgotten, abandoned>>

Exit(p) ==
  /\ Goto(p, "user", "exit")
  /\ UNCHANGED <<blocks, live, shared, slot, panicked, seen, history>>

InUse(p) == {s \in Slots(p) : Content(p, s) # Null}
NextInUse(p) == CHOOSE s \in InUse(p) : \A r \in InUse(p) : IdOf(s) <= IdOf(r)

\* The loop over the blocks and their slots, in order.
ExitNext(p) ==
  /\ Goto(p, "exit", "exitdrop")
  /\ InUse(p) # {}
  /\ Content(p, NextInUse(p)) # NoInode
  /\ slot' = [slot EXCEPT ![p] = NextInUse(p)]
  /\ UNCHANGED <<blocks, live, shared, panicked, seen, history>>

ExitFaults(p) ==
  /\ At(p, "exit")
  /\ InUse(p) # {} /\ Content(p, NextInUse(p)) = NoInode
  /\ Panic(p, "inode")

\* cur_proc->resources = NULL. The process and its name are used again.
ExitDone(p) ==
  /\ Goto(p, "exit", "none")
  /\ InUse(p) = {}
  /\ blocks' = [blocks EXCEPT ![p] = <<>>]
  /\ slot' = [slot EXCEPT ![p] = <<1, 0>>]
  /\ abandoned' = abandoned \ {p}
  /\ UNCHANGED <<live, shared, panicked, seen, forgotten, raced>>

-----------------------------------------------------------------------------
(* fork *)

Holds(p, i) == {s \in Slots(p) : Content(p, s) = i}
HasNoInode(p) == Holds(p, NoInode) # {}

\* Faulty: one iget for each inode.
ClonedFaulty(p) == [i \in Inodes |-> shared[i] + IF Holds(p, i) = {} THEN 0 ELSE 1]

\* resourceblock_clone: iget for every resource.
Cloned(p) == [i \in Inodes |-> shared[i] + Cardinality(Holds(p, i))]

Fork(p, q) ==
  /\ At(p, "user")
  /\ pc[q] = "none"
  /\ ~HasNoInode(p)
  /\ blocks' = [blocks EXCEPT ![q] = blocks[p]]
  /\ shared' = Cloned(p)
  /\ pc' = [pc EXCEPT ![q] = "user"]
  /\ UNCHANGED <<live, slot, panicked, seen, history>>

\* No memory for a later block of the clone, or for what comes after it: process_drop, which
\* frees the resources with resourceblock_dealloc, without idrop.
ForkFails(p) ==
  /\ At(p, "user")
  /\ ~HasNoInode(p)
  /\ \A i \in Inodes : forgotten[i] + Cardinality(Holds(p, i)) <= MaxForgotten
  /\ shared' = Cloned(p)
  /\ forgotten' = [i \in Inodes |-> forgotten[i] + Cardinality(Holds(p, i))]
  /\ UNCHANGED <<blocks, live, pc, slot, panicked, seen, raced, abandoned>>

\* iget(NULL)
ForkFaults(p) ==
  /\ At(p, "user")
  /\ HasNoInode(p)
  /\ Panic(p, "inode")

\* No memory for a resource of the clone, which is written at once: the first, or a later
\* one.
ForkFaultsNoMem(p) ==
  /\ At(p, "user")
  /\ InUse(p) # {}
  /\ Panic(p, "resource")

-----------------------------------------------------------------------------
Next ==
  \E p \in Procs :
    \/ OpenAdd(p) \/ OpenNoMem(p) \/ OpenPanics(p)
    \/ \E f \in Files : OpenFile(p, f) \/ OpenTruncFails(p, f)
    \/ \E i \in Inodes : OpenNew(p, i)
    \/ OpenFails(p) \/ OpenCreatFails(p)
    \/ \E id \in {IdOf(s) : s \in Slots(p)} : Close(p, id) \/ CloseFaults(p, id)
    \/ DropTest(p) \/ DropDestroy(p) \/ DropDecrement(p)
    \/ Exit(p) \/ ExitNext(p) \/ ExitFaults(p) \/ ExitDone(p)
    \/ \E q \in Procs : Fork(p, q)
    \/ ForkFails(p) \/ ForkFaults(p) \/ ForkFaultsNoMem(p)

Spec == Init /\ [][Next]_vars

-----------------------------------------------------------------------------
(* Properties *)

PC == {"none", "user", "open", "drop", "destroy", "decrement",
       "exit", "exitdrop", "exitdestroy", "exitdecrement"}

TypeOK ==
  /\ blocks \in [Procs -> Seq([occupied : 0 .. MaxOpens,
                              data : [Index -> Inodes \cup {Null, NoInode}]])]
  /\ live \in SUBSET Inodes
  /\ shared \in [Inodes -> Nat]
  /\ pc \in [Procs -> PC]
  /\ slot \in [Procs -> Nat \X Index]
  /\ panicked \in SUBSET (Procs \X Causes)
  /\ forgotten \in [Inodes -> Nat]
  /\ seen \in [Procs -> Nat]
  /\ raced \in SUBSET Inodes
  /\ abandoned \in SUBSET Procs

\* References to an inode: of resources, and of the file system.
Referring(i) == UNION {{p} \X Holds(p, i) : p \in Procs}
Refs(i) == Cardinality(Referring(i)) + IF i \in Files THEN 1 ELSE 0

\* An inode that a resource refers to is allocated, and its count is the number of
\* references, whatever drops, clones and opens of other processes overlap: idrop's
\* test and decrement are not one step, but never free an inode too early. And
\* every variable has its type.
CountExact ==
  /\ TypeOK
  /\ \A i \in Inodes :
       IF i \in live THEN shared[i] = Refs(i) + forgotten[i] ELSE Refs(i) = 0

\* An inode without references stays allocated only if a fork that failed has
\* forgotten references to it, or if two drops overlapped.
LeaksExplained ==
  \A i \in live : Refs(i) = 0 => forgotten[i] > 0 \/ i \in raced

Opens(p) == pc[p] = "user" /\ pc'[p] = "open"

\* resource_add returns a descriptor that was not in use, under which
\* resource_find_by_id finds the new resource, and every other descriptor still
\* refers to what it did: the two walks over the chain and the count of a block
\* agree after any number of opens and closes.
AddedIsFound ==
  [][\A p \in Procs : Opens(p) =>
       /\ Locate(IdOf(slot'[p])) = slot'[p]
       /\ \A s \in Slots(p) :
            IF s = slot'[p] THEN Content(p, s) = Null /\ Content(p, s)' = NoInode
                            ELSE Content(p, s)' = Content(p, s)]_vars

\* What stops the kernel is a matter of the process that does it alone.
\* resource.c:64, "Unreachable!", is reached, but only by a process that has exactly as
\* many descriptors as a block has slots and opens one more, for resource_add does not go
\* on to the block it has just appended: occupied never goes down, and yet a process whose
\* table has an empty slot never runs into the assertion, however often it has opened and
\* closed.
\* A NULL inode is only met by the close, exit or fork of a process in which an open has
\* failed to create its file before; no process gets such a resource from another, for the
\* fork that would copy it faults.
\* A NULL resource is only met by a fork that copies at least one, when memory runs out.
PanicExplained ==
  [][\A p \in Procs : \A cause \in Causes :
       <<p, cause>> \in panicked' \ panicked =>
         \/ cause = "unreachable" /\ pc[p] = "user" /\ Cardinality(InUse(p)) = RPB
         \/ cause = "inode" /\ pc[p] \in {"user", "exit"} /\ p \in abandoned
         \/ cause = "resource" /\ pc[p] = "user" /\ InUse(p) # {}]_vars

=============================================================================
