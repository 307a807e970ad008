------------------------------- MODULE Memory -------------------------------
(***************************************************************************)
(* The memory of processes: the bitmap of frames (mem/bitmap.c), page      *)
(* tables (page.c), regions and their counts (mem/memregion.c), shared     *)
(* memory (mem/shared_mem.c), under mmap, shmcreate, shmmap, shmrem, fork, *)
(* exec and exit.                                                          *)
(*                                                                         *)
(* Page tables have two levels, of Entries each at the lower one: the      *)
(* code's four differ in nothing but their number. The frames that hold    *)
(* page tables are left out: memory for one may be refused at any time.    *)
(* Only the count of a region is written by several processors without a   *)
(* lock: its test and its decrement are steps of their own, and all else   *)
(* that a call does is one step.                                           *)
(***************************************************************************)
EXTENDS Naturals, Sequences, FiniteSets, SequencesExt

CONSTANTS
  Procs,      \* processes
  First,      \* the one that runs at first
  Entries,    \* entries of a page table (KERNEL_PAGE_ENTRIES)
  NTables,    \* page tables of the user part of an address space
  NFrames,    \* frames, map->page_count; frame 0 is the bitmap's
  ByteBits,   \* bits in a byte of the bitmap
  Image,      \* the segments of a program, by address
  NRegions,   \* bound on region objects
  NShms,      \* bound on shared memory objects
  Requests,   \* arguments of mmap: pages, write, and a fixed address or None
  ShmSizes,   \* arguments of shmcreate, in pages
  Scarce,     \* page tables that memory may be refused for
  MaxForgotten,  \* bound on the references that failed forks and execs forget
  None

NPages == NTables * Entries
Pages == 0 .. NPages - 1
Regions == 1 .. NRegions
Shms == 1 .. NShms
Frames == 0 .. NFrames - 1
Tables == 0 .. NTables - 1

\* No frame: an empty entry of a page table, and NULL.
NoFrame == 0

ASSUME MemoryAssumption ==
  /\ First \in Procs /\ IsFiniteSet(Procs)
  /\ {Entries, NTables, NFrames, ByteBits} \subseteq Nat \ {0}
  /\ \A i \in DOMAIN Image : Image[i].address \in Nat /\ Image[i].pages \in Nat \ {0}
                             /\ Image[i].write \in BOOLEAN
  /\ Len(Image) <= NRegions
  /\ \A m \in Requests : m.pages \in Nat /\ m.write \in BOOLEAN
  /\ ShmSizes \subseteq Nat \ {0} /\ MaxForgotten \in Nat
  /\ Scarce \subseteq Tables

VARIABLES
  used,      \* frames whose bit is set in the bitmap
  entry,     \* per process: frame of each page, or NoFrame
  tables,    \* per process: the page tables it has
  region,    \* MemoryRegion objects
  memlist,   \* per process: its regions, by address
  shm,       \* SharedMemory objects; named: kernel.shared_memory refers to it
  held,      \* per process and object: entries in process->shared_memory
  pc,
  seen,      \* per process: the count that memregion_drop has tested
  wrecked,   \* page_unalloc has gone on into the mappings of the kernel
  \* The history, which the code does not keep:
  forgotten, \* per region: references of address spaces that nobody drops any more
  raced,     \* regions whose count had changed between test and decrement
  lost,      \* frames of copies, and of calls that failed, that nobody will free
  stray,     \* per process: pages that a failed shmmap has left mapped
  torn       \* page_unalloc has freed frames of shared memory, or the frame of the first
             \* page of a region although somebody else used it

history == <<forgotten, raced, lost, stray, torn>>
vars == <<used, entry, tables, region, memlist, shm, held, pc, seen, wrecked, history>>

-----------------------------------------------------------------------------
(* The bitmap *)

Run(f, n) == f .. f + n - 1

\* bitmap_alloc: only the run that starts at the first free bit of a byte is looked at,
\* and the bit behind the run must be free as well, for the length is compared only
\* at a free bit.
RunStarts(set) ==
  {f \in Frames \ set : (f - (f % ByteBits)) .. (f - 1) \subseteq set}

BitmapAlloc(set, n) ==
  LET fit == {f \in RunStarts(set) : Run(f, n + 1) \subseteq Frames \ set}
  IN  IF fit = {} THEN NoFrame ELSE Min(fit)

-----------------------------------------------------------------------------
(* Page tables. A space is a record of the entries and tables of a process, *)
(* with the bitmap. There is no memory for the page table "refused".        *)

Space(p, refused) ==
  [used |-> used, entry |-> entry[p], tables |-> tables[p], refused |-> refused, ok |-> TRUE]
NewSpace(refused) ==
  [used |-> used, entry |-> [v \in Pages |-> NoFrame], tables |-> {}, refused |-> refused,
   ok |-> TRUE]

TableOf(v) == v \div Entries
Refused(s, t) == t = s.refused /\ t \notin s.tables

Ascending(from, to) == [i \in 1 .. to + 1 - from |-> from + i - 1]
Sorted(set) ==
  [i \in 1 .. Cardinality(set) |-> CHOOSE x \in set : Cardinality({y \in set : y < x}) = i - 1]

\* One page of page_alloc.
AllocPage(s, v) ==
  LET f == BitmapAlloc(s.used, 1) IN
  IF ~s.ok \/ s.entry[v] # NoFrame THEN s
  ELSE IF Refused(s, TableOf(v)) THEN [s EXCEPT !.ok = FALSE]
  ELSE IF f = NoFrame THEN [s EXCEPT !.tables = @ \cup {TableOf(v)}, !.ok = FALSE]
  ELSE [s EXCEPT !.used = @ \cup {f}, !.entry[v] = f, !.tables = @ \cup {TableOf(v)}]

\* Frames that go on to be allocated, until there are none.
AllocRest(set) ==
  FoldLeft(LAMBDA u, i : LET f == BitmapAlloc(u, 1) IN IF f = NoFrame THEN u ELSE u \cup {f},
           set, Ascending(1, NFrames))

\* page_alloc. Entries in use are kept. With no page to allocate the count wraps, and
\* the loop ends only without memory.
PageAlloc(s, v, n) ==
  LET last == IF n = 0 THEN NPages - 1 ELSE v + n - 1
      t == FoldLeft(AllocPage, s, Ascending(v, last))
  IN  IF n = 0 /\ t.ok THEN [t EXCEPT !.used = AllocRest(@), !.ok = FALSE] ELSE t

\* page_mmap of n frames from f on. Entries in use are overwritten. The pages before a
\* table that is refused stay mapped.
PageMmap(s, f, v, n) ==
  LET done == {w \in Run(v, n) : \A t \in TableOf(v) .. TableOf(w) : ~Refused(s, t)} IN
  [s EXCEPT !.entry = [w \in Pages |-> IF w \in done THEN f + w - v ELSE @[w]],
            !.tables = @ \cup {TableOf(w) : w \in done},
            !.ok = @ /\ done = Run(v, n)]

\* Faulty: the table of the end is left out.
SharedPagesFaulty(v, n) ==
  {w \in Pages : /\ v <= w /\ w \div Entries < (v + n) \div Entries
                 /\ w % Entries <= (v + n) % Entries}

\* The pages whose entries page_share copies: in each table from that of v to that of
\* the end, up to the index of the end, which is included; from the index of v in
\* the first, and from 0 in the others.
SharedPages(v, n) ==
  {w \in Pages : /\ v <= w /\ w \div Entries <= (v + n) \div Entries
                 /\ w % Entries <= (v + n) % Entries}

\* page_share, up to a table that is refused: what it has shared by then stays.
PageShare(parent, s, v, n) ==
  LET wanted == tables[parent] \cap (TableOf(v) .. TableOf(v + n))
      shared == {t \in wanted : \A u \in wanted : Refused(s, u) => t < u}
      copied == {w \in SharedPages(v, n) : TableOf(w) \in shared /\ entry[parent][w] # NoFrame}
  IN  [s EXCEPT !.entry = [w \in Pages |-> IF w \in copied THEN entry[parent][w] ELSE @[w]],
                !.tables = @ \cup shared,
                !.ok = @ /\ shared = wanted]

\* The pages whose entries page_unalloc looks at: from v on, but if the table of v is
\* missing the index of v is the first one in the next table as well.
Visited(p, v) ==
  LET present == {t \in tables[p] : t >= TableOf(v)} IN
  IF present = {} THEN <<>>
  ELSE LET t == Min(present) IN
       Sorted({w \in Pages : /\ TableOf(w) \in present /\ entry[p][w] # NoFrame
                             /\ w \div Entries = t => w % Entries >= v % Entries})

\* Faulty: the count is tested before it goes down.
UnmappedFaulty(p, v, n) == LET all == Visited(p, v) IN Range(SubSeq(all, 1, Min({n + 1, Len(all)})))

\* page_unalloc: the next n pages that are mapped, whether they belong to the region
\* or not.
Unmapped(p, v, n) == LET all == Visited(p, v) IN Range(SubSeq(all, 1, Min({n, Len(all)})))

\* The tables it has then looked at, if they are empty, are freed.
TablesLeft(p, v, n, gone) ==
  LET last == IF gone = {} THEN NTables ELSE Max(gone) \div Entries
      looked == v \div Entries .. (IF Cardinality(gone) = n THEN last ELSE NTables)
  IN  {t \in tables[p] : t \in looked =>
         \E w \in Pages \ gone : w \div Entries = t /\ entry[p][w] # NoFrame}

-----------------------------------------------------------------------------
(* Regions *)

NewRegion(v, n, w, s) == [address |-> v, pages |-> n, write |-> w, shared |-> 1, of |-> s]

Extent(r) == Run(region[r].address, region[r].pages)

Owners(r) == {p \in Procs : r \in Range(memlist[p])}

\* The k lowest free objects of a cache.
FreeRegions(k) ==
  SubSeq(Sorted({r \in Regions : region[r] = None}), 1, k)
EnoughRegions(k) == Cardinality({r \in Regions : region[r] = None}) >= k

\* The gap behind the k-th region of p: its first page, and the page that ends it.
GapStart(p, k) ==
  IF k = 0 THEN 0 ELSE region[memlist[p][k]].address + region[memlist[p][k]].pages
GapEnd(p, k) == IF k = Len(memlist[p]) THEN NPages ELSE region[memlist[p][k + 1]].address

\* memlist_find_available: the positions of the gaps that have room for n pages and do
\* not lie before post. It takes the first.
Gaps(p, post, n) ==
  {k \in 0 .. Len(memlist[p]) :
     /\ ~(GapStart(p, k) < post /\ post > GapEnd(p, k))
     /\ GapStart(p, k) < GapEnd(p, k)
     /\ GapEnd(p, k) - GapStart(p, k) >= n}

\* task->eoe
EndOfImage == Image[Len(Image)].address + Image[Len(Image)].pages

-----------------------------------------------------------------------------
(* exec: the segments, each of consecutive frames, and the stacks (one page at *)
(* the end of the address space)                                               *)

\* If it cannot be mapped its frames are freed again.
LoadSegment(s, segment) ==
  LET f == BitmapAlloc(s.used, segment.pages)
      t == PageMmap(s, f, segment.address, segment.pages)
  IN  IF ~s.ok THEN s
      ELSE IF f = NoFrame THEN [s EXCEPT !.ok = FALSE]
      ELSE IF t.ok THEN [t EXCEPT !.used = @ \cup Run(f, segment.pages)]
      ELSE t

Load(s) == AllocPage(FoldLeft(LoadSegment, s, Image), NPages - 1)

ImageRegions ==
  [i \in 1 .. Len(Image) + 1 |->
     IF i <= Len(Image) THEN NewRegion(Image[i].address, Image[i].pages, Image[i].write, None)
                        ELSE NewRegion(NPages - 1, 1, TRUE, None)]

InitSpace ==
  Load([used |-> {0}, entry |-> [v \in Pages |-> NoFrame], tables |-> {}, refused |-> None,
        ok |-> TRUE])

Init ==
  /\ used = InitSpace.used
  /\ entry = [p \in Procs |-> IF p = First THEN InitSpace.entry
                                            ELSE [v \in Pages |-> NoFrame]]
  /\ tables = [p \in Procs |-> IF p = First THEN InitSpace.tables ELSE {}]
  /\ region = [r \in Regions |-> IF r \in DOMAIN ImageRegions THEN ImageRegions[r] ELSE None]
  /\ memlist = [p \in Procs |-> IF p = First THEN Ascending(1, Len(Image) + 1) ELSE <<>>]
  /\ shm = [s \in Shms |-> None]
  /\ held = [p \in Procs |-> [s \in Shms |-> 0]]
  /\ pc = [p \in Procs |-> IF p = First THEN "user" ELSE "none"]
  /\ seen = [p \in Procs |-> 0]
  /\ wrecked = FALSE
  /\ forgotten = [r \in Regions |-> 0]
  /\ raced = {} /\ lost = {} /\ stray = [p \in Procs |-> {}] /\ torn = FALSE

At(p, label) == ~wrecked /\ pc[p] = label
Goto(p, from, to) == At(p, from) /\ pc' = [pc EXCEPT ![p] = to]

SetSpace(p, s) ==
  /\ used' = s.used
  /\ entry' = [entry EXCEPT ![p] = s.entry]
  /\ tables' = [tables EXCEPT ![p] = s.tables]

\* The regions of p, none of which a task of its own will drop again.
Forget(rs) == [r \in Regions |-> IF r \in rs THEN forgotten[r] + 1 ELSE forgotten[r]]

\* sys_exec: a new task with a space of its own. The memory of the old one is not freed.
Exec(p) ==
  LET s == Load(NewSpace(None))
      new == FreeRegions(Len(Image) + 1)
  IN  /\ At(p, "user")
      /\ EnoughRegions(Len(Image) + 1)
      /\ \A r \in Range(memlist[p]) : forgotten[r] < MaxForgotten
      /\ s.ok
      /\ SetSpace(p, s)
      /\ region' = [r \in Regions |->
                      IF r \in Range(new) THEN ImageRegions[CHOOSE i \in DOMAIN new : new[i] = r]
                                          ELSE region[r]]
      /\ memlist' = [memlist EXCEPT ![p] = new]
      /\ forgotten' = Forget(Range(memlist[p]))
      /\ lost' = (lost \cup Range(entry[p])) \cap used'
      /\ stray' = [stray EXCEPT ![p] = {}]
      /\ UNCHANGED <<shm, held, pc, seen, wrecked, raced, torn>>

\* Without memory the new task is dropped, and its memory is not freed either (nor are
\* the region objects, which are left out here).
ExecFails(p, refused) ==
  LET s == Load(NewSpace(refused)) IN
  /\ At(p, "user")
  /\ ~s.ok
  /\ used' = s.used
  /\ lost' = lost \cup (s.used \ used)
  /\ UNCHANGED <<entry, tables, region, memlist, shm, held, pc, seen, wrecked, forgotten,
                 raced, stray, torn>>

-----------------------------------------------------------------------------
(* mmap *)

\* The region is put behind the k-th.
Insert(p, k, r, new) ==
  /\ region' = [region EXCEPT ![r] = new]
  /\ memlist' = [memlist EXCEPT ![p] = InsertAt(@, k + 1, r)]

\* Where anonymous memory goes: to the start of the first gap behind the image that is
\* large enough or, if it is fixed, to its address.
Hint(m) == IF m.at = None THEN EndOfImage ELSE m.at
Place(p, m) == IF m.at = None THEN GapStart(p, Min(Gaps(p, EndOfImage, m.pages))) ELSE m.at

\* There is a gap; for fixed memory the first one from its address on is around it.
Fits(p, m) ==
  /\ Gaps(p, Hint(m), m.pages) # {}
  /\ LET k == Min(Gaps(p, Hint(m), m.pages)) IN
     GapStart(p, k) <= Place(p, m) /\ Place(p, m) + m.pages <= GapEnd(p, k)

Mmap(p, m) ==
  LET s == PageAlloc(Space(p, None), Place(p, m), m.pages) IN
  /\ At(p, "user")
  /\ EnoughRegions(1) /\ Fits(p, m)
  /\ s.ok
  /\ SetSpace(p, s)
  /\ Insert(p, Min(Gaps(p, Hint(m), m.pages)), FreeRegions(1)[1],
            NewRegion(Place(p, m), m.pages, m.write, None))
  /\ UNCHANGED <<shm, held, pc, seen, wrecked, history>>

\* Without memory, which is how a mapping of no pages always ends, the region is
\* dropped, and the pages it has got stay mapped.
MmapFails(p, m, refused) ==
  LET s == PageAlloc(Space(p, refused), Place(p, m), m.pages) IN
  /\ At(p, "user")
  /\ Fits(p, m)
  /\ ~s.ok
  /\ SetSpace(p, s)
  /\ lost' = lost \cup (s.used \ used)
  /\ UNCHANGED <<region, memlist, shm, held, pc, seen, wrecked, forgotten, raced, stray, torn>>

-----------------------------------------------------------------------------
(* Shared memory *)

Block(s) == Run(shm[s].first, shm[s].pages)

\* sys_shmcreate: the count of a new object is 0, for kernel.shared_memory.
ShmCreate(p, n) ==
  LET s == Min({t \in Shms : shm[t] = None})
      f == BitmapAlloc(used, n)
  IN  /\ At(p, "user")
      /\ \E t \in Shms : shm[t] = None
      /\ f # NoFrame
      /\ used' = used \cup Run(f, n)
      /\ shm' = [shm EXCEPT ![s] = [first |-> f, pages |-> n, shared |-> 0, named |-> TRUE]]
      /\ UNCHANGED <<entry, tables, region, memlist, held, pc, seen, wrecked, history>>

\* sys_shmmap, to the start of the first gap behind the image that is large enough.
ShmAt(p, s) == GapStart(p, Min(Gaps(p, EndOfImage, shm[s].pages)))
ShmMapped(p, s, refused) ==
  PageMmap(Space(p, refused), shm[s].first, ShmAt(p, s), shm[s].pages)

MayMap(p, s) ==
  /\ At(p, "user")
  /\ shm[s] # None /\ shm[s].named
  /\ EnoughRegions(1) /\ Gaps(p, EndOfImage, shm[s].pages) # {}

ShmMap(p, s) ==
  /\ MayMap(p, s)
  /\ SetSpace(p, ShmMapped(p, s, None))
  /\ Insert(p, Min(Gaps(p, EndOfImage, shm[s].pages)), FreeRegions(1)[1],
            NewRegion(ShmAt(p, s), shm[s].pages, TRUE, s))
  /\ shm' = [shm EXCEPT ![s].shared = @ + 1]
  /\ held' = [held EXCEPT ![p][s] = @ + 1]
  /\ stray' = [stray EXCEPT ![p] = @ \ Run(ShmAt(p, s), shm[s].pages)]
  /\ UNCHANGED <<pc, seen, wrecked, forgotten, raced, lost, torn>>

\* Without memory for a page table the region is dropped, and nothing is counted; but the
\* pages before that table stay mapped.
ShmMapFails(p, s, refused) ==
  LET t == ShmMapped(p, s, refused) IN
  /\ MayMap(p, s)
  /\ ~t.ok
  /\ SetSpace(p, t)
  /\ stray' = [stray EXCEPT ![p] = @ \cup {v \in Pages : t.entry[v] # entry[p][v]}]
  /\ UNCHANGED <<region, memlist, shm, held, pc, seen, wrecked, forgotten, raced, lost, torn>>

\* Faulty: the object goes with its last mapping, though it still has its name.
LastDropFaulty(s, k) == k >= shm[s].shared

\* Of k calls of shmdrop, if(shm->shared--) return, the last one finds no reference left.
LastDrop(s, k) == k > shm[s].shared

ShmRemove(p, s) ==
  /\ At(p, "user")
  /\ shm[s] # None /\ shm[s].named
  /\ IF LastDrop(s, 1)
     THEN /\ used' = used \ Block(s)
          /\ shm' = [shm EXCEPT ![s] = None]
     ELSE /\ shm' = [shm EXCEPT ![s].shared = @ - 1, ![s].named = FALSE]
          /\ UNCHANGED used
  /\ lost' = lost \cap used'
  /\ UNCHANGED <<entry, tables, region, memlist, held, pc, seen, wrecked, forgotten, raced,
                 stray, torn>>

-----------------------------------------------------------------------------
(* fork *)

\* memregion_clone: a region that can be written is copied page by page, except for
\* pages that the child has already; of any other the entries are copied. p is the
\* parent, s the space of the child, and cloned the regions whose count goes up.
Clone(p, s, r) ==
  IF ~s.ok THEN s
  ELSE LET t == IF region[r].write
                THEN FoldLeft(AllocPage, s, Ascending(region[r].address,
                                                      region[r].address + region[r].pages - 1))
                ELSE PageShare(p, s, region[r].address, region[r].pages)
       IN  IF t.ok THEN [t EXCEPT !.cloned = @ \cup {r}] ELSE t

CloneSpace(p, refused) ==
  LET new == NewSpace(refused) IN
  FoldLeft(LAMBDA s, r : Clone(p, s, r),
           [f \in DOMAIN new \cup {"cloned"} |-> IF f = "cloned" THEN {} ELSE new[f]],
           memlist[p])

Counted(rs) == [r \in Regions |-> IF r \in rs THEN [region[r] EXCEPT !.shared = @ + 1]
                                              ELSE region[r]]

\* (Pages that page_share shares may be stray.)
Fork(p, q) ==
  LET s == CloneSpace(p, None) IN
  /\ At(p, "user") /\ pc[q] = "none"
  /\ s.ok
  /\ SetSpace(q, s)
  /\ region' = Counted(s.cloned)
  /\ memlist' = [memlist EXCEPT ![q] = memlist[p]]
  /\ pc' = [pc EXCEPT ![q] = "user"]
  /\ stray' = [stray EXCEPT ![q] = {v \in stray[p] : s.entry[v] = entry[p][v]}]
  /\ UNCHANGED <<shm, held, seen, wrecked, forgotten, raced, lost, torn>>

\* Without memory: the task of the child is dropped, its memory and references stay.
ForkFails(p, refused) ==
  LET s == CloneSpace(p, refused) IN
  /\ At(p, "user")
  /\ ~s.ok
  /\ \A r \in s.cloned : forgotten[r] < MaxForgotten
  /\ used' = s.used
  /\ region' = Counted(s.cloned)
  /\ forgotten' = Forget(s.cloned)
  /\ lost' = lost \cup (s.used \ used)
  /\ UNCHANGED <<entry, tables, memlist, shm, held, pc, seen, wrecked, raced, stray, torn>>

-----------------------------------------------------------------------------
(* exit *)

\* shmdrop for every entry of process->shared_memory.
Exit(p) ==
  LET freed == {s \in Shms : shm[s] # None /\ LastDrop(s, held[p][s])} IN
  /\ Goto(p, "user", "free")
  /\ used' = used \ UNION {Block(s) : s \in freed}
  /\ shm' = [s \in Shms |-> IF s \in freed THEN None
                            ELSE IF shm[s] = None THEN None
                            ELSE [shm[s] EXCEPT !.shared = @ - held[p][s]]]
  /\ held' = [held EXCEPT ![p] = [s \in Shms |-> 0]]
  /\ lost' = lost \cap used'
  /\ UNCHANGED <<entry, tables, region, memlist, seen, wrecked, forgotten, raced, stray, torn>>

\* task_free_memory, and memregion_drop for each region: region->shared == 1?
DropTest(p) ==
  /\ memlist[p] # <<>>
  /\ LET n == region[Head(memlist[p])].shared IN
     /\ Goto(p, "free", IF n = 1 THEN "unmap" ELSE "decrement")
     /\ seen' = [seen EXCEPT ![p] = n]
  /\ UNCHANGED <<used, entry, tables, region, memlist, shm, held, wrecked, history>>

Dropped(p) ==
  /\ memlist' = [memlist EXCEPT ![p] = Tail(@)]
  /\ seen' = [seen EXCEPT ![p] = 0]

\* A running process other than p, or shared memory, uses frame f.
Elsewhere(p, f) ==
  \/ \E q \in Procs \ {p} : pc[q] = "user" /\ f \in Range(entry[q])
  \/ \E s \in Shms : shm[s] # None /\ f \in Block(s)

\* Faulty: page_unalloc clears the entries, but keeps the frames.
DropLastFaulty(p) ==
  LET r == Head(memlist[p])
      gone == Unmapped(p, region[r].address, region[r].pages)
  IN  /\ Goto(p, "unmap", "free")
      /\ Dropped(p)
      /\ entry' = [entry EXCEPT ![p] = [v \in Pages |-> IF v \in gone THEN NoFrame ELSE @[v]]]
      /\ tables' = [tables EXCEPT ![p] = TablesLeft(p, region[r].address, region[r].pages, gone)]
      /\ region' = [region EXCEPT ![r] = None]
      /\ UNCHANGED <<used, shm, held, wrecked, history>>

\* page_unalloc. If there are fewer mapped pages than the region has, it goes on to
\* those of the kernel.
DropLast(p) ==
  LET r == Head(memlist[p])
      gone == Unmapped(p, region[r].address, region[r].pages)
  IN  /\ Goto(p, "unmap", "free")
      /\ Dropped(p)
      /\ used' = used \ {entry[p][v] : v \in gone}
      /\ entry' = [entry EXCEPT ![p] = [v \in Pages |-> IF v \in gone THEN NoFrame ELSE @[v]]]
      /\ tables' = [tables EXCEPT ![p] = TablesLeft(p, region[r].address, region[r].pages, gone)]
      /\ region' = [region EXCEPT ![r] = None]
      /\ wrecked' = (Cardinality(gone) < region[r].pages)
      /\ lost' = lost \cap used'
      /\ stray' = [stray EXCEPT ![p] = @ \ gone]
      /\ torn' = \/ torn \/ region[r].of # None \/ gone \cap stray[p] # {}
                 \/ Elsewhere(p, entry[p][region[r].address])
      /\ UNCHANGED <<shm, held, forgotten, raced>>

\* The pages stay mapped. Nobody else has those that can be written, nor those that
\* page_share has left out.
DropDecrement(p) ==
  LET r == Head(memlist[p]) IN
  /\ Goto(p, "decrement", "free")
  /\ Dropped(p)
  /\ region' = [region EXCEPT ![r].shared = @ - 1]
  /\ raced' = IF region[r].shared = seen[p] THEN raced ELSE raced \cup {r}
  /\ lost' = lost \cup (used \cap {entry[p][v] : v \in
                 IF region[r].write \/ Owners(r) = {p} THEN Extent(r)
                 ELSE Extent(r) \ SharedPages(region[r].address, region[r].pages)})
  /\ UNCHANGED <<used, entry, tables, shm, held, wrecked, forgotten, stray, torn>>

\* The page tables are left, whatever they still map.
DropDone(p) ==
  /\ Goto(p, "free", "dead")
  /\ memlist[p] = <<>>
  /\ entry' = [entry EXCEPT ![p] = [v \in Pages |-> NoFrame]]
  /\ tables' = [tables EXCEPT ![p] = {}]
  /\ stray' = [stray EXCEPT ![p] = {}]
  /\ UNCHANGED <<used, region, memlist, shm, held, seen, wrecked, forgotten, raced, lost, torn>>

-----------------------------------------------------------------------------
Next ==
  \E p \in Procs :
    \/ Exec(p)
    \/ \E m \in Requests : Mmap(p, m)
    \/ \E n \in ShmSizes : ShmCreate(p, n)
    \/ \E s \in Shms : ShmMap(p, s) \/ ShmRemove(p, s)
    \/ \E q \in Procs : Fork(p, q)
    \/ \E refused \in Scarce \cup {None} :
         \/ ExecFails(p, refused) \/ ForkFails(p, refused)
         \/ \E m \in Requests : MmapFails(p, m, refused)
         \/ \E s \in Shms : ShmMapFails(p, s, refused)
    \/ Exit(p) \/ DropTest(p) \/ DropLast(p) \/ DropDecrement(p) \/ DropDone(p)

Spec == Init /\ [][Next]_vars

-----------------------------------------------------------------------------
(* Properties *)

\* The types of the variables; and the regions of a space are disjoint and ordered by
\* address, as memlist_find and memlist_find_available need, whatever gaps fixed
\* mappings leave and later ones fill.
TypeOK ==
  /\ used \subseteq Frames
  /\ entry \in [Procs -> [Pages -> Frames]]
  /\ tables \in [Procs -> SUBSET Tables]
  /\ \A r \in Regions : region[r] # None =>
       region[r] \in [address : Pages, pages : 1 .. NPages, write : BOOLEAN,
                      shared : Nat, of : Shms \cup {None}]
  /\ \A p \in Procs :
       /\ memlist[p] \in Seq(Regions)
       /\ \A i, j \in DOMAIN memlist[p] : i < j =>
            region[memlist[p][i]].address + region[memlist[p][i]].pages
              <= region[memlist[p][j]].address
  /\ \A s \in Shms : shm[s] # None =>
       shm[s] \in [first : Frames, pages : ShmSizes, shared : Nat, named : BOOLEAN]
  /\ held \in [Procs -> [Shms -> Nat]]
  /\ pc \in [Procs -> {"none", "user", "free", "unmap", "decrement", "dead"}]
  /\ seen \in [Procs -> Nat]
  /\ {wrecked, torn} \subseteq BOOLEAN
  /\ forgotten \in [Regions -> 0 .. MaxForgotten]
  /\ raced \subseteq Regions /\ lost \subseteq used /\ stray \in [Procs -> SUBSET Pages]

Holders(s) == MapThenSumSet(LAMBDA p : held[p][s], Procs)

\* The count of a region is that of the address spaces that have it, those that failed
\* forks and execs left behind included, and a region that nobody has any more is
\* kept only if two owners have both found that they were not the last one. The
\* count of shared memory is one less than its mappings and its name, through
\* forks, which copy mappings without the object's knowledge, and exits. And TypeOK.
CountsExact ==
  /\ TypeOK
  /\ \A r \in Regions :
       IF region[r] = None THEN Owners(r) = {}
       ELSE /\ region[r].shared = Cardinality(Owners(r)) + forgotten[r]
            /\ region[r].shared = 0 => r \in raced
  /\ \A s \in Shms :
       IF shm[s] = None THEN Holders(s) = 0
       ELSE shm[s].shared + 1 = Holders(s) + (IF shm[s].named THEN 1 ELSE 0)

\* A frame in use is mapped by a process, or belongs to a shared memory object, or is
\* lost in one of these ways and no other: the private copies of a region whose owner
\* was not the last one to exit, the pages that fork did not share, what exec leaves
\* behind, what a call that ran out of memory had got, and a region without owners whose
\* count is not 0 for one of these reasons, or because its last two owners exited at
\* once.
FramesAccounted ==
  \A f \in used \ {0} :
    \/ \E p \in Procs : f \in Range(entry[p])
    \/ \E s \in Shms : shm[s] # None /\ f \in Block(s)
    \/ f \in lost

Running == {p \in Procs : pc[p] = "user"}
Of(p, v) == {r \in Range(memlist[p]) : v \in Extent(r)}
ReadOnly(p, v) == \E r \in Of(p, v) : ~region[r].write
MapsShm(p, v) == \E r \in Of(p, v) : region[r].of # None

\* Until the exit of a process unmaps shared memory, whose frames page_unalloc frees as
\* if they were the process's own, or the first page of a region that it has in common
\* with another process: what a running process maps and what shared memory objects
\* hold is allocated, and two processes have a frame in common only in read-only
\* regions and in shared memory. There are two exceptions. The page behind a read-only
\* region is one that page_share shares as well (page.c:233): parent and child have it in
\* common although it can be written, and it may outlive its frame. And a page that a
\* failed shmmap has left mapped (syscall.c:733) refers to the frame of an object that
\* does not count it, and goes on to when the frame is freed and allocated again; once it
\* is part of a region, of memory that was to be new, the exit of its process frees that
\* frame a second time.
SpacesApart ==
  torn \/
  /\ \A p \in Running, v \in Pages :
       entry[p][v] # NoFrame => entry[p][v] \in used \/ ReadOnly(p, v - 1) \/ v \in stray[p]
  /\ \A s \in Shms : shm[s] # None => Block(s) \subseteq used
  /\ \A p, q \in Running, v, w \in Pages :
       p # q /\ entry[p][v] = entry[q][w] /\ entry[p][v] # NoFrame =>
         \/ v = w /\ ReadOnly(p, v) /\ ReadOnly(q, w)
         \/ ReadOnly(p, v - 1) \/ ReadOnly(q, w - 1)
         \/ MapsShm(p, v) /\ MapsShm(q, w)
         \/ v \in stray[p] \/ w \in stray[q]

\* A running process has every page of its regions mapped, except that fork leaves out
\* those pages of a read-only region in several page tables whose index in a table is
\* above that of the region's end (page.c:233).
SpacesComplete ==
  \A p \in Running : \A r \in Range(memlist[p]) : \A v \in Extent(r) :
    entry[p][v] = NoFrame =>
      ~region[r].write /\ v % Entries > (region[r].address + region[r].pages) % Entries

\* The address space of a running process is its own and complete, but for these.
SpacesSound == SpacesApart /\ SpacesComplete

\* The last owner of a region unmaps the pages of the region and frees their frames,
\* and nothing else, unless some of them were never mapped: page_unalloc counts only
\* the pages it finds, and goes on into other regions or the kernel.
UnmapsItsOwn ==
  [][\A p \in Procs : pc[p] = "unmap" /\ pc'[p] # "unmap" =>
       LET pages == Extent(Head(memlist[p])) IN
       (\A v \in pages : entry[p][v] # NoFrame) =>
         /\ used \ used' \subseteq {entry[p][v] : v \in pages}
         /\ \A v \in Pages : entry'[p][v] = IF v \in pages THEN NoFrame ELSE entry[p][v]
         /\ ~wrecked']_vars
=============================================================================
