-------------------------------- MODULE Tmpfs --------------------------------
(***************************************************************************)
(* tmpfs (fs/tmpfs/tmpfs.c): a directory in which processes create entries *)
(* at once, and the bytes of one of its files. Neither has a lock.         *)
(*                                                                         *)
(* Files and directories are lists of blocks. The blocks of the file are   *)
(* one sequence of bytes here, of which the first size ones are the file;  *)
(* a read, write or truncate is one step. Creating an entry takes several: *)
(* find, the place in the directory, the entry, the size.                  *)
(*                                                                         *)
(* The two have no state in common. So the steps of one are only taken     *)
(* while the other one is as it was in the beginning (Init): in another    *)
(* order they would come to the same.                                      *)
(***************************************************************************)
EXTENDS Integers, Sequences, FiniteSets, FiniteSetsExt, SequencesExt

CONSTANTS
  Procs,
  Names,
  Dents,        \* TMPFS_DATABLOCK_DENTS
  MaxEntries,   \* bound on the size of the directory
  BlockBytes,   \* TMPFS_DATABLOCK_BYTES
  Bytes, Zero,
  MaxSize,      \* bound on the size of the file
  None

ASSUME TmpfsAssumption ==
  /\ IsFiniteSet(Procs)
  /\ Dents \in Nat \ {0} /\ BlockBytes \in Nat \ {0}
  /\ MaxEntries \in Nat /\ MaxSize \in Nat
  /\ Zero \in Bytes /\ None \notin Names

VARIABLES
  pc, name,    \* per process: where it is; the entry it creates
  index,       \* per process: the slot tmpfs_put has found
  block,       \* per process: whether the block of its slot is in the list: "in", or not yet,
               \* "new", or no more, "gone"
  slots,       \* the blocks of the directory: names, or None where nothing was put
  entries,     \* the size of the directory
  overlapped,  \* two processes were creating entries at once
  bound,       \* names of sockets
  size, data,  \* the file: its size, and the bytes of its blocks
  grown,       \* truncate has made it longer since it was last empty
  dangling,    \* its list goes on into a block that was freed
  asked,       \* the last read, write or truncate: its arguments
  got          \* the bytes that it has read or written

dir  == <<pc, name, index, block, slots, entries, overlapped, bound>>
file == <<size, data, grown, dangling, asked, got>>
vars == <<dir, file>>

InitDir ==
  /\ pc = [p \in Procs |-> "user"]
  /\ name = [p \in Procs |-> None]
  /\ index = [p \in Procs |-> 0] /\ block = [p \in Procs |-> "in"]
  /\ slots = <<>> /\ entries = 0
  /\ overlapped = FALSE /\ bound = {}

InitFile ==
  /\ size = 0 /\ data = <<>> /\ grown = FALSE /\ dangling = FALSE
  /\ asked = <<>> /\ got = <<>>

Init == InitDir /\ InitFile

CeilDiv(n, d) == (n + d - 1) \div d

-----------------------------------------------------------------------------
(* The directory *)

\* An entry that was not put is a null pointer: tmpfs_find reads its name.
Faults == \E i \in 1 .. Min({entries, Len(slots)}) : slots[i] = None

Has(n) == \E i \in 1 .. Min({entries, Len(slots)}) : slots[i] = n

Goto(p, from, to) == InitFile /\ pc[p] = from /\ pc' = [pc EXCEPT ![p] = to]

\* tmpfs_creat up to tmpfs_find, which has not found the name; tmpfs_socket_creat does not
\* look for it.
Creat(p, n, socket) ==
  /\ Goto(p, "user", "scan")
  /\ ~Faults /\ (socket \/ ~Has(n))
  /\ entries < MaxEntries
  /\ name' = [name EXCEPT ![p] = n]
  /\ bound' = IF socket THEN bound \cup {n} ELSE bound
  /\ overlapped' = (overlapped \/ \E q \in Procs : pc[q] # "user")
  /\ UNCHANGED <<index, block, slots, entries, file>>

\* Faulty: a new block is only taken when there is an entry without one.
FullFaulty == entries > Len(slots)

\* All slots of the blocks that are in the list have an entry.
Full == entries >= Len(slots)

\* tmpfs_put finds the slot after the last entry, or takes a new block.
Scan(p) ==
  /\ Goto(p, "scan", "store")
  /\ entries < Len(slots) + Dents
  /\ index' = [index EXCEPT ![p] = entries + 1]
  /\ block' = [block EXCEPT ![p] = IF Full THEN "new" ELSE "in"]
  /\ UNCHANGED <<name, slots, entries, overlapped, bound, file>>

\* No memory for the new block, or more entries than blocks: an error.
ScanFails(p) ==
  /\ Goto(p, "scan", "user")
  /\ Full
  /\ name' = [name EXCEPT ![p] = None]
  /\ UNCHANGED <<index, block, slots, entries, overlapped, bound, file>>

\* The slots of the blocks before the one that p has found.
First(p) == Dents * ((index[p] - 1) \div Dents)

Put(p, blocks) == [blocks EXCEPT ![index[p]] = name[p]]

\* The block that q has found, or the one that its new block goes behind, is cut off when
\* p links a new one.
CutOff(q, p) ==
  \/ block[q] = "in" /\ index[q] > First(p)
  \/ block[q] = "new" /\ First(q) > First(p)

\* A new block takes the place of one that was linked meanwhile, with all after it.
Store(p) ==
  LET linked == [k \in 1 .. First(p) + Dents |-> IF k <= First(p) THEN slots[k] ELSE None]
  IN  /\ Goto(p, "store", "count")
      /\ slots' = CASE block[p] = "new" -> Put(p, linked)
                    [] block[p] = "in" -> Put(p, slots)
                    [] block[p] = "gone" -> slots
      /\ block' = [q \in Procs |->
                     IF block[p] = "new" /\ q # p /\ CutOff(q, p) THEN "gone" ELSE block[q]]
      /\ UNCHANGED <<name, index, entries, overlapped, bound, file>>

Count(p) ==
  /\ Goto(p, "count", "user")
  /\ entries' = entries + 1
  /\ name' = [name EXCEPT ![p] = None]
  /\ index' = [index EXCEPT ![p] = 0] /\ block' = [block EXCEPT ![p] = "in"]
  /\ UNCHANGED <<slots, overlapped, bound, file>>

-----------------------------------------------------------------------------
(* The file *)

Blocks == Len(data) \div BlockBytes

Zeros(n) == [i \in 1 .. n * BlockBytes |-> Zero]

\* Faulty: the block of byte n is kept, also when n is its first byte.
WalkedFaulty(n) == Min({Blocks, n \div BlockBytes + 1})

\* The blocks up to the one of the byte before n; fewer if the list ends.
Walked(n) == Min({Blocks, CeilDiv(n, BlockBytes)})

Overlay(s, off, bytes) ==
  [i \in DOMAIN s |-> IF i > off /\ i <= off + Len(bytes) THEN bytes[i - off] ELSE s[i]]

SizeAfter(end) == Max({size, end})

\* tmpfs_write takes new blocks one by one, and ends early when there is no memory.
Write(off, bytes) ==
  /\ InitDir /\ ~dangling
  /\ off <= Min({size, Len(data)}) /\ off + Len(bytes) <= MaxSize
  /\ LET needed == Max({0, CeilDiv(off + Len(bytes), BlockBytes) - Blocks}) IN
     \E k \in 0 .. needed :
       LET room == data \o Zeros(k)
           written == SubSeq(bytes, 1, Min({Len(bytes), Len(room) - off}))
       IN  /\ data' = Overlay(room, off, written)
           /\ size' = IF written = <<>> THEN size ELSE SizeAfter(off + Len(written))
           /\ got' = written
  /\ asked' = <<off, Len(bytes), bytes>>
  /\ UNCHANGED <<dir, grown, dangling>>

\* Faulty: what the blocks have is read, whether it belongs to the file or not.
ReadEndFaulty(off, n) == Min({off + n, Len(data)})

ReadEnd(off, n) == Min({off + n, size, Len(data)})

\* tmpfs_read. It fails when the list of blocks ends before off.
Read(off, n) ==
  /\ InitDir /\ ~dangling
  /\ off <= size /\ off < Len(data) + BlockBytes
  /\ got' = SubSeq(data, off + 1, ReadEnd(off, n))
  /\ asked' = <<off, n, <<>>>>
  /\ UNCHANGED <<dir, size, data, grown, dangling>>

\* When all blocks are still needed it reports an error, but has changed the size.
Shrink(n) ==
  /\ InitDir /\ ~dangling
  /\ n < size
  /\ size' = n
  /\ data' = SubSeq(data, 1, Walked(n) * BlockBytes)
  /\ grown' = (grown /\ (n > 0 \/ data' # <<>>))
  /\ asked' = <<n, 0, <<>>>>
  /\ UNCHANGED <<dir, dangling, got>>

\* n -= TMPFS_DATABLOCK_BYTES wraps around: no block is taken.
GrowEmpty(n) ==
  /\ InitDir /\ ~dangling
  /\ size = 0 /\ Walked(0) = 0 /\ n \in 1 .. MaxSize
  /\ size' = n /\ grown' = TRUE
  /\ asked' = <<n, 0, <<>>>>
  /\ UNCHANGED <<dir, data, dangling, got>>

\* One block more than needed is taken, and what was behind the last one is forgotten.
\* Blocks that were taken in vain are freed, and stay in the list.
Grow(n) ==
  LET kept == Walked(size)
      needed == CeilDiv(n, BlockBytes) - kept + 1
  IN  /\ InitDir /\ ~dangling
      /\ size > 0 /\ n \in size + 1 .. MaxSize
      /\ kept = CeilDiv(size, BlockBytes)
      /\ \E k \in 0 .. needed :
           /\ data' = SubSeq(data, 1, kept * BlockBytes) \o (IF k = needed THEN Zeros(k) ELSE <<>>)
           /\ size' = IF k = needed THEN n ELSE size
           /\ dangling' = (k \in 1 .. needed - 1)
      /\ grown' = TRUE
      /\ asked' = <<n, 0, <<>>>>
      /\ UNCHANGED <<dir, got>>

-----------------------------------------------------------------------------
Next ==
  \/ \E p \in Procs :
       \/ \E n \in Names, socket \in BOOLEAN : Creat(p, n, socket)
       \/ Scan(p) \/ ScanFails(p) \/ Store(p) \/ Count(p)
  \/ \E off \in 0 .. MaxSize, n \in 1 .. MaxSize :
       \/ \E bytes \in [1 .. n -> Bytes] : Write(off, bytes)
       \/ Read(off, n)
  \/ \E n \in 0 .. MaxSize : Shrink(n) \/ GrowEmpty(n) \/ Grow(n)

Spec == Init /\ [][Next]_vars

-----------------------------------------------------------------------------
(* Properties *)

TypeOK ==
  /\ pc \in [Procs -> {"user", "scan", "store", "count"}]
  /\ name \in [Procs -> Names \cup {None}] /\ block \in [Procs -> {"in", "new", "gone"}]
  /\ index \in [Procs -> 0 .. MaxEntries + Cardinality(Procs)]
  /\ slots \in Seq(Names \cup {None}) /\ Len(slots) % Dents = 0
  /\ entries \in 0 .. MaxEntries + Cardinality(Procs)
  /\ overlapped \in BOOLEAN /\ bound \subseteq Names
  /\ size \in 0 .. MaxSize /\ data \in Seq(Bytes) /\ Len(data) % BlockBytes = 0
  /\ grown \in BOOLEAN /\ dangling \in BOOLEAN
  /\ got \in Seq(Bytes)

\* An entry is in its slot, and not yet counted by the size.
Counting == {p \in Procs : pc[p] = "count"}

\* The directory has as many entries as its size says, in the slots before it and nowhere
\* else, and each name once unless it is that of a socket; as long as no two processes were
\* creating entries in it at once.
DirectoryExact ==
  \/ overlapped
  \/ LET counted == entries + Cardinality(Counting) IN
     /\ \A i \in DOMAIN slots : slots[i] # None <=> i <= counted
     /\ counted <= Len(slots) /\ Len(slots) < counted + Dents
     /\ \A i, j \in 1 .. counted : slots[i] = slots[j] => i = j \/ slots[i] \in bound

\* As long as truncate has not made it longer, the file is the sequence of bytes that were
\* written, for all offsets and lengths, also across blocks and after it was made shorter.
Flat == INSTANCE FlatFile WITH
  content <- IF grown THEN <<>> ELSE SubSeq(data, 1, size)

ReadsWhatWasWritten == Flat!Spec

\* Types; and the blocks are those of the size, unless the file was made longer: what a
\* write has not filled, and a truncate has cut off, is neither leaked nor missing.
BlocksFit == TypeOK /\ (grown \/ Blocks = CeilDiv(size, BlockBytes))
=============================================================================
