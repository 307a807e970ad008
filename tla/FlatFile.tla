------------------------------ MODULE FlatFile ------------------------------
(***************************************************************************)
(* What read, write and truncate of a file in memory promise: the file is  *)
(* a sequence of bytes. A write may be cut short by lack of memory, and    *)
(* does not leave a gap. After truncate has made a file longer nothing is  *)
(* promised until the file is empty again.                                 *)
(***************************************************************************)
EXTENDS Naturals, Sequences, SequencesExt, FiniteSetsExt

CONSTANTS Bytes, MaxSize

VARIABLES
  content,
  grown,   \* truncate has made the file longer since it was last empty
  asked,   \* the last call that was answered: where, and what to write or how much to read
  got      \* the answer: the bytes that were written or read

Overlay(s, off, bytes) ==
  [i \in 1 .. Max({Len(s), off + Len(bytes)}) |->
     IF i > off /\ i <= off + Len(bytes) THEN bytes[i - off] ELSE s[i]]

Write(off, bytes) ==
  /\ off <= Len(content)
  /\ \E n \in 0 .. Len(bytes) :
       /\ got' = SubSeq(bytes, 1, n)
       /\ content' = IF n = 0 THEN content ELSE Overlay(content, off, got')
  /\ asked' = <<off, Len(bytes), bytes>>
  /\ UNCHANGED grown

Read(off, n) ==
  /\ off <= Len(content)
  /\ got' = SubSeq(content, off + 1, Min({off + n, Len(content)}))
  /\ asked' = <<off, n, <<>>>>
  /\ UNCHANGED <<content, grown>>

Shorten(n) ==
  /\ n <= Len(content)
  /\ content' = SubSeq(content, 1, n)
  /\ asked' = <<n, 0, <<>>>>
  /\ UNCHANGED <<grown, got>>

Lengthen == ~grown /\ grown' /\ content' = <<>>

Broken == grown /\ UNCHANGED content

Init == content = <<>> /\ grown = FALSE /\ asked = <<>> /\ got = <<>>

Next ==
  \/ ~grown /\ \E off \in 0 .. MaxSize :
       \/ \E n \in 1 .. MaxSize :
            Read(off, n) \/ \E bytes \in [1 .. n -> Bytes] : Write(off, bytes)
       \/ Shorten(off)
  \/ Lengthen \/ Broken

Spec == Init /\ [][Next]_<<content, grown, asked, got>>
=============================================================================
