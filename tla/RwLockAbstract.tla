--------------------------- MODULE RwLockAbstract ---------------------------
(***************************************************************************)
(* What a readers-writer lock promises, independently of how it is built:  *)
(* any number of readers, or one writer, but never both.                   *)
(***************************************************************************)
CONSTANT Threads

VARIABLES readers,   \* the threads between begin_read and end_read
          writers    \* the threads between begin_write and end_write

vars == <<readers, writers>>

Init ==
  /\ readers = {}
  /\ writers = {}

StartReading(t) ==
  /\ t \notin readers
  /\ writers = {}
  /\ readers' = readers \cup {t}
  /\ UNCHANGED writers

StopReading(t) ==
  /\ t \in readers
  /\ readers' = readers \ {t}
  /\ UNCHANGED writers

StartWriting(t) ==
  /\ readers = {}
  /\ writers = {}
  /\ writers' = {t}
  /\ UNCHANGED readers

StopWriting(t) ==
  /\ t \in writers
  /\ writers' = writers \ {t}
  /\ UNCHANGED readers

Next == \E t \in Threads :
  \/ StartReading(t)
  \/ StopReading(t)
  \/ StartWriting(t)
  \/ StopWriting(t)

Spec == Init /\ [][Next]_vars

=============================================================================
