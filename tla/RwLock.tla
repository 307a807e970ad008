------------------------------- MODULE RwLock -------------------------------
(***************************************************************************)
(* The kernel's readers-writer lock (shared/include/sync/rwlock.h) on top  *)
(* of the test-and-set mutex (shared/include/sync/mutex.h).                *)
(*                                                                         *)
(* r protects the reader counter b; g is held by the writer, or jointly by *)
(* the readers: the first of them takes it, the last one gives it back.    *)
(* Every access to r, g and b is one atomic instruction of a thread, and   *)
(* so one action here; a failed test-and-set changes nothing.              *)
(***************************************************************************)
EXTENDS Naturals, FiniteSets

CONSTANT Threads

ASSUME ThreadsAssumption == IsFiniteSet(Threads)

VARIABLES r,    \* Mutex r: is the flag set?
          g,    \* Mutex g: is the flag set?
          b,    \* atomic_size_t b: readers that have counted themselves
          pc    \* where each thread is in the macros

vars == <<r, g, b, pc>>

PC == { "idle",
        "br_r", "br_b", "br_g", "br_ur",   \* inside rwlock_begin_read
        "reading",
        "er_r", "er_b", "er_g", "er_ur",   \* inside rwlock_end_read
        "bw_g",                            \* inside rwlock_begin_write
        "writing" }

Init ==
  /\ r = FALSE
  /\ g = FALSE
  /\ b = 0
  /\ pc = [t \in Threads |-> "idle"]

Goto(t, from, to) ==
  /\ pc[t] = from
  /\ pc' = [pc EXCEPT ![t] = to]

-----------------------------------------------------------------------------
(* rwlock_begin_read *)

CallBeginRead(t) ==
  /\ Goto(t, "idle", "br_r")
  /\ UNCHANGED <<r, g, b>>

BeginReadLockR(t) ==
  /\ Goto(t, "br_r", "br_b")
  /\ ~r
  /\ r' = TRUE
  /\ UNCHANGED <<g, b>>

\* Faulty: the first reader does not lock g.
BeginReadCountFaulty(t) ==
  /\ Goto(t, "br_b", "br_ur")
  /\ b' = b + 1
  /\ UNCHANGED <<r, g>>

\* if(++b == 1): the first reader goes on to lock g.
BeginReadCount(t) ==
  /\ Goto(t, "br_b", IF b + 1 = 1 THEN "br_g" ELSE "br_ur")
  /\ b' = b + 1
  /\ UNCHANGED <<r, g>>

BeginReadLockG(t) ==
  /\ Goto(t, "br_g", "br_ur")
  /\ ~g
  /\ g' = TRUE
  /\ UNCHANGED <<r, b>>

BeginReadUnlockR(t) ==
  /\ Goto(t, "br_ur", "reading")
  /\ r' = FALSE
  /\ UNCHANGED <<g, b>>

-----------------------------------------------------------------------------
(* rwlock_end_read *)

CallEndRead(t) ==
  /\ Goto(t, "reading", "er_r")
  /\ UNCHANGED <<r, g, b>>

EndReadLockR(t) ==
  /\ Goto(t, "er_r", "er_b")
  /\ ~r
  /\ r' = TRUE
  /\ UNCHANGED <<g, b>>

\* Faulty: g is given back one reader too early.
EndReadCountFaulty(t) ==
  /\ Goto(t, "er_b", IF b - 1 <= 1 THEN "er_g" ELSE "er_ur")
  /\ b' = b - 1
  /\ UNCHANGED <<r, g>>

\* if(--b == 0): the last reader goes on to unlock g.
EndReadCount(t) ==
  /\ Goto(t, "er_b", IF b - 1 = 0 THEN "er_g" ELSE "er_ur")
  /\ b' = b - 1
  /\ UNCHANGED <<r, g>>

\* Faulty: the last reader keeps g.
EndReadUnlockGFaulty(t) ==
  /\ Goto(t, "er_g", "er_ur")
  /\ UNCHANGED <<r, b, g>>

EndReadUnlockG(t) ==
  /\ Goto(t, "er_g", "er_ur")
  /\ g' = FALSE
  /\ UNCHANGED <<r, b>>

EndReadUnlockR(t) ==
  /\ Goto(t, "er_ur", "idle")
  /\ r' = FALSE
  /\ UNCHANGED <<g, b>>

-----------------------------------------------------------------------------
(* rwlock_begin_write, rwlock_end_write *)

CallBeginWrite(t) ==
  /\ Goto(t, "idle", "bw_g")
  /\ UNCHANGED <<r, g, b>>

\* Faulty: the writer does not wait for g.
BeginWriteLockGFaulty(t) ==
  /\ Goto(t, "bw_g", "writing")
  /\ g' = TRUE
  /\ UNCHANGED <<r, b>>

BeginWriteLockG(t) ==
  /\ Goto(t, "bw_g", "writing")
  /\ ~g
  /\ g' = TRUE
  /\ UNCHANGED <<r, b>>

EndWrite(t) ==
  /\ Goto(t, "writing", "idle")
  /\ g' = FALSE
  /\ UNCHANGED <<r, b>>

-----------------------------------------------------------------------------
\* The steps a thread takes once it has called into the lock or holds it.
Proceed(t) ==
  \/ BeginReadLockR(t) \/ BeginReadCount(t) \/ BeginReadLockG(t)
  \/ BeginReadUnlockR(t)
  \/ CallEndRead(t) \/ EndReadLockR(t) \/ EndReadCount(t)
  \/ EndReadUnlockG(t) \/ EndReadUnlockR(t)
  \/ BeginWriteLockG(t) \/ EndWrite(t)

Next == \E t \in Threads :
  CallBeginRead(t) \/ CallBeginWrite(t) \/ Proceed(t)

\* A thread that has called into the lock keeps being scheduled, and does not
\* keep the lock for ever. A thread need not call at all. The fairness is
\* weak: nothing in a test-and-set loop favours the thread that waited longest.
Fairness == \A t \in Threads : WF_vars(Proceed(t))

Spec == Init /\ [][Next]_vars
FairSpec == Spec /\ Fairness

-----------------------------------------------------------------------------
TypeOK ==
  /\ r \in BOOLEAN
  /\ g \in BOOLEAN
  /\ b \in Nat
  /\ pc \in [Threads -> PC]

At(labels) == {t \in Threads : pc[t] \in labels}

Reading == At({"reading"})
Writing == At({"writing"})

\* A writer has the protected data to itself: no reader and no other writer is
\* inside (rwlock.h guards the multiplexer's input list and the socket server's
\* pending list with it).
WriterExcludesAll ==
  \A t, u \in Threads :
     pc[t] = "writing" /\ pc[u] \in {"reading", "writing"} => t = u

\* If any thread is waiting for the lock, some thread gets into its critical
\* section: the four macros together never wedge r and g.
LockProgress ==
  (At({"br_r", "br_b", "br_g", "br_ur", "bw_g"}) # {})
     ~> (Reading \cup Writing # {})

\* The abstract lock this one implements.
Abstract == INSTANCE RwLockAbstract WITH readers <- Reading, writers <- Writing

\* Every behaviour of the two mutexes and the counter is one of the abstract
\* lock: a thread becomes a reader only when no writer is inside, and a writer
\* only when nobody is.
ImplementsAbstract == Abstract!Spec

-----------------------------------------------------------------------------
(* The inductive invariant. *)

InR      == {"br_b", "br_g", "br_ur", "er_b", "er_g", "er_ur"}  \* holds r
Counted  == {"br_g", "br_ur", "reading", "er_r", "er_b"}        \* is in b
GroupHas == {"br_ur", "reading", "er_r", "er_b", "er_g"}        \* shares g

\* r is set exactly while one thread is in a section it protects.
RHolder ==
  /\ r <=> \E t \in Threads : pc[t] \in InR
  /\ \A t, u \in Threads : pc[t] \in InR /\ pc[u] \in InR => t = u

\* b counts the readers.
BCounts == b = Cardinality(At(Counted))

\* g is set exactly while a writer or the group of readers has it.
GHolder ==
  /\ g <=> \E t \in Threads : pc[t] \in GroupHas \cup {"writing"}
  /\ \A t, u \in Threads :
        pc[t] = "writing" /\ pc[u] \in GroupHas \cup {"writing"} => t = u

\* The first reader is alone until it has g, and the last one gives g back only
\* when nobody is counted.
Edges ==
  \A t, u \in Threads :
    /\ pc[t] = "br_g" /\ pc[u] \in Counted => t = u
    /\ pc[t] = "er_g" => pc[u] \notin Counted

IInv == TypeOK /\ RHolder /\ BCounts /\ GHolder /\ Edges

=============================================================================
