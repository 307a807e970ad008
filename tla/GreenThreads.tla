---------------------------- MODULE GreenThreads ----------------------------
(***************************************************************************)
(* The green threads of the window manager and of gtnet (user/wm/src/gt.h, *)
(* of which user/gtnet/src/gt.h is a copy).                                *)
(*                                                                         *)
(* A thread runs until it blocks on a descriptor or a mutex, yields or     *)
(* returns; gtswitch then asks epoll what has happened and goes to the     *)
(* first thread of the queue, which the running thread stays a member of.  *)
(* The threads that wait for a descriptor are in its bucket, which a hash  *)
(* table finds.                                                            *)
(*                                                                         *)
(* The epoll is the kernel's, see Epoll: it reports one event of a         *)
(* descriptor at a time. It goes on watching a number that was closed, of  *)
(* which it reports nothing until it is opened again: what is open is not  *)
(* modelled, for a descriptor may always have no event.                    *)
(***************************************************************************)
EXTENDS Integers, Sequences, FiniteSets, FiniteSetsExt, SequencesExt

CONSTANTS
  Threads, Main,  \* GThread structures that can be made; the first of them
  Fds,            \* descriptors a thread blocks on
  Masks,          \* what gtblockfd is asked for: sets of events
  MaxLen,         \* bound on pollmap.len
  None

Events == UNION Masks

ASSUME GreenThreadsAssumption ==
  /\ IsFiniteSet(Threads) /\ Main \in Threads
  /\ IsFiniteSet(Fds) /\ Fds \subseteq Nat
  /\ {} \notin Masks /\ Masks \subseteq SUBSET {"in", "out"}
  /\ MaxLen \in Nat /\ None \notin Threads

VARIABLES
  phase,     \* "user", or where gtswitch is, or how the program ended
  current,   \* scheduler.thread_current
  queue, dead,
  made,      \* threads that gtgo has made: not kept by the code
  want,      \* per thread: epoll_events, while it waits
  waiters,   \* per descriptor: the threads of its bucket
  mask,      \* per descriptor: epoll_events of its bucket
  slots,     \* the buckets of pollmap: per slot, the set of descriptors in its chain
  len,       \* pollmap.len
  interest,  \* per descriptor: what the epoll watches, or None
  fired,     \* the events epoll_wait has reported that are still to be looked at
  locked, lockers,   \* a GTMutex
  inside,    \* threads that have locked the mutex: not kept by the code
  lost, cuts \* descriptors whose bucket has been cut off from its chain, and how many
             \* were so far: not kept by the code

lists == <<queue, dead>>
map   == <<waiters, mask, slots, len, interest, lost, cuts>>
mutex == <<locked, lockers, inside>>
vars  == <<phase, current, lists, made, want, map, fired, mutex>>

Init ==
  /\ phase = "user" /\ current = Main
  /\ queue = <<Main>> /\ dead = <<>> /\ made = {Main}
  /\ want = [t \in Threads |-> {}]
  /\ waiters = [fd \in Fds |-> <<>>] /\ mask = [fd \in Fds |-> {}]
  /\ slots = <<>> /\ len = 0
  /\ interest = [fd \in Fds |-> None]
  /\ fired = {}
  /\ locked = FALSE /\ lockers = <<>> /\ inside = {}
  /\ lost = {} /\ cuts = 0

Goto(from, to) == phase = from /\ phase' = to

Without(s, t) == SelectSeq(s, LAMBDA u : u # t)

-----------------------------------------------------------------------------
(* What a thread does *)

\* gtgo: a dead thread is used again.
Go ==
  /\ phase = "user"
  /\ \/ dead # <<>> /\ queue' = Append(queue, Head(dead)) /\ dead' = Tail(dead)
        /\ UNCHANGED made
     \/ /\ dead = <<>> /\ UNCHANGED dead
        /\ \E t \in Threads \ made : queue' = Append(queue, t) /\ made' = made \cup {t}
  /\ UNCHANGED <<phase, current, want, map, fired, mutex>>

Yield ==
  /\ Goto("user", "switch")
  /\ UNCHANGED <<current, made, lists, want, map, fired, mutex>>

\* gtprelude. (When the main thread returns the program ends.)
Return ==
  /\ Goto("user", "switch")
  /\ current # Main /\ current \notin inside
  /\ queue' = Without(queue, current)
  /\ dead' = Append(dead, current)
  /\ UNCHANGED <<current, made, want, map, fired, mutex>>

-----------------------------------------------------------------------------
(* gtblockfd *)

Slot(fd, n) == (fd % n) + 1

InTable(table, fd) == \E i \in DOMAIN table : fd \in table[i]

\* gpoll_map_reserve: all buckets that the old table finds go to their slot of the new one.
Reserved ==
  LET cap == 2 * Len(slots) + 1 IN
  IF len + 1 <= Len(slots) THEN slots
  ELSE [i \in 1 .. cap |-> {fd \in Fds : InTable(slots, fd) /\ Slot(fd, cap) = i}]

\* Faulty: the bucket forgets what other threads wait for.
MaskFaulty(fd, w) == w

\* bucket->epoll_events, once it is found or made
MaskOf(fd, w) == (IF InTable(Reserved, fd) THEN mask[fd] ELSE {}) \cup w

\* gpoll_map_insert: a new bucket takes the slot, whatever chain was there.
Insert(fd) ==
  LET table == Reserved
      at == Slot(fd, Len(table))
  IN  IF InTable(table, fd) THEN slots' = table /\ UNCHANGED <<len, lost, cuts>>
      ELSE /\ slots' = [table EXCEPT ![at] = {fd}]
           /\ len' = len + 1
           /\ lost' = lost \cup table[at]
           /\ cuts' = cuts + Cardinality(table[at])

\* The kernel refuses to add what it has, and the program exits: EPOLL_CTL_ADD.
AddFails(fd) == ~InTable(Reserved, fd) /\ interest[fd] # None

\* Faulty: the thread is in the queue as well.
MoveFaulty(fd) == waiters' = [waiters EXCEPT ![fd] = Append(@, current)] /\ UNCHANGED queue

MoveToBucket(fd) ==
  /\ queue' = Without(queue, current)
  /\ waiters' = [waiters EXCEPT ![fd] = Append(@, current)]

Block(fd, w) ==
  LET old == IF InTable(Reserved, fd) THEN mask[fd] ELSE {} IN
  /\ Goto("user", "switch")
  /\ len < MaxLen
  /\ ~AddFails(fd)
  /\ want' = [want EXCEPT ![current] = w]
  /\ Insert(fd)
  /\ MoveToBucket(fd)
  /\ mask' = [mask EXCEPT ![fd] = MaskOf(fd, w)]
  /\ interest' = IF old = w THEN interest ELSE [interest EXCEPT ![fd] = MaskOf(fd, w)]
  /\ UNCHANGED <<current, made, dead, fired, mutex>>

BlockExits(fd) ==
  /\ Goto("user", "exit")
  /\ len < MaxLen
  /\ AddFails(fd)
  /\ UNCHANGED <<current, made, lists, want, map, fired, mutex>>

-----------------------------------------------------------------------------
(* gtmutex_lock and gtmutex_unlock *)

Lock ==
  /\ phase = "user" /\ current \notin inside
  /\ ~locked
  /\ locked' = TRUE /\ inside' = inside \cup {current}
  /\ UNCHANGED <<phase, current, made, lists, want, map, fired, lockers>>

LockBlocks ==
  /\ Goto("user", "switch")
  /\ locked /\ current \notin inside
  /\ queue' = Without(queue, current)
  /\ lockers' = Append(lockers, current)
  /\ UNCHANGED <<current, made, dead, want, map, fired, locked, inside>>

\* The mutex is handed over to the first thread that waits.
Unlock ==
  /\ phase = "user" /\ current \in inside
  /\ IF lockers = <<>>
     THEN /\ locked' = FALSE /\ inside' = inside \ {current}
          /\ UNCHANGED <<queue, lockers>>
     ELSE /\ queue' = Append(queue, Head(lockers)) /\ lockers' = Tail(lockers)
          /\ inside' = (inside \ {current}) \cup {Head(lockers)}
          /\ UNCHANGED locked
  /\ UNCHANGED <<phase, current, made, dead, want, map, fired>>

-----------------------------------------------------------------------------
(* gtswitch *)

\* epoll_wait: one event of some of the descriptors that are watched. It does not
\* block when a thread can run.
EpollWait ==
  /\ Goto("switch", "events")
  /\ len > 0
  /\ fired' \in SUBSET {<<fd, ev>> : fd \in Fds, ev \in Events}
  /\ \A e \in fired' : interest[e[1]] # None /\ e[2] \in interest[e[1]]
  /\ \A e, f \in fired' : e[1] = f[1] => e = f
  /\ queue = <<>> => fired' # {}
  /\ UNCHANGED <<current, made, lists, want, map, mutex>>

Wakes(t, got) == got \in want[t]

Woken(fd, got) == SelectSeq(waiters[fd], LAMBDA t : Wakes(t, got))
Left(fd, got) == SelectSeq(waiters[fd], LAMBDA t : ~Wakes(t, got))

\* Faulty: the length is not changed.
RemoveBucketFaulty(fd) == slots' = [i \in DOMAIN slots |-> slots[i] \ {fd}] /\ UNCHANGED len

\* gpoll_map_remove: what is not in the table stays allocated.
RemoveBucket(fd) ==
  /\ slots' = [i \in DOMAIN slots |-> slots[i] \ {fd}]
  /\ len' = IF InTable(slots, fd) THEN len - 1 ELSE len

\* What is watched for the threads that go on waiting.
Remask(fd, got) == mask[fd] \ {got}

\* The loop over the events. The descriptor is removed from the epoll once no thread waits.
Event(fd, got) ==
  /\ phase = "events" /\ <<fd, got>> \in fired
  /\ fired' = fired \ {<<fd, got>>}
  /\ queue' = queue \o Woken(fd, got)
  /\ waiters' = [waiters EXCEPT ![fd] = Left(fd, got)]
  /\ IF Left(fd, got) = <<>>
     THEN /\ RemoveBucket(fd)
          /\ interest' = [interest EXCEPT ![fd] = None]
          /\ lost' = lost \ {fd}
     ELSE /\ interest' = [interest EXCEPT ![fd] = Remask(fd, got)]
          /\ UNCHANGED <<slots, len, lost>>
  /\ want' = [t \in Threads |-> IF t \in Range(Woken(fd, got)) THEN {} ELSE want[t]]
  /\ mask' = IF Left(fd, got) = <<>> THEN [mask EXCEPT ![fd] = {}] ELSE mask
  /\ UNCHANGED <<phase, current, made, dead, cuts, mutex>>

\* while(gtlist_empty(&scheduler.queue))
EventsDone ==
  /\ phase = "events" /\ fired = {}
  /\ phase' = IF queue = <<>> THEN "switch" ELSE "dispatch"
  /\ UNCHANGED <<current, made, lists, want, map, fired, mutex>>

\* Faulty: the thread stays the first one.
DispatchFaulty ==
  /\ phase = "dispatch" \/ (phase = "switch" /\ len = 0)
  /\ queue # <<>>
  /\ phase' = "user"
  /\ current' = Head(queue)
  /\ UNCHANGED <<lists, made, want, map, fired, mutex>>

\* The first thread runs, and is the last of the queue. With an empty queue and no bucket
\* gtlist_next would give NULL: for that all threads would have to wait for the mutex.
Dispatch ==
  /\ phase = "dispatch" \/ (phase = "switch" /\ len = 0)
  /\ queue # <<>>
  /\ phase' = "user"
  /\ current' = Head(queue)
  /\ queue' = Append(Tail(queue), Head(queue))
  /\ UNCHANGED <<dead, made, want, map, fired, mutex>>

-----------------------------------------------------------------------------
GivesUp ==
  \/ Yield \/ Return \/ LockBlocks
  \/ \E fd \in Fds, w \in Masks : Block(fd, w)
  \/ \E fd \in Fds : BlockExits(fd)

Switching == EpollWait \/ (\E fd \in Fds, ev \in Events : Event(fd, ev)) \/ EventsDone \/ Dispatch

Next ==
  \/ Go \/ Lock \/ Unlock
  \/ GivesUp
  \/ Switching

\* A thread gives up the processor, now and then with the mutex unlocked: what they all
\* do, for the scheduler has no clock.
Fairness == WF_vars(GivesUp) /\ WF_vars(Switching)

Spec == Init /\ [][Next]_vars /\ Fairness

-----------------------------------------------------------------------------
(* Properties *)

Times(t, s) == Cardinality({i \in DOMAIN s : s[i] = t})

\* How often a thread is in a list.
Places(t) ==
  Times(t, queue) + Times(t, dead) + Times(t, lockers)
  + MapThenSumSet(LAMBDA fd : Times(t, waiters[fd]), Fds)

TypeOK ==
  /\ phase \in {"user", "switch", "events", "dispatch", "exit"}
  /\ current \in made /\ made \subseteq Threads
  /\ queue \in Seq(Threads) /\ dead \in Seq(Threads) /\ lockers \in Seq(Threads)
  /\ want \in [Threads -> {{}} \cup Masks] /\ waiters \in [Fds -> Seq(Threads)]
  /\ mask \in [Fds -> SUBSET Events] /\ interest \in [Fds -> SUBSET Events \cup {None}]
  /\ slots \in Seq(SUBSET Fds) /\ len \in 0 .. MaxLen
  /\ lost \subseteq Fds /\ cuts \in 0 .. MaxLen
  /\ fired \subseteq Fds \X Events
  /\ locked \in BOOLEAN /\ inside \subseteq Threads

\* Between lock and unlock there is one thread, also if it blocks there.
MutexExcludes ==
  /\ Cardinality(inside) <= 1
  /\ locked <=> inside # {}
  /\ lockers # <<>> => locked

\* Types. Every thread that was made is in exactly one of the lists, whose links it has only
\* one of: the one that runs in the queue, those that have returned in the list of the dead.
\* And at most one has the mutex, which passes from hand to hand.
InOneList ==
  /\ TypeOK
  /\ \A t \in Threads : Places(t) = IF t \in made THEN 1 ELSE 0
  /\ phase = "user" => current \in Range(queue)
  /\ MutexExcludes

\* t has asked for all that its bucket remembers, when the epoll watched less already.
Forgets(t, fd) ==
  /\ want[t] = mask[fd] /\ Cardinality(want[t]) > 1
  /\ want[t] \cap interest[fd] # {}

\* The epoll watches all that the threads of a bucket wait for, after the changes of mask on
\* each event and on each new thread, whether the table finds the bucket or not. The
\* exception is a thread that waits for several events: the bucket remembers those that
\* have happened (gt.h:344), the epoll watches the others, and a thread that asks for
\* all of them does not tell it (gt.h:395). One of the others must happen to wake it.
Watched ==
  \A fd \in Fds : waiters[fd] # <<>> =>
    /\ interest[fd] # None
    /\ \A t \in Range(waiters[fd]) : want[t] \subseteq interest[fd] \/ Forgets(t, fd)

\* The table finds the buckets with threads, each in its slot and but for those that another
\* one of the slot has cut off and that wait still, and its length is larger by all that
\* ever were cut off: nothing takes them away again.
TableExact ==
  /\ \A fd \in Fds : InTable(slots, fd) <=> waiters[fd] # <<>> /\ fd \notin lost
  /\ \A i \in DOMAIN slots : \A fd \in slots[i] : Slot(fd, Len(slots)) = i
  /\ \A fd \in lost : waiters[fd] # <<>>
  /\ len = Cardinality({fd \in Fds : InTable(slots, fd)}) + cuts

\* A thread in the queue runs, however many descriptors have events.
QueuedRuns ==
  \A t \in Threads : t \in Range(queue) ~> (phase = "user" /\ current = t) \/ phase = "exit"
=============================================================================
