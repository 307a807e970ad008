-------------------------------- MODULE Epoll --------------------------------
(***************************************************************************)
(* epoll (epoll.c; sys_epoll_* in arch/x86_64/syscall.c; block_epoll and   *)
(* try_resolve_epoll in thread_blocker.c).                                 *)
(*                                                                         *)
(* An epoll has two lists of entries: unready, and ready, where a poll     *)
(* puts the entries whose descriptor has an event until the caller takes   *)
(* them. fork shares the epoll between processes: an entry names a         *)
(* descriptor, which each of them looks up in its own table.               *)
(*                                                                         *)
(* A poll looks at all descriptors in one action. Those that two processes *)
(* both have open are taken to be the same file. result_events of an entry *)
(* that is not ready is reset before it is read, and is not kept.          *)
(***************************************************************************)
EXTENDS Naturals, Sequences, FiniteSets, FiniteSetsExt, SequencesExt

CONSTANTS
  Procs,      \* processes, each with one thread
  First,      \* the process that makes the epoll
  Callers,    \* the processes that do more with it than close it
  Fds,        \* descriptors
  Events,     \* of "in", "out", "hup"
  Batches,    \* the maxevents that callers pass
  MaxEntries, \* entries that can be allocated before memory runs out
  None

ASSUME EpollAssumption ==
  /\ First \in Procs /\ Callers \subseteq Procs
  /\ Events \subseteq {"in", "out", "hup"}
  /\ Batches \subseteq Nat /\ MaxEntries \in Nat
  /\ IsFiniteSet(Fds) /\ \A S \in SUBSET Events : None # S

Modes == {"poll", "forever", "limit"}    \* timeout = 0, < 0 and > 0

VARIABLES
  holders,    \* processes with a descriptor for the epoll
  open,       \* per process: its open descriptors
  cond,       \* per descriptor: what inode_is_readable, ... say of its file
  unready,    \* epoll->unready
  ready,      \* epoll->ready
  pc, mode, batch,   \* per process: where it is; timeout, maxevents of its wait
  allocated,  \* entries allocated and not freed: not kept by the code
  reply,      \* the answer of the last call
  panicked    \* the assertion in epoll_poll has failed

lists  == <<unready, ready, allocated>>
thread == <<pc, mode, batch>>
env    == <<open, cond>>
vars   == <<holders, env, lists, thread, reply, panicked>>

Reply(op, status, events) == [op |-> op, status |-> status, events |-> events]

Init ==
  /\ holders = {First}
  /\ open = [p \in Procs |-> IF p = First THEN Fds ELSE {}]
  /\ cond = [fd \in Fds |-> {}]
  /\ unready = <<>> /\ ready = <<>> /\ allocated = 0
  /\ pc = [p \in Procs |-> IF p = First THEN "user" ELSE "none"]
  /\ mode = [p \in Procs |-> "poll"]
  /\ batch = [p \in Procs |-> 0]
  /\ reply = Reply("create", "ok", {})
  /\ panicked = FALSE

-----------------------------------------------------------------------------
At(p, label) == ~panicked /\ pc[p] = label

Calls(p) == At(p, "user") /\ p \in holders

Uses(p) == Calls(p) /\ p \in Callers

Goto(p, from, to) == At(p, from) /\ pc' = [pc EXCEPT ![p] = to]

\* epoll_find: the first entry of unready with the descriptor, or 0.
Find(fd) == SelectInSeq(unready, LAMBDA e : e.fd = fd)

-----------------------------------------------------------------------------
(* epoll_ctl: nothing checks that fd is open. *)

\* Faulty: the descriptor may be there already.
AddFaulty(p, fd, want) ==
  /\ Uses(p)
  /\ allocated < MaxEntries
  /\ unready' = Append(unready, [fd |-> fd, want |-> want])
  /\ allocated' = allocated + 1
  /\ reply' = Reply("add", "ok", {})
  /\ UNCHANGED <<holders, env, ready, thread, panicked>>

Add(p, fd, want) ==
  /\ Uses(p)
  /\ \/ /\ Find(fd) = 0 /\ allocated < MaxEntries
        /\ unready' = Append(unready, [fd |-> fd, want |-> want])
        /\ allocated' = allocated + 1
        /\ reply' = Reply("add", "ok", {})
     \/ /\ Find(fd) # 0
        /\ reply' = Reply("add", "exists", {})
        /\ UNCHANGED <<unready, allocated>>
     \/ /\ reply' = Reply("add", "nomem", {})
        /\ UNCHANGED <<unready, allocated>>
  /\ UNCHANGED <<holders, env, ready, thread, panicked>>

Mod(p, fd, want) ==
  /\ Uses(p)
  /\ IF Find(fd) = 0 THEN UNCHANGED unready
     ELSE unready' = [unready EXCEPT ![Find(fd)].want = want]
  /\ reply' = Reply("mod", IF Find(fd) = 0 THEN "notfound" ELSE "ok", {})
  /\ UNCHANGED <<holders, env, ready, allocated, thread, panicked>>

Del(p, fd) ==
  /\ Uses(p)
  /\ IF Find(fd) = 0 THEN UNCHANGED <<unready, allocated>>
     ELSE unready' = RemoveAt(unready, Find(fd)) /\ allocated' = allocated - 1
  /\ reply' = Reply("del", IF Find(fd) = 0 THEN "notfound" ELSE "ok", {})
  /\ UNCHANGED <<holders, env, ready, thread, panicked>>

-----------------------------------------------------------------------------
(* epoll_poll, for the descriptors of process p *)

Hits(e) == e.want \cap cond[e.fd]

\* EPOLLIN before EPOLLOUT before EPOLLHUP, and only one of them.
Got(e) ==
  IF "in" \in Hits(e) THEN "in" ELSE IF "out" \in Hits(e) THEN "out" ELSE "hup"

Fires(p, e) == e.fd \in open[p] /\ Hits(e) # {}

\* Where the entries are that fire.
Firing(p) == {i \in DOMAIN unready : Fires(p, unready[i])}

\* What the loop over the list moves, or leaves behind: the entries at some places, in order.
Nth(places, k) == CHOOSE i \in places : Cardinality({j \in places : j <= i}) = k

Selected(s, places) == [k \in 1 .. Cardinality(places) |-> s[Nth(places, k)]]

\* Faulty: any entry ends the wait.
TerminalFaulty(p) == unready # <<>>

\* Faulty: only the first entry is looked at.
TerminalFirst(p) ==
  unready # <<>> /\ (unready[1].fd \notin open[p] \/ Fires(p, unready[1]))

\* A descriptor that is not open ends the wait too, and stays where it is.
Terminal(p) == \E i \in DOMAIN unready : unready[i].fd \notin open[p] \/ Fires(p, unready[i])

\* It begins with debug_assert(list_empty(&epoll->ready)).
PollLists(p) ==
  LET fired == Selected(unready, Firing(p)) IN
  IF ready # <<>> THEN panicked' = TRUE /\ UNCHANGED <<ready, unready>>
  ELSE /\ ready' = [i \in DOMAIN fired |->
                      [fd |-> fired[i].fd, want |-> fired[i].want, got |-> Got(fired[i])]]
       /\ unready' = Selected(unready, DOMAIN unready \ Firing(p))
       /\ UNCHANGED panicked

-----------------------------------------------------------------------------
(* epoll_wait *)

Wait(p, m, max) ==
  /\ Uses(p)
  /\ pc' = [pc EXCEPT ![p] = IF m = "poll" THEN "poll" ELSE "blocked"]
  /\ mode' = [mode EXCEPT ![p] = m]
  /\ batch' = [batch EXCEPT ![p] = max]
  /\ UNCHANGED <<holders, env, lists, reply, panicked>>

Poll(p) ==
  /\ Goto(p, "poll", "collect")
  /\ PollLists(p)
  /\ UNCHANGED <<holders, env, allocated, mode, batch, reply>>

\* try_resolve_epoll in the timer handler: the deadline is looked at first. A poll
\* that finds nothing changes nothing.
Resolve(p) ==
  /\ Goto(p, "blocked", "collect")
  /\ Terminal(p) \/ ready # <<>>
  /\ PollLists(p)
  /\ UNCHANGED <<holders, env, allocated, mode, batch, reply>>

Expire(p) ==
  /\ Goto(p, "blocked", "collect")
  /\ mode[p] = "limit"
  /\ UNCHANGED <<holders, env, lists, mode, batch, reply, panicked>>

\* How many events the loop of sys_epoll_wait takes.
Taken(p) == Min({batch[p], Len(ready)})

Collect(p) ==
  LET taken == SubSeq(ready, 1, Taken(p)) IN
  /\ Goto(p, "collect", "user")
  /\ ready' = SubSeq(ready, Taken(p) + 1, Len(ready))
  /\ unready' = unready \o [i \in DOMAIN taken |->
                              [fd |-> taken[i].fd, want |-> taken[i].want]]
  /\ reply' = Reply("wait", "ok", {<<e.fd, e.got>> : e \in ToSet(taken)})
  /\ UNCHANGED <<holders, env, allocated, mode, batch, panicked>>

-----------------------------------------------------------------------------
(* close of the epoll's descriptor, and what else happens around an epoll *)

\* Faulty: the entries of the unready list are not freed.
CleanupFaulty ==
  /\ allocated' = allocated - Len(ready)
  /\ unready' = <<>> /\ ready' = <<>>

\* epoll_cleanup: frees what is on the two lists.
Cleanup ==
  /\ allocated' = allocated - Len(unready) - Len(ready)
  /\ unready' = <<>> /\ ready' = <<>>

Close(p) ==
  /\ Calls(p)
  /\ holders' = holders \ {p}
  /\ IF holders = {p} THEN Cleanup ELSE UNCHANGED lists
  /\ reply' = IF holders = {p} THEN Reply("close", "ok", {}) ELSE reply
  /\ UNCHANGED <<env, thread, panicked>>

\* epoll_create1, once the last epoll is gone: one is modelled.
Create(p) ==
  /\ At(p, "user") /\ p \in Callers
  /\ holders = {}
  /\ holders' = {p}
  /\ UNCHANGED <<env, lists, thread, reply, panicked>>

\* resourceblock_clone: the child has the descriptors of its parent.
Fork(p, q) ==
  /\ Calls(p)
  /\ pc[q] = "none"
  /\ pc' = [pc EXCEPT ![q] = "user"]
  /\ open' = [open EXCEPT ![q] = open[p]]
  /\ holders' = holders \cup {q}
  /\ UNCHANGED <<cond, lists, mode, batch, reply, panicked>>

OpenFd(p, fd) ==
  /\ At(p, "user") /\ p \in Callers
  /\ fd \notin open[p]
  /\ open' = [open EXCEPT ![p] = @ \cup {fd}]
  /\ UNCHANGED <<holders, cond, lists, thread, reply, panicked>>

CloseFd(p, fd) ==
  /\ At(p, "user") /\ p \in Callers
  /\ fd \in open[p]
  /\ open' = [open EXCEPT ![p] = @ \ {fd}]
  /\ UNCHANGED <<holders, cond, lists, thread, reply, panicked>>

\* Data comes or is read, space comes or is written, a peer goes.
Change(fd, ev) ==
  /\ ~panicked
  /\ cond' = [cond EXCEPT ![fd] = SymDiff(@, {ev})]
  /\ UNCHANGED <<holders, open, lists, thread, reply, panicked>>

-----------------------------------------------------------------------------
Step(p) == Poll(p) \/ Resolve(p) \/ Expire(p) \/ Collect(p)

Next ==
  \/ \E p \in Procs :
       \/ Step(p)
       \/ \E fd \in Fds, want \in SUBSET Events : Add(p, fd, want) \/ Mod(p, fd, want)
       \/ \E fd \in Fds : Del(p, fd) \/ OpenFd(p, fd) \/ CloseFd(p, fd)
       \/ \E m \in Modes, max \in Batches : Wait(p, m, max)
       \/ Close(p) \/ Create(p)
       \/ \E q \in Procs : Fork(p, q)
  \/ \E fd \in Fds, ev \in Events : Change(fd, ev)

Spec == Init /\ [][Next]_vars

\* A caller that is not blocked goes on; every timer interrupt looks at the
\* blockers of the queue, and the clock reaches every deadline.
FairSpec == Spec /\ \A p \in Procs : WF_vars(Step(p))

-----------------------------------------------------------------------------
(* Properties *)

Entry == [fd : Fds, want : SUBSET Events]
ReadyEntry == [fd : Fds, want : SUBSET Events, got : Events]

TypeOK ==
  /\ holders \in SUBSET Procs
  /\ open \in [Procs -> SUBSET Fds]
  /\ cond \in [Fds -> SUBSET Events]
  /\ unready \in Seq(Entry) /\ ready \in Seq(ReadyEntry)
  /\ allocated \in Nat
  /\ pc \in [Procs -> {"none", "user", "poll", "blocked", "collect"}]
  /\ mode \in [Procs -> Modes]
  /\ batch \in [Procs -> {0} \cup Batches]
  /\ panicked \in BOOLEAN

\* Every entry that is allocated is on one of the lists: a refused add, a del, and
\* the last close of an epoll that several processes held leak none and free none
\* twice. And every variable has its type.
EntriesAccounted == TypeOK /\ allocated = Len(unready) + Len(ready)

\* epoll.c:51, debug_assert(list_empty(&epoll->ready)): a poll finds the ready list
\* as the last wait left it, and it is empty.
ReadyEmptyAtPoll == ~panicked

\* The interest of the process: the events its entries ask for, on either list.
InterestOf(fd) ==
  LET wants == {e.want : e \in {x \in ToSet(unready) \cup ToSet(ready) : x.fd = fd}}
  IN  IF wants = {} THEN None ELSE UNION wants

Abstract == INSTANCE EpollAbstract WITH interest <- [fd \in Fds |-> InterestOf(fd)]

\* To a process that shares it with nobody and takes all events of a wait, the two
\* lists are an interest set: add, mod and del find a descriptor exactly if it was
\* added and not deleted, and a wait reports what was asked for.
InterestSet == Abstract!Spec

\* A wait without timeout that has room for an event returns one, unless a
\* descriptor in the epoll is closed: it never wakes for nothing.
ForeverReturnsEvents ==
  [][\A p \in Procs :
       pc[p] = "collect" /\ pc'[p] = "user" /\ mode[p] = "forever" /\ batch[p] > 0
       => \/ reply'.events # {}
          \/ \E i \in DOMAIN unready : unready[i].fd \notin open[p]]_vars

Armed(p, fd) ==
  /\ fd \in open[p]
  /\ \E i \in DOMAIN unready : unready[i].fd = fd /\ unready[i].want \cap cond[fd] # {}

\* A process blocked in a wait is woken by an event that lasts, of whichever
\* descriptor; by one that does not last it may or may not be.
EventWakes ==
  \A p \in Procs, fd \in Fds :
    (pc[p] = "blocked" /\ Armed(p, fd)) ~> (pc[p] # "blocked" \/ ~Armed(p, fd) \/ panicked)

=============================================================================
