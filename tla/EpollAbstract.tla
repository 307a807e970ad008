---------------------------- MODULE EpollAbstract ----------------------------
(***************************************************************************)
(* What an epoll promises the one process that holds it: an interest set,  *)
(* which epoll_ctl changes, and waits that only report what is in it. The  *)
(* lists, the poll and the blocking of the caller are not seen.            *)
(***************************************************************************)
CONSTANTS Fds, Events, None

VARIABLES
  interest,   \* per descriptor: the events asked for, or None
  reply       \* the answer of the last call

vars == <<interest, reply>>

Empty == [fd \in Fds |-> None]

Reply(op, status, events) == [op |-> op, status |-> status, events |-> events]

Init == interest = Empty /\ reply = Reply("create", "ok", {})

Set(fd, want) == interest' = [interest EXCEPT ![fd] = want]

Add(fd, want) ==
  \/ reply' = Reply("add", "ok", {}) /\ interest[fd] = None /\ Set(fd, want)
  \/ reply' = Reply("add", "exists", {}) /\ interest[fd] # None /\ UNCHANGED interest
  \/ reply' = Reply("add", "nomem", {}) /\ UNCHANGED interest

Mod(fd, want) ==
  \/ reply' = Reply("mod", "ok", {}) /\ interest[fd] # None /\ Set(fd, want)
  \/ reply' = Reply("mod", "notfound", {}) /\ interest[fd] = None /\ UNCHANGED interest

Del(fd) ==
  \/ reply' = Reply("del", "ok", {}) /\ interest[fd] # None /\ Set(fd, None)
  \/ reply' = Reply("del", "notfound", {}) /\ interest[fd] = None /\ UNCHANGED interest

\* At most one event of each descriptor, and one that was asked for.
Wait ==
  /\ reply' = Reply("wait", "ok", reply'.events)
  /\ reply'.events \subseteq Fds \X Events
  /\ \A e \in reply'.events : interest[e[1]] # None /\ e[2] \in interest[e[1]]
  /\ \A e, f \in reply'.events : e[1] = f[1] => e = f
  /\ UNCHANGED interest

Close == reply' = Reply("close", "ok", {}) /\ interest' = Empty

Next ==
  \/ \E fd \in Fds, want \in SUBSET Events : Add(fd, want) \/ Mod(fd, want)
  \/ \E fd \in Fds : Del(fd)
  \/ Wait
  \/ Close

Spec == Init /\ [][Next]_vars

=============================================================================
