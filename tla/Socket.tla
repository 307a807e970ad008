------------------------------- MODULE Socket -------------------------------
(***************************************************************************)
(* Local sockets (sockets/minos.c): a server binds a name, listens and     *)
(* accepts; clients find the name and connect; both read, write and close. *)
(*                                                                         *)
(* A listening socket stays in tmpfs for good, under its name: a server    *)
(* that starts again binds a new one under the same name. A connection is  *)
(* a MinOSClient object of a slab cache, to which the client's inode       *)
(* refers and, once it is accepted, the inode of the server. Both close    *)
(* it, and the second one is meant to free it. What happens to a buffer    *)
(* under its mutex is one step; the lock of the pending list is a variable *)
(* of its own, for the timer interrupt takes it as well.                   *)
(***************************************************************************)
EXTENDS Naturals, Sequences, FiniteSets, SequencesExt, FiniteSetsExt

CONSTANTS
  Clients, Servers,  \* tasks
  Talkers,           \* bound: the tasks that read and write
  Cpu,               \* the processor of each task
  NListeners,        \* bound on listening sockets: on starts of servers
  NObjects,          \* MinOSClient objects there is memory for
  Backlogs,          \* arguments of listen
  MaxBuf,            \* MINOS_SOCKET_MAX_DATABUF, in pieces
  None

Tasks == Clients \cup Servers
Listeners == 1 .. NListeners
Objects == 1 .. NObjects

\* client_write_buf and client_read_buf
Up == "up"
Down == "down"
Buffers == {Up, Down}

ASSUME SocketAssumption ==
  /\ IsFiniteSet(Clients) /\ IsFiniteSet(Servers) /\ Clients \cap Servers = {}
  /\ Talkers \subseteq Tasks
  /\ Cpu \in [Tasks -> Nat]
  /\ NListeners \in Nat /\ NObjects \in Nat /\ Backlogs \subseteq Nat /\ MaxBuf \in Nat \ {0}
  /\ None \notin Tasks \cup Objects

VARIABLES
  pc,
  listener,   \* per server: the listening socket it made last, or 0
  ready,      \* listening sockets whose ops are minos_server_ops
  named,      \* listening sockets with the name, in the order of the directory
  pending,    \* per listening socket: server->pending.items
  cap,        \* and how many have room in it
  lock,       \* per listening socket: the task that has pending.lock, or None
  target,     \* per client: the listening socket it connects to, or 0
  conn,       \* per task: its connection; ops of the inode, and inode->priv
  live,       \* objects that are allocated
  closed, waiting,  \* per object: client->closed, client->pending
  buf,        \* per object and buffer: len, cap, and whether its mutex is locked
  wedged,     \* processors that spin for ever in the timer interrupt
  \* The history, which the code does not keep:
  late,       \* closed was set in an object that belonged to another connection by then
  raced,      \* objects that both sides found open when they closed
  unused      \* objects of sockets closed before they were connected

network == <<listener, ready, named, pending, cap, lock>>
history == <<late, raced, unused>>
vars == <<pc, network, target, conn, live, closed, waiting, buf, wedged, history>>

NoConn == [ops |-> "none", priv |-> None]
EmptyBuffer == [len |-> 0, locked |-> FALSE]

Init ==
  /\ pc = [t \in Tasks |-> IF t \in Servers THEN "start" ELSE "user"]
  /\ listener = [s \in Servers |-> 0]
  /\ ready = {} /\ named = <<>>
  /\ pending = [l \in Listeners |-> <<>>]
  /\ cap = [l \in Listeners |-> 0]
  /\ lock = [l \in Listeners |-> None]
  /\ target = [c \in Clients |-> 0]
  /\ conn = [t \in Tasks |-> NoConn]
  /\ live = {}
  /\ closed = [o \in Objects |-> FALSE]
  /\ waiting = [o \in Objects |-> FALSE]
  /\ buf = [o \in Objects |-> [b \in Buffers |-> EmptyBuffer]]
  /\ wedged = {}
  /\ late = FALSE /\ raced = {} /\ unused = {}

\* The model stops when an object of another connection has been written.
At(t, label) == pc[t] = label /\ Cpu[t] \notin wedged /\ ~late
Goto(t, from, to) == At(t, from) /\ pc' = [pc EXCEPT ![t] = to]

Object(t) == conn[t].priv

-----------------------------------------------------------------------------
(* The server: bind, listen, accept *)

\* socket: the numbers that no socket has had.
NewListeners == Listeners \ (Range(named) \cup ready \cup Range(listener))

\* bind: tmpfs_socket_creat does not look for the name.
Bind(s, l) ==
  /\ \/ At(s, "start") /\ l \in NewListeners
     \/ At(s, "bound") /\ l = listener[s] /\ l \notin Range(named)
  /\ pc' = [pc EXCEPT ![s] = "bound"]
  /\ listener' = [listener EXCEPT ![s] = l]
  /\ named' = Append(named, l)
  /\ UNCHANGED <<ready, pending, cap, lock, target, conn, live, closed, waiting, buf, wedged,
                 history>>

\* Without memory, or a directory of tmpfs for the name, there is no name, but the socket
\* has its address, which is all that listen asks for.
BindFails(s, l) ==
  /\ At(s, "start") /\ l \in NewListeners
  /\ pc' = [pc EXCEPT ![s] = "bound"]
  /\ listener' = [listener EXCEPT ![s] = l]
  /\ UNCHANGED <<ready, named, pending, cap, lock, target, conn, live, closed, waiting, buf, wedged,
                 history>>

\* listen: the pool has room for n clients at least. (Without memory for them the socket
\* stays as it is, and so do the clients that have found its name.)
Listen(s, n) ==
  /\ Goto(s, "bound", "user")
  /\ Len(pending[listener[s]]) <= n
  /\ cap' = [cap EXCEPT ![listener[s]] = IF @ < n THEN n ELSE @]
  /\ ready' = ready \cup {listener[s]}
  /\ UNCHANGED <<listener, named, pending, lock, target, conn, live, closed, waiting, buf,
                 wedged, history>>

\* sys_accept: block_is_readable comes first.
Accept(s) ==
  /\ s \in Servers
  /\ Goto(s, "user", "blocked")
  /\ conn[s] = NoConn
  /\ UNCHANGED <<network, target, conn, live, closed, waiting, buf, wedged, history>>

\* The timer interrupt of the processor of s, minos_server_is_readable.
Poll(s) ==
  /\ Goto(s, "blocked", "accept")
  /\ lock[listener[s]] = None
  /\ pending[listener[s]] # <<>>
  /\ UNCHANGED <<network, target, conn, live, closed, waiting, buf, wedged, history>>

\* The interrupted task of the same processor has the lock.
PollSpins(s) ==
  /\ At(s, "blocked")
  /\ \E t \in Tasks : lock[listener[s]] = t /\ Cpu[t] = Cpu[s]
  /\ wedged' = wedged \cup {Cpu[s]}
  /\ UNCHANGED <<pc, network, target, conn, live, closed, waiting, buf, history>>

AcceptLock(s) ==
  /\ Goto(s, "accept", "take")
  /\ lock[listener[s]] = None
  /\ lock' = [lock EXCEPT ![listener[s]] = s]
  /\ UNCHANGED <<listener, ready, named, pending, cap, target, conn, live, closed, waiting, buf,
                 wedged, history>>


\* minos_accept, up to rwlock_end_write
AcceptTake(s) ==
  LET l == listener[s]
      o == Head(pending[l])
  IN  /\ Goto(s, "take", "user")
      /\ pending[l] # <<>>
      /\ conn' = [conn EXCEPT ![s] = [ops |-> "server_client", priv |-> o]]
      /\ pending' = [pending EXCEPT ![l] = Tail(@)]
      /\ waiting' = [waiting EXCEPT ![o] = FALSE]
      /\ lock' = [lock EXCEPT ![l] = None]
      /\ UNCHANGED <<listener, ready, named, cap, target, live, closed, buf, wedged, history>>

\* Another server of the same listening socket was faster: -WOULD_BLOCK.
AcceptFails(s) ==
  /\ Goto(s, "take", "user")
  /\ pending[listener[s]] = <<>>
  /\ lock' = [lock EXCEPT ![listener[s]] = None]
  /\ UNCHANGED <<listener, ready, named, pending, cap, target, conn, live, closed, waiting, buf,
                 wedged, history>>

\* fork: the new process shares the listening socket of s, which has accepted nothing.
ForkServer(s, t) ==
  /\ At(s, "user") /\ conn[s] = NoConn
  /\ At(t, "start")
  /\ pc' = [pc EXCEPT ![t] = "user"]
  /\ listener' = [listener EXCEPT ![t] = listener[s]]
  /\ UNCHANGED <<ready, named, pending, cap, lock, target, conn, live, closed, waiting, buf,
                 wedged, history>>

\* Its listening socket is kept by tmpfs, or by the reference that a failed bind has left,
\* and nothing is done to it: its ops have no cleanup. (The connection, if any, was
\* closed: see below.)
ExitServer(s) ==
  /\ s \in Servers
  /\ Goto(s, "user", "start") \/ Goto(s, "bound", "start")
  /\ conn[s] = NoConn
  /\ UNCHANGED <<network, target, conn, live, closed, waiting, buf, wedged, history>>

-----------------------------------------------------------------------------
(* The client: socket, connect *)

\* cache_alloc: which of the free objects it is makes no difference.
FreeObject == CHOOSE o \in Objects : o \notin live

\* Faulty: the memory is as the connection before left it.
NewSocketFaulty(c) ==
  LET o == FreeObject IN
  /\ At(c, "user") /\ conn[c] = NoConn
  /\ live # Objects
  /\ live' = live \cup {o}
  /\ conn' = [conn EXCEPT ![c] = [ops |-> "init", priv |-> o]]
  /\ UNCHANGED <<pc, network, target, closed, waiting, buf, wedged, history>>

\* minos_socket_new: the memory is cleared.
NewSocket(c) ==
  LET o == FreeObject IN
  /\ At(c, "user") /\ conn[c] = NoConn
  /\ live # Objects
  /\ live' = live \cup {o}
  /\ conn' = [conn EXCEPT ![c] = [ops |-> "init", priv |-> o]]
  /\ closed' = [closed EXCEPT ![o] = FALSE]
  /\ waiting' = [waiting EXCEPT ![o] = FALSE]
  /\ buf' = [buf EXCEPT ![o] = [b \in Buffers |-> EmptyBuffer]]
  /\ UNCHANGED <<pc, network, target, wedged, history>>

\* vfs_find: the first entry of that name.
Found == named[1]

ConnectFind(c) ==
  /\ c \in Clients
  /\ Goto(c, "user", "find")
  /\ conn[c].ops = "init"
  /\ named # <<>>
  /\ target' = [target EXCEPT ![c] = Found]
  /\ UNCHANGED <<network, conn, live, closed, waiting, buf, wedged, history>>

\* while(server_socket->ops != &minos_server_ops), then the lock
ConnectLock(c) ==
  /\ Goto(c, "find", "push")
  /\ target[c] \in ready
  /\ lock[target[c]] = None
  /\ lock' = [lock EXCEPT ![target[c]] = c]
  /\ UNCHANGED <<listener, ready, named, pending, cap, target, conn, live, closed, waiting, buf,
                 wedged, history>>

ConnectPush(c) ==
  LET l == target[c] IN
  /\ Goto(c, "push", "pending")
  /\ Len(pending[l]) < cap[l]
  /\ pending' = [pending EXCEPT ![l] = Append(@, Object(c))]
  /\ waiting' = [waiting EXCEPT ![Object(c)] = TRUE]
  /\ lock' = [lock EXCEPT ![l] = None]
  /\ UNCHANGED <<listener, ready, named, cap, target, conn, live, closed, buf, wedged, history>>

\* -BUFFER_TOO_SMALL
ConnectRefused(c) ==
  LET l == target[c] IN
  /\ Goto(c, "push", "user")
  /\ Len(pending[l]) >= cap[l]
  /\ lock' = [lock EXCEPT ![l] = None]
  /\ target' = [target EXCEPT ![c] = 0]
  /\ UNCHANGED <<listener, ready, named, pending, cap, conn, live, closed, waiting, buf, wedged,
                 history>>

\* while(mc->pending && !mc->closed)
ConnectDone(c) ==
  /\ Goto(c, "pending", "user")
  /\ ~waiting[Object(c)] \/ closed[Object(c)]
  /\ conn' = [conn EXCEPT ![c].ops = "client"]
  /\ target' = [target EXCEPT ![c] = 0]
  /\ UNCHANGED <<network, live, closed, waiting, buf, wedged, history>>

-----------------------------------------------------------------------------
(* read and write. The client writes Up and reads Down, the server the reverse. *)

Connected(t) == conn[t].ops \in {"client", "server_client"}
WriteBuf(t) == IF conn[t].ops = "client" THEN Up ELSE Down
ReadBuf(t) == IF conn[t].ops = "client" THEN Down ELSE Up

\* What is longer than the room there is, is cut. (The memory behind the buffer, which
\* minos_data_reserve_at_least makes too small, is not modelled.)
Write(t, size) ==
  LET o == Object(t)
      b == buf[o][WriteBuf(t)]
  IN  /\ At(t, "user") /\ Connected(t)
      /\ ~b.locked /\ b.len < MaxBuf
      /\ buf' = [buf EXCEPT ![o][WriteBuf(t)].len = Min({MaxBuf, b.len + size})]
      /\ UNCHANGED <<pc, network, target, conn, live, closed, waiting, wedged, history>>

\* No room, or no memory: the writer locks the mutex that it has locked.
WriteStuck(t) ==
  LET o == Object(t) IN
  /\ Goto(t, "user", "stuck")
  /\ Connected(t)
  /\ ~buf[o][WriteBuf(t)].locked
  /\ buf' = [buf EXCEPT ![o][WriteBuf(t)].locked = TRUE]
  /\ UNCHANGED <<network, target, conn, live, closed, waiting, wedged, history>>

Readable(t) ==
  LET o == Object(t) IN closed[o] \/ (~buf[o][ReadBuf(t)].locked /\ buf[o][ReadBuf(t)].len > 0)

\* sys_read waits for minos_is_readable; then minos_read gives some of what there is, or
\* the end.
Read(t) ==
  LET o == Object(t)
      n == buf[o][ReadBuf(t)].len
  IN  /\ At(t, "user") /\ Connected(t)
      /\ Readable(t)
      /\ ~buf[o][ReadBuf(t)].locked
      /\ \E k \in 0 .. n :
           /\ k = 0 <=> n = 0
           /\ buf' = [buf EXCEPT ![o][ReadBuf(t)].len = n - k]
      /\ UNCHANGED <<pc, network, target, conn, live, closed, waiting, wedged, history>>

-----------------------------------------------------------------------------
(* close: minos_client_cleanup *)

\* A socket that was never connected has no cleanup: its object stays.
CloseUnused(c) ==
  /\ At(c, "user") /\ conn[c].ops = "init"
  /\ conn' = [conn EXCEPT ![c] = NoConn]
  /\ unused' = unused \cup {Object(c)}
  /\ UNCHANGED <<pc, network, target, live, closed, waiting, buf, wedged, late, raced>>

\* Faulty: the first one frees it.
CloseTestFaulty(t) ==
  /\ Goto(t, "user", "free")
  /\ Connected(t)
  /\ UNCHANGED <<network, target, conn, live, closed, waiting, buf, wedged, history>>

\* Faulty: nobody frees it.
CloseTestLeaksFaulty(t) ==
  /\ Connected(t)
  /\ Goto(t, "user", "mark")
  /\ UNCHANGED <<network, target, conn, live, closed, waiting, buf, wedged, history>>

\* if(client->closed)
CloseTest(t) ==
  /\ Connected(t)
  /\ Goto(t, "user", IF closed[Object(t)] THEN "free" ELSE "mark")
  /\ LET other == {u \in Tasks : pc[u] = "mark" /\ Object(u) = Object(t)} IN
       raced' = IF closed[Object(t)] \/ other = {} THEN raced ELSE raced \cup {Object(t)}
  /\ UNCHANGED <<network, target, conn, live, closed, waiting, buf, wedged, late, unused>>

\* The mutexes of both buffers are taken on the way.
CloseFree(t) ==
  /\ Goto(t, "free", "freed")
  /\ \A b \in Buffers : ~buf[Object(t)][b].locked
  /\ live' = live \ {Object(t)}
  /\ UNCHANGED <<network, target, conn, closed, waiting, buf, wedged, history>>

\* client->closed = true, whether it has been freed or not.
CloseMark(t) ==
  LET o == Object(t) IN
  /\ \/ Goto(t, "mark", "user") /\ late' = late
     \/ Goto(t, "freed", "user") /\ late' = (late \/ o \in live)
  /\ closed' = [closed EXCEPT ![o] = TRUE]
  /\ conn' = [conn EXCEPT ![t] = NoConn]
  /\ UNCHANGED <<network, target, live, waiting, buf, wedged, raced, unused>>

-----------------------------------------------------------------------------
Next ==
  \/ \E s \in Servers :
       \/ \E l \in Listeners : Bind(s, l) \/ BindFails(s, l)
       \/ \E n \in Backlogs : Listen(s, n)
       \/ Accept(s) \/ Poll(s) \/ PollSpins(s)
       \/ AcceptLock(s) \/ AcceptTake(s) \/ AcceptFails(s) \/ ExitServer(s)
       \/ \E t \in Servers : ForkServer(s, t)
  \/ \E c \in Clients :
       \/ NewSocket(c) \/ ConnectFind(c) \/ ConnectLock(c) \/ ConnectPush(c) \/ ConnectRefused(c)
       \/ ConnectDone(c) \/ CloseUnused(c)
  \/ \E t \in Talkers :
       \/ \E n \in 1 .. MaxBuf : Write(t, n)
       \/ WriteStuck(t) \/ Read(t)
  \/ \E t \in Tasks : CloseTest(t) \/ CloseFree(t) \/ CloseMark(t)

Spec == Init /\ [][Next]_vars

\* A task that runs goes on, and the timer interrupts its processor again and again. A
\* lock that is free again and again is taken in the end.
Fairness ==
  /\ \A s \in Servers :
       SF_vars(Poll(s)) /\ SF_vars(AcceptLock(s)) /\ WF_vars(AcceptTake(s) \/ AcceptFails(s))
  /\ \A c \in Clients :
       WF_vars(ConnectPush(c) \/ ConnectRefused(c)) /\ WF_vars(ConnectDone(c))

FairSpec == Spec /\ Fairness

-----------------------------------------------------------------------------
(* Properties *)

PC == {"start", "bound", "user", "blocked", "accept", "take", "find", "push", "pending", "stuck",
       "free", "freed", "mark"}

\* Types; and the list of clients that wait is never longer than its memory.
TypeOK ==
  /\ pc \in [Tasks -> PC]
  /\ listener \in [Servers -> 0 .. NListeners] /\ target \in [Clients -> 0 .. NListeners]
  /\ named \in Seq(Listeners) /\ ready \subseteq Listeners
  /\ pending \in [Listeners -> Seq(Objects)] /\ cap \in [Listeners -> Nat]
  /\ \A l \in Listeners : Len(pending[l]) <= cap[l]
  /\ lock \in [Listeners -> Tasks \cup {None}]
  /\ conn \in [Tasks -> [ops : {"none", "init", "client", "server_client"},
                         priv : Objects \cup {None}]]
  /\ live \subseteq Objects
  /\ closed \in [Objects -> BOOLEAN] /\ waiting \in [Objects -> BOOLEAN]
  /\ buf \in [Objects -> [Buffers -> [len : 0 .. MaxBuf, locked : BOOLEAN]]]
  /\ late \in BOOLEAN /\ raced \subseteq Objects /\ unused \subseteq Objects

\* The tasks that have o, and have not freed it.
Holders(o) == {t \in Tasks : Object(t) = o /\ pc[t] # "freed"}

\* The memory of a connection is there as long as somebody can reach it: through the inode
\* of a socket, or through the list of the clients that wait, which has only clients that do
\* wait and each of them once. And TypeOK.
ObjectsAlive ==
  /\ TypeOK
  /\ late \/
     /\ \A t \in Tasks : Object(t) # None /\ pc[t] # "freed" => Object(t) \in live
     /\ \A l \in Listeners :
          /\ IsInjective(pending[l])
          /\ \A o \in Range(pending[l]) :
               o \in live /\ waiting[o] /\ \E c \in Clients : pc[c] = "pending" /\ Object(c) = o

\* The memory of a connection that nobody can reach is free again, but for two leaks: a
\* socket that was closed before it was connected, and two sides that closed at once.
LeaksExplained ==
  late \/ \A o \in live : {t \in Tasks : Object(t) = o} # {} \/ o \in raced \cup unused

\* A client is connected to one server, which has accepted it; it is alone with its
\* connection only after the server has closed it.
ConnectedToOne ==
  \/ late
  \/ \A c \in Clients :
       LET o == Object(c)
           peers == Holders(o) \cap Servers
       IN  conn[c].ops = "client" /\ pc[c] # "freed" =>
             Cardinality(peers) <= 1 /\ (peers = {} => closed[o])

\* Whoever finds a connection closed, and takes an empty buffer for the end, has no peer
\* that could still write.
ClosedMeansAlone ==
  \/ late
  \/ \A o \in live : closed[o] => Cardinality(Holders(o)) <= 1

\* Who waits in a write for the mutex that he has locked himself (minos.c:90, 97) keeps
\* his connection; nobody else has locked a buffer for good, and so the last one to close
\* a connection, who takes the mutexes of both buffers, is never held up by them.
LocksExplained ==
  \/ late
  \/ /\ \A o \in live, b \in Buffers :
          buf[o][b].locked <=> \E t \in Holders(o) : pc[t] = "stuck" /\ WriteBuf(t) = b
     /\ \A t \in Tasks : pc[t] = "free" => \A b \in Buffers : ~buf[Object(t)][b].locked

\* A connection has at most two ends, an end finds it closed only once the other is gone,
\* and a writer that is stuck stops nobody from closing.
ConnectionsSound == ConnectedToOne /\ ClosedMeansAlone /\ LocksExplained

Accepting(s, l) == pc[s] \in {"blocked", "accept", "take"} /\ listener[s] = l
First(c, l) == pc[c] = "pending" /\ pending[l] # <<>> /\ Head(pending[l]) = Object(c)

\* The timer interrupt waits for ever on the processor of c, on that of the task that has
\* the lock of l, or on those of all servers in accept.
Stopped(c, l) ==
  LET accepting == {s \in Servers : Accepting(s, l)} IN
  \/ Cpu[c] \in wedged
  \/ lock[l] # None /\ Cpu[lock[l]] \in wedged
  \/ accepting # {} /\ \A s \in accepting : Cpu[s] \in wedged

=============================================================================
