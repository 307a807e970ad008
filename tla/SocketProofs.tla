----------------------------- MODULE SocketProofs -----------------------------
(***************************************************************************)
(* Machine-checked proofs about Socket, for every set of clients and       *)
(* servers, every number of listening sockets and objects and every length *)
(* of the list of clients that wait: the memory of a connection is there   *)
(* as long as a task can reach it, connections have one client and one     *)
(* server, and leaks have one of two causes.                               *)
(***************************************************************************)
EXTENDS Socket, FiniteSetTheorems, SequenceTheorems, TLAPS

\* t has the connection o, and has not freed it.
Holds(t, o) == Object(t) = o /\ pc[t] # "freed"

Queued(o, l) == \E k \in 1 .. Len(pending[l]) : pending[l][k] = o

\* What a task can have depends on where it is.
ConnSound(t) ==
  /\ conn[t].ops = "none" <=> conn[t].priv = None
  /\ t \in Clients => conn[t].ops \in {"none", "init", "client"}
  /\ t \in Servers => conn[t].ops \in {"none", "server_client"}
  /\ pc[t] \in {"start", "bound", "blocked", "accept", "take"} =>
       t \in Servers /\ conn[t].ops = "none"
  /\ pc[t] \in {"find", "push", "pending"} =>
       t \in Clients /\ conn[t].ops = "init" /\ target[t] \in Listeners
  /\ pc[t] \in {"stuck", "free", "freed", "mark"} => Connected(t)
  /\ t \in Servers /\ pc[t] # "start" => listener[t] \in Listeners

ConnsSound == \A t \in Tasks : ConnSound(t)

Alive == \A t \in Tasks : \A o \in Objects : Holds(t, o) => o \in live

\* A connection has one client and one server.
Exclusive ==
  \A t, u \in Tasks : \A o \in Objects :
    Holds(t, o) /\ Holds(u, o) /\ (t \in Clients <=> u \in Clients) => t = u

\* Before it is in the list, and in the list, it is the client's alone, and open.
Unanswered(o) == ~closed[o] /\ \A s \in Servers : ~Holds(s, o)

FreshSound ==
  \A c \in Clients : \A o \in Objects :
    Holds(c, o) /\ conn[c].ops = "init" /\ pc[c] # "pending" =>
      Unanswered(o) /\ \A l \in Listeners : ~Queued(o, l)

QueuedOnce ==
  \A l \in Listeners : \A i, j \in 1 .. Len(pending[l]) : pending[l][i] = pending[l][j] => i = j

Waits(c, o, l) == Holds(c, o) /\ pc[c] = "pending" /\ target[c] = l

QueueSound ==
  \A l \in Listeners : \A o \in Objects :
    Queued(o, l) => waiting[o] /\ Unanswered(o) /\ \E c \in Clients : Waits(c, o, l)

\* Afterwards its two ends are there, or one has closed it.
ClientsSound ==
  \A c \in Clients : \A o \in Objects :
    /\ Holds(c, o)
    /\ pc[c] = "pending" \/ conn[c].ops = "client"
    => \/ \E l \in Listeners : Waits(c, o, l) /\ Queued(o, l)
       \/ \E s \in Servers : Holds(s, o)
       \/ closed[o]

ServersSound ==
  \A s \in Servers : \A o \in Objects :
    Holds(s, o) => closed[o] \/ \E c \in Clients : Holds(c, o)

ClosedSound ==
  \A t \in Tasks : \A o \in Objects :
    Holds(t, o) =>
      /\ closed[o] => \A u \in Tasks : Holds(u, o) => t = u
      /\ pc[t] = "free" => closed[o]

\* Both ends found it open.
RacedSound ==
  \A t \in Tasks : \A o \in Objects :
    Holds(t, o) /\ pc[t] = "mark" =>
      /\ closed[o] => o \in raced
      /\ \A u \in Tasks : u # t /\ Holds(u, o) /\ pc[u] = "mark" => o \in raced

LiveSound == \A o \in live : o \in raced \cup unused \/ \E t \in Tasks : Holds(t, o)

Sound ==
  /\ ConnsSound
  /\ Alive
  /\ Exclusive
  /\ FreshSound
  /\ QueuedOnce
  /\ QueueSound
  /\ ClientsSound
  /\ ServersSound
  /\ ClosedSound
  /\ RacedSound
  /\ LiveSound

IInv == TypeOK /\ (late \/ Sound)

-----------------------------------------------------------------------------
(* Types *)

\* A step of a task is taken only while no object of another connection was written.
LEMMA NextNotLate == Next => ~late
BY DEF Next, Bind, BindFails, Listen, Accept, Poll, PollSpins, AcceptLock, AcceptTake, AcceptFails,
       ForkServer, ExitServer, NewSocket, ConnectFind, ConnectLock, ConnectPush, ConnectRefused,
       ConnectDone, Write, WriteStuck, Read, CloseUnused, CloseTest, CloseFree, CloseMark, Goto, At

LEMMA Placement ==
  ASSUME TypeOK, ConnsSound, NEW t \in Tasks
  PROVE  /\ Object(t) \in Objects \cup {None} /\ None \notin Objects
         /\ conn[t].ops \in {"none", "init", "client", "server_client"}
         /\ conn[t].ops # "none" => Object(t) \in Objects
         /\ conn[t].ops = "none" <=> conn[t] = NoConn
         /\ t \in Servers => t \notin Clients
         /\ t \in Clients => t \notin Servers
<1>1. /\ conn[t] \in [ops : {"none", "init", "client", "server_client"}, priv : Objects \cup {None}]
      /\ conn[t].ops = "none" <=> conn[t].priv = None
  BY DEF TypeOK, ConnsSound, ConnSound
<1>2. None \notin Objects /\ Clients \cap Servers = {}
  BY SocketAssumption
<1>. QED
  BY <1>1, <1>2 DEF Object, NoConn

LEMMA ServerTypeOK ==
  ASSUME IInv, Sound, NEW s \in Servers,
         \/ \E l \in Listeners : Bind(s, l) \/ BindFails(s, l)
         \/ (\E n \in Backlogs : Listen(s, n)) \/ Accept(s) \/ Poll(s) \/ PollSpins(s)
         \/ AcceptLock(s) \/ AcceptTake(s) \/ AcceptFails(s) \/ ExitServer(s)
         \/ \E t \in Servers : ForkServer(s, t)
  PROVE  TypeOK'
<1>1. TypeOK /\ ConnsSound /\ s \in Tasks /\ Servers \subseteq Tasks
  BY DEF IInv, Sound, Tasks
<1>2. ASSUME NEW l \in Listeners, Bind(s, l) \/ BindFails(s, l) PROVE TypeOK'
  <2>1. /\ pc' = [pc EXCEPT ![s] = "bound"] /\ listener' = [listener EXCEPT ![s] = l]
        /\ named' = named \/ named' = Append(named, l)
        /\ UNCHANGED <<ready, pending, cap, lock, target, conn, live, closed, waiting, buf,
                       wedged, history>>
    BY <1>2 DEF Bind, BindFails
  <2>2. listener' \in [Servers -> 0 .. NListeners]
    <3>1. l \in 0 .. NListeners
      BY SocketAssumption DEF Listeners
    <3>. QED
      BY <1>1, <2>1, <3>1 DEF TypeOK
  <2>3. named' \in Seq(Listeners)
    <3>1. named \in Seq(Listeners)
      BY <1>1 DEF TypeOK
    <3>2. Append(named, l) \in Seq(Listeners)
      BY <3>1, AppendProperties
    <3>. QED
      BY <2>1, <3>1, <3>2
  <2>. QED
    BY <1>1, <2>1, <2>2, <2>3 DEF TypeOK, PC, history
<1>3. ASSUME NEW n \in Backlogs, Listen(s, n) PROVE TypeOK'
  <2>1. listener[s] \in Listeners
    BY <1>1, <1>3 DEF ConnsSound, ConnSound, Listen, Goto, At
  <2>2. n \in Nat
    BY SocketAssumption
  <2>3. /\ cap' \in [Listeners -> Nat]
        /\ \A l \in Listeners : cap[l] \in Nat /\ cap[l] <= cap'[l]
    BY <1>1, <1>3, <2>1, <2>2 DEF TypeOK, Listen
  <2>4. \A l \in Listeners : Len(pending[l]) <= cap'[l]
    <3>1. ASSUME NEW l \in Listeners PROVE Len(pending[l]) <= cap'[l]
      <4>1. Len(pending[l]) \in Nat /\ Len(pending[l]) <= cap[l]
        BY <1>1, LenProperties DEF TypeOK
      <4>. QED
        BY <2>3, <4>1
    <3>. QED
      BY <3>1
  <2>. QED
    BY <1>1, <1>3, <2>1, <2>3, <2>4 DEF TypeOK, Listen, Goto, PC, history
<1>4. CASE Accept(s)
  BY <1>1, <1>4 DEF TypeOK, Accept, Goto, PC, network, history
<1>5. CASE Poll(s)
  BY <1>1, <1>5 DEF TypeOK, Poll, Goto, PC, network, history
<1>6. CASE PollSpins(s)
  BY <1>1, <1>6 DEF TypeOK, PollSpins, network, history
<1>7. CASE AcceptLock(s)
  BY <1>1, <1>7 DEF TypeOK, AcceptLock, Goto, PC, history
<1>8. CASE AcceptTake(s)
  <2>. DEFINE l == listener[s]
              o == Head(pending[l])
  <2>1. l \in Listeners
    BY <1>1, <1>8 DEF ConnsSound, ConnSound, AcceptTake, Goto, At
  <2>2. /\ pending[l] \in Seq(Objects) /\ pending[l] # <<>> /\ Len(pending[l]) \in Nat
        /\ Len(pending[l]) <= cap[l] /\ cap[l] \in Nat
    BY <1>1, <1>8, <2>1, LenProperties DEF TypeOK, AcceptTake
  <2>3. o \in Objects /\ Tail(pending[l]) \in Seq(Objects) /\ Len(Tail(pending[l])) = Len(pending[l]) - 1
    BY <2>2, HeadTailProperties
  <2>4. Len(Tail(pending[l])) <= cap[l]
    BY <2>2, <2>3
  <2>5. /\ conn' = [conn EXCEPT ![s] = [ops |-> "server_client", priv |-> o]]
        /\ pending' = [pending EXCEPT ![l] = Tail(pending[l])]
        /\ waiting' = [waiting EXCEPT ![o] = FALSE]
        /\ lock' = [lock EXCEPT ![l] = None] /\ pc' = [pc EXCEPT ![s] = "user"]
        /\ UNCHANGED <<listener, ready, named, cap, target, live, closed, buf, wedged, history>>
    BY <1>8 DEF AcceptTake, Goto
  <2>. HIDE DEF o, l
  <2>6. /\ pending' \in [Listeners -> Seq(Objects)]
        /\ \A k \in Listeners : Len(pending'[k]) <= cap'[k]
    BY <1>1, <2>3, <2>4, <2>5 DEF TypeOK
  <2>7. conn' \in [Tasks -> [ops : {"none", "init", "client", "server_client"},
                             priv : Objects \cup {None}]]
    BY <1>1, <2>3, <2>5 DEF TypeOK
  <2>. QED
    BY <1>1, <2>5, <2>6, <2>7 DEF TypeOK, PC, history
<1>9. CASE AcceptFails(s)
  BY <1>1, <1>9 DEF TypeOK, AcceptFails, Goto, PC, history
<1>10. CASE ExitServer(s)
  BY <1>1, <1>10 DEF TypeOK, ExitServer, Goto, PC, network, history
<1>11. ASSUME NEW t \in Servers, ForkServer(s, t) PROVE TypeOK'
  BY <1>1, <1>11 DEF TypeOK, ForkServer, PC, history
<1>. QED
  BY <1>2, <1>3, <1>4, <1>5, <1>6, <1>7, <1>8, <1>9, <1>10, <1>11

LEMMA FreeObjectIsFree ==
  ASSUME live # Objects, live \subseteq Objects
  PROVE  FreeObject \in Objects /\ FreeObject \notin live
<1>1. \E o \in Objects : o \notin live
  OBVIOUS
<1>. QED
  BY <1>1 DEF FreeObject

LEMMA ClientTypeOK ==
  ASSUME IInv, Sound, NEW c \in Clients,
         \/ NewSocket(c) \/ ConnectFind(c) \/ ConnectLock(c) \/ ConnectPush(c)
         \/ ConnectRefused(c) \/ ConnectDone(c) \/ CloseUnused(c)
  PROVE  TypeOK'
<1>1. TypeOK /\ ConnsSound /\ c \in Tasks
  BY DEF IInv, Sound, Tasks
<1>2. CASE NewSocket(c)
  <2>. DEFINE o == FreeObject
  <2>1. o \in Objects
    BY <1>1, <1>2, FreeObjectIsFree DEF TypeOK, NewSocket
  <2>2. /\ live' = live \cup {o}
        /\ conn' = [conn EXCEPT ![c] = [ops |-> "init", priv |-> o]]
        /\ closed' = [closed EXCEPT ![o] = FALSE]
        /\ waiting' = [waiting EXCEPT ![o] = FALSE]
        /\ buf' = [buf EXCEPT ![o] = [b \in Buffers |-> EmptyBuffer]]
        /\ UNCHANGED <<pc, network, target, wedged, history>>
    BY <1>2 DEF NewSocket
  <2>. HIDE DEF o
  <2>3. [b \in Buffers |-> EmptyBuffer] \in [Buffers -> [len : 0 .. MaxBuf, locked : BOOLEAN]]
    BY SocketAssumption DEF EmptyBuffer
  <2>4. buf' \in [Objects -> [Buffers -> [len : 0 .. MaxBuf, locked : BOOLEAN]]]
    BY <1>1, <2>1, <2>2, <2>3 DEF TypeOK
  <2>5. conn' \in [Tasks -> [ops : {"none", "init", "client", "server_client"},
                             priv : Objects \cup {None}]]
    BY <1>1, <2>1, <2>2 DEF TypeOK
  <2>. QED
    BY <1>1, <2>1, <2>2, <2>4, <2>5 DEF TypeOK, network, history
<1>3. CASE ConnectFind(c)
  <2>1. named # <<>> /\ target' = [target EXCEPT ![c] = named[1]]
    BY <1>3 DEF ConnectFind, Found
  <2>2. named[1] \in Listeners
    <3>1. named \in Seq(Listeners) /\ Len(named) \in Nat /\ Len(named) # 0
      BY <1>1, <2>1, LenProperties, EmptySeq DEF TypeOK
    <3>2. 1 \in 1 .. Len(named)
      BY <3>1
    <3>. QED
      BY <3>1, <3>2, LenProperties
  <2>3. target' \in [Clients -> 0 .. NListeners]
    BY <1>1, <2>1, <2>2, SocketAssumption DEF TypeOK, Listeners
  <2>. QED
    BY <1>1, <1>3, <2>3 DEF TypeOK, ConnectFind, Goto, PC, network, history
<1>4. CASE ConnectLock(c)
  BY <1>1, <1>4 DEF TypeOK, ConnectLock, Goto, PC, history
<1>5. CASE ConnectPush(c)
  <2>. DEFINE l == target[c]
  <2>1. l \in Listeners /\ Object(c) \in Objects
    BY <1>1, <1>5, Placement DEF ConnsSound, ConnSound, ConnectPush, Goto, At
  <2>2. /\ pending' = [pending EXCEPT ![l] = Append(pending[l], Object(c))]
        /\ Len(pending[l]) < cap[l]
        /\ waiting' = [waiting EXCEPT ![Object(c)] = TRUE]
        /\ lock' = [lock EXCEPT ![l] = None] /\ pc' = [pc EXCEPT ![c] = "pending"]
        /\ UNCHANGED <<listener, ready, named, cap, target, conn, live, closed, buf, wedged,
                       history>>
    BY <1>5 DEF ConnectPush, Goto
  <2>. HIDE DEF l
  <2>3. pending[l] \in Seq(Objects) /\ Len(pending[l]) \in Nat /\ cap[l] \in Nat
    BY <1>1, <2>1, LenProperties DEF TypeOK
  <2>4. /\ Append(pending[l], Object(c)) \in Seq(Objects)
        /\ Len(Append(pending[l], Object(c))) = Len(pending[l]) + 1
    BY <2>1, <2>3, AppendProperties
  <2>5. Len(Append(pending[l], Object(c))) <= cap[l]
    BY <2>2, <2>3, <2>4
  <2>6. /\ pending' \in [Listeners -> Seq(Objects)]
        /\ \A k \in Listeners : Len(pending'[k]) <= cap'[k]
    BY <1>1, <2>2, <2>4, <2>5 DEF TypeOK
  <2>. QED
    BY <1>1, <2>2, <2>6 DEF TypeOK, PC, history
<1>6. CASE ConnectRefused(c)
  <2>1. target' \in [Clients -> 0 .. NListeners]
    BY <1>1, <1>6, SocketAssumption DEF TypeOK, ConnectRefused
  <2>. QED
    BY <1>1, <1>6, <2>1 DEF TypeOK, ConnectRefused, Goto, PC, history
<1>7. CASE ConnectDone(c)
  <2>1. target' \in [Clients -> 0 .. NListeners]
    BY <1>1, <1>7, SocketAssumption DEF TypeOK, ConnectDone
  <2>2. conn' = [conn EXCEPT ![c] = [conn[c] EXCEPT !.ops = "client"]]
    BY <1>7 DEF ConnectDone
  <2>3. conn' \in [Tasks -> [ops : {"none", "init", "client", "server_client"},
                             priv : Objects \cup {None}]]
    <3>1. conn[c] \in [ops : {"none", "init", "client", "server_client"}, priv : Objects \cup {None}]
      BY <1>1 DEF TypeOK
    <3>2. [conn[c] EXCEPT !.ops = "client"] \in
            [ops : {"none", "init", "client", "server_client"}, priv : Objects \cup {None}]
      BY <3>1
    <3>. QED
      BY <1>1, <2>2, <3>2 DEF TypeOK
  <2>. QED
    BY <1>1, <1>7, <2>1, <2>3 DEF TypeOK, ConnectDone, Goto, PC, network, history
<1>8. CASE CloseUnused(c)
  <2>1. Object(c) \in Objects
    BY <1>1, <1>8, Placement DEF CloseUnused
  <2>2. conn' \in [Tasks -> [ops : {"none", "init", "client", "server_client"},
                             priv : Objects \cup {None}]]
    BY <1>1, <1>8 DEF TypeOK, CloseUnused, NoConn
  <2>. QED
    BY <1>1, <1>8, <2>1, <2>2 DEF TypeOK, CloseUnused, network
<1>. QED
  BY <1>2, <1>3, <1>4, <1>5, <1>6, <1>7, <1>8

LEMMA TalkTypeOK ==
  ASSUME IInv, Sound, NEW t \in Tasks,
         \/ \E n \in 1 .. MaxBuf : Write(t, n)
         \/ WriteStuck(t) \/ Read(t)
  PROVE  TypeOK'
<1>. DEFINE B == [len : 0 .. MaxBuf, locked : BOOLEAN]
            o == Object(t)
<1>1. /\ TypeOK /\ buf \in [Objects -> [Buffers -> B]]
      /\ WriteBuf(t) \in Buffers /\ ReadBuf(t) \in Buffers
  BY DEF IInv, TypeOK, WriteBuf, ReadBuf, Buffers
<1>2. o \in Objects
  BY <1>1, Placement DEF Sound, Write, WriteStuck, Read, Connected
<1>3. /\ UNCHANGED <<network, target, conn, live, closed, waiting, wedged, history>>
      /\ pc' = pc \/ pc' = [pc EXCEPT ![t] = "stuck"]
  BY DEF Write, WriteStuck, Read, Goto
<1>4. buf' \in [Objects -> [Buffers -> B]]
  <2>1. ASSUME NEW n \in 1 .. MaxBuf, Write(t, n) PROVE buf' \in [Objects -> [Buffers -> B]]
    <3>. DEFINE b == buf[o][WriteBuf(t)]
                m == Min({MaxBuf, b.len + n})
    <3>1. b \in B /\ MaxBuf \in Nat
      BY <1>1, <1>2, SocketAssumption
    <3>2. m \in 0 .. MaxBuf
      <4>1. b.len + n \in Nat
        BY <3>1
      <4>2. \A x, y \in Nat : Min({x, y}) = IF x <= y THEN x ELSE y
        BY DEF Min
      <4>. QED
        BY <3>1, <4>1, <4>2
    <3>3. buf' = [buf EXCEPT ![o] = [buf[o] EXCEPT ![WriteBuf(t)] = [b EXCEPT !.len = m]]]
      BY <2>1 DEF Write
    <3>. HIDE DEF m
    <3>4. [b EXCEPT !.len = m] \in B
      BY <3>1, <3>2
    <3>5. [buf[o] EXCEPT ![WriteBuf(t)] = [b EXCEPT !.len = m]] \in [Buffers -> B]
      BY <1>1, <1>2, <3>4
    <3>. QED
      BY <1>1, <3>3, <3>5
  <2>2. CASE WriteStuck(t)
    <3>. DEFINE b == buf[o][WriteBuf(t)]
    <3>1. buf' = [buf EXCEPT ![o] = [buf[o] EXCEPT ![WriteBuf(t)] = [b EXCEPT !.locked = TRUE]]]
      BY <2>2 DEF WriteStuck
    <3>2. b \in B
      BY <1>1, <1>2
    <3>3. [b EXCEPT !.locked = TRUE] \in B
      BY <3>2
    <3>4. [buf[o] EXCEPT ![WriteBuf(t)] = [b EXCEPT !.locked = TRUE]] \in [Buffers -> B]
      BY <1>1, <1>2, <3>3
    <3>. QED
      BY <1>1, <3>1, <3>4
  <2>3. CASE Read(t)
    <3>. DEFINE b == buf[o][ReadBuf(t)]
    <3>1. PICK k \in 0 .. b.len :
            buf' = [buf EXCEPT ![o] = [buf[o] EXCEPT ![ReadBuf(t)] = [b EXCEPT !.len = b.len - k]]]
      BY <2>3 DEF Read
    <3>2. b \in B
      BY <1>1, <1>2
    <3>3. b.len - k \in 0 .. MaxBuf
      BY <3>2, SocketAssumption
    <3>4. [b EXCEPT !.len = b.len - k] \in B
      BY <3>2, <3>3
    <3>5. [buf[o] EXCEPT ![ReadBuf(t)] = [b EXCEPT !.len = b.len - k]] \in [Buffers -> B]
      BY <1>1, <1>2, <3>4
    <3>. QED
      BY <1>1, <3>1, <3>5
  <2>. QED
    BY <2>1, <2>2, <2>3
<1>5. pc' \in [Tasks -> PC]
  BY <1>1, <1>3 DEF TypeOK, PC
<1>. QED
  BY <1>1, <1>3, <1>4, <1>5 DEF TypeOK, network, history

LEMMA CloseTypeOK ==
  ASSUME IInv, Sound, NEW t \in Tasks, CloseTest(t) \/ CloseFree(t) \/ CloseMark(t)
  PROVE  TypeOK'
<1>1. TypeOK /\ ConnsSound
  BY DEF IInv, Sound
<1>2. Object(t) \in Objects
  BY <1>1, Placement DEF ConnsSound, ConnSound, CloseTest, CloseFree, CloseMark, Connected, Goto, At
<1>3. CASE CloseTest(t)
  <2>1. pc' \in [Tasks -> PC]
    BY <1>1, <1>3 DEF TypeOK, CloseTest, Goto, PC
  <2>2. raced' \subseteq Objects
    BY <1>1, <1>2, <1>3 DEF TypeOK, CloseTest
  <2>. QED
    BY <1>1, <1>3, <2>1, <2>2 DEF TypeOK, CloseTest, network
<1>4. CASE CloseFree(t)
  BY <1>1, <1>4 DEF TypeOK, CloseFree, Goto, PC, network, history
<1>5. CASE CloseMark(t)
  <2>1. conn' \in [Tasks -> [ops : {"none", "init", "client", "server_client"},
                             priv : Objects \cup {None}]]
    BY <1>1, <1>5 DEF TypeOK, CloseMark, NoConn
  <2>2. pc' \in [Tasks -> PC] /\ late' \in BOOLEAN
    BY <1>1, <1>5 DEF TypeOK, CloseMark, Goto, PC
  <2>. QED
    BY <1>1, <1>5, <2>1, <2>2 DEF TypeOK, CloseMark, network
<1>. QED
  BY <1>3, <1>4, <1>5

LEMMA NextTypeOK ==
  ASSUME IInv, [Next]_vars
  PROVE  TypeOK'
<1>1. CASE UNCHANGED vars
  BY <1>1 DEF IInv, TypeOK, vars, network, history
<1>2. CASE Next
  <2>1. Sound
    BY <1>2, NextNotLate DEF IInv
  <2>2. Talkers \subseteq Tasks
    BY SocketAssumption
  <2>. QED
    BY <1>2, <2>1, <2>2, ServerTypeOK, ClientTypeOK, TalkTypeOK, CloseTypeOK DEF Next
<1>. QED
  BY <1>1, <1>2

-----------------------------------------------------------------------------
(* Where a task is, and what it has *)

LEMMA ServerConns ==
  ASSUME IInv, Sound, NEW s \in Servers,
         \/ \E l \in Listeners : Bind(s, l) \/ BindFails(s, l)
         \/ (\E n \in Backlogs : Listen(s, n)) \/ Accept(s) \/ Poll(s) \/ PollSpins(s)
         \/ AcceptLock(s) \/ AcceptTake(s) \/ AcceptFails(s) \/ ExitServer(s)
         \/ \E t \in Servers : ForkServer(s, t)
  PROVE  ConnsSound'
<1>1. TypeOK /\ ConnsSound /\ s \in Tasks /\ s \notin Clients
  BY SocketAssumption DEF IInv, Sound, Tasks
<1>. SUFFICES ASSUME NEW u \in Tasks PROVE ConnSound(u)'
  BY DEF ConnsSound
<1>2. ConnSound(u) /\ ConnSound(s)
  BY <1>1 DEF ConnsSound
<1>3. ASSUME NEW l \in Listeners, Bind(s, l) \/ BindFails(s, l) PROVE ConnSound(u)'
  <2>1. /\ pc[s] \in {"start", "bound"} /\ pc' = [pc EXCEPT ![s] = "bound"]
        /\ listener' = [listener EXCEPT ![s] = l]
        /\ UNCHANGED <<ready, pending, lock, target, conn, live, closed, waiting, buf, wedged>>
    BY <1>3 DEF Bind, BindFails, At
  <2>. QED
    BY <1>1, <1>2, <2>1 DEF ConnSound, Connected, TypeOK
<1>4. CASE \E n \in Backlogs : Listen(s, n)
  BY <1>1, <1>2, <1>4 DEF Listen, Goto, At, ConnSound, Connected, TypeOK
<1>5. CASE Accept(s)
  BY <1>1, <1>2, <1>5 DEF Accept, Goto, At, ConnSound, Connected, TypeOK, network, NoConn
<1>6. CASE Poll(s)
  BY <1>1, <1>2, <1>6 DEF Poll, Goto, At, ConnSound, Connected, TypeOK, network
<1>7. CASE PollSpins(s)
  BY <1>1, <1>2, <1>7 DEF PollSpins, Goto, At, ConnSound, Connected, TypeOK, network
<1>8. CASE AcceptLock(s)
  BY <1>1, <1>2, <1>8 DEF AcceptLock, Goto, At, ConnSound, Connected, TypeOK
<1>9. CASE AcceptTake(s)
  <2>. DEFINE o == Head(pending[listener[s]])
  <2>1. /\ pc[s] = "take" /\ pc' = [pc EXCEPT ![s] = "user"]
        /\ conn' = [conn EXCEPT ![s] = [ops |-> "server_client", priv |-> o]]
        /\ pending[listener[s]] # <<>>
        /\ UNCHANGED <<listener, named, target>>
    BY <1>9 DEF AcceptTake, Goto, At
  <2>2. o # None
    <3>1. listener[s] \in Listeners
      BY <1>2, <2>1 DEF ConnSound
    <3>2. o \in Objects
      BY <1>1, <2>1, <3>1, HeadTailProperties DEF TypeOK
    <3>. QED
      BY <3>2, SocketAssumption
  <2>. HIDE DEF o
  <2>3. /\ u = s => conn'[u].ops = "server_client" /\ conn'[u].priv = o /\ pc'[u] = "user"
        /\ u # s => conn'[u] = conn[u] /\ pc'[u] = pc[u]
    BY <1>1, <2>1 DEF TypeOK
  <2>. QED
    BY <1>1, <1>2, <2>1, <2>2, <2>3 DEF ConnSound, Connected
<1>10. CASE AcceptFails(s)
  BY <1>1, <1>2, <1>10 DEF AcceptFails, Goto, At, ConnSound, Connected, TypeOK
<1>11. CASE ExitServer(s)
  BY <1>1, <1>2, <1>11 DEF ExitServer, Goto, At, ConnSound, Connected, TypeOK, network, NoConn
<1>12. ASSUME NEW t \in Servers, ForkServer(s, t) PROVE ConnSound(u)'
  <2>1. /\ pc[s] = "user" /\ pc[t] = "start" /\ pc' = [pc EXCEPT ![t] = "user"]
        /\ listener' = [listener EXCEPT ![t] = listener[s]]
        /\ UNCHANGED <<conn, named, target>>
    BY <1>12 DEF ForkServer, At
  <2>2. listener[s] \in Listeners
    BY <1>2, <2>1 DEF ConnSound
  <2>. QED
    BY <1>1, <1>2, <2>1, <2>2 DEF ConnSound, Connected, TypeOK
<1>. QED
  BY <1>3, <1>4, <1>5, <1>6, <1>7, <1>8, <1>9, <1>10, <1>11, <1>12

LEMMA ClientConns ==
  ASSUME IInv, Sound, NEW c \in Clients,
         \/ NewSocket(c) \/ ConnectFind(c) \/ ConnectLock(c) \/ ConnectPush(c)
         \/ ConnectRefused(c) \/ ConnectDone(c) \/ CloseUnused(c)
  PROVE  ConnsSound'
<1>1. TypeOK /\ ConnsSound /\ c \in Tasks /\ c \notin Servers
  BY SocketAssumption DEF IInv, Sound, Tasks
<1>. SUFFICES ASSUME NEW u \in Tasks PROVE ConnSound(u)'
  BY DEF ConnsSound
<1>2. ConnSound(u) /\ ConnSound(c)
  BY <1>1 DEF ConnsSound
<1>3. CASE NewSocket(c)
  <2>. DEFINE o == FreeObject
  <2>1. o # None
    BY <1>1, <1>3, FreeObjectIsFree, SocketAssumption DEF TypeOK, NewSocket
  <2>2. /\ pc[c] = "user" /\ UNCHANGED <<pc, listener, named, target>>
        /\ conn' = [conn EXCEPT ![c] = [ops |-> "init", priv |-> o]]
    BY <1>3 DEF NewSocket, At, network
  <2>. HIDE DEF o
  <2>3. /\ u = c => conn'[u].ops = "init" /\ conn'[u].priv = o
        /\ u # c => conn'[u] = conn[u]
    BY <1>1, <2>2 DEF TypeOK
  <2>. QED
    BY <1>1, <1>2, <2>1, <2>2, <2>3 DEF ConnSound, Connected
<1>4. CASE ConnectFind(c)
  <2>1. named # <<>> /\ target' = [target EXCEPT ![c] = named[1]]
    BY <1>4 DEF ConnectFind, Found
  <2>2. named[1] \in Listeners
    <3>1. named \in Seq(Listeners) /\ Len(named) \in Nat /\ Len(named) # 0
      BY <1>1, <2>1, LenProperties, EmptySeq DEF TypeOK
    <3>2. 1 \in 1 .. Len(named)
      BY <3>1
    <3>. QED
      BY <3>1, <3>2, LenProperties
  <2>3. /\ pc[c] = "user" /\ conn[c].ops = "init" /\ pc' = [pc EXCEPT ![c] = "find"]
        /\ UNCHANGED <<conn, listener, named>>
    BY <1>4 DEF ConnectFind, Goto, At, network
  <2>. QED
    BY <1>1, <1>2, <2>1, <2>2, <2>3 DEF ConnSound, Connected, TypeOK
<1>5. CASE ConnectLock(c)
  BY <1>1, <1>2, <1>5 DEF ConnectLock, Goto, At, ConnSound, Connected, TypeOK
<1>6. CASE ConnectPush(c)
  BY <1>1, <1>2, <1>6 DEF ConnectPush, Goto, At, ConnSound, Connected, TypeOK
<1>7. CASE ConnectRefused(c)
  BY <1>1, <1>2, <1>7 DEF ConnectRefused, Goto, At, ConnSound, Connected, TypeOK
<1>8. CASE ConnectDone(c)
  <2>1. /\ pc[c] = "pending" /\ pc' = [pc EXCEPT ![c] = "user"]
        /\ conn' = [conn EXCEPT ![c] = [conn[c] EXCEPT !.ops = "client"]]
        /\ target' = [target EXCEPT ![c] = 0]
        /\ UNCHANGED <<listener, named>>
    BY <1>8 DEF ConnectDone, Goto, At, network
  <2>2. /\ u = c => conn'[u].ops = "client" /\ conn'[u].priv = conn[u].priv /\ pc'[u] = "user"
        /\ u # c => conn'[u] = conn[u] /\ pc'[u] = pc[u] /\ target'[u] = target[u]
    <3>1. conn[c] \in [ops : {"none", "init", "client", "server_client"}, priv : Objects \cup {None}]
      BY <1>1 DEF TypeOK
    <3>. QED
      BY <1>1, <2>1, <3>1 DEF TypeOK
  <2>. QED
    BY <1>1, <1>2, <2>1, <2>2 DEF ConnSound, Connected
<1>9. CASE CloseUnused(c)
  BY <1>1, <1>2, <1>9 DEF CloseUnused, At, ConnSound, Connected, TypeOK, network, NoConn
<1>. QED
  BY <1>3, <1>4, <1>5, <1>6, <1>7, <1>8, <1>9

LEMMA TalkConns ==
  ASSUME IInv, Sound, NEW t \in Tasks,
         \/ \E n \in 1 .. MaxBuf : Write(t, n)
         \/ WriteStuck(t) \/ Read(t)
         \/ CloseTest(t) \/ CloseFree(t) \/ CloseMark(t)
  PROVE  ConnsSound'
<1>1. TypeOK /\ ConnsSound
  BY DEF IInv, Sound
<1>. SUFFICES ASSUME NEW u \in Tasks PROVE ConnSound(u)'
  BY DEF ConnsSound
<1>2. ConnSound(u) /\ ConnSound(t)
  BY <1>1 DEF ConnsSound
<1>3. CASE (\E n \in 1 .. MaxBuf : Write(t, n)) \/ Read(t)
  <2>1. UNCHANGED <<pc, conn, target, listener, named>>
    BY <1>3 DEF Write, Read, network
  <2>. QED
    BY <1>2, <2>1 DEF ConnSound, Connected
<1>4. CASE WriteStuck(t) \/ CloseTest(t) \/ CloseFree(t)
  <2>1. /\ UNCHANGED <<conn, target, listener, named>>
        /\ pc[t] \in {"user", "free"} /\ Connected(t)
        /\ \E l \in {"stuck", "free", "mark", "freed"} : pc' = [pc EXCEPT ![t] = l]
    BY <1>2, <1>4 DEF WriteStuck, CloseTest, CloseFree, Goto, At, network, ConnSound
  <2>2. /\ u = t => pc'[u] \in {"stuck", "free", "mark", "freed"}
        /\ u # t => pc'[u] = pc[u]
    BY <1>1, <2>1 DEF TypeOK
  <2>. QED
    BY <1>2, <2>1, <2>2 DEF ConnSound, Connected
<1>5. CASE CloseMark(t)
  <2>1. /\ UNCHANGED <<target, listener, named>>
        /\ pc[t] \in {"mark", "freed"} /\ Connected(t)
        /\ pc' = [pc EXCEPT ![t] = "user"] /\ conn' = [conn EXCEPT ![t] = NoConn]
    BY <1>2, <1>5 DEF CloseMark, Goto, At, network, ConnSound
  <2>2. /\ u = t => pc'[u] = "user" /\ conn'[u].ops = "none" /\ conn'[u].priv = None
        /\ u # t => pc'[u] = pc[u] /\ conn'[u] = conn[u]
    BY <1>1, <2>1 DEF TypeOK, NoConn
  <2>. QED
    BY <1>2, <2>1, <2>2 DEF ConnSound, Connected
<1>. QED
  BY <1>3, <1>4, <1>5

-----------------------------------------------------------------------------
(* Connections *)

\* Labels that say something of the connection of a task.
Telling == {"pending", "free", "freed", "mark"}

\* A step that concerns no connection.
LEMMA QuietSound ==
  ASSUME TypeOK, Sound, ConnsSound',
         UNCHANGED <<conn, pending, live, closed, waiting, raced, unused>>,
         \A t \in Tasks : pc'[t] = pc[t] \/ (pc[t] \notin Telling /\ pc'[t] \notin Telling),
         \A c \in Clients : pc[c] = "pending" => target'[c] = target[c]
  PROVE  Sound'
<1>1. \A t \in Tasks, o \in Objects : Holds(t, o)' <=> Holds(t, o)
  BY DEF Holds, Object, Telling
<1>2. Clients \subseteq Tasks /\ Servers \subseteq Tasks
  BY DEF Tasks
<1>3. \A c \in Clients : pc'[c] = "pending" <=> pc[c] = "pending"
  BY <1>2 DEF Telling
<1>4. \A o \in Objects, l \in Listeners : Queued(o, l)' <=> Queued(o, l)
  BY DEF Queued
<1>5. \A c \in Clients, o \in Objects, l \in Listeners : Waits(c, o, l)' <=> Waits(c, o, l)
  BY <1>1, <1>2, <1>3 DEF Waits
<1>6. \A o \in Objects : Unanswered(o)' <=> Unanswered(o)
  BY <1>1, <1>2 DEF Unanswered
<1>7. \A t \in Tasks : pc'[t] = "mark" => pc[t] = "mark"
  BY DEF Telling
<1>8. \A t \in Tasks : pc'[t] = "free" => pc[t] = "free"
  BY DEF Telling
<1>9. Alive'
  BY <1>1 DEF Sound, Alive
<1>10. Exclusive'
  BY <1>1 DEF Sound, Exclusive
<1>11. FreshSound'
  BY <1>1, <1>2, <1>3, <1>4, <1>6 DEF Sound, FreshSound
<1>12. QueuedOnce'
  BY DEF Sound, QueuedOnce
<1>13. QueueSound'
  BY <1>4, <1>5, <1>6 DEF Sound, QueueSound
<1>14. ClientsSound'
  <2>1. ASSUME NEW c \in Clients, NEW o \in Objects, Holds(c, o)',
               pc'[c] = "pending" \/ conn'[c].ops = "client"
        PROVE  \/ \E l \in Listeners : Waits(c, o, l)' /\ Queued(o, l)'
               \/ \E s \in Servers : Holds(s, o)'
               \/ closed'[o]
    <3>1. Holds(c, o) /\ (pc[c] = "pending" \/ conn[c].ops = "client")
      BY <1>1, <1>2, <1>3, <2>1
    <3>2. \/ \E l \in Listeners : Waits(c, o, l) /\ Queued(o, l)
          \/ \E s \in Servers : Holds(s, o)
          \/ closed[o]
      BY <3>1 DEF Sound, ClientsSound
    <3>. QED
      BY <1>1, <1>2, <1>4, <1>5, <3>2
  <2>. QED
    BY <2>1 DEF ClientsSound
<1>15. ServersSound'
  BY <1>1, <1>2 DEF Sound, ServersSound
<1>16. ClosedSound'
  BY <1>1, <1>8 DEF Sound, ClosedSound
<1>17. RacedSound'
  BY <1>1, <1>7 DEF Sound, RacedSound
<1>18. LiveSound'
  BY <1>1 DEF Sound, LiveSound, TypeOK
<1>. QED
  BY <1>9, <1>10, <1>11, <1>12, <1>13, <1>14, <1>15, <1>16, <1>17, <1>18 DEF Sound

LEMMA QuietSteps ==
  ASSUME IInv, Sound,
         \/ \E s \in Servers :
              \/ \E l \in Listeners : Bind(s, l) \/ BindFails(s, l)
              \/ (\E n \in Backlogs : Listen(s, n)) \/ Accept(s) \/ Poll(s) \/ PollSpins(s)
              \/ AcceptLock(s) \/ AcceptFails(s) \/ ExitServer(s)
              \/ \E t \in Servers : ForkServer(s, t)
         \/ \E c \in Clients : ConnectFind(c) \/ ConnectLock(c) \/ ConnectRefused(c)
         \/ \E t \in Tasks : (\E n \in 1 .. MaxBuf : Write(t, n)) \/ WriteStuck(t) \/ Read(t)
  PROVE  Sound'
<1>1. TypeOK
  BY DEF IInv
<1>2. ConnsSound'
  BY ServerConns, ClientConns, TalkConns
<1>3. UNCHANGED <<conn, pending, live, closed, waiting, raced, unused>>
  BY DEF Bind, BindFails, Listen, Accept, Poll, PollSpins, AcceptLock, AcceptFails, ExitServer, ForkServer,
         ConnectFind, ConnectLock, ConnectRefused, Write, WriteStuck, Read, network, history
<1>4. \A c \in Clients : pc[c] = "pending" => target'[c] = target[c]
  BY <1>1 DEF TypeOK, Bind, BindFails, Listen, Accept, Poll, PollSpins, AcceptLock, AcceptFails, ExitServer,
         ForkServer, ConnectFind, ConnectLock, ConnectRefused, Write, WriteStuck, Read, network,
         history, Goto, At
<1>5. ASSUME NEW t \in Tasks
      PROVE  pc'[t] = pc[t] \/ (pc[t] \notin Telling /\ pc'[t] \notin Telling)
  <2>1. \/ pc' = pc
        \/ \E u \in Tasks : \E l \in PC \ Telling : pc[u] \notin Telling /\ pc' = [pc EXCEPT ![u] = l]
    <3>1. ASSUME NEW s \in Servers,
                 \/ \E l \in Listeners : Bind(s, l) \/ BindFails(s, l)
                 \/ (\E n \in Backlogs : Listen(s, n)) \/ Accept(s) \/ Poll(s) \/ PollSpins(s)
                 \/ AcceptLock(s) \/ AcceptFails(s) \/ ExitServer(s)
          PROVE  \/ pc' = pc
                 \/ \E l \in PC \ Telling : pc[s] \notin Telling /\ pc' = [pc EXCEPT ![s] = l]
      BY <3>1 DEF Bind, BindFails, Listen, Accept, Poll, PollSpins, AcceptLock, AcceptFails, ExitServer,
                  Goto, At, PC, Telling
    <3>2. ASSUME NEW s \in Servers, NEW u \in Servers, ForkServer(s, u)
          PROVE  \E l \in PC \ Telling : pc[u] \notin Telling /\ pc' = [pc EXCEPT ![u] = l]
      BY <3>2 DEF ForkServer, At, PC, Telling
    <3>3. ASSUME NEW c \in Clients, ConnectFind(c) \/ ConnectLock(c) \/ ConnectRefused(c)
          PROVE  \E l \in PC \ Telling : pc[c] \notin Telling /\ pc' = [pc EXCEPT ![c] = l]
      BY <3>3 DEF ConnectFind, ConnectLock, ConnectRefused, Goto, At, PC, Telling
    <3>4. ASSUME NEW u \in Tasks, (\E n \in 1 .. MaxBuf : Write(u, n)) \/ WriteStuck(u) \/ Read(u)
          PROVE  \/ pc' = pc
                 \/ \E l \in PC \ Telling : pc[u] \notin Telling /\ pc' = [pc EXCEPT ![u] = l]
      BY <3>4 DEF Write, WriteStuck, Read, Goto, At, PC, Telling
    <3>. QED
      BY <3>1, <3>2, <3>3, <3>4 DEF Tasks
  <2>. QED
    BY <1>1, <2>1 DEF TypeOK
<1>. QED
  BY <1>1, <1>2, <1>3, <1>4, <1>5, QuietSound

LEMMA NewSocketSound ==
  ASSUME IInv, Sound, NEW c \in Clients, NewSocket(c)
  PROVE  Sound'
<1>1. TypeOK /\ c \in Tasks /\ Clients \subseteq Tasks /\ Servers \subseteq Tasks /\ c \notin Servers
  BY SocketAssumption DEF IInv, Tasks
<1>2. PICK n \in Objects : n = FreeObject /\ n \notin live /\ None \notin Objects
  BY <1>1, FreeObjectIsFree, SocketAssumption DEF TypeOK, NewSocket
<1>3. /\ pc[c] = "user" /\ conn[c] = NoConn
      /\ live' = live \cup {n}
      /\ conn' = [conn EXCEPT ![c] = [ops |-> "init", priv |-> n]]
      /\ closed' = [closed EXCEPT ![n] = FALSE]
      /\ waiting' = [waiting EXCEPT ![n] = FALSE]
      /\ UNCHANGED <<pc, target, pending, raced, unused>>
  BY <1>2 DEF NewSocket, At, network, history
<1>4. \A t \in Tasks, o \in Objects : Holds(t, o)' <=> IF t = c THEN o = n ELSE Holds(t, o)
  BY <1>1, <1>3 DEF Holds, Object, TypeOK
<1>5. \A t \in Tasks : ~Holds(t, n)
  BY <1>2 DEF Sound, Alive
<1>6. \A o \in Objects : ~Holds(c, o)
  BY <1>2, <1>3 DEF Holds, Object, NoConn
<1>7. /\ \A o \in Objects : closed'[o] <=> closed[o] /\ o # n
      /\ \A o \in Objects \ {n} : waiting'[o] = waiting[o]
      /\ conn'[c].ops = "init" /\ \A t \in Tasks \ {c} : conn'[t] = conn[t]
  BY <1>1, <1>3 DEF TypeOK
<1>8. \A o \in Objects, l \in Listeners : Queued(o, l)' <=> Queued(o, l)
  BY <1>3 DEF Queued
<1>9. \A d \in Clients, o \in Objects, l \in Listeners : Waits(d, o, l)' <=> Waits(d, o, l)
  BY <1>1, <1>3, <1>4, <1>6 DEF Waits
<1>10. \A l \in Listeners : ~Queued(n, l)
  BY <1>1, <1>2, <1>5 DEF Sound, QueueSound, Waits
<1>11. \A o \in Objects \ {n} : Unanswered(o)' <=> Unanswered(o)
  BY <1>1, <1>4, <1>7 DEF Unanswered
<1>12. Unanswered(n)'
  BY <1>1, <1>2, <1>4, <1>5, <1>7 DEF Unanswered
<1>13. ConnsSound'
  BY ClientConns
<1>14. Alive'
  BY <1>3, <1>4 DEF Sound, Alive
<1>15. Exclusive'
  BY <1>4, <1>5 DEF Sound, Exclusive
<1>16. FreshSound'
  <2>1. ASSUME NEW d \in Clients, NEW o \in Objects, Holds(d, o)', conn'[d].ops = "init",
               pc'[d] # "pending"
        PROVE  Unanswered(o)' /\ \A l \in Listeners : ~Queued(o, l)'
    <3>1. CASE o = n
      BY <1>8, <1>10, <1>12, <3>1
    <3>2. CASE o # n
      <4>1. d # c /\ Holds(d, o) /\ conn[d].ops = "init" /\ pc[d] # "pending"
        BY <1>1, <1>3, <1>4, <1>7, <2>1, <3>2
      <4>. QED
        BY <1>8, <1>11, <3>2, <4>1 DEF Sound, FreshSound
    <3>. QED
      BY <3>1, <3>2
  <2>. QED
    BY <2>1 DEF FreshSound
<1>17. QueuedOnce'
  BY <1>3 DEF Sound, QueuedOnce
<1>18. QueueSound'
  <2>1. ASSUME NEW l \in Listeners, NEW o \in Objects, Queued(o, l)'
        PROVE  waiting'[o] /\ Unanswered(o)' /\ \E d \in Clients : Waits(d, o, l)'
    <3>1. Queued(o, l) /\ o # n
      BY <1>8, <1>10, <2>1
    <3>2. waiting[o] /\ Unanswered(o) /\ \E d \in Clients : Waits(d, o, l)
      BY <3>1 DEF Sound, QueueSound
    <3>. QED
      BY <1>7, <1>9, <1>11, <3>1, <3>2
  <2>. QED
    BY <2>1 DEF QueueSound
<1>19. ClientsSound'
  <2>1. ASSUME NEW d \in Clients, NEW o \in Objects, Holds(d, o)',
               pc'[d] = "pending" \/ conn'[d].ops = "client"
        PROVE  \/ \E l \in Listeners : Waits(d, o, l)' /\ Queued(o, l)'
               \/ \E s \in Servers : Holds(s, o)'
               \/ closed'[o]
    <3>1. d # c
      BY <1>3, <1>7, <2>1
    <3>2. Holds(d, o) /\ o # n /\ (pc[d] = "pending" \/ conn[d].ops = "client")
      BY <1>1, <1>3, <1>4, <1>5, <1>7, <2>1, <3>1
    <3>3. \/ \E l \in Listeners : Waits(d, o, l) /\ Queued(o, l)
          \/ \E s \in Servers : Holds(s, o)
          \/ closed[o]
      BY <3>2 DEF Sound, ClientsSound
    <3>. QED
      BY <1>1, <1>4, <1>7, <1>8, <1>9, <3>2, <3>3
  <2>. QED
    BY <2>1 DEF ClientsSound
<1>20. ServersSound'
  <2>1. ASSUME NEW s \in Servers, NEW o \in Objects, Holds(s, o)'
        PROVE  closed'[o] \/ \E d \in Clients : Holds(d, o)'
    <3>1. Holds(s, o) /\ o # n
      BY <1>1, <1>4, <1>5, <2>1
    <3>2. closed[o] \/ \E d \in Clients : Holds(d, o)
      BY <3>1 DEF Sound, ServersSound
    <3>. QED
      BY <1>1, <1>4, <1>6, <1>7, <3>1, <3>2
  <2>. QED
    BY <2>1 DEF ServersSound
<1>21. ClosedSound'
  BY <1>3, <1>4, <1>5, <1>7 DEF Sound, ClosedSound
<1>22. RacedSound'
  BY <1>3, <1>4, <1>5, <1>7 DEF Sound, RacedSound
<1>23. LiveSound'
  <2>1. ASSUME NEW o \in live' PROVE o \in raced' \cup unused' \/ \E t \in Tasks : Holds(t, o)'
    <3>1. CASE o = n
      BY <1>1, <1>2, <1>4, <3>1
    <3>2. CASE o # n
      <4>1. o \in live /\ o \in Objects
        BY <1>1, <1>3, <3>2 DEF TypeOK
      <4>. QED
        BY <1>3, <1>4, <1>6, <4>1 DEF Sound, LiveSound
    <3>. QED
      BY <3>1, <3>2
  <2>. QED
    BY <2>1 DEF LiveSound
<1>. QED
  BY <1>13, <1>14, <1>15, <1>16, <1>17, <1>18, <1>19, <1>20, <1>21, <1>22, <1>23 DEF Sound

LEMMA PushSound ==
  ASSUME IInv, Sound, NEW c \in Clients, ConnectPush(c)
  PROVE  Sound'
<1>. DEFINE n == Object(c)
            l == target[c]
<1>1. /\ TypeOK /\ ConnSound(c) /\ c \in Tasks /\ Clients \subseteq Tasks /\ Servers \subseteq Tasks
  BY DEF IInv, Tasks, Sound, ConnsSound
<1>2. /\ pc[c] = "push" /\ pc' = [pc EXCEPT ![c] = "pending"]
      /\ pending' = [pending EXCEPT ![l] = Append(pending[l], n)]
      /\ waiting' = [waiting EXCEPT ![n] = TRUE]
      /\ UNCHANGED <<target, conn, live, closed, raced, unused>>
  BY DEF ConnectPush, Goto, At, history
<1>3. l \in Listeners /\ n \in Objects /\ conn[c].ops = "init" /\ Holds(c, n)
  BY <1>1, <1>2, Placement DEF ConnSound, Holds, Sound
<1>. HIDE DEF n, l
<1>4. \A t \in Tasks : pc'[t] = IF t = c THEN "pending" ELSE pc[t]
  BY <1>1, <1>2 DEF TypeOK
<1>5. \A t \in Tasks, o \in Objects : Holds(t, o)' <=> Holds(t, o)
  BY <1>2, <1>4 DEF Holds, Object
<1>6. Unanswered(n) /\ \A k \in Listeners : ~Queued(n, k)
  BY <1>2, <1>3 DEF Sound, FreshSound
<1>7. /\ pending[l] \in Seq(Objects) /\ Len(pending[l]) \in Nat
      /\ Len(pending'[l]) = Len(pending[l]) + 1
      /\ \A i \in 1 .. Len(pending[l]) : pending'[l][i] = pending[l][i]
      /\ pending'[l][Len(pending[l]) + 1] = n
      /\ \A k \in Listeners \ {l} : pending'[k] = pending[k]
  BY <1>1, <1>2, <1>3, AppendProperties, LenProperties DEF TypeOK
<1>8. \A o \in Objects, k \in Listeners : Queued(o, k)' <=> Queued(o, k) \/ (o = n /\ k = l)
  <2>1. ASSUME NEW o \in Objects, NEW k \in Listeners
        PROVE  Queued(o, k)' <=> Queued(o, k) \/ (o = n /\ k = l)
    <3>1. CASE k # l
      BY <1>7, <3>1 DEF Queued
    <3>2. CASE k = l
      <4>1. Queued(o, k)' <=> \E i \in 1 .. Len(pending[l]) + 1 : pending'[l][i] = o
        BY <1>7, <3>2 DEF Queued
      <4>2. Queued(o, k) <=> \E i \in 1 .. Len(pending[l]) : pending[l][i] = o
        BY <3>2 DEF Queued
      <4>3. ASSUME NEW i \in 1 .. Len(pending[l]) + 1, pending'[l][i] = o
            PROVE  o = n \/ \E j \in 1 .. Len(pending[l]) : pending[l][j] = o
        BY <1>7, <4>3
      <4>4. ASSUME NEW i \in 1 .. Len(pending[l]), pending[l][i] = o
            PROVE  \E j \in 1 .. Len(pending[l]) + 1 : pending'[l][j] = o
        BY <1>7, <4>4
      <4>5. o = n => \E j \in 1 .. Len(pending[l]) + 1 : pending'[l][j] = o
        BY <1>7
      <4>. QED
        BY <3>2, <4>1, <4>2, <4>3, <4>4, <4>5
    <3>. QED
      BY <3>1, <3>2
  <2>. QED
    BY <2>1
<1>9. \A d \in Clients, o \in Objects, k \in Listeners :
        Waits(d, o, k)' <=> Waits(d, o, k) \/ (d = c /\ Holds(c, o) /\ k = l)
  BY <1>1, <1>2, <1>4, <1>5 DEF Waits, l
<1>10. \A o \in Objects : Unanswered(o)' <=> Unanswered(o)
  BY <1>1, <1>2, <1>5 DEF Unanswered
<1>11. ConnsSound'
  BY ClientConns
<1>12. Alive' /\ Exclusive'
  BY <1>2, <1>5 DEF Sound, Alive, Exclusive
<1>13. FreshSound'
  <2>1. ASSUME NEW d \in Clients, NEW o \in Objects, Holds(d, o)', conn'[d].ops = "init",
               pc'[d] # "pending"
        PROVE  Unanswered(o)' /\ \A k \in Listeners : ~Queued(o, k)'
    <3>1. d # c /\ Holds(d, o) /\ conn[d].ops = "init" /\ pc[d] # "pending"
      BY <1>1, <1>2, <1>4, <1>5, <2>1
    <3>2. o # n
      BY <1>1, <1>3, <3>1 DEF Sound, Exclusive
    <3>. QED
      BY <1>8, <1>10, <3>1, <3>2 DEF Sound, FreshSound
  <2>. QED
    BY <2>1 DEF FreshSound
<1>14. QueuedOnce'
  <2>1. ASSUME NEW k \in Listeners, NEW i \in 1 .. Len(pending'[k]), NEW j \in 1 .. Len(pending'[k]),
               pending'[k][i] = pending'[k][j]
        PROVE  i = j
    <3>1. CASE k # l
      BY <1>7, <2>1, <3>1 DEF Sound, QueuedOnce
    <3>2. CASE k = l
      <4>1. \A m \in 1 .. Len(pending[l]) : pending[l][m] # n
        BY <1>3, <1>6 DEF Queued
      <4>2. \A a, b \in 1 .. Len(pending[l]) : pending[l][a] = pending[l][b] => a = b
        BY <1>3 DEF Sound, QueuedOnce
      <4>3. i \in 1 .. Len(pending[l]) + 1 /\ j \in 1 .. Len(pending[l]) + 1 /\ pending'[l][i] = pending'[l][j]
        BY <1>7, <2>1, <3>2
      <4>4. \A m \in 1 .. Len(pending[l]) + 1 :
              \/ m \in 1 .. Len(pending[l]) /\ pending'[l][m] = pending[l][m]
              \/ m = Len(pending[l]) + 1 /\ pending'[l][m] = n
        BY <1>7
      <4>5. CASE i \in 1 .. Len(pending[l]) /\ pending'[l][i] = pending[l][i]
        BY <4>1, <4>2, <4>3, <4>4, <4>5
      <4>6. CASE i = Len(pending[l]) + 1 /\ pending'[l][i] = n
        BY <4>1, <4>3, <4>4, <4>6
      <4>. QED
        BY <4>3, <4>4, <4>5, <4>6
    <3>. QED
      BY <3>1, <3>2
  <2>. QED
    BY <2>1 DEF QueuedOnce
<1>15. QueueSound'
  <2>1. ASSUME NEW k \in Listeners, NEW o \in Objects, Queued(o, k)'
        PROVE  waiting'[o] /\ Unanswered(o)' /\ \E d \in Clients : Waits(d, o, k)'
    <3>1. CASE o = n /\ k = l
      BY <1>1, <1>2, <1>3, <1>6, <1>9, <1>10, <3>1 DEF TypeOK
    <3>2. CASE Queued(o, k)
      <4>1. waiting[o] /\ Unanswered(o) /\ \E d \in Clients : Waits(d, o, k)
        BY <3>2 DEF Sound, QueueSound
      <4>2. waiting'[o]
        BY <1>1, <1>2, <4>1 DEF TypeOK
      <4>. QED
        BY <1>9, <1>10, <4>1, <4>2
    <3>. QED
      BY <1>8, <2>1, <3>1, <3>2
  <2>. QED
    BY <2>1 DEF QueueSound
<1>16. ClientsSound'
  <2>1. ASSUME NEW d \in Clients, NEW o \in Objects, Holds(d, o)',
               pc'[d] = "pending" \/ conn'[d].ops = "client"
        PROVE  \/ \E k \in Listeners : Waits(d, o, k)' /\ Queued(o, k)'
               \/ \E s \in Servers : Holds(s, o)'
               \/ closed'[o]
    <3>1. CASE d = c
      <4>1. Holds(c, o)
        BY <1>1, <1>5, <2>1, <3>1
      <4>2. o = n
        BY <1>3, <4>1 DEF Holds
      <4>. QED
        BY <1>3, <1>8, <1>9, <3>1, <4>2
    <3>2. CASE d # c
      <4>1. Holds(d, o) /\ (pc[d] = "pending" \/ conn[d].ops = "client")
        BY <1>1, <1>2, <1>4, <1>5, <2>1, <3>2
      <4>2. \/ \E k \in Listeners : Waits(d, o, k) /\ Queued(o, k)
            \/ \E s \in Servers : Holds(s, o)
            \/ closed[o]
        BY <4>1 DEF Sound, ClientsSound
      <4>. QED
        BY <1>1, <1>2, <1>5, <1>8, <1>9, <4>2
    <3>. QED
      BY <3>1, <3>2
  <2>. QED
    BY <2>1 DEF ClientsSound
<1>17. ServersSound'
  BY <1>1, <1>2, <1>5 DEF Sound, ServersSound
<1>18. ClosedSound'
  BY <1>2, <1>4, <1>5 DEF Sound, ClosedSound
<1>19. RacedSound'
  BY <1>2, <1>4, <1>5 DEF Sound, RacedSound
<1>20. LiveSound'
  BY <1>1, <1>2, <1>5 DEF Sound, LiveSound, TypeOK
<1>. QED
  BY <1>11, <1>12, <1>13, <1>14, <1>15, <1>16, <1>17, <1>18, <1>19, <1>20 DEF Sound

LEMMA AcceptTakeSound ==
  ASSUME IInv, Sound, NEW s \in Servers, AcceptTake(s)
  PROVE  Sound'
<1>1. /\ TypeOK /\ ConnSound(s) /\ s \in Tasks /\ Clients \subseteq Tasks /\ Servers \subseteq Tasks
      /\ s \notin Clients
  BY SocketAssumption DEF IInv, Tasks, Sound, ConnsSound
<1>2. PICK l \in Listeners : l = listener[s] /\ pc[s] = "take" /\ pending[l] # <<>>
  BY <1>1 DEF AcceptTake, Goto, At, ConnSound
<1>3. /\ pending[l] \in Seq(Objects) /\ Len(pending[l]) \in Nat \ {0}
      /\ Head(pending[l]) = pending[l][1] /\ Head(pending[l]) \in Objects
      /\ Len(Tail(pending[l])) = Len(pending[l]) - 1
      /\ \A i \in 1 .. Len(pending[l]) - 1 : Tail(pending[l])[i] = pending[l][i + 1]
  <2>1. pending[l] \in Seq(Objects) /\ pending[l] # <<>>
    BY <1>1, <1>2 DEF TypeOK
  <2>. QED
    BY <2>1, LenProperties, HeadTailProperties, EmptySeq
<1>4. PICK n \in Objects : n = Head(pending[l])
  BY <1>3
<1>5. /\ pc' = [pc EXCEPT ![s] = "user"]
      /\ conn' = [conn EXCEPT ![s] = [ops |-> "server_client", priv |-> n]]
      /\ pending' = [pending EXCEPT ![l] = Tail(pending[l])]
      /\ waiting' = [waiting EXCEPT ![n] = FALSE]
      /\ UNCHANGED <<target, live, closed, raced, unused>>
  BY <1>2, <1>4 DEF AcceptTake, Goto, history
<1>6. conn[s] = NoConn /\ None \notin Objects
  BY <1>1, <1>2, Placement DEF ConnSound, Sound
<1>7. \A t \in Tasks, o \in Objects : Holds(t, o)' <=> IF t = s THEN o = n ELSE Holds(t, o)
  BY <1>1, <1>5 DEF Holds, Object, TypeOK
<1>8. /\ \A o \in Objects \ {n} : waiting'[o] = waiting[o]
      /\ conn'[s].ops = "server_client" /\ pc'[s] = "user"
      /\ \A t \in Tasks \ {s} : conn'[t] = conn[t] /\ pc'[t] = pc[t]
  BY <1>1, <1>5 DEF TypeOK
<1>9. /\ Len(pending'[l]) = Len(pending[l]) - 1
      /\ \A i \in 1 .. Len(pending[l]) - 1 : pending'[l][i] = pending[l][i + 1]
      /\ \A k \in Listeners \ {l} : pending'[k] = pending[k]
      /\ pending[l][1] = n
  BY <1>1, <1>3, <1>4, <1>5 DEF TypeOK
<1>10. \A i \in 1 .. Len(pending'[l]) :
         pending'[l][i] = pending[l][i + 1] /\ i + 1 \in 1 .. Len(pending[l]) /\ i + 1 # 1
  BY <1>3, <1>9
<1>11. \A i \in 1 .. Len(pending[l]) :
         i # 1 => i - 1 \in 1 .. Len(pending'[l]) /\ pending'[l][i - 1] = pending[l][i]
  <2>1. ASSUME NEW i \in 1 .. Len(pending[l]), i # 1
        PROVE  i - 1 \in 1 .. Len(pending'[l]) /\ pending'[l][i - 1] = pending[l][i]
    <3>1. i - 1 \in 1 .. Len(pending[l]) - 1 /\ (i - 1) + 1 = i
      BY <1>3, <2>1
    <3>. QED
      BY <1>9, <3>1
  <2>. QED
    BY <2>1
<1>12. \A i, j \in 1 .. Len(pending[l]) : pending[l][i] = pending[l][j] => i = j
  BY DEF Sound, QueuedOnce
<1>13. Queued(n, l) /\ Unanswered(n)
  BY <1>3, <1>9 DEF Queued, Sound, QueueSound
<1>14. PICK c \in Clients : Waits(c, n, l)
  BY <1>13 DEF Sound, QueueSound
<1>15. Holds(c, n) /\ pc[c] = "pending" /\ target[c] = l /\ c \in Tasks
  BY <1>1, <1>14 DEF Waits
<1>16. \A k \in Listeners : Queued(n, k) => k = l
  BY <1>1, <1>15 DEF Sound, QueueSound, Waits, Exclusive
<1>17. \A o \in Objects, k \in Listeners : Queued(o, k)' <=> Queued(o, k) /\ o # n
  <2>1. ASSUME NEW o \in Objects, NEW k \in Listeners
        PROVE  Queued(o, k)' <=> Queued(o, k) /\ o # n
    <3>1. CASE k # l
      BY <1>9, <1>16, <3>1 DEF Queued
    <3>2. CASE k = l
      <4>1. ASSUME NEW i \in 1 .. Len(pending'[l]), pending'[l][i] = o
            PROVE  Queued(o, l) /\ o # n
        <5>1. pending[l][i + 1] = o /\ i + 1 \in 1 .. Len(pending[l]) /\ i + 1 # 1
          BY <1>10, <4>1
        <5>. QED
          BY <1>3, <1>9, <1>12, <5>1 DEF Queued
      <4>2. ASSUME NEW i \in 1 .. Len(pending[l]), pending[l][i] = o, o # n
            PROVE  \E j \in 1 .. Len(pending'[l]) : pending'[l][j] = o
        <5>1. i # 1
          BY <1>9, <4>2
        <5>. QED
          BY <1>11, <4>2, <5>1
      <4>. QED
        BY <3>2, <4>1, <4>2 DEF Queued
    <3>. QED
      BY <3>1, <3>2
  <2>. QED
    BY <2>1
<1>18. \A d \in Clients, o \in Objects, k \in Listeners : Waits(d, o, k)' <=> Waits(d, o, k)
  BY <1>1, <1>5, <1>7, <1>8 DEF Waits
<1>19. \A o \in Objects \ {n} : Unanswered(o)' <=> Unanswered(o)
  BY <1>1, <1>5, <1>6, <1>7 DEF Unanswered, Holds, Object, NoConn
<1>20. ConnsSound'
  BY ServerConns
<1>21. Alive'
  BY <1>5, <1>7, <1>15 DEF Sound, Alive
<1>22. Exclusive'
  <2>1. ASSUME NEW t \in Tasks, NEW u \in Tasks, NEW o \in Objects, Holds(t, o)', Holds(u, o)',
               t \in Clients <=> u \in Clients
        PROVE  t = u
    <3>1. \A v \in Tasks : v \notin Clients => v \in Servers
      BY DEF Tasks
    <3>2. \A v \in Tasks : v \notin Clients => ~Holds(v, n)
      BY <1>13, <3>1 DEF Unanswered
    <3>. QED
      BY <1>1, <1>7, <2>1, <3>2 DEF Sound, Exclusive
  <2>. QED
    BY <2>1 DEF Exclusive
<1>23. FreshSound'
  <2>1. ASSUME NEW d \in Clients, NEW o \in Objects, Holds(d, o)', conn'[d].ops = "init",
               pc'[d] # "pending"
        PROVE  Unanswered(o)' /\ \A k \in Listeners : ~Queued(o, k)'
    <3>1. d # s /\ Holds(d, o) /\ conn[d].ops = "init" /\ pc[d] # "pending"
      BY <1>1, <1>7, <1>8, <2>1
    <3>2. o # n
      BY <1>1, <1>15, <3>1 DEF Sound, Exclusive
    <3>. QED
      BY <1>17, <1>19, <3>1, <3>2 DEF Sound, FreshSound
  <2>. QED
    BY <2>1 DEF FreshSound
<1>24. QueuedOnce'
  <2>1. ASSUME NEW k \in Listeners, NEW i \in 1 .. Len(pending'[k]), NEW j \in 1 .. Len(pending'[k]),
               pending'[k][i] = pending'[k][j]
        PROVE  i = j
    <3>1. CASE k # l
      BY <1>9, <2>1, <3>1 DEF Sound, QueuedOnce
    <3>2. CASE k = l
      <4>1. /\ i + 1 \in 1 .. Len(pending[l]) /\ j + 1 \in 1 .. Len(pending[l])
            /\ pending[l][i + 1] = pending[l][j + 1]
        BY <1>10, <2>1, <3>2
      <4>2. i + 1 = j + 1
        BY <1>12, <4>1
      <4>. QED
        BY <4>2
    <3>. QED
      BY <3>1, <3>2
  <2>. QED
    BY <2>1 DEF QueuedOnce
<1>25. QueueSound'
  <2>1. ASSUME NEW k \in Listeners, NEW o \in Objects, Queued(o, k)'
        PROVE  waiting'[o] /\ Unanswered(o)' /\ \E d \in Clients : Waits(d, o, k)'
    <3>1. Queued(o, k) /\ o # n
      BY <1>17, <2>1
    <3>2. waiting[o] /\ Unanswered(o) /\ \E d \in Clients : Waits(d, o, k)
      BY <3>1 DEF Sound, QueueSound
    <3>. QED
      BY <1>8, <1>18, <1>19, <3>1, <3>2
  <2>. QED
    BY <2>1 DEF QueueSound
<1>26. ClientsSound'
  <2>1. ASSUME NEW d \in Clients, NEW o \in Objects, Holds(d, o)',
               pc'[d] = "pending" \/ conn'[d].ops = "client"
        PROVE  \/ \E k \in Listeners : Waits(d, o, k)' /\ Queued(o, k)'
               \/ \E t \in Servers : Holds(t, o)'
               \/ closed'[o]
    <3>1. CASE o = n
      BY <1>1, <1>7, <3>1
    <3>2. CASE o # n
      <4>1. Holds(d, o) /\ (pc[d] = "pending" \/ conn[d].ops = "client")
        BY <1>1, <1>7, <1>8, <2>1
      <4>2. \/ \E k \in Listeners : Waits(d, o, k) /\ Queued(o, k)
            \/ \E t \in Servers : t # s /\ Holds(t, o)
            \/ closed[o]
        BY <1>6, <4>1 DEF Sound, ClientsSound, Holds, Object, NoConn
      <4>. QED
        BY <1>1, <1>5, <1>7, <1>17, <1>18, <3>2, <4>2
    <3>. QED
      BY <3>1, <3>2
  <2>. QED
    BY <2>1 DEF ClientsSound
<1>27. ServersSound'
  <2>1. ASSUME NEW t \in Servers, NEW o \in Objects, Holds(t, o)'
        PROVE  closed'[o] \/ \E d \in Clients : Holds(d, o)'
    <3>1. closed[o] \/ \E d \in Clients : Holds(d, o)
      BY <1>1, <1>7, <1>15, <2>1 DEF Sound, ServersSound
    <3>. QED
      BY <1>1, <1>5, <1>7, <3>1
  <2>. QED
    BY <2>1 DEF ServersSound
<1>28. ClosedSound'
  <2>1. ~closed[n]
    BY <1>13 DEF Unanswered
  <2>. QED
    BY <1>5, <1>7, <1>8, <2>1 DEF Sound, ClosedSound
<1>29. RacedSound'
  BY <1>5, <1>7, <1>8 DEF Sound, RacedSound
<1>30. LiveSound'
  <2>1. ASSUME NEW o \in live PROVE o \in raced \cup unused \/ \E t \in Tasks : Holds(t, o)'
    <3>1. o \in Objects /\ ~Holds(s, o)
      BY <1>1, <1>6 DEF TypeOK, Holds, Object, NoConn
    <3>. QED
      BY <1>7, <3>1 DEF Sound, LiveSound
  <2>. QED
    BY <1>5, <2>1 DEF LiveSound
<1>. QED
  BY <1>20, <1>21, <1>22, <1>23, <1>24, <1>25, <1>26, <1>27, <1>28, <1>29, <1>30 DEF Sound

LEMMA ConnectDoneSound ==
  ASSUME IInv, Sound, NEW c \in Clients, ConnectDone(c)
  PROVE  Sound'
<1>1. /\ TypeOK /\ ConnSound(c) /\ c \in Tasks /\ Clients \subseteq Tasks /\ Servers \subseteq Tasks
      /\ c \notin Servers
  BY SocketAssumption DEF IInv, Tasks, Sound, ConnsSound
<1>2. /\ pc[c] = "pending" /\ pc' = [pc EXCEPT ![c] = "user"]
      /\ conn' = [conn EXCEPT ![c].ops = "client"]
      /\ ~waiting[Object(c)] \/ closed[Object(c)]
      /\ target' = [target EXCEPT ![c] = 0]
      /\ UNCHANGED <<pending, waiting, live, closed, raced, unused>>
  BY DEF ConnectDone, Goto, At, history, network
<1>3. PICK n \in Objects : n = Object(c) /\ Holds(c, n)
  BY <1>1, <1>2, Placement DEF ConnSound, Holds, Sound
<1>4. \A t \in Tasks, o \in Objects : Holds(t, o)' <=> Holds(t, o)
  BY <1>1, <1>2 DEF Holds, Object, TypeOK
<1>5. /\ conn'[c].ops = "client" /\ pc'[c] = "user"
      /\ \A t \in Tasks \ {c} : conn'[t] = conn[t] /\ pc'[t] = pc[t]
      /\ \A d \in Clients \ {c} : target'[d] = target[d]
  BY <1>1, <1>2 DEF TypeOK
<1>6. \A o \in Objects : Holds(c, o) => o = n
  BY <1>3 DEF Holds
<1>7. \A k \in Listeners : ~Queued(n, k)
  BY <1>2, <1>3 DEF Sound, QueueSound, Unanswered
<1>8. \A o \in Objects, k \in Listeners : Queued(o, k)' <=> Queued(o, k)
  BY <1>2 DEF Queued
<1>9. \A d \in Clients \ {c}, o \in Objects, k \in Listeners : Waits(d, o, k)' <=> Waits(d, o, k)
  BY <1>1, <1>4, <1>5 DEF Waits
<1>10. \A o \in Objects : Unanswered(o)' <=> Unanswered(o)
  BY <1>1, <1>2, <1>4 DEF Unanswered
<1>11. ConnsSound'
  BY ClientConns
<1>12. Alive' /\ Exclusive'
  BY <1>2, <1>4 DEF Sound, Alive, Exclusive
<1>13. FreshSound'
  <2>1. ASSUME NEW d \in Clients, NEW o \in Objects, Holds(d, o)', conn'[d].ops = "init",
               pc'[d] # "pending"
        PROVE  Unanswered(o)' /\ \A k \in Listeners : ~Queued(o, k)'
    <3>1. Holds(d, o) /\ conn[d].ops = "init" /\ pc[d] # "pending"
      BY <1>1, <1>4, <1>5, <2>1
    <3>. QED
      BY <1>8, <1>10, <3>1 DEF Sound, FreshSound
  <2>. QED
    BY <2>1 DEF FreshSound
<1>14. QueuedOnce'
  BY <1>2 DEF Sound, QueuedOnce
<1>15. QueueSound'
  <2>1. ASSUME NEW k \in Listeners, NEW o \in Objects, Queued(o, k)'
        PROVE  waiting'[o] /\ Unanswered(o)' /\ \E d \in Clients : Waits(d, o, k)'
    <3>1. waiting[o] /\ Unanswered(o) /\ o # n
      BY <1>7, <1>8, <2>1 DEF Sound, QueueSound
    <3>2. PICK d \in Clients : Waits(d, o, k)
      BY <1>8, <2>1 DEF Sound, QueueSound
    <3>3. d # c
      BY <1>6, <3>1, <3>2 DEF Waits
    <3>. QED
      BY <1>2, <1>9, <1>10, <3>1, <3>2, <3>3
  <2>. QED
    BY <2>1 DEF QueueSound
<1>16. ClientsSound'
  <2>1. ASSUME NEW d \in Clients, NEW o \in Objects, Holds(d, o)',
               pc'[d] = "pending" \/ conn'[d].ops = "client"
        PROVE  \/ \E k \in Listeners : Waits(d, o, k)' /\ Queued(o, k)'
               \/ \E s \in Servers : Holds(s, o)'
               \/ closed'[o]
    <3>1. Holds(d, o) /\ (pc[d] = "pending" \/ conn[d].ops = "client")
      BY <1>1, <1>2, <1>4, <1>5, <2>1
    <3>2. \/ \E k \in Listeners : Waits(d, o, k) /\ Queued(o, k)
          \/ \E s \in Servers : Holds(s, o)
          \/ closed[o]
      BY <3>1 DEF Sound, ClientsSound
    <3>3. d = c => o = n
      BY <1>6, <3>1
    <3>. QED
      BY <1>1, <1>2, <1>4, <1>7, <1>8, <1>9, <3>2, <3>3
  <2>. QED
    BY <2>1 DEF ClientsSound
<1>17. ServersSound'
  BY <1>1, <1>2, <1>4 DEF Sound, ServersSound
<1>18. ClosedSound'
  BY <1>2, <1>4, <1>5 DEF Sound, ClosedSound
<1>19. RacedSound'
  BY <1>2, <1>4, <1>5 DEF Sound, RacedSound
<1>20. LiveSound'
  BY <1>1, <1>2, <1>4 DEF Sound, LiveSound, TypeOK
<1>. QED
  BY <1>11, <1>12, <1>13, <1>14, <1>15, <1>16, <1>17, <1>18, <1>19, <1>20 DEF Sound

LEMMA CloseUnusedSound ==
  ASSUME IInv, Sound, NEW c \in Clients, CloseUnused(c)
  PROVE  Sound'
<1>1. /\ TypeOK /\ ConnSound(c) /\ c \in Tasks /\ Clients \subseteq Tasks /\ Servers \subseteq Tasks
      /\ c \notin Servers
  BY SocketAssumption DEF IInv, Tasks, Sound, ConnsSound
<1>2. /\ pc[c] = "user" /\ conn[c].ops = "init" /\ pc' = pc
      /\ conn' = [conn EXCEPT ![c] = NoConn]
      /\ unused' = unused \cup {Object(c)}
      /\ UNCHANGED <<target, pending, waiting, live, closed, raced>>
  BY DEF CloseUnused, At, network
<1>3. PICK n \in Objects : n = Object(c) /\ Holds(c, n) /\ None \notin Objects
  BY <1>1, <1>2, Placement DEF Holds, Sound
<1>4. Unanswered(n) /\ \A k \in Listeners : ~Queued(n, k)
  BY <1>2, <1>3 DEF Sound, FreshSound
<1>5. \A t \in Tasks, o \in Objects : Holds(t, o)' <=> t # c /\ Holds(t, o)
  BY <1>1, <1>2, <1>3 DEF Holds, Object, TypeOK, NoConn
<1>6. conn'[c].ops = "none" /\ \A t \in Tasks \ {c} : conn'[t] = conn[t]
  BY <1>1, <1>2 DEF TypeOK, NoConn
<1>7. \A o \in Objects : Holds(c, o) => o = n
  BY <1>3 DEF Holds
<1>8. \A o \in Objects, k \in Listeners : Queued(o, k)' <=> Queued(o, k)
  BY <1>2 DEF Queued
<1>9. \A d \in Clients, o \in Objects, k \in Listeners : Waits(d, o, k)' <=> Waits(d, o, k)
  BY <1>1, <1>2, <1>5 DEF Waits
<1>10. \A o \in Objects : Unanswered(o)' <=> Unanswered(o)
  BY <1>1, <1>2, <1>5 DEF Unanswered
<1>11. ConnsSound'
  BY ClientConns
<1>12. Alive' /\ Exclusive'
  BY <1>2, <1>5 DEF Sound, Alive, Exclusive
<1>13. FreshSound'
  <2>1. ASSUME NEW d \in Clients, NEW o \in Objects, Holds(d, o)', conn'[d].ops = "init",
               pc'[d] # "pending"
        PROVE  Unanswered(o)' /\ \A k \in Listeners : ~Queued(o, k)'
    <3>1. Holds(d, o) /\ conn[d].ops = "init" /\ pc[d] # "pending"
      BY <1>1, <1>2, <1>5, <1>6, <2>1
    <3>. QED
      BY <1>8, <1>10, <3>1 DEF Sound, FreshSound
  <2>. QED
    BY <2>1 DEF FreshSound
<1>14. QueuedOnce'
  BY <1>2 DEF Sound, QueuedOnce
<1>15. QueueSound'
  BY <1>2, <1>8, <1>9, <1>10 DEF Sound, QueueSound
<1>16. ClientsSound'
  <2>1. ASSUME NEW d \in Clients, NEW o \in Objects, Holds(d, o)',
               pc'[d] = "pending" \/ conn'[d].ops = "client"
        PROVE  \/ \E k \in Listeners : Waits(d, o, k)' /\ Queued(o, k)'
               \/ \E s \in Servers : Holds(s, o)'
               \/ closed'[o]
    <3>1. d # c /\ Holds(d, o) /\ (pc[d] = "pending" \/ conn[d].ops = "client")
      BY <1>1, <1>2, <1>5, <1>6, <2>1
    <3>2. \/ \E k \in Listeners : Waits(d, o, k) /\ Queued(o, k)
          \/ \E s \in Servers : Holds(s, o)
          \/ closed[o]
      BY <3>1 DEF Sound, ClientsSound
    <3>. QED
      BY <1>1, <1>2, <1>5, <1>8, <1>9, <3>2
  <2>. QED
    BY <2>1 DEF ClientsSound
<1>17. ServersSound'
  <2>1. ASSUME NEW s \in Servers, NEW o \in Objects, Holds(s, o)'
        PROVE  closed'[o] \/ \E d \in Clients : Holds(d, o)'
    <3>1. Holds(s, o) /\ o # n
      BY <1>1, <1>4, <1>5, <2>1 DEF Unanswered
    <3>2. closed[o] \/ \E d \in Clients : Holds(d, o)
      BY <3>1 DEF Sound, ServersSound
    <3>. QED
      BY <1>1, <1>2, <1>5, <1>7, <3>1, <3>2
  <2>. QED
    BY <2>1 DEF ServersSound
<1>18. ClosedSound'
  BY <1>2, <1>5 DEF Sound, ClosedSound
<1>19. RacedSound'
  BY <1>2, <1>5 DEF Sound, RacedSound
<1>20. LiveSound'
  <2>1. ASSUME NEW o \in live', o \notin raced' \cup unused'
        PROVE  \E u \in Tasks : Holds(u, o)'
    <3>1. o \in Objects /\ o # n
      BY <1>1, <1>2, <1>3, <2>1 DEF TypeOK
    <3>. QED
      BY <1>2, <1>5, <1>7, <2>1, <3>1 DEF Sound, LiveSound
  <2>. QED
    BY <2>1 DEF LiveSound
<1>. QED
  BY <1>11, <1>12, <1>13, <1>14, <1>15, <1>16, <1>17, <1>18, <1>19, <1>20 DEF Sound

LEMMA CloseTestSound ==
  ASSUME IInv, Sound, NEW t \in Tasks, CloseTest(t)
  PROVE  Sound'
<1>1. /\ TypeOK /\ ConnSound(t) /\ Clients \subseteq Tasks /\ Servers \subseteq Tasks
  BY DEF IInv, Tasks, Sound, ConnsSound
<1>2. /\ pc[t] = "user" /\ conn[t].ops \in {"client", "server_client"}
      /\ pc' = [pc EXCEPT ![t] = IF closed[Object(t)] THEN "free" ELSE "mark"]
      /\ raced' = IF closed[Object(t)] \/ {u \in Tasks : pc[u] = "mark" /\ Object(u) = Object(t)} = {}
                  THEN raced ELSE raced \cup {Object(t)}
      /\ UNCHANGED <<conn, target, pending, waiting, live, closed, unused>>
  BY DEF CloseTest, Connected, Goto, At, network
<1>3. PICK n \in Objects : n = Object(t) /\ Holds(t, n)
  BY <1>1, <1>2, Placement DEF Holds, Sound
<1>4. /\ pc'[t] = IF closed[n] THEN "free" ELSE "mark"
      /\ \A u \in Tasks \ {t} : pc'[u] = pc[u]
  BY <1>1, <1>2, <1>3 DEF TypeOK
<1>5. \A u \in Tasks, o \in Objects : Holds(u, o)' <=> Holds(u, o)
  BY <1>2, <1>4 DEF Holds, Object
<1>6. \A u \in Tasks : pc'[u] = "pending" <=> pc[u] = "pending"
  BY <1>2, <1>4
<1>7. \A o \in Objects : Holds(t, o) => o = n
  BY <1>3 DEF Holds
<1>8. raced \subseteq raced' /\ \A u \in Tasks : pc[u] = "mark" /\ Holds(u, n) /\ ~closed[n] => n \in raced'
  BY <1>2, <1>3 DEF Holds
<1>9. \A o \in Objects, k \in Listeners : Queued(o, k)' <=> Queued(o, k)
  BY <1>2 DEF Queued
<1>10. \A d \in Clients, o \in Objects, k \in Listeners : Waits(d, o, k)' <=> Waits(d, o, k)
  BY <1>1, <1>2, <1>5, <1>6 DEF Waits
<1>11. \A o \in Objects : Unanswered(o)' <=> Unanswered(o)
  BY <1>1, <1>2, <1>5 DEF Unanswered
<1>12. ConnsSound'
  BY TalkConns
<1>13. Alive' /\ Exclusive'
  BY <1>2, <1>5 DEF Sound, Alive, Exclusive
<1>14. FreshSound'
  BY <1>1, <1>2, <1>5, <1>6, <1>9, <1>11 DEF Sound, FreshSound
<1>15. QueuedOnce'
  BY <1>2 DEF Sound, QueuedOnce
<1>16. QueueSound'
  BY <1>2, <1>9, <1>10, <1>11 DEF Sound, QueueSound
<1>17. ClientsSound'
  <2>1. ASSUME NEW d \in Clients, NEW o \in Objects, Holds(d, o)',
               pc'[d] = "pending" \/ conn'[d].ops = "client"
        PROVE  \/ \E k \in Listeners : Waits(d, o, k)' /\ Queued(o, k)'
               \/ \E s \in Servers : Holds(s, o)'
               \/ closed'[o]
    <3>1. Holds(d, o) /\ (pc[d] = "pending" \/ conn[d].ops = "client")
      BY <1>1, <1>2, <1>5, <1>6, <2>1
    <3>2. \/ \E k \in Listeners : Waits(d, o, k) /\ Queued(o, k)
          \/ \E s \in Servers : Holds(s, o)
          \/ closed[o]
      BY <3>1 DEF Sound, ClientsSound
    <3>. QED
      BY <1>1, <1>2, <1>5, <1>9, <1>10, <3>2
  <2>. QED
    BY <2>1 DEF ClientsSound
<1>18. ServersSound'
  BY <1>1, <1>2, <1>5 DEF Sound, ServersSound
<1>19. ClosedSound'
  BY <1>2, <1>4, <1>5, <1>7 DEF Sound, ClosedSound
<1>20. RacedSound'
  <2>1. ASSUME NEW u \in Tasks, NEW o \in Objects, Holds(u, o)', pc'[u] = "mark", closed'[o]
        PROVE  o \in raced'
    <3>1. u # t /\ pc[u] = "mark" /\ Holds(u, o) /\ closed[o]
      BY <1>2, <1>4, <1>5, <1>7, <2>1
    <3>. QED
      BY <1>8, <3>1 DEF Sound, RacedSound
  <2>2. ASSUME NEW u \in Tasks, NEW v \in Tasks, NEW o \in Objects, u # v,
               Holds(u, o)', Holds(v, o)', pc'[u] = "mark", pc'[v] = "mark"
        PROVE  o \in raced'
    <3>1. Holds(u, o) /\ Holds(v, o)
      BY <1>5, <2>2
    <3>2. CASE u = t
      <4>1. pc[v] = "mark" /\ o = n /\ ~closed[n]
        BY <1>4, <1>7, <2>2, <3>1, <3>2
      <4>. QED
        BY <1>8, <3>1, <4>1
    <3>3. CASE v = t
      <4>1. pc[u] = "mark" /\ o = n /\ ~closed[n]
        BY <1>4, <1>7, <2>2, <3>1, <3>3
      <4>. QED
        BY <1>8, <3>1, <4>1
    <3>4. CASE u # t /\ v # t
      BY <1>4, <1>8, <2>2, <3>1, <3>4 DEF Sound, RacedSound
    <3>. QED
      BY <3>2, <3>3, <3>4
  <2>. QED
    BY <2>1, <2>2 DEF RacedSound
<1>21. LiveSound'
  BY <1>1, <1>2, <1>5, <1>8 DEF Sound, LiveSound, TypeOK
<1>. QED
  BY <1>12, <1>13, <1>14, <1>15, <1>16, <1>17, <1>18, <1>19, <1>20, <1>21 DEF Sound

LEMMA CloseFreeSound ==
  ASSUME IInv, Sound, NEW t \in Tasks, CloseFree(t)
  PROVE  Sound'
<1>1. /\ TypeOK /\ ConnSound(t) /\ Clients \subseteq Tasks /\ Servers \subseteq Tasks
  BY DEF IInv, Tasks, Sound, ConnsSound
<1>2. /\ pc[t] = "free" /\ conn[t].ops \in {"client", "server_client"}
      /\ pc' = [pc EXCEPT ![t] = "freed"] /\ live' = live \ {Object(t)}
      /\ UNCHANGED <<conn, target, pending, waiting, closed, raced, unused>>
  BY <1>1 DEF CloseFree, ConnSound, Connected, Goto, At, network, history
<1>3. PICK n \in Objects : n = Object(t) /\ Holds(t, n)
  BY <1>1, <1>2, Placement DEF Holds, Sound
<1>4. \A u \in Tasks : pc'[u] = IF u = t THEN "freed" ELSE pc[u]
  BY <1>1, <1>2 DEF TypeOK
<1>5. \A u \in Tasks, o \in Objects : Holds(u, o)' <=> u # t /\ Holds(u, o)
  BY <1>2, <1>4 DEF Holds, Object
<1>6. \A o \in Objects : Holds(t, o) => o = n
  BY <1>3 DEF Holds
<1>7. closed[n] /\ \A u \in Tasks : Holds(u, n) => u = t
  BY <1>2, <1>3 DEF Sound, ClosedSound
<1>8. \A o \in Objects, k \in Listeners : Queued(o, k)' <=> Queued(o, k)
  BY <1>2 DEF Queued
<1>9. \A d \in Clients, o \in Objects, k \in Listeners : Waits(d, o, k)' <=> Waits(d, o, k)
  BY <1>1, <1>2, <1>4, <1>5 DEF Waits
<1>10. \A o \in Objects : Unanswered(o)' <=> Unanswered(o)
  BY <1>1, <1>2, <1>5, <1>6, <1>7 DEF Unanswered
<1>11. ConnsSound'
  BY TalkConns
<1>12. Alive' /\ Exclusive'
  BY <1>2, <1>3, <1>5, <1>7 DEF Sound, Alive, Exclusive
<1>13. FreshSound'
  <2>1. ASSUME NEW d \in Clients, NEW o \in Objects, Holds(d, o)', conn'[d].ops = "init",
               pc'[d] # "pending"
        PROVE  Unanswered(o)' /\ \A k \in Listeners : ~Queued(o, k)'
    <3>1. Holds(d, o) /\ conn[d].ops = "init" /\ pc[d] # "pending"
      BY <1>1, <1>2, <1>4, <1>5, <2>1
    <3>. QED
      BY <1>8, <1>10, <3>1 DEF Sound, FreshSound
  <2>. QED
    BY <2>1 DEF FreshSound
<1>14. QueuedOnce'
  BY <1>2 DEF Sound, QueuedOnce
<1>15. QueueSound'
  BY <1>2, <1>8, <1>9, <1>10 DEF Sound, QueueSound
<1>16. ClientsSound'
  <2>1. ASSUME NEW d \in Clients, NEW o \in Objects, Holds(d, o)',
               pc'[d] = "pending" \/ conn'[d].ops = "client"
        PROVE  \/ \E k \in Listeners : Waits(d, o, k)' /\ Queued(o, k)'
               \/ \E s \in Servers : Holds(s, o)'
               \/ closed'[o]
    <3>1. Holds(d, o) /\ (pc[d] = "pending" \/ conn[d].ops = "client")
      BY <1>1, <1>2, <1>4, <1>5, <2>1
    <3>2. \/ \E k \in Listeners : Waits(d, o, k) /\ Queued(o, k)
          \/ \E s \in Servers : Holds(s, o)
          \/ closed[o]
      BY <3>1 DEF Sound, ClientsSound
    <3>. QED
      BY <1>1, <1>2, <1>5, <1>6, <1>7, <1>8, <1>9, <3>2
  <2>. QED
    BY <2>1 DEF ClientsSound
<1>17. ServersSound'
  <2>1. ASSUME NEW s \in Servers, NEW o \in Objects, Holds(s, o)'
        PROVE  closed'[o] \/ \E d \in Clients : Holds(d, o)'
    <3>1. closed[o] \/ \E d \in Clients : Holds(d, o)
      BY <1>1, <1>5, <2>1 DEF Sound, ServersSound
    <3>. QED
      BY <1>1, <1>2, <1>5, <1>6, <1>7, <3>1
  <2>. QED
    BY <2>1 DEF ServersSound
<1>18. ClosedSound'
  BY <1>2, <1>4, <1>5 DEF Sound, ClosedSound
<1>19. RacedSound'
  BY <1>2, <1>4, <1>5 DEF Sound, RacedSound
<1>20. LiveSound'
  <2>1. ASSUME NEW o \in live', o \notin raced' \cup unused'
        PROVE  \E u \in Tasks : Holds(u, o)'
    <3>1. o \in Objects /\ o \in live /\ o # n
      BY <1>1, <1>2, <1>3, <2>1 DEF TypeOK
    <3>. QED
      BY <1>2, <1>5, <1>6, <2>1, <3>1 DEF Sound, LiveSound
  <2>. QED
    BY <2>1 DEF LiveSound
<1>. QED
  BY <1>11, <1>12, <1>13, <1>14, <1>15, <1>16, <1>17, <1>18, <1>19, <1>20 DEF Sound

\* closed is set before the inode of t is gone: the connection is still there.
LEMMA CloseMarkSound ==
  ASSUME IInv, Sound, NEW t \in Tasks, CloseMark(t), pc[t] = "mark"
  PROVE  Sound'
<1>1. /\ TypeOK /\ ConnSound(t) /\ Clients \subseteq Tasks /\ Servers \subseteq Tasks
      /\ t \in Clients \/ t \in Servers
      /\ \A u \in Servers : u \notin Clients
  BY SocketAssumption DEF IInv, Tasks, Sound, ConnsSound
<1>2. /\ conn[t].ops \in {"client", "server_client"}
      /\ t \in Clients => conn[t].ops = "client"
      /\ pc' = [pc EXCEPT ![t] = "user"] /\ conn' = [conn EXCEPT ![t] = NoConn]
      /\ closed' = [closed EXCEPT ![Object(t)] = TRUE]
      /\ UNCHANGED <<live, target, pending, waiting, raced, unused>>
  BY <1>1 DEF CloseMark, ConnSound, Connected, Goto, At, network
<1>3. PICK n \in Objects : n = Object(t) /\ Holds(t, n) /\ None \notin Objects
  BY <1>1, <1>2, Placement DEF Holds, Sound
<1>4. /\ \A u \in Tasks \ {t} : pc'[u] = pc[u] /\ conn'[u] = conn[u]
      /\ pc'[t] = "user" /\ conn'[t].ops = "none"
      /\ \A o \in Objects : closed'[o] <=> closed[o] \/ o = n
  BY <1>1, <1>2, <1>3 DEF TypeOK, NoConn
<1>5. \A u \in Tasks, o \in Objects : Holds(u, o)' <=> u # t /\ Holds(u, o)
  BY <1>1, <1>2, <1>3 DEF Holds, Object, TypeOK, NoConn
<1>6. \A o \in Objects : Holds(t, o) => o = n
  BY <1>3 DEF Holds
<1>7. \A c \in Clients : Holds(c, n) => c = t \/ ~Unanswered(n)
  BY <1>1, <1>3 DEF Sound, Exclusive, Unanswered
<1>8. \A k \in Listeners : ~Queued(n, k)
  <2>1. ASSUME NEW k \in Listeners, Queued(n, k) PROVE FALSE
    <3>1. Unanswered(n)
      BY <2>1 DEF Sound, QueueSound
    <3>2. PICK c \in Clients : Waits(c, n, k)
      BY <2>1 DEF Sound, QueueSound
    <3>. QED
      BY <1>7, <3>1, <3>2 DEF Waits
  <2>. QED
    BY <2>1
<1>9. \A o \in Objects, k \in Listeners : Queued(o, k)' <=> Queued(o, k)
  BY <1>2 DEF Queued
<1>10. \A d \in Clients, o \in Objects, k \in Listeners : Waits(d, o, k)' <=> Waits(d, o, k)
  BY <1>1, <1>2, <1>4, <1>5 DEF Waits
<1>11. \A o \in Objects \ {n} : Unanswered(o)' <=> Unanswered(o)
  BY <1>1, <1>2, <1>4, <1>5, <1>6 DEF Unanswered
<1>12. ConnsSound'
  BY TalkConns
<1>13. Alive' /\ Exclusive'
  BY <1>2, <1>5 DEF Sound, Alive, Exclusive
<1>14. FreshSound'
  <2>1. ASSUME NEW d \in Clients, NEW o \in Objects, Holds(d, o)', conn'[d].ops = "init",
               pc'[d] # "pending"
        PROVE  Unanswered(o)' /\ \A k \in Listeners : ~Queued(o, k)'
    <3>1. d # t /\ Holds(d, o) /\ conn[d].ops = "init" /\ pc[d] # "pending"
      BY <1>1, <1>4, <1>5, <2>1
    <3>2. Unanswered(o) /\ \A k \in Listeners : ~Queued(o, k)
      BY <3>1 DEF Sound, FreshSound
    <3>3. o # n
      BY <1>7, <3>1, <3>2
    <3>. QED
      BY <1>9, <1>11, <3>2, <3>3
  <2>. QED
    BY <2>1 DEF FreshSound
<1>15. QueuedOnce'
  BY <1>2 DEF Sound, QueuedOnce
<1>16. QueueSound'
  <2>1. ASSUME NEW k \in Listeners, NEW o \in Objects, Queued(o, k)'
        PROVE  waiting'[o] /\ Unanswered(o)' /\ \E d \in Clients : Waits(d, o, k)'
    <3>1. Queued(o, k) /\ o # n
      BY <1>8, <1>9, <2>1
    <3>2. waiting[o] /\ Unanswered(o) /\ \E d \in Clients : Waits(d, o, k)
      BY <3>1 DEF Sound, QueueSound
    <3>. QED
      BY <1>2, <1>10, <1>11, <3>1, <3>2
  <2>. QED
    BY <2>1 DEF QueueSound
<1>17. ClientsSound'
  <2>1. ASSUME NEW d \in Clients, NEW o \in Objects, Holds(d, o)',
               pc'[d] = "pending" \/ conn'[d].ops = "client"
        PROVE  \/ \E k \in Listeners : Waits(d, o, k)' /\ Queued(o, k)'
               \/ \E s \in Servers : Holds(s, o)'
               \/ closed'[o]
    <3>1. Holds(d, o) /\ (pc[d] = "pending" \/ conn[d].ops = "client")
      BY <1>1, <1>4, <1>5, <2>1
    <3>2. \/ \E k \in Listeners : Waits(d, o, k) /\ Queued(o, k)
          \/ \E s \in Servers : Holds(s, o)
          \/ closed[o]
      BY <3>1 DEF Sound, ClientsSound
    <3>. QED
      BY <1>1, <1>4, <1>5, <1>6, <1>9, <1>10, <3>2
  <2>. QED
    BY <2>1 DEF ClientsSound
<1>18. ServersSound'
  <2>1. ASSUME NEW s \in Servers, NEW o \in Objects, Holds(s, o)'
        PROVE  closed'[o] \/ \E d \in Clients : Holds(d, o)'
    <3>1. closed[o] \/ \E d \in Clients : Holds(d, o)
      BY <1>1, <1>5, <2>1 DEF Sound, ServersSound
    <3>. QED
      BY <1>1, <1>4, <1>5, <1>6, <3>1
  <2>. QED
    BY <2>1 DEF ServersSound
<1>19. ClosedSound'
  <2>1. ASSUME NEW u \in Tasks, NEW v \in Tasks, NEW o \in Objects, Holds(u, o)', Holds(v, o)', closed'[o]
        PROVE  u = v
    <3>1. u # t /\ v # t /\ Holds(u, o) /\ Holds(v, o)
      BY <1>5, <2>1
    <3>2. CASE closed[o]
      BY <3>1, <3>2 DEF Sound, ClosedSound
    <3>3. CASE o = n
      <4>1. \A a, b \in Tasks : Holds(a, n) /\ Holds(b, n) /\ (a \in Clients <=> b \in Clients) => a = b
        BY DEF Sound, Exclusive
      <4>2. (u \in Clients <=> t \notin Clients) /\ (v \in Clients <=> t \notin Clients)
        BY <1>3, <3>1, <3>3, <4>1
      <4>. QED
        BY <3>1, <3>3, <4>1, <4>2
    <3>. QED
      BY <1>4, <2>1, <3>2, <3>3
  <2>2. ASSUME NEW u \in Tasks, NEW o \in Objects, Holds(u, o)', pc'[u] = "free"
        PROVE  closed'[o]
    BY <1>4, <1>5, <2>2 DEF Sound, ClosedSound
  <2>. QED
    BY <2>1, <2>2 DEF ClosedSound
<1>20. RacedSound'
  <2>1. ASSUME NEW u \in Tasks, NEW o \in Objects, Holds(u, o)', pc'[u] = "mark", closed'[o]
        PROVE  o \in raced
    <3>1. u # t /\ Holds(u, o) /\ pc[u] = "mark"
      BY <1>4, <1>5, <2>1
    <3>2. CASE closed[o]
      BY <3>1, <3>2 DEF Sound, RacedSound
    <3>3. CASE o = n
      BY <1>3, <3>1, <3>3 DEF Sound, RacedSound
    <3>. QED
      BY <1>4, <2>1, <3>2, <3>3
  <2>2. ASSUME NEW u \in Tasks, NEW v \in Tasks, NEW o \in Objects, u # v,
               Holds(u, o)', Holds(v, o)', pc'[u] = "mark", pc'[v] = "mark"
        PROVE  o \in raced
    <3>1. Holds(u, o) /\ pc[u] = "mark" /\ Holds(v, o) /\ pc[v] = "mark"
      BY <1>4, <1>5, <2>2
    <3>. QED
      BY <2>2, <3>1 DEF Sound, RacedSound
  <2>. QED
    BY <1>2, <2>1, <2>2 DEF RacedSound
<1>21. LiveSound'
  <2>1. ASSUME NEW o \in live', o \notin raced' \cup unused'
        PROVE  \E u \in Tasks : Holds(u, o)'
    <3>1. o \in Objects /\ o \in live /\ o \notin raced \cup unused
      BY <1>1, <1>2, <2>1 DEF TypeOK
    <3>2. CASE o # n
      BY <1>5, <1>6, <3>1, <3>2 DEF Sound, LiveSound
    <3>3. CASE o = n
      <4>1. ~closed[n]
        BY <1>3, <3>1, <3>3 DEF Sound, RacedSound
      <4>2. CASE t \in Clients
        <5>1. \A k \in Listeners : ~Waits(t, n, k)
          BY DEF Waits
        <5>2. \E s \in Servers : Holds(s, n)
          BY <1>2, <1>3, <4>1, <4>2, <5>1 DEF Sound, ClientsSound
        <5>3. t \notin Servers
          BY <4>2, SocketAssumption
        <5>. QED
          BY <1>1, <1>5, <3>3, <5>2, <5>3
      <4>3. CASE t \notin Clients
        <5>1. \E c \in Clients : Holds(c, n)
          BY <1>1, <1>3, <4>1, <4>3 DEF Sound, ServersSound
        <5>. QED
          BY <1>1, <1>5, <3>3, <4>3, <5>1
      <4>. QED
        BY <4>2, <4>3
    <3>. QED
      BY <3>2, <3>3
  <2>. QED
    BY <2>1 DEF LiveSound
<1>. QED
  BY <1>12, <1>13, <1>14, <1>15, <1>16, <1>17, <1>18, <1>19, <1>20, <1>21 DEF Sound

\* It is set after the object was freed: in free memory, or in another connection.
LEMMA CloseLateSound ==
  ASSUME IInv, Sound, NEW t \in Tasks, CloseMark(t), pc[t] = "freed"
  PROVE  late' \/ Sound'
<1>1. /\ TypeOK /\ ConnSound(t) /\ Clients \subseteq Tasks /\ Servers \subseteq Tasks
  BY DEF IInv, Tasks, Sound, ConnsSound
<1>2. /\ conn[t].ops \in {"client", "server_client"}
      /\ late' = (late \/ Object(t) \in live)
      /\ pc' = [pc EXCEPT ![t] = "user"] /\ conn' = [conn EXCEPT ![t] = NoConn]
      /\ closed' = [closed EXCEPT ![Object(t)] = TRUE]
      /\ UNCHANGED <<live, target, pending, waiting, raced, unused>>
  BY <1>1 DEF CloseMark, ConnSound, Connected, Goto, At, network
<1>3. PICK n \in Objects : n = Object(t) /\ None \notin Objects
  BY <1>1, <1>2, Placement DEF Sound
<1>4. SUFFICES ASSUME n \notin live PROVE Sound'
  BY <1>2, <1>3
<1>5. /\ \A u \in Tasks \ {t} : pc'[u] = pc[u] /\ conn'[u] = conn[u]
      /\ pc'[t] = "user" /\ conn'[t].ops = "none"
      /\ \A o \in Objects \ {n} : closed'[o] = closed[o]
  BY <1>1, <1>2, <1>3 DEF TypeOK, NoConn
<1>6. \A u \in Tasks, o \in Objects : Holds(u, o)' <=> Holds(u, o)
  BY <1>1, <1>2, <1>3 DEF Holds, Object, TypeOK, NoConn
<1>7. \A u \in Tasks : ~Holds(u, n)
  BY <1>3, <1>4 DEF Sound, Alive
<1>8. \A o \in Objects : ~Holds(t, o)
  BY DEF Holds
<1>9. \A k \in Listeners : ~Queued(n, k)
  BY <1>1, <1>3, <1>7 DEF Sound, QueueSound, Waits
<1>10. \A o \in Objects, k \in Listeners : Queued(o, k)' <=> Queued(o, k)
  BY <1>2 DEF Queued
<1>11. \A d \in Clients, o \in Objects, k \in Listeners : Waits(d, o, k)' <=> Waits(d, o, k)
  BY <1>1, <1>2, <1>5, <1>6, <1>8 DEF Waits
<1>12. \A o \in Objects \ {n} : Unanswered(o)' <=> Unanswered(o)
  BY <1>1, <1>5, <1>6 DEF Unanswered
<1>13. ConnsSound'
  BY TalkConns
<1>14. Alive' /\ Exclusive'
  BY <1>2, <1>6 DEF Sound, Alive, Exclusive
<1>15. FreshSound'
  <2>1. ASSUME NEW d \in Clients, NEW o \in Objects, Holds(d, o)', conn'[d].ops = "init",
               pc'[d] # "pending"
        PROVE  Unanswered(o)' /\ \A k \in Listeners : ~Queued(o, k)'
    <3>1. d # t /\ o # n /\ Holds(d, o) /\ conn[d].ops = "init" /\ pc[d] # "pending"
      BY <1>1, <1>5, <1>6, <1>7, <1>8, <2>1
    <3>. QED
      BY <1>10, <1>12, <3>1 DEF Sound, FreshSound
  <2>. QED
    BY <2>1 DEF FreshSound
<1>16. QueuedOnce'
  BY <1>2 DEF Sound, QueuedOnce
<1>17. QueueSound'
  <2>1. ASSUME NEW k \in Listeners, NEW o \in Objects, Queued(o, k)'
        PROVE  waiting'[o] /\ Unanswered(o)' /\ \E d \in Clients : Waits(d, o, k)'
    <3>1. Queued(o, k) /\ o # n
      BY <1>9, <1>10, <2>1
    <3>2. waiting[o] /\ Unanswered(o) /\ \E d \in Clients : Waits(d, o, k)
      BY <3>1 DEF Sound, QueueSound
    <3>. QED
      BY <1>2, <1>11, <1>12, <3>1, <3>2
  <2>. QED
    BY <2>1 DEF QueueSound
<1>18. ClientsSound'
  <2>1. ASSUME NEW d \in Clients, NEW o \in Objects, Holds(d, o)',
               pc'[d] = "pending" \/ conn'[d].ops = "client"
        PROVE  \/ \E k \in Listeners : Waits(d, o, k)' /\ Queued(o, k)'
               \/ \E s \in Servers : Holds(s, o)'
               \/ closed'[o]
    <3>1. o # n /\ Holds(d, o) /\ (pc[d] = "pending" \/ conn[d].ops = "client")
      BY <1>1, <1>5, <1>6, <1>7, <1>8, <2>1
    <3>2. \/ \E k \in Listeners : Waits(d, o, k) /\ Queued(o, k)
          \/ \E s \in Servers : Holds(s, o)
          \/ closed[o]
      BY <3>1 DEF Sound, ClientsSound
    <3>. QED
      BY <1>1, <1>5, <1>6, <1>10, <1>11, <3>1, <3>2
  <2>. QED
    BY <2>1 DEF ClientsSound
<1>19. ServersSound'
  <2>1. ASSUME NEW s \in Servers, NEW o \in Objects, Holds(s, o)'
        PROVE  closed'[o] \/ \E d \in Clients : Holds(d, o)'
    <3>1. o # n /\ Holds(s, o)
      BY <1>1, <1>6, <1>7, <2>1
    <3>2. closed[o] \/ \E d \in Clients : Holds(d, o)
      BY <3>1 DEF Sound, ServersSound
    <3>. QED
      BY <1>1, <1>5, <1>6, <3>1, <3>2
  <2>. QED
    BY <2>1 DEF ServersSound
<1>20. ClosedSound'
  BY <1>5, <1>6, <1>7, <1>8 DEF Sound, ClosedSound
<1>21. RacedSound'
  BY <1>2, <1>5, <1>6, <1>7, <1>8 DEF Sound, RacedSound
<1>22. LiveSound'
  BY <1>1, <1>2, <1>6 DEF Sound, LiveSound, TypeOK
<1>. QED
  BY <1>13, <1>14, <1>15, <1>16, <1>17, <1>18, <1>19, <1>20, <1>21, <1>22 DEF Sound

-----------------------------------------------------------------------------
(* The invariant of the specification, and what follows *)

LEMMA InitIInv == Init => IInv
<1>. SUFFICES ASSUME Init PROVE IInv
  OBVIOUS
<1>1. \A t \in Tasks : conn[t] = NoConn
  BY DEF Init
<1>2. None \notin Objects /\ \A t \in Tasks : t \in Servers <=> t \notin Clients
  BY SocketAssumption DEF Tasks
<1>3. \A t \in Tasks, o \in Objects : ~Holds(t, o)
  BY <1>1, <1>2 DEF Holds, Object, NoConn
<1>4. \A l \in Listeners : pending[l] = <<>> /\ Len(pending[l]) = 0
  BY EmptySeq DEF Init
<1>5. \A o \in Objects, l \in Listeners : ~Queued(o, l)
  BY <1>4 DEF Queued
<1>6. TypeOK
  <2>1. <<>> \in Seq(Listeners) /\ <<>> \in Seq(Objects)
    BY EmptySeq
  <2>2. cap \in [Listeners -> Nat] /\ \A l \in Listeners : Len(pending[l]) <= cap[l]
    BY <1>4 DEF Init
  <2>3. NoConn \in [ops : {"none", "init", "client", "server_client"}, priv : Objects \cup {None}]
    BY DEF NoConn
  <2>4. /\ pc \in [Tasks -> PC]
        /\ listener \in [Servers -> 0 .. NListeners] /\ target \in [Clients -> 0 .. NListeners]
    BY SocketAssumption DEF Init, PC
  <2>5. /\ named \in Seq(Listeners) /\ ready \subseteq Listeners
        /\ pending \in [Listeners -> Seq(Objects)] /\ lock \in [Listeners -> Tasks \cup {None}]
    BY <2>1 DEF Init
  <2>6. /\ conn \in [Tasks -> [ops : {"none", "init", "client", "server_client"},
                              priv : Objects \cup {None}]]
        /\ closed \in [Objects -> BOOLEAN] /\ waiting \in [Objects -> BOOLEAN]
    BY <2>3 DEF Init
  <2>7. buf \in [Objects -> [Buffers -> [len : 0 .. MaxBuf, locked : BOOLEAN]]]
    BY SocketAssumption DEF Init, EmptyBuffer
  <2>. QED
    BY <2>2, <2>4, <2>5, <2>6, <2>7 DEF Init, TypeOK
<1>7. ConnsSound
  BY <1>1, <1>2 DEF Init, ConnsSound, ConnSound, NoConn
<1>8. QueuedOnce
  BY <1>4 DEF QueuedOnce
<1>9. LiveSound
  BY DEF Init, LiveSound
<1>. QED
  BY <1>3, <1>5, <1>6, <1>7, <1>8, <1>9
  DEF IInv, Sound, Alive, Exclusive, FreshSound, QueueSound, ClientsSound, ServersSound,
      ClosedSound, RacedSound, Tasks

LEMMA NextIInv == IInv /\ [Next]_vars => IInv'
<1>. SUFFICES ASSUME IInv, [Next]_vars PROVE IInv'
  OBVIOUS
<1>1. CASE UNCHANGED vars
  BY <1>1 DEF IInv, TypeOK, vars, network, history, Sound, ConnsSound, ConnSound, Connected, Object,
     Alive, Exclusive, FreshSound, QueuedOnce, QueueSound, ClientsSound, ServersSound, ClosedSound,
     RacedSound, LiveSound, Holds, Queued, Waits, Unanswered
<1>2. CASE Next
  <2>1. Sound
    BY <1>2, NextNotLate DEF IInv
  <2>2. TypeOK'
    BY <1>2, <2>1, NextTypeOK
  <2>3. ASSUME NEW s \in Servers,
               \/ \E l \in Listeners : Bind(s, l) \/ BindFails(s, l)
               \/ (\E n \in Backlogs : Listen(s, n)) \/ Accept(s) \/ Poll(s) \/ PollSpins(s)
               \/ AcceptLock(s) \/ AcceptTake(s) \/ AcceptFails(s) \/ ExitServer(s)
               \/ \E t \in Servers : ForkServer(s, t)
        PROVE  Sound'
    BY <2>1, <2>3, AcceptTakeSound, QuietSteps
  <2>4. ASSUME NEW c \in Clients,
               \/ NewSocket(c) \/ ConnectFind(c) \/ ConnectLock(c) \/ ConnectPush(c)
               \/ ConnectRefused(c) \/ ConnectDone(c) \/ CloseUnused(c)
        PROVE  Sound'
    BY <2>1, <2>4, NewSocketSound, PushSound, ConnectDoneSound, CloseUnusedSound, QuietSteps
  <2>5. ASSUME NEW t \in Talkers,
               (\E n \in 1 .. MaxBuf : Write(t, n)) \/ WriteStuck(t) \/ Read(t)
        PROVE  Sound'
    <3>1. t \in Tasks
      BY SocketAssumption
    <3>. QED
      BY <2>1, <2>5, <3>1, QuietSteps
  <2>6. ASSUME NEW t \in Tasks, CloseTest(t) \/ CloseFree(t) \/ CloseMark(t)
        PROVE  late' \/ Sound'
    <3>1. CloseMark(t) => pc[t] = "mark" \/ pc[t] = "freed"
      BY DEF CloseMark, Goto, At
    <3>. QED
      BY <2>1, <2>6, <3>1, CloseTestSound, CloseFreeSound, CloseMarkSound, CloseLateSound
  <2>. QED
    BY <1>2, <2>2, <2>3, <2>4, <2>5, <2>6 DEF Next, IInv
<1>. QED
  BY <1>1, <1>2

\* The inductive invariant: who has which connection, and who waits for it to be accepted.
THEOREM Invariant == Spec => []IInv
<1>1. Init => IInv
  BY InitIInv
<1>2. IInv /\ [Next]_vars => IInv'
  BY NextIInv
<1>. QED
  BY <1>1, <1>2, PTL DEF Spec

\* The memory of a connection is there as long as a socket or the list of the clients that
\* wait refers to it, and that list has each client once, and only clients that do wait.
THEOREM Alives == Spec => []ObjectsAlive
<1>1. IInv => ObjectsAlive
  <2>. SUFFICES ASSUME IInv, Sound PROVE ObjectsAlive
    BY DEF IInv, ObjectsAlive
  <2>1. TypeOK /\ Clients \subseteq Tasks
    BY DEF IInv, Tasks
  <2>2. ASSUME NEW t \in Tasks, Object(t) # None, pc[t] # "freed" PROVE Object(t) \in live
    <3>1. Object(t) \in Objects
      BY <2>1, <2>2, Placement DEF Sound
    <3>. QED
      BY <2>2, <3>1 DEF Sound, Alive, Holds
  <2>3. ASSUME NEW l \in Listeners
        PROVE  /\ IsInjective(pending[l])
               /\ \A o \in Range(pending[l]) :
                    o \in live /\ waiting[o] /\ \E c \in Clients : pc[c] = "pending" /\ Object(c) = o
    <3>1. pending[l] \in Seq(Objects) /\ DOMAIN pending[l] = 1 .. Len(pending[l])
      BY <2>1, LenProperties DEF TypeOK
    <3>2. IsInjective(pending[l])
      BY <3>1 DEF Sound, QueuedOnce, IsInjective
    <3>3. ASSUME NEW o \in Range(pending[l])
          PROVE  o \in live /\ waiting[o] /\ \E c \in Clients : pc[c] = "pending" /\ Object(c) = o
      <4>1. o \in Objects /\ Queued(o, l)
        BY <3>1, ElementOfSeq DEF Range, Queued
      <4>2. waiting[o] /\ \E c \in Clients : Waits(c, o, l)
        BY <4>1 DEF Sound, QueueSound
      <4>. QED
        BY <2>1, <4>1, <4>2 DEF Sound, Alive, Waits, Holds
    <3>. QED
      BY <3>2, <3>3
  <2>. QED
    BY <2>1, <2>2, <2>3 DEF ObjectsAlive
<1>. QED
  BY <1>1, Invariant, PTL

\* Only two kinds of connections are never freed: sockets closed before they were connected,
\* and connections that both sides found open when they closed.
THEOREM Leaks == Spec => []LeaksExplained
<1>1. IInv => LeaksExplained
  <2>. SUFFICES ASSUME IInv, Sound, NEW o \in live, o \notin raced \cup unused
                PROVE  {t \in Tasks : Object(t) = o} # {}
    BY DEF IInv, LeaksExplained
  <2>. QED
    BY DEF Sound, LiveSound, Holds
<1>. QED
  BY <1>1, Invariant, PTL

-----------------------------------------------------------------------------
(* The mutexes of the buffers *)

Stuck(o, b) == \E t \in Tasks : pc[t] = "stuck" /\ Object(t) = o /\ WriteBuf(t) = b

\* A buffer stays locked if, and only if, its writer is stuck.
LocksSound == \A o \in live, b \in Buffers : buf[o][b].locked <=> Stuck(o, b)

\* A step of a task that is not stuck, and that locks no buffer for good.
LEMMA LocksKept ==
  ASSUME LocksSound, live' \subseteq live,
         \A t \in Tasks : pc'[t] = "stuck" <=> pc[t] = "stuck",
         \A t \in Tasks : pc[t] = "stuck" => conn'[t] = conn[t],
         \A o \in live', b \in Buffers : buf'[o][b].locked = buf[o][b].locked
  PROVE  LocksSound'
<1>1. \A o \in live', b \in Buffers : Stuck(o, b)' <=> Stuck(o, b)
  BY DEF Stuck, Object, WriteBuf
<1>. QED
  BY <1>1 DEF LocksSound

\* What a step of t at "user" does to one buffer of its connection.
LEMMA LockedAfter ==
  ASSUME TypeOK, NEW o \in Objects, NEW b \in Buffers, NEW n \in Nat, NEW l \in BOOLEAN,
         \/ buf' = [buf EXCEPT ![o][b].len = n] /\ l = buf[o][b].locked
         \/ buf' = [buf EXCEPT ![o][b].locked = TRUE] /\ l = TRUE
  PROVE  \A p \in Objects, c \in Buffers :
           buf'[p][c].locked = IF p = o /\ c = b THEN l ELSE buf[p][c].locked
<1>1. buf \in [Objects -> [Buffers -> [len : 0 .. MaxBuf, locked : BOOLEAN]]]
  BY DEF TypeOK
<1>2. \A p \in Objects : p # o => buf'[p] = buf[p]
  BY <1>1
<1>3. \A c \in Buffers : c # b => buf'[o][c] = buf[o][c]
  BY <1>1
<1>4. buf'[o][b].locked = l
  <2>. DEFINE x == buf[o][b]
  <2>1. x \in [len : 0 .. MaxBuf, locked : BOOLEAN]
    BY <1>1
  <2>2. /\ \/ buf'[o][b] = [x EXCEPT !.len = n] /\ l = x.locked
           \/ buf'[o][b] = [x EXCEPT !.locked = TRUE] /\ l = TRUE
    BY <1>1
  <2>. HIDE DEF x
  <2>. QED
    BY <2>1, <2>2
<1>. QED
  BY <1>2, <1>3, <1>4

LEMMA TalkLocks ==
  ASSUME IInv, Sound, LocksSound, NEW t \in Tasks,
         (\E n \in 1 .. MaxBuf : Write(t, n)) \/ WriteStuck(t) \/ Read(t)
  PROVE  LocksSound'
<1>1. TypeOK /\ live \subseteq Objects /\ Object(t) \in Objects
      /\ WriteBuf(t) \in Buffers /\ ReadBuf(t) \in Buffers
  BY Placement DEF IInv, TypeOK, Sound, Write, WriteStuck, Read, Connected, WriteBuf, ReadBuf, Buffers
<1>2. CASE (\E n \in 1 .. MaxBuf : Write(t, n)) \/ Read(t)
  <2>1. PICK b \in Buffers, n \in Nat : buf' = [buf EXCEPT ![Object(t)][b].len = n]
    <3>1. ASSUME NEW n \in 1 .. MaxBuf, Write(t, n)
          PROVE  \E b \in Buffers, m \in Nat : buf' = [buf EXCEPT ![Object(t)][b].len = m]
      <4>1. buf[Object(t)][WriteBuf(t)].len + n \in Nat /\ MaxBuf \in Nat
        BY <1>1, SocketAssumption DEF TypeOK
      <4>2. \A x, y \in Nat : Min({x, y}) \in Nat
        <5>1. \A x, y \in Nat : Min({x, y}) = IF x <= y THEN x ELSE y
          BY DEF Min
        <5>. QED
          BY <5>1
      <4>3. Min({MaxBuf, buf[Object(t)][WriteBuf(t)].len + n}) \in Nat
        BY <4>1, <4>2
      <4>. QED
        BY <1>1, <3>1, <4>3 DEF Write
    <3>2. ASSUME Read(t)
          PROVE  \E b \in Buffers, m \in Nat : buf' = [buf EXCEPT ![Object(t)][b].len = m]
      <4>1. buf[Object(t)][ReadBuf(t)].len \in Nat
        BY <1>1, SocketAssumption DEF TypeOK
      <4>2. PICK k \in 0 .. buf[Object(t)][ReadBuf(t)].len :
              buf' = [buf EXCEPT ![Object(t)][ReadBuf(t)].len = buf[Object(t)][ReadBuf(t)].len - k]
        BY <3>2 DEF Read
      <4>3. buf[Object(t)][ReadBuf(t)].len - k \in Nat
        BY <4>1, <4>2
      <4>. QED
        BY <1>1, <4>2, <4>3
    <3>. QED
      BY <1>2, <3>1, <3>2
  <2>2. buf[Object(t)][b].locked \in BOOLEAN
    BY <1>1, <2>1 DEF TypeOK
  <2>3. \A p \in Objects, c \in Buffers : buf'[p][c].locked = buf[p][c].locked
    BY <1>1, <2>1, <2>2, LockedAfter
  <2>4. UNCHANGED <<pc, conn, live>>
    BY <1>2 DEF Write, Read
  <2>. QED
    BY <1>1, <2>3, <2>4, LocksKept
<1>3. CASE WriteStuck(t)
  <2>1. /\ buf' = [buf EXCEPT ![Object(t)][WriteBuf(t)].locked = TRUE]
        /\ pc[t] = "user" /\ pc' = [pc EXCEPT ![t] = "stuck"] /\ UNCHANGED <<conn, live>>
    BY <1>3 DEF WriteStuck, Goto, At
  <2>2. \A p \in Objects, c \in Buffers :
          buf'[p][c].locked = IF p = Object(t) /\ c = WriteBuf(t) THEN TRUE ELSE buf[p][c].locked
    BY <1>1, <2>1, LockedAfter
  <2>3. \A u \in Tasks : pc'[u] = "stuck" <=> pc[u] = "stuck" \/ u = t
    BY <1>1, <2>1 DEF TypeOK
  <2>4. \A p \in Objects, c \in Buffers :
          Stuck(p, c)' <=> Stuck(p, c) \/ (p = Object(t) /\ c = WriteBuf(t))
    BY <2>1, <2>3 DEF Stuck, Object, WriteBuf
  <2>5. ASSUME NEW p \in live', NEW c \in Buffers
        PROVE  buf'[p][c].locked <=> Stuck(p, c)'
    <3>1. p \in live /\ p \in Objects
      BY <1>1, <2>1
    <3>2. buf[p][c].locked <=> Stuck(p, c)
      BY <3>1 DEF LocksSound
    <3>. QED
      BY <2>2, <2>4, <3>1, <3>2
  <2>. QED
    BY <2>5 DEF LocksSound
<1>. QED
  BY <1>2, <1>3

LEMMA NewSocketLocks ==
  ASSUME IInv, Sound, LocksSound, NEW c \in Clients, NewSocket(c)
  PROVE  LocksSound'
<1>1. TypeOK /\ c \in Tasks /\ live \subseteq Objects
  BY DEF IInv, TypeOK, Tasks
<1>2. PICK n \in Objects : n = FreeObject /\ n \notin live
  BY <1>1, FreeObjectIsFree DEF NewSocket
<1>3. /\ pc[c] = "user" /\ pc' = pc /\ live' = live \cup {n}
      /\ conn' = [conn EXCEPT ![c] = [ops |-> "init", priv |-> n]]
      /\ buf' = [buf EXCEPT ![n] = [b \in Buffers |-> EmptyBuffer]]
  BY <1>2 DEF NewSocket, At
<1>4. \A o \in live, b \in Buffers : buf'[o][b] = buf[o][b]
  BY <1>1, <1>2, <1>3 DEF TypeOK
<1>5. \A b \in Buffers : ~buf'[n][b].locked
  BY <1>1, <1>3 DEF TypeOK, EmptyBuffer
<1>6. \A t \in Tasks : pc[t] = "stuck" => conn'[t] = conn[t]
  BY <1>1, <1>3 DEF TypeOK
<1>7. \A o \in Objects, b \in Buffers : Stuck(o, b)' <=> Stuck(o, b)
  BY <1>3, <1>6 DEF Stuck, Object, WriteBuf
<1>8. \A b \in Buffers : ~Stuck(n, b)
  BY <1>2 DEF Sound, Alive, Holds, Stuck
<1>. QED
  BY <1>1, <1>3, <1>4, <1>5, <1>7, <1>8 DEF LocksSound

LEMMA NextLocks ==
  ASSUME IInv, late \/ LocksSound, [Next]_vars
  PROVE  late' \/ LocksSound'
<1>1. CASE UNCHANGED vars
  BY <1>1 DEF vars, history, LocksSound, Stuck, Object, WriteBuf
<1>2. CASE Next
  <2>1. Sound /\ LocksSound /\ TypeOK
    BY <1>2, NextNotLate DEF IInv
  <2>2. ASSUME NEW t \in Tasks, NEW l \in PC \ {"stuck"}, pc[t] # "stuck",
               pc' = pc \/ pc' = [pc EXCEPT ![t] = l],
               conn' = conn \/ \E r : conn' = [conn EXCEPT ![t] = r],
               live' \subseteq live, buf' = buf
        PROVE  LocksSound'
    BY <2>1, <2>2, LocksKept DEF TypeOK
  <2>3. ASSUME NEW s \in Servers,
               \/ \E l \in Listeners : Bind(s, l) \/ BindFails(s, l)
               \/ (\E n \in Backlogs : Listen(s, n)) \/ Accept(s) \/ Poll(s) \/ PollSpins(s)
               \/ AcceptLock(s) \/ AcceptTake(s) \/ AcceptFails(s) \/ ExitServer(s)
        PROVE  LocksSound'
    <3>1. /\ pc[s] # "stuck" /\ live' = live /\ buf' = buf
          /\ pc' = pc \/ \E l \in PC \ {"stuck"} : pc' = [pc EXCEPT ![s] = l]
          /\ conn' = conn \/ \E r : conn' = [conn EXCEPT ![s] = r]
      BY <2>3 DEF Bind, BindFails, Listen, Accept, Poll, PollSpins, AcceptLock, AcceptTake,
                  AcceptFails, ExitServer, Goto, At, PC
    <3>. QED
      BY <2>2, <3>1 DEF Tasks, PC
  <2>4. ASSUME NEW s \in Servers, NEW t \in Servers, ForkServer(s, t) PROVE LocksSound'
    <3>1. pc[t] # "stuck" /\ live' = live /\ buf' = buf /\ conn' = conn
          /\ pc' = [pc EXCEPT ![t] = "user"]
      BY <2>4 DEF ForkServer, At
    <3>. QED
      BY <2>2, <3>1 DEF Tasks, PC
  <2>5. ASSUME NEW c \in Clients,
               \/ ConnectFind(c) \/ ConnectLock(c) \/ ConnectPush(c) \/ ConnectRefused(c)
               \/ ConnectDone(c) \/ CloseUnused(c)
        PROVE  LocksSound'
    <3>1. /\ pc[c] # "stuck" /\ live' = live /\ buf' = buf
          /\ pc' = pc \/ \E l \in PC \ {"stuck"} : pc' = [pc EXCEPT ![c] = l]
          /\ conn' = conn \/ \E r : conn' = [conn EXCEPT ![c] = r]
      BY <2>5 DEF ConnectFind, ConnectLock, ConnectPush, ConnectRefused, ConnectDone, CloseUnused,
                  Goto, At, PC
    <3>. QED
      BY <2>2, <3>1 DEF Tasks, PC
  <2>6. ASSUME NEW t \in Tasks, CloseTest(t) \/ CloseFree(t) \/ CloseMark(t) PROVE LocksSound'
    <3>1. /\ pc[t] # "stuck" /\ live' \subseteq live /\ buf' = buf
          /\ pc' = pc \/ \E l \in PC \ {"stuck"} : pc' = [pc EXCEPT ![t] = l]
          /\ conn' = conn \/ \E r : conn' = [conn EXCEPT ![t] = r]
      BY <2>6 DEF CloseTest, CloseFree, CloseMark, Goto, At, PC
    <3>. QED
      BY <2>2, <3>1 DEF PC
  <2>7. Talkers \subseteq Tasks
    BY SocketAssumption
  <2>. QED
    BY <1>2, <2>1, <2>3, <2>4, <2>5, <2>6, <2>7, NewSocketLocks, TalkLocks DEF Next
<1>. QED
  BY <1>1, <1>2

LEMMA Locks == Spec => [](late \/ LocksSound)
<1>1. Init => late \/ LocksSound
  BY DEF Init, LocksSound
<1>2. IInv /\ (late \/ LocksSound) /\ [Next]_vars => (late \/ LocksSound)'
  BY NextLocks
<1>. QED
  BY <1>1, <1>2, Invariant, PTL DEF Spec

-----------------------------------------------------------------------------
LEMMA AtMostOne ==
  ASSUME NEW S, \A x, y \in S : x = y
  PROVE  Cardinality(S) <= 1
<1>1. CASE S = {}
  BY <1>1, FS_EmptySet
<1>2. ASSUME NEW x \in S PROVE Cardinality(S) <= 1
  <2>1. S = {x}
    OBVIOUS
  <2>. QED
    BY <2>1, FS_Singleton
<1>. QED
  BY <1>1, <1>2

\* A connection has at most one client and one server; a client that is connected and finds
\* itself alone, or whoever finds the connection closed, is the last one that has it;
\* and a writer that is stuck stops nobody from closing.
THEOREM Connections == Spec => []ConnectionsSound
<1>1. IInv /\ (late \/ LocksSound) => ConnectionsSound
  <2>. SUFFICES ASSUME IInv, Sound, LocksSound PROVE ConnectionsSound
    BY DEF IInv, ConnectionsSound, ConnectedToOne, ClosedMeansAlone, LocksExplained
  <2>1. TypeOK /\ Clients \subseteq Tasks /\ Servers \subseteq Tasks /\ Clients \cap Servers = {}
    BY SocketAssumption DEF IInv, Tasks
  <2>2. \A o \in Objects : \A t \in Tasks : t \in Holders(o) <=> Holds(t, o)
    BY DEF Holders, Holds
  <2>3. ASSUME NEW c \in Clients, conn[c].ops = "client", pc[c] # "freed"
        PROVE  /\ Cardinality(Holders(Object(c)) \cap Servers) <= 1
               /\ Holders(Object(c)) \cap Servers = {} => closed[Object(c)]
    <3>1. PICK o \in Objects : o = Object(c) /\ Holds(c, o)
      BY <2>1, <2>3, Placement DEF Sound, Holds
    <3>2. \A s \in Servers : s \in Holders(o) <=> Holds(s, o)
      BY <2>1, <2>2
    <3>3. \A s, t \in Holders(o) \cap Servers : s = t
      BY <2>1, <3>2 DEF Sound, Exclusive
    <3>4. pc[c] # "pending"
      BY <2>1, <2>3 DEF Sound, ConnsSound, ConnSound
    <3>5. closed[o] \/ \E s \in Servers : Holds(s, o)
      BY <2>3, <3>1, <3>4 DEF Sound, ClientsSound, Waits
    <3>. QED
      BY <3>1, <3>2, <3>3, <3>5, AtMostOne
  <2>4. ASSUME NEW o \in live, closed[o] PROVE Cardinality(Holders(o)) <= 1
    <3>1. o \in Objects
      BY <2>1 DEF TypeOK
    <3>2. \A t, u \in Holders(o) : t = u
      BY <2>4, <3>1 DEF Sound, ClosedSound, Holders, Holds
    <3>. QED
      BY <3>2, AtMostOne
  <2>5. ASSUME NEW o \in live, NEW b \in Buffers
        PROVE  buf[o][b].locked <=> \E t \in Holders(o) : pc[t] = "stuck" /\ WriteBuf(t) = b
    BY DEF LocksSound, Stuck, Holders
  <2>6. ASSUME NEW t \in Tasks, pc[t] = "free", NEW b \in Buffers
        PROVE  ~buf[Object(t)][b].locked
    <3>1. PICK o \in Objects : o = Object(t) /\ Holds(t, o)
      BY <2>1, <2>6, Placement DEF Sound, ConnsSound, ConnSound, Connected, Holds
    <3>2. o \in live /\ \A u \in Tasks : Holds(u, o) => u = t
      BY <2>6, <3>1 DEF Sound, Alive, ClosedSound
    <3>. QED
      BY <2>6, <3>1, <3>2 DEF LocksSound, Stuck, Holds
  <2>. QED
    BY <2>3, <2>4, <2>5, <2>6 DEF ConnectionsSound, ConnectedToOne, ClosedMeansAlone, LocksExplained
<1>. QED
  BY <1>1, Invariant, Locks, PTL

=============================================================================
