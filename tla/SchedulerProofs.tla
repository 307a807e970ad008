--------------------------- MODULE SchedulerProofs ---------------------------
(***************************************************************************)
(* Machine-checked proofs about Scheduler, for every set of tasks, with    *)
(* and without other processors, and every bound of the clock: the         *)
(* inductive invariant and, from it, that blocking calls return when they  *)
(* are due and that a wedged processor stays as it is.                     *)
(***************************************************************************)
EXTENDS Scheduler, SequenceTheorems, TLAPS

In(q, t) == \E i \in 1 .. Len(q) : q[i] = t
Once(q) == \A i, j \in 1 .. Len(q) : q[i] = q[j] => i = j

\* Turning the queue in task_select neither loses nor doubles a task.
LEMMA RotateKeeps ==
  ASSUME NEW q \in Seq(Tasks), NEW k \in 1 .. Len(q), Once(q)
  PROVE  /\ Rotate(q, k) \in Seq(Tasks)
         /\ Once(Rotate(q, k))
         /\ \A t \in Tasks : In(Rotate(q, k), t) <=> In(q, t)
<1>. DEFINE r == Rotate(q, k)
            n == Len(q)
<1>1. n \in Nat /\ q \in [1 .. n -> Tasks]
  BY LenProperties
<1>2. r \in [1 .. n -> Tasks]
  BY <1>1 DEF Rotate
<1>3. r \in Seq(Tasks) /\ Len(r) = n
  <2>1. r \in Seq(Tasks)
    BY <1>1, <1>2, SeqDef
  <2>. QED
    BY <1>1, <1>2, <2>1, LenProperties
<1>. DEFINE at(i) == IF i + k <= n THEN i + k ELSE i + k - n
<1>4. \A i \in 1 .. n : at(i) \in 1 .. n /\ r[i] = q[at(i)]
  BY <1>1 DEF Rotate
<1>5. Once(r)
  <2>1. SUFFICES ASSUME NEW i \in 1 .. n, NEW j \in 1 .. n, r[i] = r[j] PROVE i = j
    BY <1>3 DEF Once
  <2>2. q[at(i)] = q[at(j)] /\ at(i) \in 1 .. n /\ at(j) \in 1 .. n
    BY <1>4, <2>1
  <2>3. at(i) = at(j)
    BY <2>2 DEF Once
  <2>. QED
    BY <1>1, <2>3
<1>6. ASSUME NEW t \in Tasks PROVE In(r, t) <=> In(q, t)
  <2>1. ASSUME In(r, t) PROVE In(q, t)
    <3>1. PICK i \in 1 .. n : r[i] = t
      BY <1>3, <2>1 DEF In
    <3>2. at(i) \in 1 .. n /\ q[at(i)] = t
      BY <1>4, <3>1
    <3>. QED
      BY <3>2 DEF In
  <2>2. ASSUME In(q, t) PROVE In(r, t)
    <3>1. PICK i \in 1 .. n : q[i] = t
      BY <2>2 DEF In
    <3>2. CASE i > k
      <4>1. i - k \in 1 .. n /\ r[i - k] = t
        BY <1>1, <1>4, <3>1, <3>2
      <4>. QED
        BY <1>3, <4>1 DEF In
    <3>3. CASE i <= k
      <4>1. i - k + n \in 1 .. n /\ r[i - k + n] = t
        BY <1>1, <1>4, <3>1, <3>3
      <4>. QED
        BY <1>3, <4>1 DEF In
    <3>. QED
      BY <1>1, <3>1, <3>2, <3>3
  <2>. QED
    BY <2>1, <2>2
<1>. QED
  BY <1>3, <1>5, <1>6

\* list_insert of a task that is not in the queue.
LEMMA EnqueueKeeps ==
  ASSUME NEW q \in Seq(Tasks), NEW c \in Tasks, Once(q), ~In(q, c)
  PROVE  /\ Append(q, c) \in Seq(Tasks)
         /\ Once(Append(q, c))
         /\ \A t \in Tasks : In(Append(q, c), t) <=> In(q, t) \/ t = c
<1>1. /\ Append(q, c) \in Seq(Tasks)
      /\ Len(Append(q, c)) = Len(q) + 1
      /\ \A i \in 1 .. Len(q) : Append(q, c)[i] = q[i]
      /\ Append(q, c)[Len(q) + 1] = c
      /\ Len(q) \in Nat
  BY AppendProperties, LenProperties
<1>2. Once(Append(q, c))
  BY <1>1 DEF Once, In
<1>3. ASSUME NEW t \in Tasks PROVE In(Append(q, c), t) <=> In(q, t) \/ t = c
  BY <1>1 DEF In
<1>. QED
  BY <1>1, <1>2, <1>3

\* The queue without its i-th task, place by place.
Removed(q, i) == SubSeq(q, 1, i - 1) \o SubSeq(q, i + 1, Len(q))

LEMMA RemovedAt ==
  ASSUME NEW q \in Seq(Tasks), NEW i \in 1 .. Len(q)
  PROVE  /\ Removed(q, i) \in Seq(Tasks)
         /\ Len(Removed(q, i)) = Len(q) - 1
         /\ \A j \in 1 .. Len(q) - 1 :
              Removed(q, i)[j] = IF j < i THEN q[j] ELSE q[j + 1]
<1>. DEFINE n == Len(q)
            front == SubSeq(q, 1, i - 1)
            back  == SubSeq(q, i + 1, n)
<1>1. n \in Nat /\ i \in 1 .. n /\ \A j \in 1 .. n : q[j] \in Tasks
  BY LenProperties
<1>2. /\ front \in Seq(Tasks) /\ Len(front) = i - 1
      /\ \A j \in 1 .. i - 1 : front[j] = q[j]
  <2>1. \A j \in 1 .. i - 1 : q[j] \in Tasks
    BY <1>1
  <2>2. 1 \in Int /\ i - 1 \in Int
    BY <1>1
  <2>3. /\ front \in Seq(Tasks)
        /\ Len(front) = IF 1 <= i - 1 THEN (i - 1) - 1 + 1 ELSE 0
        /\ \A j \in 1 .. (i - 1) - 1 + 1 : front[j] = q[1 + j - 1]
    BY <2>1, <2>2, SubSeqProperties
  <2>. HIDE DEF front
  <2>4. Len(front) = i - 1
    BY <1>1, <2>3
  <2>5. ASSUME NEW j \in 1 .. i - 1 PROVE front[j] = q[j]
    <3>1. j \in 1 .. (i - 1) - 1 + 1 /\ 1 + j - 1 = j
      BY <1>1
    <3>. QED
      BY <2>3, <3>1
  <2>. QED
    BY <2>3, <2>4, <2>5
<1>3. /\ back \in Seq(Tasks) /\ Len(back) = n - i
      /\ \A j \in 1 .. n - i : back[j] = q[i + j]
  <2>1. \A j \in i + 1 .. n : q[j] \in Tasks
    BY <1>1
  <2>2. i + 1 \in Int /\ n \in Int
    BY <1>1
  <2>3. /\ back \in Seq(Tasks)
        /\ Len(back) = IF i + 1 <= n THEN n - (i + 1) + 1 ELSE 0
        /\ \A j \in 1 .. n - (i + 1) + 1 : back[j] = q[(i + 1) + j - 1]
    BY <2>1, <2>2, SubSeqProperties
  <2>. HIDE DEF back
  <2>4. Len(back) = n - i
    BY <1>1, <2>3
  <2>5. ASSUME NEW j \in 1 .. n - i PROVE back[j] = q[i + j]
    <3>1. j \in 1 .. n - (i + 1) + 1 /\ (i + 1) + j - 1 = i + j
      BY <1>1
    <3>. QED
      BY <2>3, <3>1
  <2>. QED
    BY <2>3, <2>4, <2>5
<1>4. Removed(q, i) = front \o back
  BY DEF Removed
<1>. HIDE DEF n, front, back
<1>5. /\ front \o back \in Seq(Tasks)
      /\ Len(front \o back) = Len(front) + Len(back)
      /\ \A j \in 1 .. Len(front) + Len(back) :
           (front \o back)[j] = IF j <= Len(front) THEN front[j] ELSE back[j - Len(front)]
  BY <1>2, <1>3, ConcatProperties
<1>. DEFINE r == front \o back
<1>. HIDE DEF r
<1>6. /\ r \in Seq(Tasks) /\ Len(r) = n - 1
      /\ \A j \in 1 .. n - 1 : r[j] = IF j <= i - 1 THEN front[j] ELSE back[j - (i - 1)]
  <2>1. Len(front) + Len(back) = n - 1
    BY <1>1, <1>2, <1>3
  <2>. QED
    BY <1>2, <1>5, <2>1 DEF r
<1>7. ASSUME NEW j \in 1 .. n - 1 PROVE r[j] = IF j < i THEN q[j] ELSE q[j + 1]
  <2>1. CASE j < i
    <3>1. j \in 1 .. i - 1 /\ j <= i - 1
      BY <1>1, <2>1
    <3>. QED
      BY <1>2, <1>6, <2>1, <3>1
  <2>2. CASE ~(j < i)
    <3>1. j - (i - 1) \in 1 .. n - i /\ i + (j - (i - 1)) = j + 1 /\ ~(j <= i - 1)
      BY <1>1, <2>2
    <3>. QED
      BY <1>3, <1>6, <2>2, <3>1
  <2>. QED
    BY <2>1, <2>2
<1>. QED
  BY <1>4, <1>6, <1>7 DEF r, n

\* list_remove: the other tasks stay, each once.
LEMMA RemoveKeeps ==
  ASSUME NEW q \in Seq(Tasks), NEW i \in 1 .. Len(q), Once(q)
  PROVE  /\ Removed(q, i) \in Seq(Tasks)
         /\ Once(Removed(q, i))
         /\ \A t \in Tasks : In(Removed(q, i), t) <=> In(q, t) /\ t # q[i]
<1>. DEFINE n == Len(q)
            r == Removed(q, i)
            at(j) == IF j < i THEN j ELSE j + 1
<1>1. n \in Nat /\ q \in [1 .. n -> Tasks]
  BY LenProperties
<1>4. /\ r \in Seq(Tasks) /\ Len(r) = n - 1
      /\ \A j \in 1 .. n - 1 : r[j] = q[at(j)]
  BY RemovedAt
<1>. HIDE DEF r
<1>5. \A j \in 1 .. n - 1 : at(j) \in 1 .. n /\ at(j) # i /\ r[j] = q[at(j)]
  BY <1>1, <1>4
<1>6. \A j \in 1 .. n : j # i => \E m \in 1 .. n - 1 : at(m) = j
  <2>1. SUFFICES ASSUME NEW j \in 1 .. n, j # i PROVE \E m \in 1 .. n - 1 : at(m) = j
    OBVIOUS
  <2>2. CASE j < i
    BY <1>1, <2>2
  <2>3. CASE j > i
    <3>1. j - 1 \in 1 .. n - 1 /\ at(j - 1) = j
      BY <1>1, <2>3
    <3>. QED
      BY <3>1
  <2>. QED
    BY <1>1, <2>1, <2>2, <2>3
<1>7. Once(r)
  <2>1. SUFFICES ASSUME NEW j \in 1 .. n - 1, NEW m \in 1 .. n - 1, r[j] = r[m] PROVE j = m
    BY <1>4 DEF Once
  <2>2. q[at(j)] = q[at(m)] /\ at(j) \in 1 .. n /\ at(m) \in 1 .. n
    BY <1>5, <2>1
  <2>3. at(j) = at(m)
    BY <2>2 DEF Once
  <2>. QED
    BY <1>1, <2>3
<1>8. ASSUME NEW t \in Tasks PROVE In(r, t) <=> In(q, t) /\ t # q[i]
  <2>1. ASSUME In(r, t) PROVE In(q, t) /\ t # q[i]
    <3>1. PICK j \in 1 .. n - 1 : r[j] = t
      BY <1>4, <2>1 DEF In
    <3>2. at(j) \in 1 .. n /\ at(j) # i /\ q[at(j)] = t
      BY <1>5, <3>1
    <3>. QED
      BY <3>2 DEF In, Once
  <2>2. ASSUME In(q, t), t # q[i] PROVE In(r, t)
    <3>1. PICK j \in 1 .. n : q[j] = t
      BY <2>2 DEF In
    <3>2. PICK m \in 1 .. n - 1 : at(m) = j
      BY <1>6, <2>2, <3>1
    <3>3. r[m] = t
      BY <1>5, <3>1, <3>2
    <3>. QED
      BY <1>4, <3>3 DEF In
  <2>. QED
    BY <2>1, <2>2
<1>. QED
  BY <1>4, <1>7, <1>8 DEF r

LEMMA QueueAsSets ==
  /\ QueueIntact <=> Once(queue) /\ \A t \in Tasks : In(queue, t) <=> pc[t] \notin Gone
  /\ QueueIntact' <=> Once(queue') /\ \A t \in Tasks : In(queue', t) <=> pc'[t] \notin Gone
  /\ \A t : Queued(t) <=> In(queue, t)
  /\ CurrentQueued' <=> (current' \in Tasks =>
                          In(queue', current') \/ pc'[current'] \in {"exit", "dead"})
BY DEF QueueIntact, Once, In, Queued, CurrentQueued

\* The system starts with /init in the queue and nobody blocked.
LEMMA InitIInv == Init => IInv
<1>. SUFFICES ASSUME Init PROVE IInv
  OBVIOUS
<1>. USE SchedulerAssumption DEF Init
<1>1. TypeOK
  BY DEF TypeOK, PC, Pointer, NoCall, Kinds
<1>2. QueueIntact
  <2>1. Len(queue) = 1 /\ queue[1] = InitTask
    OBVIOUS
  <2>. QED
    BY <2>1 DEF QueueIntact, Queued, Gone
<1>3. LockHolders
  BY DEF LockHolders
<1>4. CurrentQueued /\ InterruptsSound /\ BlockerComplete
  BY DEF CurrentQueued, InterruptsSound, InterruptsOn, BlockerComplete
<1>5. BlockerStores /\ SeenReady /\ SourceOrdered
  BY DEF BlockerStores, SeenReady, SourceOrdered, Blocking, Stores
<1>. QED
  BY <1>1, <1>2, <1>3, <1>4, <1>5 DEF IInv

\* The invariant but for who holds the locks.
Rest == /\ TypeOK /\ QueueIntact /\ CurrentQueued /\ InterruptsSound
        /\ BlockerStores /\ SeenReady /\ SourceOrdered /\ BlockerComplete

\* A step that moves tasks between labels at which they are neither blocked nor out of the
\* queue, and the labels of its beginning and end among each other, keeps all of that.
LEMMA MoveKeepsRest ==
  ASSUME Rest, UNCHANGED <<sched, block, event>>, InterruptsSound',
         lb' \in Tasks \cup {Null, Elsewhere, Kernel},
         held' \in [Mutexes -> Tasks \cup {Null, Elsewhere}], needs' \in SUBSET Mutexes,
         pc' \in [Tasks -> PC],
         \A u \in Tasks : /\ pc'[u] = "store" <=> pc[u] = "store"
                          /\ pc'[u] = "hlt" <=> pc[u] = "hlt"
                          /\ pc'[u] \in Gone <=> pc[u] \in Gone
                          /\ pc[u] \in {"exit", "dead"} => pc'[u] \in {"exit", "dead"}
  PROVE  Rest'
<1>. USE DEF Rest, sched, block, event
<1>1. TypeOK'
  BY DEF TypeOK
<1>2. QueueIntact'
  BY QueueAsSets
<1>3. CurrentQueued'
  BY QueueAsSets DEF CurrentQueued
<1>4. BlockerComplete'
  BY DEF BlockerComplete
<1>5. BlockerStores'
  BY DEF BlockerStores, Blocking
<1>6. SeenReady'
  BY DEF SeenReady, Blocking
<1>7. SourceOrdered'
  BY DEF SourceOrdered
<1>. QED
  BY <1>1, <1>2, <1>3, <1>4, <1>5, <1>6, <1>7

\* A task that goes on to another place, and is not between lock and unlock of tasks_mutex,
\* holds none of the mutexes, and nothing waits with interrupts off.
LEMMA HoldsNothing ==
  ASSUME IInv, NEW t \in Tasks, NEW l, At(t, l)
  PROVE  /\ l \notin {"add", "drop"} => \A m \in Mutexes : held[m] # t
         /\ l # "exit" => needs = {}
BY SchedulerAssumption DEF At, Running, IInv, LockHolders, InterruptsSound, InterruptsOn

\* The other locks, by a task in a system call or by code with interrupts off.
LEMMA MutexIInv ==
  ASSUME IInv, NEW m \in Mutexes,
         Takes(m) \/ \E t \in Tasks : MutexLock(t, m) \/ MutexUnlock(t, m)
  PROVE  IInv'
<1>. USE SchedulerAssumption DEF MutexLock, MutexUnlock, Takes, Running
<1>1. Rest /\ LockHolders /\ TypeOK
  BY DEF IInv, Rest
<1>2. UNCHANGED <<sched, lb, pc, block, event>>
  OBVIOUS
<1>3. /\ held' \in [Mutexes -> Tasks \cup {Null, Elsewhere}] /\ needs' \in SUBSET Mutexes
      /\ needs' \subseteq needs
  <2>. USE <1>1 DEF TypeOK
  <2>1. CASE Takes(m)
    BY <2>1
  <2>2. ASSUME NEW t \in Tasks, MutexLock(t, m) \/ MutexUnlock(t, m)
        PROVE  /\ held' \in [Mutexes -> Tasks \cup {Null, Elsewhere}]
               /\ needs' = needs
    <3>1. held' = [held EXCEPT ![m] = t] \/ held' = [held EXCEPT ![m] = Null]
      BY <2>2
    <3>. QED
      BY <2>2, <3>1
  <2>. QED
    BY <2>1, <2>2
<1>4. InterruptsSound'
  BY <1>1, <1>2, <1>3 DEF Rest, InterruptsSound, InterruptsOn, sched
<1>5. Rest'
  BY <1>1, <1>2, <1>3, <1>4, MoveKeepsRest DEF TypeOK
<1>6. LockHolders'
  BY <1>1 DEF LockHolders, TypeOK, sched
<1>. QED
  BY <1>5, <1>6 DEF IInv, Rest

\* Locks and unlocks of tasks_mutex and of the load balancer lock, by a task that creates
\* another one, and the end of an exit.
LEMMA LockStepIInv ==
  ASSUME IInv, NEW t \in Tasks, NEW c \in Tasks, NEW to \in {"run", "left"},
         \/ TaskAddLock(t) \/ TaskAddFails(t) \/ TaskAddUnlock(t, c)
         \/ DropLock(t) \/ DropUnlock(t, c)
         \/ PickLock(t) \/ PickUnlock(t)
         \/ InsertThereLock(t) \/ InsertThereUnlock(t, c, to)
         \/ ExitDone(t)
  PROVE  IInv'
<1>. USE SchedulerAssumption
         DEF TaskAddLock, TaskAddFails, TaskAddUnlock, DropLock, DropUnlock, PickLock,
             PickUnlock, InsertThereLock, InsertThereUnlock, ExitDone, Goto
<1>. DEFINE Quiet == \A m \in Mutexes : held[m] # t
            Alone == \A m \in Mutexes \ {TasksMutex} : held[m] # t
<1>1. Rest /\ LockHolders /\ TypeOK /\ irq = "idle" /\ current = t
  BY DEF IInv, Rest, At, Running
<1>2. UNCHANGED <<sched, block, event>> /\ UNCHANGED needs
  BY DEF locks
<1>3. /\ needs = {}
      /\ pc[t] \notin {"add", "drop"} => Quiet
      /\ Alone
  <2>1. PICK l : At(t, l) /\ l = pc[t] /\ (l = "exit" => needs = {})
    BY DEF At
  <2>. QED
    BY <2>1, HoldsNothing DEF At
<1>4. /\ lb' \in Tasks \cup {Null, Elsewhere, Kernel}
      /\ held' \in [Mutexes -> Tasks \cup {Null, Elsewhere}]
      /\ needs' \in SUBSET Mutexes
  <2>1. \/ held' = held
        \/ \E x \in {t, Null} : held' = [held EXCEPT ![TasksMutex] = x]
    BY DEF locks
  <2>2. lb' \in {lb, t, Null}
    BY DEF locks
  <2>3. lb' \in Tasks \cup {Null, Elsewhere, Kernel} /\ needs' \in SUBSET Mutexes
    BY ONLY <1>1, <1>2, <2>2, t \in Tasks DEF TypeOK
  <2>4. held \in [Mutexes -> Tasks \cup {Null, Elsewhere}]
    BY ONLY <1>1 DEF TypeOK
  <2>5. held' \in [Mutexes -> Tasks \cup {Null, Elsewhere}]
    BY ONLY <2>1, <2>4, t \in Tasks
  <2>. QED
    BY <2>3, <2>5
<1>. USE DEF At, Running
<1>5. /\ pc' \in [Tasks -> PC]
      /\ \A u \in Tasks : /\ pc'[u] = "store" <=> pc[u] = "store"
                          /\ pc'[u] = "hlt" <=> pc[u] = "hlt"
                          /\ pc'[u] \in Gone <=> pc[u] \in Gone
                          /\ pc[u] \in {"exit", "dead"} => pc'[u] \in {"exit", "dead"}
                          /\ pc'[u] = "exit" => pc[u] = "exit"
  <2>1. pc \in [Tasks -> PC]
    BY ONLY <1>1 DEF TypeOK
  <2>2. \/ \E x, y \in {"run", "add", "load", "drop", "pick", "insert", "remote"} :
             pc[t] = x /\ pc' = [pc EXCEPT ![t] = y]
        \/ pc[t] = "exit" /\ pc' = [pc EXCEPT ![t] = "dead"]
        \/ \E x, y \in {"run", "add", "load", "drop", "left", "remote"}, z, w \in {"none", "new"} :
             pc[t] = x /\ pc[c] = z /\ pc' = [pc EXCEPT ![t] = y, ![c] = w]
    <3>1. CASE TaskAddLock(t) \/ TaskAddFails(t) \/ DropLock(t)
      BY ONLY <3>1 DEF TaskAddLock, TaskAddFails, DropLock, Goto, At
    <3>2. CASE PickLock(t) \/ PickUnlock(t) \/ InsertThereLock(t) \/ ExitDone(t)
      BY ONLY <3>2 DEF PickLock, PickUnlock, InsertThereLock, ExitDone, Goto, At
    <3>3. CASE TaskAddUnlock(t, c) \/ DropUnlock(t, c)
      BY ONLY <3>3 DEF TaskAddUnlock, DropUnlock, At
    <3>4. CASE InsertThereUnlock(t, c, to)
      BY ONLY <3>4, to \in {"run", "left"} DEF InsertThereUnlock, At
    <3>. QED
      BY <3>1, <3>2, <3>3, <3>4
  <2>3. CASE \E x, y \in {"run", "add", "load", "drop", "pick", "insert", "remote"} :
               pc[t] = x /\ pc' = [pc EXCEPT ![t] = y]
    BY ONLY <2>1, <2>3, t \in Tasks DEF PC, Gone
  <2>4. CASE pc[t] = "exit" /\ pc' = [pc EXCEPT ![t] = "dead"]
    BY ONLY <2>1, <2>4, t \in Tasks DEF PC, Gone
  <2>5. CASE \E x, y \in {"run", "add", "load", "drop", "left", "remote"}, z, w \in {"none", "new"} :
               pc[t] = x /\ pc[c] = z /\ pc' = [pc EXCEPT ![t] = y, ![c] = w]
    BY ONLY <2>1, <2>5, t \in Tasks, c \in Tasks DEF PC, Gone
  <2>. QED
    BY ONLY <2>2, <2>3, <2>4, <2>5
<1>6. InterruptsSound'
  BY ONLY <1>1, <1>2, <1>3, <1>5 DEF Rest, InterruptsSound, sched
<1>7. Rest'
  BY <1>1, <1>2, <1>4, <1>5, <1>6, MoveKeepsRest
<1>8. LockHolders'
  <2>. USE <1>1, <1>3 DEF LockHolders, TypeOK, sched, Locking
  <2>1. CASE TaskAddLock(t) \/ DropLock(t)
    <3>1. /\ pc'[t] \in {"add", "drop"} /\ held'[TasksMutex] = t /\ lb' = lb
          /\ \A u \in Tasks : u # t => pc'[u] = pc[u]
          /\ \A m \in Mutexes \ {TasksMutex} : held'[m] = held[m]
          /\ held[TasksMutex] = Null /\ pc[t] \notin {"add", "drop", "pick", "remote"}
      BY <2>1
    <3>3. \A u \in Tasks : lb' = u <=> pc'[u] \in {"pick", "remote"}
      BY ONLY <3>1, <1>1, t \in Tasks DEF LockHolders
    <3>4. \A u \in Tasks : held'[TasksMutex] = u <=> pc'[u] \in {"add", "drop"}
      BY ONLY <3>1, <1>1, t \in Tasks, SchedulerAssumption DEF LockHolders
    <3>5. \A m \in Mutexes, u \in Tasks : held'[m] = u => pc'[u] \in Locking
      <4>1. SUFFICES ASSUME NEW m \in Mutexes, NEW u \in Tasks, held'[m] = u
                     PROVE  pc'[u] \in Locking
        OBVIOUS
      <4>2. u = t \/ (m # TasksMutex /\ held[m] = u)
        BY <3>1, <4>1, SchedulerAssumption
      <4>3. CASE u = t
        BY ONLY <3>1, <4>3 DEF Locking
      <4>4. CASE u # t
        <5>1. pc[u] \in Locking
          BY ONLY <1>1, <4>2, <4>4, m \in Mutexes, u \in Tasks DEF LockHolders
        <5>. QED
          BY ONLY <3>1, <4>4, <5>1, u \in Tasks DEF Locking
      <4>. QED
        BY <4>3, <4>4
    <3>6. lb' = Kernel <=> irq' \in {"poll", "panic"}
      BY ONLY <3>1, <1>1, <1>2 DEF LockHolders, sched
    <3>. QED
      BY ONLY <3>3, <3>4, <3>5, <3>6 DEF LockHolders
  <2>2. CASE TaskAddFails(t) \/ (TaskAddUnlock(t, c) \/ DropUnlock(t, c))
    <3>1. /\ pc'[t] \in {"run", "load"} /\ held'[TasksMutex] = Null /\ lb' = lb
          /\ \A u \in Tasks : u # t => \/ pc'[u] = pc[u]
                                       \/ /\ pc[u] \in {"none", "new"}
                                          /\ pc'[u] \in {"none", "new"}
          /\ \A m \in Mutexes \ {TasksMutex} : held'[m] = held[m]
          /\ pc[t] \in {"add", "drop"}
      <4>1. CASE TaskAddFails(t)
        BY <4>1
      <4>2. CASE TaskAddUnlock(t, c)
        BY <4>2
      <4>3. CASE DropUnlock(t, c)
        BY <4>3
      <4>. QED
        BY <2>2, <4>1, <4>2, <4>3
    <3>2. held[TasksMutex] = t
      BY <3>1
    <3>3. \A u \in Tasks : lb' = u <=> pc'[u] \in {"pick", "remote"}
      BY ONLY <3>1, <3>2, <1>1, t \in Tasks DEF LockHolders
    <3>4. \A u \in Tasks : held'[TasksMutex] = u <=> pc'[u] \in {"add", "drop"}
      BY ONLY <3>1, <3>2, <1>1, t \in Tasks, SchedulerAssumption DEF LockHolders
    <3>5. \A m \in Mutexes, u \in Tasks : held'[m] = u => pc'[u] \in Locking
      <4>1. SUFFICES ASSUME NEW m \in Mutexes, NEW u \in Tasks, held'[m] = u
                     PROVE  pc'[u] \in Locking
        OBVIOUS
      <4>2. u = t \/ (m # TasksMutex /\ held[m] = u)
        BY <3>1, <4>1, SchedulerAssumption
      <4>3. CASE u = t
        BY ONLY <3>1, <4>3 DEF Locking
      <4>4. CASE u # t
        <5>1. pc[u] \in Locking
          BY ONLY <1>1, <4>2, <4>4, m \in Mutexes, u \in Tasks DEF LockHolders
        <5>. QED
          BY ONLY <3>1, <4>4, <5>1, u \in Tasks DEF Locking
      <4>. QED
        BY <4>3, <4>4
    <3>6. lb' = Kernel <=> irq' \in {"poll", "panic"}
      BY ONLY <3>1, <1>1, <1>2 DEF LockHolders, sched
    <3>. QED
      BY ONLY <3>3, <3>4, <3>5, <3>6 DEF LockHolders
  <2>3. CASE PickLock(t) \/ PickUnlock(t) \/ InsertThereLock(t)
    <3>1. CASE PickLock(t) \/ InsertThereLock(t)
      BY <3>1
    <3>2. CASE PickUnlock(t)
      BY <3>2
    <3>. QED
      BY <2>3, <3>1, <3>2
  <2>4. CASE ExitDone(t)
    BY <2>4 DEF locks
  <2>5. CASE InsertThereUnlock(t, c, to)
    BY <2>5
  <2>. QED
    BY <2>1, <2>2, <2>3, <2>4, <2>5
<1>. QED
  BY <1>7, <1>8 DEF IInv, Rest

LEMMA ElsewhereIInv ==
  ASSUME IInv, ElsewhereLocks \/ ElsewhereUnlocks
  PROVE  IInv'
<1>. USE SchedulerAssumption DEF ElsewhereLocks, ElsewhereUnlocks
<1>1. Rest /\ LockHolders /\ TypeOK
  BY DEF IInv, Rest
<1>2. UNCHANGED <<sched, needs, pc, block, event>>
  OBVIOUS
<1>3. /\ lb' \in Tasks \cup {Null, Elsewhere, Kernel}
      /\ held' \in [Mutexes -> Tasks \cup {Null, Elsewhere}]
      /\ needs' \in SUBSET Mutexes
  BY <1>1, <1>2 DEF TypeOK
<1>4. pc' \in [Tasks -> PC]
  BY <1>1, <1>2 DEF TypeOK
<1>5. InterruptsSound'
  BY <1>1, <1>2 DEF Rest, InterruptsSound, InterruptsOn, sched
<1>6. Rest'
  BY <1>1, <1>2, <1>3, <1>4, <1>5, MoveKeepsRest
<1>7. LockHolders'
  <2>1. /\ \A t \in Tasks : lb' = t <=> lb = t
        /\ \A t \in Tasks, m \in Mutexes : held'[m] = t <=> held[m] = t
        /\ lb' = Kernel <=> lb = Kernel
    BY <1>1 DEF TypeOK
  <2>. QED
    BY ONLY <1>1, <1>2, <2>1, SchedulerAssumption DEF LockHolders, sched
<1>. QED
  BY <1>6, <1>7 DEF IInv, Rest

\* list_insert of a new task by fork or exec, here or under the lock on another processor.
LEMMA InsertIInv ==
  ASSUME IInv, NEW t \in Tasks, NEW c \in Tasks, NEW to \in {"run", "left"},
         InsertHere(t, c, to) \/ ElsewhereInserts(c)
  PROVE  IInv'
<1>. USE SchedulerAssumption DEF InsertHere, ElsewhereInserts, Enqueue, At, Running, IInv
<1>1. pc[c] \in {"new", "none"} /\ pc \in [Tasks -> PC]
  BY DEF TypeOK
<1>2. pc'[c] = "run" /\ pc' \in [Tasks -> PC]
  BY <1>1 DEF PC
<1>3. \A u \in Tasks : u # c =>
        /\ pc'[u] = pc[u] \/ (pc[u] = "insert" /\ pc'[u] \in {"run", "left"})
        /\ irq = "idle" \/ pc'[u] = pc[u]
  BY <1>1
<1>. USE UNCHANGED <<current, ticks, irq, locks, block, event>>
<1>4. ~In(queue, c) /\ Once(queue) /\ queue \in Seq(Tasks)
  BY <1>1, QueueAsSets DEF Gone, TypeOK
<1>5. /\ queue' \in Seq(Tasks) /\ Once(queue')
      /\ \A u \in Tasks : In(queue', u) <=> In(queue, u) \/ u = c
  <2>1. queue' = Append(queue, c)
    OBVIOUS
  <2>2. /\ Append(queue, c) \in Seq(Tasks) /\ Once(Append(queue, c))
        /\ \A u \in Tasks : In(Append(queue, c), u) <=> In(queue, u) \/ u = c
    BY ONLY <1>4, EnqueueKeeps, c \in Tasks
  <2>. QED
    BY ONLY <2>1, <2>2
<1>6. TypeOK'
  BY <1>2, <1>5 DEF TypeOK, locks, block, event
<1>7. QueueIntact'
  BY <1>2, <1>3, <1>5, QueueAsSets DEF Gone
<1>8. CurrentQueued'
  BY <1>1, <1>3, <1>5, QueueAsSets DEF CurrentQueued
<1>9. BlockerComplete'
  BY DEF BlockerComplete
<1>15. InterruptsSound'
  <2>1. \A u \in Tasks : pc'[u] = "exit" <=> pc[u] = "exit"
    BY <1>1, <1>2, <1>3
  <2>. QED
    BY <2>1 DEF InterruptsSound, InterruptsOn, locks
<1>10. \A u \in Tasks : /\ pc'[u] = "store" <=> pc[u] = "store"
                        /\ pc'[u] = "hlt" <=> pc[u] = "hlt"
  BY <1>1, <1>2, <1>3
<1>11. BlockerStores'
  BY <1>10 DEF BlockerStores, Blocking, block
<1>12. SeenReady'
  BY <1>10 DEF SeenReady, Blocking, event
<1>13. SourceOrdered'
  BY <1>10 DEF SourceOrdered, block, event
<1>14. LockHolders'
  <2>1. \A u \in Tasks : /\ pc'[u] \in {"pick", "remote"} <=> pc[u] \in {"pick", "remote"}
                         /\ pc'[u] \in {"add", "drop"} <=> pc[u] \in {"add", "drop"}
                         /\ pc[u] \in Locking => pc'[u] \in Locking
    BY <1>1, <1>2, <1>3 DEF Locking
  <2>. QED
    BY <2>1 DEF LockHolders, locks
<1>. QED
  BY <1>6, <1>7, <1>8, <1>9, <1>11, <1>12, <1>13, <1>14, <1>15

-----------------------------------------------------------------------------
(* The timer. *)

\* In the order of the source a blocking task has its function and its argument.
LEMMA NeverBroken ==
  ASSUME SourceOrder, IInv, NEW u \in Tasks, flag[u]
  PROVE  ~Broken(u) /\ fn[u] = call[u][1] /\ arg[u] = call[u][2] /\ pc[u] = "hlt"
<1>1. todo[u] = {} /\ Blocking(u)
  BY DEF IInv, SourceOrdered, BlockerStores
<1>2. fn[u] = call[u][1] /\ arg[u] = call[u][2] /\ (call[u][1] = "event" <=> call[u][2] = Pointer)
  BY <1>1 DEF IInv, BlockerStores
<1>3. pc[u] = "hlt"
  BY <1>1 DEF IInv, BlockerStores, Blocking
<1>4. call[u][1] \in {"sleep", "event"}
  BY DEF IInv, TypeOK, Kinds
<1>5. ~Broken(u)
  BY <1>2, <1>4, SchedulerAssumption DEF Broken
<1>. QED
  BY <1>2, <1>3, <1>5

\* When the timer handler turns the queue no task has the load balancer lock, and nothing
\* waits with interrupts off.
TimerFree == /\ lb \notin Tasks /\ needs = {}
             /\ \A t \in Tasks : pc[t] # "exit"

LEMMA TimerIsFree == ASSUME IInv, Timer PROVE TimerFree
BY SchedulerAssumption DEF Timer, TimerFree, IInv, LockHolders, InterruptsSound, InterruptsOn

LEMMA SelectIInv ==
  ASSUME SourceOrder, IInv, NEW k \in 1 .. Len(queue), Select(k), TimerFree
  PROVE  IInv'
<1>. DEFINE u == queue[k]
<1>1. u \in Tasks /\ queue \in Seq(Tasks) /\ Once(queue) /\ In(queue, u)
  BY QueueAsSets DEF IInv, TypeOK, In
<1>2. /\ queue' = Rotate(queue, k) /\ flag' = [flag EXCEPT ![u] = FALSE]
      /\ current' = u /\ irq' = "idle" /\ Tick
      /\ lb' = Null
      /\ UNCHANGED <<held, needs, pc, fn, arg, todo, call, ready, seen>>
      /\ StopsAt(u) /\ ~(flag[u] /\ Broken(u))
  BY DEF Select, FirstStop, locks, event
<1>. HIDE DEF u
<1>3. /\ queue' \in Seq(Tasks) /\ Once(queue')
      /\ \A t \in Tasks : In(queue', t) <=> In(queue, t)
  <2>1. /\ Rotate(queue, k) \in Seq(Tasks) /\ Once(Rotate(queue, k))
        /\ \A t \in Tasks : In(Rotate(queue, k), t) <=> In(queue, t)
    BY ONLY <1>1, RotateKeeps, k \in 1 .. Len(queue)
  <2>. QED
    BY ONLY <1>2, <2>1
<1>4. ticks' \in 0 .. MaxTicks /\ ticks \in 0 .. MaxTicks /\ ticks <= ticks'
  BY <1>2, SchedulerAssumption DEF Tick, IInv, TypeOK
<1>5. /\ flag' \in [Tasks -> BOOLEAN] /\ \A t \in Tasks : flag'[t] => flag[t]
      /\ \A t \in Tasks : ~flag'[t] => ~flag[t] \/ t = u
  BY <1>2 DEF IInv, TypeOK
<1>6. TypeOK'
  BY <1>1, <1>2, <1>3, <1>4, <1>5 DEF IInv, TypeOK
<1>7. QueueIntact'
  BY <1>2, <1>3, QueueAsSets DEF IInv
<1>8. LockHolders'
  BY <1>2, SchedulerAssumption DEF IInv, LockHolders, TimerFree
<1>9. CurrentQueued' /\ BlockerComplete'
  BY <1>1, <1>2, <1>3, QueueAsSets DEF BlockerComplete
<1>13. InterruptsSound'
  BY <1>2 DEF InterruptsSound, TimerFree
<1>10. BlockerStores'
  BY <1>2, <1>5 DEF IInv, BlockerStores, Blocking
<1>11. SeenReady'
  BY <1>2 DEF IInv, SeenReady, Blocking
<1>12. SourceOrdered'
  <2>1. SUFFICES ASSUME NEW t \in Tasks, pc[t] = "hlt", ~flag'[t]
                 PROVE IF call[t][1] = "sleep" THEN call[t][2] <= ticks' ELSE t \in seen
    BY <1>2, <1>5 DEF IInv, SourceOrdered
  <2>2. CASE ~flag[t]
    <3>1. call[t][2] \in 0 .. Pointer
      BY DEF IInv, TypeOK
    <3>. QED
      BY <1>4, <2>1, <2>2, <3>1, SchedulerAssumption DEF IInv, SourceOrdered, Pointer
  <2>3. CASE flag[t]
    <3>1. t = u
      BY <1>5, <2>1, <2>3
    <3>2. Resolves(t) /\ fn[t] = call[t][1] /\ arg[t] = call[t][2]
      BY <1>2, <2>3, <3>1, NeverBroken DEF StopsAt
    <3>3. call[t][2] \in 0 .. Pointer
      BY DEF IInv, TypeOK
    <3>4. t \in ready => t \in seen
      BY <2>1 DEF IInv, SeenReady, Blocking
    <3>5. ticks \in Nat /\ ticks' \in Nat /\ call[t][2] \in Nat
      BY <1>4, <3>3, SchedulerAssumption DEF Pointer
    <3>6. CASE fn[t] = "sleep" /\ arg[t] <= ticks
      BY ONLY <1>4, <3>2, <3>5, <3>6
    <3>7. CASE fn[t] = "event" /\ t \in ready
      BY ONLY <3>2, <3>4, <3>7
    <3>. QED
      BY ONLY <3>2, <3>6, <3>7 DEF Resolves
  <2>. QED
    BY <2>2, <2>3
<1>. QED
  BY <1>6, <1>7, <1>8, <1>9, <1>10, <1>11, <1>12, <1>13 DEF IInv

LEMMA TimerIInv ==
  ASSUME SourceOrder, IInv, Timer
  PROVE  IInv'
<1>1. TimerFree
  BY TimerIsFree
<1>2. ASSUME NEW k \in 1 .. Len(queue), Select(k) PROVE IInv'
  BY <1>1, <1>2, SelectIInv
<1>3. ASSUME NEW k \in 1 .. Len(queue), SelectPanics(k) PROVE FALSE
  <2>1. queue[k] \in Tasks
    BY DEF IInv, TypeOK
  <2>. QED
    BY <1>3, <2>1, NeverBroken DEF SelectPanics
<1>4. CASE SelectNone
  <2>. USE <1>4 DEF SelectNone, block, event, IInv
  <2>1. /\ ticks' \in 0 .. MaxTicks /\ ticks \in 0 .. MaxTicks /\ ticks <= ticks'
    BY SchedulerAssumption DEF Tick, TypeOK
  <2>2. TypeOK'
    BY <2>1 DEF TypeOK
  <2>3. QueueIntact' /\ CurrentQueued' /\ BlockerComplete'
    BY DEF QueueIntact, CurrentQueued, Queued, BlockerComplete
  <2>4. InterruptsSound'
    BY <1>1 DEF InterruptsSound, TimerFree
  <2>5. LockHolders'
    BY <1>1, SchedulerAssumption DEF LockHolders, TimerFree
  <2>6. BlockerStores' /\ SeenReady'
    BY DEF BlockerStores, SeenReady, Blocking
  <2>7. SourceOrdered'
    <3>1. SUFFICES ASSUME NEW t \in Tasks, pc[t] = "hlt", ~flag[t]
                   PROVE IF call[t][1] = "sleep" THEN call[t][2] <= ticks' ELSE t \in seen
      BY DEF SourceOrdered
    <3>2. call[t][2] \in 0 .. Pointer
      BY DEF TypeOK
    <3>3. IF call[t][1] = "sleep" THEN call[t][2] <= ticks ELSE t \in seen
      BY <3>1 DEF SourceOrdered
    <3>. QED
      BY ONLY <2>1, <3>2, <3>3, SchedulerAssumption DEF Pointer
  <2>. QED
    BY <2>2, <2>3, <2>4, <2>5, <2>6, <2>7
<1>. QED
  BY <1>2, <1>3, <1>4 DEF Timer

\* Handlers that wait, and the end of one.
LEMMA HandlerIInv ==
  ASSUME IInv, TimerSpin \/ TimerPolls \/ DeviceSpins \/ DeviceDone
  PROVE  IInv'
<1>. USE SchedulerAssumption
         DEF TimerSpin, TimerPolls, DeviceSpins, DeviceDone, locks, block, event, IInv
<1>1. /\ UNCHANGED <<queue, current, ticks, held, pc, block, event>>
      /\ irq' \in {"idle", "spin", "poll", "device"} /\ InterruptsOn
      /\ irq' \in {"idle", "spin"} => needs' = {}
      /\ needs' \in SUBSET Mutexes
      /\ \/ lb' = lb /\ lb # Kernel /\ irq' # "poll"
         \/ lb = Null /\ lb' = Kernel /\ irq' = "poll"
  <2>1. CASE TimerSpin
    BY <2>1 DEF InterruptsSound, TypeOK, LockHolders
  <2>2. CASE TimerPolls
    BY <2>2 DEF TypeOK
  <2>3. CASE DeviceSpins
    BY <2>3 DEF TypeOK, LockHolders
  <2>4. CASE DeviceDone
    BY <2>4 DEF InterruptsSound, TypeOK, LockHolders
  <2>. QED
    BY <2>1, <2>2, <2>3, <2>4
<1>2. TypeOK'
  BY <1>1 DEF TypeOK
<1>3. QueueIntact' /\ CurrentQueued' /\ BlockerComplete'
  BY <1>1 DEF QueueIntact, CurrentQueued, Queued, BlockerComplete
<1>4. InterruptsSound'
  BY <1>1 DEF InterruptsSound, InterruptsOn
<1>5. LockHolders'
  BY <1>1 DEF LockHolders
<1>6. BlockerStores' /\ SeenReady'
  BY <1>1 DEF BlockerStores, SeenReady, Blocking
<1>7. SourceOrdered'
  BY <1>1 DEF SourceOrdered
<1>. QED
  BY <1>2, <1>3, <1>4, <1>5, <1>6, <1>7

-----------------------------------------------------------------------------
(* Blocking system calls, exits, and what the tasks wait for. *)

LEMMA BlockIInv ==
  ASSUME IInv, NEW t \in Tasks, BlockSleep(t) \/ BlockEvent(t)
  PROVE  IInv'
<1>1. PICK kind \in Kinds, x \in 0 .. Pointer :
        Block(t, kind, x) /\ (kind = "event" <=> x = Pointer)
  <2>1. CASE BlockSleep(t)
    <3>1. PICK ms \in 1 .. MaxTicks : ticks + ms <= MaxTicks /\ Block(t, "sleep", ticks + ms)
      BY <2>1 DEF BlockSleep
    <3>2. ticks + ms \in 0 .. Pointer /\ ticks + ms # Pointer
      BY <3>1, SchedulerAssumption DEF IInv, TypeOK, Pointer
    <3>. QED
      BY <3>1, <3>2 DEF Kinds
  <2>2. CASE BlockEvent(t)
    BY <2>2, SchedulerAssumption DEF BlockEvent, Kinds, Pointer
  <2>. QED
    BY <2>1, <2>2
<1>2. /\ irq = "idle" /\ current = t /\ pc[t] = "run" /\ pc' = [pc EXCEPT ![t] = "store"]
      /\ todo' = [todo EXCEPT ![t] = Stores] /\ call' = [call EXCEPT ![t] = <<kind, x>>]
      /\ \E up \in SUBSET {t} : ready' = ready \cup up /\ seen' = seen \cup up
      /\ UNCHANGED <<queue, current, ticks, irq, lb, held, needs, flag, fn, arg>>
      /\ needs = {} /\ \A m \in Mutexes : held[m] # t
  BY <1>1, HoldsNothing DEF Block, Goto, At, Running, sched, locks
<1>3. TypeOK /\ ~Blocking(t)
  BY <1>2 DEF IInv, Blocking
<1>4. ~flag[t] /\ t \notin seen
  BY <1>3 DEF IInv, BlockerStores, SeenReady
<1>5. /\ pc' \in [Tasks -> PC] /\ pc'[t] = "store" /\ todo'[t] = Stores
      /\ call'[t] = <<kind, x>> /\ call'[t][1] = kind /\ call'[t][2] = x
      /\ \A u \in Tasks : u # t => pc'[u] = pc[u] /\ todo'[u] = todo[u] /\ call'[u] = call[u]
  BY <1>2, <1>3 DEF TypeOK, PC
<1>6. TypeOK'
  BY <1>1, <1>2, <1>3, <1>5 DEF TypeOK
<1>7. QueueIntact'
  BY <1>2, <1>5, QueueAsSets DEF IInv, Gone
<1>8. LockHolders'
  BY <1>2, <1>5 DEF IInv, LockHolders
<1>9. CurrentQueued' /\ InterruptsSound' /\ BlockerComplete'
  BY <1>2, <1>5, QueueAsSets DEF IInv, CurrentQueued, InterruptsSound, BlockerComplete
<1>10. BlockerStores'
  BY <1>1, <1>2, <1>4, <1>5 DEF IInv, BlockerStores, Blocking, Stores
<1>11. SeenReady'
  BY <1>2, <1>4, <1>5 DEF IInv, SeenReady, Blocking
<1>12. SourceOrdered'
  BY <1>2, <1>4, <1>5 DEF IInv, SourceOrdered
<1>. QED
  BY <1>6, <1>7, <1>8, <1>9, <1>10, <1>11, <1>12 DEF IInv

LEMMA StoreIInv ==
  ASSUME SourceOrder, IInv, NEW t \in Tasks, NEW s \in Stores, Store(t, s)
  PROVE  IInv'
<1>1. /\ irq = "idle" /\ current = t /\ pc[t] = "store" /\ s \in todo[t]
      /\ todo' = [todo EXCEPT ![t] = @ \ {s}]
      /\ pc' = [pc EXCEPT ![t] = IF todo[t] = {s} THEN "hlt" ELSE "store"]
      /\ arg' = IF s = "arg" THEN [arg EXCEPT ![t] = call[t][2]] ELSE arg
      /\ fn' = IF s = "fn" THEN [fn EXCEPT ![t] = call[t][1]] ELSE fn
      /\ flag' = IF s = "flag" THEN [flag EXCEPT ![t] = TRUE] ELSE flag
      /\ UNCHANGED <<queue, current, ticks, irq, lb, held, needs, call, ready, seen>>
      /\ needs = {} /\ \A m \in Mutexes : held[m] # t
      /\ \/ s = "arg"
         \/ s = "fn"   /\ "arg" \notin todo[t]
         \/ s = "flag" /\ todo[t] = {"flag"}
  BY HoldsNothing DEF Store, At, Running, MayStore, sched, locks, event
<1>2. TypeOK /\ todo[t] \in {Stores, {"fn", "flag"}, {"flag"}} /\ ~flag[t]
  BY <1>1 DEF IInv, SourceOrdered
<1>3. /\ pc' \in [Tasks -> PC] /\ todo' \in [Tasks -> SUBSET Stores]
      /\ arg' \in [Tasks -> 0 .. Pointer] /\ fn' \in [Tasks -> Kinds \cup {Null}]
      /\ flag' \in [Tasks -> BOOLEAN]
  BY <1>1, <1>2 DEF TypeOK, PC
<1>4. \A u \in Tasks : u # t =>
        /\ pc'[u] = pc[u] /\ todo'[u] = todo[u] /\ arg'[u] = arg[u]
        /\ fn'[u] = fn[u] /\ flag'[u] = flag[u]
  BY <1>1, <1>2 DEF TypeOK
<1>5. /\ todo'[t] = todo[t] \ {s} /\ pc'[t] = IF todo[t] = {s} THEN "hlt" ELSE "store"
      /\ arg'[t] = IF s = "arg" THEN call[t][2] ELSE arg[t]
      /\ fn'[t] = IF s = "fn" THEN call[t][1] ELSE fn[t]
      /\ flag'[t] = IF s = "flag" THEN TRUE ELSE flag[t]
  BY <1>1, <1>2 DEF TypeOK
<1>6. pc'[t] \in {"hlt", "store"}
  BY <1>5
<1>7. TypeOK'
  BY <1>1, <1>2, <1>3 DEF TypeOK
<1>8. QueueIntact'
  BY <1>1, <1>4, <1>6, QueueAsSets DEF IInv, Gone
<1>9. LockHolders'
  BY <1>1, <1>4, <1>6 DEF IInv, LockHolders
<1>10. CurrentQueued' /\ InterruptsSound' /\ BlockerComplete'
  BY <1>1, <1>4, <1>6, QueueAsSets DEF IInv, CurrentQueued, InterruptsSound, BlockerComplete
<1>11. SeenReady'
  BY <1>1, <1>4, <1>6 DEF IInv, SeenReady, Blocking
<1>12. BlockerStores'
  <2>1. SUFFICES ASSUME NEW u \in Tasks
                 PROVE  /\ todo'[u] # {} <=> pc'[u] = "store"
                        /\ flag'[u] => Blocking(u)'
                        /\ pc'[u] = "store" /\ "flag" \in todo'[u] => ~flag'[u]
                        /\ Blocking(u)' =>
                             /\ "arg" \notin todo'[u] => arg'[u] = call[u][2]
                             /\ "fn" \notin todo'[u] => fn'[u] = call[u][1]
                             /\ call[u][1] = "event" <=> call[u][2] = Pointer
    BY <1>1 DEF BlockerStores
  <2>2. CASE u # t
    BY <1>4, <2>2 DEF IInv, BlockerStores, Blocking
  <2>3. CASE u = t
    <3>. USE <1>5, <1>6, <2>3
    <3>1. todo'[u] # {} <=> pc'[u] = "store"
      BY <1>2
    <3>2. flag'[u] => Blocking(u)'
      BY DEF Blocking
    <3>3. pc'[u] = "store" /\ "flag" \in todo'[u] => ~flag'[u]
      BY <1>2
    <3>4. /\ "arg" \notin todo'[u] => arg'[u] = call[u][2]
          /\ "fn" \notin todo'[u] => fn'[u] = call[u][1]
          /\ call[u][1] = "event" <=> call[u][2] = Pointer
      BY <1>1 DEF IInv, BlockerStores, Blocking
    <3>. QED
      BY <3>1, <3>2, <3>3, <3>4
  <2>. QED
    BY <2>2, <2>3
<1>13. SourceOrdered'
  <2>1. SUFFICES ASSUME NEW u \in Tasks
                 PROVE  /\ flag'[u] => todo'[u] = {}
                        /\ pc'[u] = "store" => todo'[u] \in {Stores, {"fn", "flag"}, {"flag"}}
                        /\ pc'[u] = "hlt" /\ ~flag'[u] =>
                             IF call[u][1] = "sleep" THEN call[u][2] <= ticks ELSE u \in seen
    BY <1>1 DEF SourceOrdered
  <2>2. CASE u # t
    BY <1>4, <2>2 DEF IInv, SourceOrdered
  <2>3. CASE u = t
    <3>1. CASE s = "flag"
      <4>1. todo[t] = {s}
        BY <1>1, <3>1
      <4>2. todo'[t] = {} /\ pc'[t] = "hlt" /\ flag'[t]
        BY <1>5, <3>1, <4>1
      <4>. QED
        BY <2>3, <4>2
    <3>2. CASE s = "fn"
      BY <1>1, <1>2, <1>5, <2>3, <3>2 DEF Stores
    <3>3. CASE s = "arg"
      <4>1. todo[t] = Stores
        BY <1>1, <1>2, <3>3
      <4>. QED
        BY <1>2, <1>5, <2>3, <3>3, <4>1 DEF Stores
    <3>. QED
      BY <1>1, <3>1, <3>2, <3>3
  <2>. QED
    BY <2>2, <2>3
<1>. QED
  BY <1>7, <1>8, <1>9, <1>10, <1>11, <1>12, <1>13 DEF IInv

LEMMA UnblockedIInv ==
  ASSUME IInv, NEW t \in Tasks, Unblocked(t)
  PROVE  IInv'
<1>1. /\ irq = "idle" /\ pc[t] = "hlt" /\ pc' = [pc EXCEPT ![t] = "run"] /\ ~flag[t]
      /\ call' = [call EXCEPT ![t] = NoCall] /\ seen' = seen \ {t} /\ ready' = ready \ {t}
      /\ UNCHANGED <<queue, current, ticks, irq, lb, held, needs, flag, fn, arg, todo>>
      /\ needs = {} /\ \A m \in Mutexes : held[m] # t
  BY HoldsNothing DEF Unblocked, Goto, At, Running, sched, locks
<1>2. TypeOK /\ todo[t] = {}
  BY <1>1 DEF IInv, BlockerStores
<1>3. /\ pc' \in [Tasks -> PC] /\ pc'[t] = "run"
      /\ \A u \in Tasks : u # t => pc'[u] = pc[u] /\ call'[u] = call[u]
  BY <1>1, <1>2 DEF TypeOK, PC
<1>4. call' \in [Tasks -> Kinds \X (0 .. Pointer)]
  BY <1>1, <1>2, SchedulerAssumption DEF TypeOK, NoCall, Kinds, Pointer
<1>5. TypeOK'
  BY <1>1, <1>2, <1>3, <1>4 DEF TypeOK
<1>6. QueueIntact'
  BY <1>1, <1>3, QueueAsSets DEF IInv, Gone
<1>7. LockHolders'
  BY <1>1, <1>3 DEF IInv, LockHolders
<1>8. CurrentQueued' /\ InterruptsSound' /\ BlockerComplete'
  BY <1>1, <1>3, QueueAsSets DEF IInv, CurrentQueued, InterruptsSound, BlockerComplete
<1>9. BlockerStores'
  BY <1>1, <1>2, <1>3 DEF IInv, BlockerStores, Blocking
<1>10. SeenReady'
  BY <1>1, <1>3 DEF IInv, SeenReady, Blocking
<1>11. SourceOrdered'
  BY <1>1, <1>2, <1>3 DEF IInv, SourceOrdered
<1>. QED
  BY <1>5, <1>6, <1>7, <1>8, <1>9, <1>10, <1>11 DEF IInv

LEMMA ExitIInv ==
  ASSUME IInv, NEW t \in Tasks, Exit(t)
  PROVE  IInv'
<1>1. PICK i \in 1 .. Len(queue) : queue[i] = t /\ queue' = Removed(queue, i)
  BY DEF Exit, Removed
<1>2. /\ irq = "idle" /\ current = t /\ pc[t] = "run" /\ pc' = [pc EXCEPT ![t] = "exit"]
      /\ UNCHANGED <<current, ticks, irq, lb, held, flag, fn, arg, todo, call, ready, seen>>
      /\ needs' \in SUBSET Mutexes /\ \A m \in Mutexes : held[m] # t
  BY HoldsNothing DEF Exit, Goto, At, Running, block, event
<1>3. TypeOK /\ queue \in Seq(Tasks) /\ Once(queue)
  BY QueueAsSets DEF IInv, TypeOK
<1>4. /\ queue' \in Seq(Tasks) /\ Once(queue')
      /\ \A u \in Tasks : In(queue', u) <=> In(queue, u) /\ u # t
  <2>1. /\ Removed(queue, i) \in Seq(Tasks) /\ Once(Removed(queue, i))
        /\ \A u \in Tasks : In(Removed(queue, i), u) <=> In(queue, u) /\ u # queue[i]
    BY ONLY <1>3, RemoveKeeps, i \in 1 .. Len(queue)
  <2>. QED
    BY ONLY <1>1, <2>1
<1>5. /\ pc' \in [Tasks -> PC] /\ pc'[t] = "exit"
      /\ \A u \in Tasks : u # t => pc'[u] = pc[u]
  BY <1>2, <1>3 DEF TypeOK, PC
<1>6. TypeOK'
  BY <1>2, <1>3, <1>4, <1>5 DEF TypeOK
<1>7. QueueIntact'
  BY <1>4, <1>5, QueueAsSets DEF IInv, Gone
<1>8. LockHolders'
  BY <1>2, <1>5 DEF IInv, LockHolders
<1>9. CurrentQueued' /\ InterruptsSound' /\ BlockerComplete'
  BY <1>2, <1>5, QueueAsSets DEF IInv, InterruptsSound, InterruptsOn, BlockerComplete
<1>10. BlockerStores'
  BY <1>2, <1>5 DEF IInv, BlockerStores, Blocking
<1>11. SeenReady'
  BY <1>2, <1>5 DEF IInv, SeenReady, Blocking
<1>12. SourceOrdered'
  BY <1>2, <1>5 DEF IInv, SourceOrdered
<1>. QED
  BY <1>6, <1>7, <1>8, <1>9, <1>10, <1>11, <1>12 DEF IInv

LEMMA EventIInv ==
  ASSUME IInv, NEW t \in Tasks, EventChanges(t)
  PROVE  IInv'
<1>. USE DEF IInv, EventChanges, sched, locks, block
<1>1. TypeOK'
  BY DEF TypeOK
<1>2. QueueIntact' /\ CurrentQueued' /\ InterruptsSound' /\ BlockerComplete'
  BY DEF QueueIntact, CurrentQueued, Queued, InterruptsSound, InterruptsOn, BlockerComplete
<1>3. LockHolders'
  BY DEF LockHolders
<1>4. BlockerStores'
  BY DEF BlockerStores, Blocking
<1>5. SeenReady'
  BY DEF SeenReady, Blocking
<1>6. SourceOrdered'
  BY <1>5 DEF SourceOrdered
<1>. QED
  BY <1>1, <1>2, <1>3, <1>4, <1>5, <1>6

-----------------------------------------------------------------------------
(* The theorems. *)

LEMMA NextIInv ==
  ASSUME SourceOrder, IInv, [Next]_vars
  PROVE  IInv'
<1>1. CASE UNCHANGED vars
  <2>. USE <1>1 DEF vars, sched, locks, block, event, IInv
  <2>1. TypeOK'
    BY DEF TypeOK
  <2>2. QueueIntact' /\ CurrentQueued' /\ InterruptsSound' /\ BlockerComplete'
    BY DEF QueueIntact, CurrentQueued, Queued, InterruptsSound, InterruptsOn, BlockerComplete
  <2>3. LockHolders'
    BY DEF LockHolders
  <2>4. BlockerStores' /\ SeenReady'
    BY DEF BlockerStores, SeenReady, Blocking
  <2>5. SourceOrdered'
    BY DEF SourceOrdered
  <2>. QED
    BY <2>1, <2>2, <2>3, <2>4, <2>5
<1>2. CASE Timer \/ TimerSpin \/ TimerPolls \/ DeviceSpins \/ DeviceDone
  BY <1>2, TimerIInv, HandlerIInv
<1>8. ASSUME NEW m \in Mutexes, Takes(m) PROVE IInv'
  BY <1>8, MutexIInv
<1>3. ASSUME NEW t \in Tasks, Step(t) PROVE IInv'
  <2>1. CASE \E s \in Stores : Store(t, s)
    BY <2>1, StoreIInv
  <2>2. CASE Unblocked(t)
    BY <2>2, UnblockedIInv
  <2>3. CASE TaskAddFails(t) \/ DropLock(t) \/ PickLock(t) \/ PickUnlock(t)
             \/ InsertThereLock(t) \/ ExitDone(t)
    BY <2>3, LockStepIInv
  <2>4. ASSUME NEW c \in Tasks, TaskAddUnlock(t, c) \/ DropUnlock(t, c) PROVE IInv'
    BY <2>4, LockStepIInv
  <2>5. ASSUME NEW c \in Tasks, NEW to \in {"run", "left"},
               InsertHere(t, c, to) \/ InsertThereUnlock(t, c, to)
        PROVE  IInv'
    BY <2>5, InsertIInv, LockStepIInv
  <2>6. ASSUME NEW m \in Mutexes, MutexUnlock(t, m) PROVE IInv'
    BY <2>6, MutexIInv
  <2>. QED
    BY <1>3, <2>1, <2>2, <2>3, <2>4, <2>5, <2>6 DEF Step
<1>4. ASSUME NEW t \in Tasks, Syscall(t) PROVE IInv'
  BY <1>4, BlockIInv, LockStepIInv, ExitIInv, MutexIInv DEF Syscall
<1>5. ASSUME NEW t \in Tasks, EventChanges(t) PROVE IInv'
  BY <1>5, EventIInv
<1>6. CASE ElsewhereLocks \/ ElsewhereUnlocks
  BY <1>6, ElsewhereIInv
<1>7. ASSUME NEW c \in Tasks, ElsewhereInserts(c) PROVE IInv'
  BY <1>7, InsertIInv
<1>. QED
  BY <1>1, <1>2, <1>3, <1>4, <1>5, <1>6, <1>7, <1>8 DEF Next

\* The run queue holds every live task of the processor once and no other, a blocked task has
\* what is needed to unblock it, and who holds the locks follows from where the tasks are:
\* however forks, execs, exits, blocking calls and interrupts follow each other, as long as
\* the stores of block_* happen in the order of the source.
THEOREM InductiveInvariant == ASSUME SourceOrder PROVE Spec => []IInv
<1>1. IInv /\ [Next]_vars => IInv'
  BY NextIInv
<1>. QED
  BY InitIInv, <1>1, PTL DEF Spec

\* A blocking call returns when what it waits for has happened since it was made: task_block
\* sees a clear flag only after the timer found the task resolved.
THEOREM CallsReturnWhenDue == ASSUME SourceOrder PROVE Spec => ReturnsWhenDue
<1>. DEFINE Due == \A t \in Tasks : pc[t] = "hlt" /\ pc'[t] = "run" =>
                     IF call[t][1] = "sleep" THEN call[t][2] <= ticks ELSE t \in seen
<1>1. ASSUME IInv, [Next]_vars PROVE [Due]_vars
  <2>1. SUFFICES ASSUME Next, NEW t \in Tasks, pc[t] = "hlt", pc'[t] = "run"
                 PROVE  IF call[t][1] = "sleep" THEN call[t][2] <= ticks ELSE t \in seen
    BY <1>1
  <2>2. pc \in [Tasks -> PC]
    BY <1>1 DEF IInv, TypeOK
  <2>3. ~flag[t]
    <3>1. CASE \/ Timer \/ TimerSpin \/ TimerPolls \/ DeviceSpins \/ DeviceDone
               \/ ElsewhereLocks \/ ElsewhereUnlocks
               \/ \E m \in Mutexes : Takes(m)
      BY <2>1, <3>1 DEF Timer, TimerSpin, Select, SelectPanics, SelectNone, TimerPolls,
                        DeviceSpins, DeviceDone, Takes, ElsewhereLocks, ElsewhereUnlocks
    <3>2. ASSUME NEW u \in Tasks, Step(u) PROVE ~flag[t]
      <4>1. CASE Unblocked(u)
        BY <2>1, <2>2, <4>1 DEF Unblocked, Goto
      <4>2. CASE \E s \in Stores : Store(u, s)
        BY <2>1, <2>2, <4>2 DEF Store
      <4>3. CASE TaskAddFails(u) \/ DropLock(u) \/ PickLock(u) \/ PickUnlock(u)
                 \/ InsertThereLock(u) \/ ExitDone(u)
        BY <2>1, <2>2, <4>3 DEF TaskAddFails, DropLock, PickLock, PickUnlock, InsertThereLock,
                                ExitDone, Goto, At
      <4>4. ASSUME NEW c \in Tasks, TaskAddUnlock(u, c) \/ DropUnlock(u, c) PROVE ~flag[t]
        BY <2>1, <2>2, <4>4 DEF TaskAddUnlock, DropUnlock, At
      <4>5. ASSUME NEW c \in Tasks, NEW to \in {"run", "left"},
                   InsertHere(u, c, to) \/ InsertThereUnlock(u, c, to)
            PROVE  ~flag[t]
        BY <2>1, <2>2, <4>5 DEF InsertHere, InsertThereUnlock, At
      <4>6. CASE \E m \in Mutexes : MutexUnlock(u, m)
        BY <2>1, <4>6 DEF MutexUnlock
      <4>. QED
        BY <3>2, <4>1, <4>2, <4>3, <4>4, <4>5, <4>6 DEF Step
    <3>3. ASSUME NEW u \in Tasks, Syscall(u) \/ EventChanges(u) PROVE ~flag[t]
      BY <2>1, <2>2, <3>3 DEF Syscall, BlockSleep, BlockEvent, Block, TaskAddLock, Exit,
                              EventChanges, Goto, At, MutexLock
    <3>4. ASSUME NEW c \in Tasks, ElsewhereInserts(c) PROVE ~flag[t]
      BY <2>1, <2>2, <3>4 DEF ElsewhereInserts
    <3>. QED
      BY <2>1, <3>1, <3>2, <3>3, <3>4 DEF Next
  <2>. QED
    BY <1>1, <2>1, <2>3 DEF IInv, SourceOrdered
<1>2. Spec => []IInv
  BY InductiveInvariant
<1>. QED
  BY <1>1, <1>2, PTL DEF Spec, ReturnsWhenDue

\* A processor that waits for a lock which only a task it does not run can give back waits
\* for ever, and none of its tasks takes a step: an interrupt handler spins with interrupts
\* off, or an exiting task does.
THEOREM WedgedStays == ASSUME SourceOrder PROVE Spec => WedgedForGood
<1>. DEFINE Still == Wedged => /\ Wedged'
                               /\ current' = current
                               /\ \A t \in Tasks : pc[t] # "none" => pc'[t] = pc[t]
<1>1. ASSUME IInv, [Next]_vars PROVE [Still]_vars
  <2>1. SUFFICES ASSUME Next, Wedged
                 PROVE  /\ Wedged' /\ current' = current
                        /\ \A t \in Tasks : pc[t] # "none" => pc'[t] = pc[t]
    BY <1>1
  <2>2. TypeOK /\ LockHolders /\ InterruptsSound /\ BlockerComplete
    BY <1>1 DEF IInv
  <2>3. \/ irq = "spin" /\ lb \in Tasks
        \/ /\ needs # {}
           /\ \/ irq \in {"poll", "device"}
              \/ irq = "idle" /\ current \in Tasks /\ pc[current] = "exit"
    BY <2>1, <2>2 DEF Wedged, InterruptsSound, InterruptsOn, BlockerComplete, TypeOK
  \* The task that has the processor cannot go on.
  <2>4. \A t \in Tasks : Running(t) => pc[t] = "exit" /\ needs # {}
    BY <2>3 DEF Running
  <2>5. ~(Timer \/ TimerSpin \/ TimerPolls \/ DeviceSpins \/ DeviceDone)
    BY <2>3, SchedulerAssumption
       DEF Timer, TimerSpin, TimerPolls, DeviceSpins, DeviceDone, InterruptsOn
  <2>6. ASSUME NEW t \in Tasks PROVE ~Step(t) /\ ~Syscall(t)
    <3>1. \A l : At(t, l) => l = "exit" /\ needs # {}
      BY <2>4 DEF At
    <3>2. ~Unblocked(t) /\ ~ExitDone(t) /\ \A s \in Stores : ~Store(t, s)
      BY <3>1 DEF Unblocked, ExitDone, Store, Goto
    <3>3. /\ ~TaskAddFails(t) /\ ~DropLock(t) /\ ~PickLock(t) /\ ~PickUnlock(t)
          /\ ~InsertThereLock(t)
      BY <3>1 DEF TaskAddFails, DropLock, PickLock, PickUnlock, InsertThereLock, Goto
    <3>4. \A c \in Tasks :
            /\ ~TaskAddUnlock(t, c) /\ ~DropUnlock(t, c)
            /\ \A to \in {"run", "left"} : ~InsertHere(t, c, to) /\ ~InsertThereUnlock(t, c, to)
      BY <3>1 DEF TaskAddUnlock, DropUnlock, InsertHere, InsertThereUnlock
    <3>5. \A m \in Mutexes : ~MutexLock(t, m) /\ ~MutexUnlock(t, m)
      BY <2>2, <2>4 DEF MutexLock, MutexUnlock, Locking, LockHolders
    <3>6. ~Syscall(t)
      <4>1. ~At(t, "run")
        BY <3>1
      <4>2. ~BlockSleep(t) /\ ~BlockEvent(t)
        BY ONLY <4>1 DEF BlockSleep, BlockEvent, Block, Goto
      <4>3. ~TaskAddLock(t) /\ ~Exit(t)
        BY ONLY <4>1 DEF TaskAddLock, Exit, Goto
      <4>. QED
        BY ONLY <3>5, <4>2, <4>3 DEF Syscall
    <3>. QED
      BY ONLY <3>2, <3>3, <3>4, <3>5, <3>6 DEF Step
  <2>. DEFINE Kept == /\ UNCHANGED <<current, irq>>
                      /\ lb \in Tasks => lb' = lb
                      /\ \A m \in needs : held[m] \in Tasks => m \in needs' /\ held'[m] = held[m]
                      /\ \A t \in Tasks : pc[t] # "none" => pc'[t] = pc[t]
  <2>7. ASSUME NEW t \in Tasks, EventChanges(t) PROVE Kept
    BY <2>7 DEF EventChanges, sched, locks
  <2>8. ASSUME ElsewhereLocks \/ ElsewhereUnlocks PROVE Kept
    BY <2>2, <2>8, SchedulerAssumption DEF ElsewhereLocks, ElsewhereUnlocks, sched, TypeOK
  <2>9. ASSUME NEW c \in Tasks, ElsewhereInserts(c) PROVE Kept
    BY <2>2, <2>9 DEF ElsewhereInserts, locks, TypeOK
  <2>10. ASSUME NEW m \in Mutexes, Takes(m) PROVE Kept
    BY <2>10, SchedulerAssumption DEF Takes, sched
  <2>11. Kept
    BY <2>1, <2>5, <2>6, <2>7, <2>8, <2>9, <2>10 DEF Next
  <2>12. Wedged'
    <3>1. CASE irq = "spin" /\ lb \in Tasks
      BY ONLY <2>11, <3>1 DEF Wedged
    <3>2. CASE \E m \in needs : held[m] \in Tasks
      <4>1. PICK m \in needs : held[m] \in Tasks
        BY <3>2
      <4>2. m \in needs' /\ held'[m] \in Tasks
        BY ONLY <2>11, <4>1
      <4>. QED
        BY ONLY <4>2 DEF Wedged
    <3>. QED
      BY <2>1, <2>2, <3>1, <3>2 DEF Wedged, BlockerComplete
  <2>. QED
    BY <2>11, <2>12
<1>2. Spec => []IInv
  BY InductiveInvariant
<1>. QED
  BY <1>1, <1>2, PTL DEF Spec, WedgedForGood

=============================================================================
