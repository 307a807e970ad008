------------------------------ MODULE Scheduler ------------------------------
(***************************************************************************)
(* The run queue of one processor and the tasks pinned to it (scheduler.c, *)
(* task_switch.c, thread_blocker.c, and the parts of fork, exec and exit   *)
(* that touch the queue).                                                  *)
(*                                                                         *)
(* System calls run with interrupts on, so the timer can interrupt a task  *)
(* between any two of its steps, a task that holds a lock included. Three  *)
(* pieces of code run with interrupts off and take locks that tasks hold   *)
(* with interrupts on: the timer handler (the load balancer lock, and what *)
(* the polls of blocked tasks lock), the handlers of devices, and exit.    *)
(* The other processors appear only as holders of locks, and when one of   *)
(* them, under the load balancer lock, inserts a task into this queue.     *)
(***************************************************************************)
EXTENDS Naturals, Sequences

CONSTANTS
  Tasks,         \* the tasks this processor may ever run
  InitTask,      \* /init, in the queue when the timer is started
  Kernel,        \* kernel_task: runs first, is in no queue
  Null,          \* a NULL pointer; a free lock
  Elsewhere,     \* another processor, as the holder of a lock
  Mutexes,       \* the locks, but for the load balancer's, that tasks take
  TasksMutex,    \* kernel.tasks_mutex, one of them
  HandlerLocks,  \* those that interrupt handlers take too
  OtherCPUs,     \* does the machine have other processors?
  SourceOrder,   \* do the stores of block_* happen in the order of the source?
  MaxTicks       \* bound on the clock

ASSUME SchedulerAssumption ==
  /\ InitTask \in Tasks
  /\ Kernel \notin Tasks /\ Null \notin Tasks /\ Elsewhere \notin Tasks
  /\ Null # Elsewhere /\ Kernel \notin {Null, Elsewhere}
  /\ Null \notin {"sleep", "event"}
  /\ TasksMutex \in Mutexes /\ HandlerLocks \subseteq Mutexes
  /\ OtherCPUs \in BOOLEAN /\ SourceOrder \in BOOLEAN
  /\ MaxTicks \in Nat

VARIABLES
  queue,     \* scheduler->queue, from the head's next on
  current,   \* processor->current_task
  ticks,     \* processor->lapic_ticks
  irq,       \* interrupt handlers: "idle"; the timer's in "spin" (waiting for
             \* the load balancer lock), "poll" (for a lock of a poll) or
             \* "panic"; "device" (another one, waiting for a lock)
  lb,        \* who holds kernel.load_balancer_lock
  held,      \* who holds each of the other locks
  needs,     \* locks the code with interrupts off waits for or has yet to take
  pc,        \* where each task is
  flag,      \* TASK_FLAG_BLOCKING of each task
  fn,        \* blocker.try_resolve of each task
  arg,       \* blocker.as of each task: a time to sleep until, or a pointer
  todo,      \* stores of block_* the task has still to do
  call,      \* the kind and argument the task called block_* with
  ready,     \* blocking tasks whose event (input, child, epoll) holds now
  seen       \* those whose event has held since they called block_*

sched == <<queue, current, ticks, irq>>
locks == <<lb, held, needs>>
block == <<flag, fn, arg, todo, call>>
event == <<ready, seen>>
vars  == <<sched, locks, pc, block, event>>

Pointer == MaxTicks + 1   \* an address in blocker.as: beyond every clock value

Kinds  == {"sleep", "event"}
Stores == {"arg", "fn", "flag"}
PC == { "none",            \* not created
        "new",             \* created, in no queue
        "run",             \* user code, or kernel code that holds nothing
        "store", "hlt",    \* block_*: its stores, then the loop of task_block
        "add", "drop",     \* kernel_task_add, drop_task: hold tasks_mutex
        "load",            \* between them: fork and exec fill in the new task
        "pick",            \* pick_processor_for_task: holds the lb lock
        "insert",          \* a processor is picked, the task not yet inserted
        "remote",          \* holds the lb lock to insert into another queue
        "left",            \* old task of an exec: halts for ever, still queued
        "exit", "dead" }   \* sys_exit with interrupts off; halted for ever

NoCall == <<"sleep", 0>>
Blocking(t) == pc[t] \in {"store", "hlt"}

Init ==
  /\ queue = <<InitTask>>
  /\ current = Kernel
  /\ ticks = 0
  /\ irq = "idle"
  /\ lb = Null
  /\ held = [m \in Mutexes |-> Null]
  /\ needs = {}
  /\ pc = [t \in Tasks |-> IF t = InitTask THEN "run" ELSE "none"]
  /\ flag = [t \in Tasks |-> FALSE]
  /\ fn = [t \in Tasks |-> Null]
  /\ arg = [t \in Tasks |-> 0]
  /\ todo = [t \in Tasks |-> {}]
  /\ call = [t \in Tasks |-> NoCall]
  /\ ready = {} /\ seen = {}

-----------------------------------------------------------------------------
(* The timer interrupt: task_switch, task_select, switch_to. *)

\* Faulty: the comparison is the wrong way round.
ResolvesFaulty(t) ==
  \/ fn[t] = "sleep" /\ arg[t] >= ticks
  \/ fn[t] = "event" /\ t \in ready

\* Faulty: a sleep ends only in the tick of its deadline.
ResolvesMissed(t) ==
  \/ fn[t] = "sleep" /\ arg[t] = ticks
  \/ fn[t] = "event" /\ t \in ready

\* blocker.try_resolve(t), for a task whose blocker is consistent.
Resolves(t) ==
  \/ fn[t] = "sleep" /\ arg[t] <= ticks
  \/ fn[t] = "event" /\ t \in ready

\* try_resolve is NULL, or a function of another kind than the argument.
Broken(t) == fn[t] = Null \/ (fn[t] = "event" /\ arg[t] # Pointer)

\* task_select stops at this task, to run it or because it cannot go on.
StopsAt(t) == ~flag[t] \/ Broken(t) \/ Resolves(t)

FirstStop(k) ==
  /\ k \in 1 .. Len(queue)
  /\ StopsAt(queue[k])
  /\ \A i \in 1 .. k - 1 : ~StopsAt(queue[i])

\* Faulty: the tasks looked at stay at the head.
RotateFaulty(q, k) == q

\* Each task looked at moves from the head of the queue to its tail.
Rotate(q, k) ==
  [i \in 1 .. Len(q) |-> IF i + k <= Len(q) THEN q[i + k] ELSE q[i + k - Len(q)]]

\* The clock saturates at its bound, and the interrupts go on.
Tick == ticks' = IF ticks < MaxTicks THEN ticks + 1 ELSE ticks

Select(k) ==
  /\ FirstStop(k)
  /\ ~(flag[queue[k]] /\ Broken(queue[k]))
  /\ queue' = Rotate(queue, k)
  /\ flag' = [flag EXCEPT ![queue[k]] = FALSE]
  /\ current' = queue[k]
  /\ irq' = "idle"
  /\ lb' = Null
  /\ Tick
  /\ UNCHANGED <<held, needs, pc, fn, arg, todo, call, event>>

\* debug_assert(try_resolve), or a fault in it: kpanic, with the lock held.
SelectPanics(k) ==
  /\ FirstStop(k)
  /\ flag[queue[k]] /\ Broken(queue[k])
  /\ queue' = Rotate(queue, k)
  /\ irq' = "panic"
  /\ lb' = Kernel
  /\ UNCHANGED <<current, ticks, held, needs, pc, block, event>>

\* No task can run: the queue has made a full turn and current goes on.
SelectNone ==
  /\ \A i \in 1 .. Len(queue) : ~StopsAt(queue[i])
  /\ irq' = "idle"
  /\ lb' = Null
  /\ Tick
  /\ UNCHANGED <<queue, current, held, needs, pc, block, event>>

InterruptsOn == current \in Tasks => pc[current] # "exit"

\* task_select spins while the lock is taken, and no task can run meanwhile.
TimerSpin ==
  /\ irq = "idle" /\ InterruptsOn
  /\ lb # Null
  /\ irq' = "spin"
  /\ UNCHANGED <<queue, current, ticks, locks, pc, block, event>>

\* The task is asked whether its wait is over.
Polled(k) ==
  /\ flag[queue[k]] /\ ~Broken(queue[k]) /\ fn[queue[k]] = "event"
  /\ \A i \in 1 .. k - 1 : ~StopsAt(queue[i])

\* What try_resolve calls takes locks (epoll_poll, is_readable of servers and
\* of the multiplexer, kwarn): w are those it finds taken.
TimerPolls ==
  /\ irq \in {"idle", "spin"} /\ InterruptsOn
  /\ lb = Null
  /\ \E k \in 1 .. Len(queue) : Polled(k)
  /\ \E w \in SUBSET {m \in HandlerLocks : held[m] # Null} :
       w # {} /\ needs' = w
  /\ irq' = "poll"
  /\ lb' = Kernel
  /\ UNCHANGED <<queue, current, ticks, held, pc, block, event>>

\* The handlers of the keyboard, the serial line and others log what is odd.
DeviceSpins ==
  /\ irq = "idle" /\ InterruptsOn
  /\ \E w \in SUBSET {m \in HandlerLocks : held[m] # Null} :
       w # {} /\ needs' = w
  /\ irq' = "device"
  /\ UNCHANGED <<queue, current, ticks, lb, held, pc, block, event>>

DeviceDone ==
  /\ irq = "device" /\ needs = {}
  /\ irq' = "idle"
  /\ UNCHANGED <<queue, current, ticks, locks, pc, block, event>>

\* Faulty: the lock is not waited for.
TakesFaulty(m) ==
  /\ m \in needs
  /\ needs' = needs \ {m}
  /\ UNCHANGED <<sched, lb, held, pc, block, event>>

\* Code with interrupts off takes a lock that is free, and gives it back.
Takes(m) ==
  /\ m \in needs /\ held[m] = Null
  /\ needs' = needs \ {m}
  /\ UNCHANGED <<sched, lb, held, pc, block, event>>

\* The whole handler, when no lock it takes is taken or none is any more.
Timer ==
  /\ InterruptsOn
  /\ \/ irq \in {"idle", "spin"} /\ lb = Null
     \/ irq = "poll" /\ needs = {}
  /\ SelectNone \/ \E k \in 1 .. Len(queue) : Select(k) \/ SelectPanics(k)

-----------------------------------------------------------------------------
(* What the task that has the processor does. *)

\* Where a task may hold locks besides those its label says, nested or not: in
\* a system call of any kind, and while a task or a process is created.
Locking == {"run", "add", "load", "drop", "left"}

Running(t) == irq = "idle" /\ current = t

\* A critical section: of cache_alloc, the page bitmap, processes_mutex, the
\* table of inodes, buffers, the pending queue of a server, the log.
MutexLock(t, m) ==
  /\ Running(t) /\ pc[t] \in Locking
  /\ m # TasksMutex /\ held[m] = Null
  /\ held' = [held EXCEPT ![m] = t]
  /\ UNCHANGED <<sched, lb, needs, pc, block, event>>

MutexUnlock(t, m) ==
  /\ Running(t)
  /\ m # TasksMutex /\ held[m] = t
  /\ held' = [held EXCEPT ![m] = Null]
  /\ UNCHANGED <<sched, lb, needs, pc, block, event>>

\* Such a section ends before the task goes on to what comes next.
At(t, label) ==
  /\ Running(t) /\ pc[t] = label
  /\ \A m \in Mutexes \ {TasksMutex} : held[m] # t

Goto(t, from, to) ==
  /\ At(t, from)
  /\ pc' = [pc EXCEPT ![t] = to]

\* A system call that blocks: sys_sleepfor reads the clock here. The event may
\* hold already: that of this call, or of the last one until fn is stored.
Block(t, kind, x) ==
  /\ Goto(t, "run", "store")
  /\ todo' = [todo EXCEPT ![t] = Stores]
  /\ call' = [call EXCEPT ![t] = <<kind, x>>]
  /\ \E up \in SUBSET {t} :
       /\ up # {} => "event" \in {kind, fn[t]}
       /\ ready' = ready \cup up /\ seen' = seen \cup up
  /\ UNCHANGED <<sched, locks, flag, fn, arg>>

BlockSleep(t) == \E ms \in 1 .. MaxTicks :
  /\ ticks + ms <= MaxTicks
  /\ Block(t, "sleep", ticks + ms)

BlockEvent(t) == Block(t, "event", Pointer)

\* The stores of block_sleepuntil and its siblings. Nothing in C orders them
\* before the hlt: gcc -O2 sets the flag first.
MayStore(t, s) ==
  /\ s \in todo[t]
  /\ SourceOrder => \/ s = "arg"
                    \/ s = "fn"   /\ "arg" \notin todo[t]
                    \/ s = "flag" /\ todo[t] = {"flag"}

Store(t, s) ==
  /\ At(t, "store")
  /\ MayStore(t, s)
  /\ todo' = [todo EXCEPT ![t] = @ \ {s}]
  /\ pc' = [pc EXCEPT ![t] = IF todo[t] = {s} THEN "hlt" ELSE "store"]
  /\ arg' = IF s = "arg" THEN [arg EXCEPT ![t] = call[t][2]] ELSE arg
  /\ fn' = IF s = "fn" THEN [fn EXCEPT ![t] = call[t][1]] ELSE fn
  /\ flag' = IF s = "flag" THEN [flag EXCEPT ![t] = TRUE] ELSE flag
  /\ UNCHANGED <<sched, locks, call, event>>

\* while(flags & BLOCKING) hlt
Unblocked(t) ==
  /\ Goto(t, "hlt", "run")
  /\ ~flag[t]
  /\ call' = [call EXCEPT ![t] = NoCall]
  /\ ready' = ready \ {t}
  /\ seen' = seen \ {t}
  /\ UNCHANGED <<sched, locks, flag, fn, arg, todo>>

-----------------------------------------------------------------------------
(* fork and exec: a task is created, a processor picked, the task queued. *)

TaskAddLock(t) ==
  /\ Goto(t, "run", "add")
  /\ held[TasksMutex] = Null
  /\ held' = [held EXCEPT ![TasksMutex] = t]
  /\ UNCHANGED <<sched, lb, needs, block, event>>

\* The allocation may fail.
TaskAddFails(t) ==
  /\ Goto(t, "add", "run")
  /\ held' = [held EXCEPT ![TasksMutex] = Null]
  /\ UNCHANGED <<sched, lb, needs, block, event>>

\* c is the new task.
TaskAddUnlock(t, c) ==
  /\ At(t, "add")
  /\ pc[c] = "none"
  /\ pc' = [pc EXCEPT ![t] = "load", ![c] = "new"]
  /\ held' = [held EXCEPT ![TasksMutex] = Null]
  /\ UNCHANGED <<sched, lb, needs, block, event>>

\* The image could not be loaded or copied: drop_task(c).
DropLock(t) ==
  /\ Goto(t, "load", "drop")
  /\ held[TasksMutex] = Null
  /\ held' = [held EXCEPT ![TasksMutex] = t]
  /\ UNCHANGED <<sched, lb, needs, block, event>>

DropUnlock(t, c) ==
  /\ At(t, "drop")
  /\ pc[c] = "new"
  /\ pc' = [pc EXCEPT ![t] = "run", ![c] = "none"]
  /\ held' = [held EXCEPT ![TasksMutex] = Null]
  /\ UNCHANGED <<sched, lb, needs, block, event>>

PickLock(t) ==
  /\ Goto(t, "load", "pick")
  /\ lb = Null
  /\ lb' = t
  /\ UNCHANGED <<sched, held, needs, block, event>>

PickUnlock(t) ==
  /\ Goto(t, "pick", "insert")
  /\ lb' = Null
  /\ UNCHANGED <<sched, held, needs, block, event>>

\* A new task starts with a clear flag and a zeroed blocker.
Enqueue(c) == queue' = Append(queue, c)

\* cli; list_insert; sti: no lock, but nothing of this processor intervenes.
\* After an exec the caller halts for ever, and stays in the queue.
InsertHere(t, c, to) ==
  /\ At(t, "insert")
  /\ pc[c] = "new"
  /\ pc' = [pc EXCEPT ![t] = to, ![c] = "run"]
  /\ Enqueue(c)
  /\ UNCHANGED <<current, ticks, irq, locks, block, event>>

\* The other processor's queue, and the task once there, are not in this model.
InsertThereLock(t) ==
  /\ OtherCPUs
  /\ Goto(t, "insert", "remote")
  /\ lb = Null
  /\ lb' = t
  /\ UNCHANGED <<sched, held, needs, block, event>>

InsertThereUnlock(t, c, to) ==
  /\ At(t, "remote")
  /\ pc[c] = "new"
  /\ pc' = [pc EXCEPT ![t] = to, ![c] = "none"]
  /\ lb' = Null
  /\ UNCHANGED <<sched, held, needs, block, event>>

-----------------------------------------------------------------------------
(* sys_exit *)

\* Faulty: the task stays in the queue.
ExitFaulty(t) ==
  /\ Goto(t, "run", "exit")
  /\ UNCHANGED <<sched, locks, block, event>>

\* cli; list_remove. What the process had is then given back under the locks of
\* its kind: tasks_mutex always, the others as the process has files, sockets,
\* shared memory, pages; that of the processes and the page bitmap's too.
Exit(t) ==
  /\ Goto(t, "run", "exit")
  /\ needs' \in {w \in SUBSET Mutexes : TasksMutex \in w}
  /\ \E i \in 1 .. Len(queue) :
       /\ queue[i] = t
       /\ queue' = SubSeq(queue, 1, i - 1) \o SubSeq(queue, i + 1, Len(queue))
  /\ UNCHANGED <<current, ticks, irq, lb, held, block, event>>

\* The last lock has been given back: sti and hlt for ever.
ExitDone(t) ==
  /\ Goto(t, "exit", "dead")
  /\ needs = {}
  /\ UNCHANGED <<sched, locks, block, event>>

-----------------------------------------------------------------------------
(* The rest of the machine. *)

\* Input arrives or is consumed, children exit.
EventChanges(t) ==
  /\ Blocking(t) /\ "event" \in {call[t][1], fn[t]}
  /\ ready' = IF t \in ready THEN ready \ {t} ELSE ready \cup {t}
  /\ seen' = seen \cup {t}
  /\ UNCHANGED <<sched, locks, pc, block>>

ElsewhereLocks ==
  /\ OtherCPUs
  /\ \/ lb = Null /\ lb' = Elsewhere /\ held' = held
     \/ /\ lb' = lb
        /\ \E m \in Mutexes :
             held[m] = Null /\ held' = [held EXCEPT ![m] = Elsewhere]
  /\ UNCHANGED <<sched, needs, pc, block, event>>

ElsewhereUnlocks ==
  /\ \/ lb = Elsewhere /\ lb' = Null /\ held' = held
     \/ /\ lb' = lb
        /\ \E m \in Mutexes :
             held[m] = Elsewhere /\ held' = [held EXCEPT ![m] = Null]
  /\ UNCHANGED <<sched, needs, pc, block, event>>

\* Another processor's fork or exec picked this one.
ElsewhereInserts(c) ==
  /\ lb = Elsewhere
  /\ pc[c] = "none"
  /\ pc' = [pc EXCEPT ![c] = "run"]
  /\ Enqueue(c)
  /\ UNCHANGED <<current, ticks, irq, locks, block, event>>

-----------------------------------------------------------------------------
\* Kernel code a task executes whenever it has the processor.
Step(t) ==
  \/ \E s \in Stores : Store(t, s)
  \/ Unblocked(t)
  \/ TaskAddFails(t) \/ DropLock(t)
  \/ PickLock(t) \/ PickUnlock(t) \/ InsertThereLock(t)
  \/ \E c \in Tasks : TaskAddUnlock(t, c) \/ DropUnlock(t, c)
  \/ \E c \in Tasks, to \in {"run", "left"} :
       InsertHere(t, c, to) \/ InsertThereUnlock(t, c, to)
  \/ \E m \in Mutexes : MutexUnlock(t, m)
  \/ ExitDone(t)

\* System calls a task may make.
Syscall(t) ==
  \/ BlockSleep(t) \/ BlockEvent(t) \/ TaskAddLock(t) \/ Exit(t)
  \/ \E m \in Mutexes : MutexLock(t, m)

Next ==
  \/ Timer \/ TimerSpin \/ TimerPolls
  \/ DeviceSpins \/ DeviceDone
  \/ \E m \in Mutexes : Takes(m)
  \/ \E t \in Tasks : Step(t) \/ Syscall(t) \/ EventChanges(t)
  \/ ElsewhereLocks \/ ElsewhereUnlocks
  \/ \E c \in Tasks : ElsewhereInserts(c)

Spec == Init /\ [][Next]_vars

\* The timer keeps ticking. A section with interrupts off runs to its end. A
\* task that is given the processor again and again gets something done in its
\* time slices, but nothing makes it win a lock that others want.
Fairness ==
  /\ WF_vars(Timer \/ TimerSpin \/ TimerPolls)
  /\ WF_vars(DeviceDone)
  /\ \A m \in Mutexes : WF_vars(Takes(m))
  /\ \A t \in Tasks :
       /\ WF_vars(ExitDone(t))
       /\ SF_vars(Unblocked(t) \/ \E s \in Stores : Store(t, s))

FairSpec == Spec /\ Fairness

-----------------------------------------------------------------------------
TypeOK ==
  /\ queue \in Seq(Tasks)
  /\ current \in Tasks \cup {Kernel}
  /\ ticks \in 0 .. MaxTicks
  /\ irq \in {"idle", "spin", "poll", "device", "panic"}
  /\ lb \in Tasks \cup {Null, Elsewhere, Kernel}
  /\ held \in [Mutexes -> Tasks \cup {Null, Elsewhere}]
  /\ needs \in SUBSET Mutexes
  /\ pc \in [Tasks -> PC]
  /\ flag \in [Tasks -> BOOLEAN]
  /\ fn \in [Tasks -> Kinds \cup {Null}]
  /\ arg \in [Tasks -> 0 .. Pointer]
  /\ todo \in [Tasks -> SUBSET Stores]
  /\ call \in [Tasks -> Kinds \X (0 .. Pointer)]
  /\ ready \in SUBSET Tasks
  /\ seen \in SUBSET Tasks

Queued(t) == \E i \in 1 .. Len(queue) : queue[i] = t

Gone == {"none", "new", "exit", "dead"}

\* Every live task of the processor is in its run queue once, and no task that
\* was not inserted yet or has exited is in it: the rotation of task_select,
\* insertions and exits in any order neither lose nor double a task.
QueueIntact ==
  /\ \A i, j \in 1 .. Len(queue) : queue[i] = queue[j] => i = j
  /\ \A t \in Tasks : Queued(t) <=> pc[t] \notin Gone

\* A system call that blocks returns only when what it waits for has happened
\* since it was called: a sleep not before its time, a wait for input not
\* before there was some.
ReturnsWhenDue ==
  [][\A t \in Tasks : pc[t] = "hlt" /\ pc'[t] = "run" =>
       IF call[t][1] = "sleep" THEN call[t][2] <= ticks ELSE t \in seen]_vars

\* The processor waits, with interrupts off, for a lock that only a task which
\* cannot run any more can give back: the timer interrupted the holder of the
\* load balancer lock, or what a poll, the handler of a device or an exit has to
\* lock is held by a task that was preempted or interrupted.
Wedged ==
  \/ irq = "panic"
  \/ irq = "spin" /\ lb \in Tasks
  \/ \E m \in needs : held[m] \in Tasks

\* Nothing ends that wait: no task of the processor takes a step ever again,
\* whatever the other processors do.
WedgedForGood ==
  [][Wedged => /\ Wedged'
               /\ current' = current
               /\ \A t \in Tasks : pc[t] # "none" => pc'[t] = pc[t]]_vars

\* Unless the other processors take the locks again and again: a spinning handler
\* need not win them.
Undisturbed == <>[](lb # Elsewhere /\ \A m \in Mutexes : held[m] # Elsewhere)

\* A queued task that is not blocked gets the processor, unless the processor
\* is wedged.
Dispatched == Undisturbed =>
  \A t \in Tasks : (Queued(t) /\ ~flag[t]) ~> (current = t \/ Wedged \/ ~Queued(t))

\* Every sleep ends: the task goes on after its call, unless the processor is
\* wedged.
SleepEnds == Undisturbed =>
  \A t \in Tasks :
    (Blocking(t) /\ call[t][1] = "sleep")
      ~> (pc[t] = "run" \/ Wedged)

-----------------------------------------------------------------------------
(* The inductive invariant. *)

\* Who holds which lock follows from where the tasks are.
LockHolders ==
  /\ \A t \in Tasks : lb = t <=> pc[t] \in {"pick", "remote"}
  /\ \A t \in Tasks : held[TasksMutex] = t <=> pc[t] \in {"add", "drop"}
  /\ \A m \in Mutexes, t \in Tasks : held[m] = t => pc[t] \in Locking
  /\ lb = Kernel <=> irq \in {"poll", "panic"}

\* Only the interrupted task of a spinning handler, and only a task that has
\* just left the queue, may be off it.
CurrentQueued ==
  current \in Tasks => Queued(current) \/ pc[current] \in {"exit", "dead"}

\* Only a task with its interrupts on is interrupted, and only handlers and an
\* exit wait with interrupts off.
InterruptsSound ==
  /\ irq # "idle" => InterruptsOn
  /\ \A t \in Tasks : pc[t] = "exit" => current = t
  /\ needs # {} => ~InterruptsOn \/ irq \in {"poll", "device", "panic"}

\* The stores of block_* that are still to do, and what the others have done.
BlockerStores ==
  \A t \in Tasks :
    /\ todo[t] # {} <=> pc[t] = "store"
    /\ flag[t] => Blocking(t)
    /\ pc[t] = "store" /\ "flag" \in todo[t] => ~flag[t]
    /\ Blocking(t) =>
         /\ "arg" \notin todo[t] => arg[t] = call[t][2]
         /\ "fn" \notin todo[t] => fn[t] = call[t][1]
         /\ call[t][1] = "event" <=> call[t][2] = Pointer

\* An event that holds during a call is recorded for that call.
SeenReady ==
  \A t \in Tasks :
    /\ t \in ready => t \in seen
    /\ t \in seen => Blocking(t)

\* In the order of the source, a set flag means the other stores are done, and a
\* task out of its loop with a clear flag is due.
SourceOrdered ==
  SourceOrder =>
    \A t \in Tasks :
      /\ flag[t] => todo[t] = {}
      /\ pc[t] = "store" => todo[t] \in {Stores, {"fn", "flag"}, {"flag"}}
      /\ pc[t] = "hlt" /\ ~flag[t] =>
           IF call[t][1] = "sleep" THEN call[t][2] <= ticks ELSE t \in seen

\* scheduler.c:51, debug_assert(task->blocker.try_resolve): in the order of the
\* source task_select never meets a blocking task without a function to unblock
\* it, nor one whose function is of another kind than its argument.
BlockerComplete == irq # "panic"

\* The queue and the blockers are sound, and who holds the locks and what is left
\* to store follows from where the tasks are.
IInv ==
  /\ TypeOK /\ QueueIntact /\ LockHolders /\ CurrentQueued
  /\ InterruptsSound /\ BlockerStores /\ SeenReady /\ SourceOrdered /\ BlockerComplete

=============================================================================
