------------------------------- MODULE Process -------------------------------
(***************************************************************************)
(* Processes: fork, exec, exit and waitpid (arch/x86_64/syscall.c, exec.c, *)
(* process.c, thread_blocker.c).                                           *)
(*                                                                         *)
(* A process is an object of the slab cache, a slot of the process table   *)
(* (its pid) and the tasks that run it. Its parent is a plain pointer: the *)
(* object may have been freed, and reused, when it is followed. A freed    *)
(* object keeps its contents until kernel_process_add clears it.           *)
(*                                                                         *)
(* One processor: the timer switches tasks between any two steps, but the  *)
(* whole of sys_exit runs with interrupts off and is one action.           *)
(*                                                                         *)
(* The result of exit is its caller, so that every process exits with a    *)
(* result of its own.                                                      *)
(***************************************************************************)
EXTENDS Naturals, FiniteSets, FiniteSetsExt

CONSTANTS
  Tasks,      \* task objects: one for each fork and exec, never reused
  InitTask,   \* the task of /init
  Objs,       \* addresses of process objects
  InitObj,    \* the process object of /init
  NPids,      \* slots of the process table
  NChildren,  \* MAX_CHILD_PROCESSES
  Null

ASSUME ProcessAssumption ==
  /\ InitTask \in Tasks /\ InitObj \in Objs
  /\ IsFiniteSet(Objs) /\ NPids \in Nat /\ NPids >= Cardinality(Objs)
  /\ NChildren \in Nat \ {0}
  /\ Null \notin Tasks \cup Objs

Pids     == 0 .. NPids - 1
Invalid  == NPids              \* INVALID_PROCESS_ID
Children == 1 .. NChildren

VARIABLES
  used,      \* process objects that are allocated
  table,     \* kernel.processes: the object at each pid, or Null
  id, parent, main, children,   \* fields of the process objects
  proc,      \* per task: task->process
  pc,        \* per task: where it is
  slot,      \* per task: the child entry it found, during a call; else 0
  new,       \* per task: the object or task it is creating, during a call
  panicked,  \* an assertion has failed: the kernel has stopped
  \* The history, which the code does not keep:
  root,      \* per task: the first task of the process it runs
  tenant,    \* per object: the first task of the process it was allocated for
  dad,       \* per first task: the first task of the process that forked it
  pid,       \* per first task: the pid it was given
  home,      \* per first task: its entry in its parent's children[]
  exited,    \* first tasks of the processes that have called exit
  result     \* what the last waitpid returned: <<caller, pid, code>>

objects == <<used, table, id, parent, main, children>>
threads == <<proc, pc, slot, new>>
history == <<root, tenant, dad, pid, home, exited, result>>
vars    == <<objects, threads, panicked, history>>

NoChild == [id |-> Invalid, dead |-> FALSE, code |-> Null]

PC == { "none",              \* not created
        "run",               \* user code
        "fork", "forked",    \* sys_fork: process added; child queued
        "exec", "execed",    \* sys_exec: task added; task queued
        "wait",              \* blocked in sys_waitpid
        "halt" }             \* exited, or replaced by exec

Init ==
  /\ used = {InitObj}
  /\ table = [p \in Pids |-> IF p = 0 THEN InitObj ELSE Null]
  /\ id = [o \in Objs |-> 0]
  /\ parent = [o \in Objs |-> Null]
  /\ main = [o \in Objs |-> IF o = InitObj THEN InitTask ELSE Null]
  /\ children = [o \in Objs |-> [i \in Children |-> NoChild]]
  /\ proc = [t \in Tasks |-> IF t = InitTask THEN InitObj ELSE Null]
  /\ pc = [t \in Tasks |-> IF t = InitTask THEN "run" ELSE "none"]
  /\ slot = [t \in Tasks |-> 0]
  /\ new = [t \in Tasks |-> Null]
  /\ panicked = FALSE
  /\ root = [t \in Tasks |-> IF t = InitTask THEN InitTask ELSE Null]
  /\ tenant = [o \in Objs |-> IF o = InitObj THEN InitTask ELSE Null]
  /\ dad = [t \in Tasks |-> Null]
  /\ pid = [t \in Tasks |-> IF t = InitTask THEN 0 ELSE Invalid]
  /\ home = [t \in Tasks |-> 0]
  /\ exited = {}
  /\ result = <<Null, Invalid, Null>>

-----------------------------------------------------------------------------
At(t, label) == ~panicked /\ pc[t] = label

Goto(t, from, to) ==
  /\ At(t, from)
  /\ pc' = [pc EXCEPT ![t] = to]

\* The loops over children[] stop at the first entry with the id.
Entries(o, x) == {i \in Children : children[o][i].id = x}
\* Faulty: the loop does not stop at the first.
LastEntry(o, x) == Max(Entries(o, x))

FirstEntry(o, x) == Min(Entries(o, x))

\* ptr_darray_pick_empty_slot, under processes_mutex.
EmptySlot == Min({p \in Pids : table[p] = Null})

-----------------------------------------------------------------------------
(* sys_fork *)

\* Faulty: the entries that the object had are not cleared.
ForkAddFaulty(t, o) ==
  LET p == proc[t]
      i == FirstEntry(p, Invalid)
      x == EmptySlot
  IN  /\ Goto(t, "run", "fork")
      /\ Entries(p, Invalid) # {}
      /\ o \notin used
      /\ used' = used \cup {o}
      /\ table' = [table EXCEPT ![x] = o]
      /\ id' = [id EXCEPT ![o] = x]
      /\ parent' = [parent EXCEPT ![o] = p]
      /\ main' = [main EXCEPT ![o] = Null]
      /\ children' = [children EXCEPT ![p][i].id = x]
      /\ new' = [new EXCEPT ![t] = o]
      /\ slot' = [slot EXCEPT ![t] = i]
      /\ tenant' = [tenant EXCEPT ![o] = Null]
      /\ UNCHANGED <<proc, panicked, root, dad, pid, home, exited, result>>

\* A free child entry, then kernel_process_add, then the entry and the parent.
ForkAdd(t, o) ==
  LET p == proc[t]
      i == FirstEntry(p, Invalid)
      x == EmptySlot
  IN  /\ Goto(t, "run", "fork")
      /\ Entries(p, Invalid) # {}
      /\ o \notin used
      /\ used' = used \cup {o}
      /\ table' = [table EXCEPT ![x] = o]
      /\ id' = [id EXCEPT ![o] = x]
      /\ parent' = [parent EXCEPT ![o] = p]
      /\ main' = [main EXCEPT ![o] = Null]
      /\ children' = [children EXCEPT ![o] = [j \in Children |-> NoChild],
                                      ![p][i].id = x]
      /\ new' = [new EXCEPT ![t] = o]
      /\ slot' = [slot EXCEPT ![t] = i]
      /\ tenant' = [tenant EXCEPT ![o] = Null]
      /\ UNCHANGED <<proc, panicked, root, dad, pid, home, exited, result>>

\* process_drop
Drop(o) ==
  /\ used' = used \ {o}
  /\ table' = IF table[id[o]] = o THEN [table EXCEPT ![id[o]] = Null] ELSE table

\* Out of memory: the process is dropped, the entry in children[] stays.
ForkFails(t) ==
  /\ Goto(t, "fork", "run")
  /\ Drop(new[t])
  /\ new' = [new EXCEPT ![t] = Null]
  /\ slot' = [slot EXCEPT ![t] = 0]
  /\ UNCHANGED <<id, parent, main, children, proc, panicked, history>>

\* kernel_task_add, fork: from here on the child runs.
ForkQueue(t, u) ==
  LET o == new[t] IN
  /\ At(t, "fork")
  /\ pc[u] = "none"
  /\ pc' = [pc EXCEPT ![t] = "forked", ![u] = "run"]
  /\ main' = [main EXCEPT ![o] = u]
  /\ proc' = [proc EXCEPT ![u] = o]
  /\ new' = [new EXCEPT ![t] = u]
  /\ root' = [root EXCEPT ![u] = u]
  /\ tenant' = [tenant EXCEPT ![o] = u]
  /\ dad' = [dad EXCEPT ![u] = root[t]]
  /\ pid' = [pid EXCEPT ![u] = id[o]]
  /\ home' = [home EXCEPT ![u] = slot[t]]
  /\ UNCHANGED <<used, table, id, parent, children, slot, panicked, exited, result>>

\* return result->process->id: read after the child may have run, and exited.
ForkReturn(t) ==
  /\ Goto(t, "forked", "run")
  /\ new' = [new EXCEPT ![t] = Null]
  /\ slot' = [slot EXCEPT ![t] = 0]
  /\ UNCHANGED <<objects, proc, panicked, history>>

-----------------------------------------------------------------------------
(* sys_exec *)

\* assert(cur_proc->main_thread == cur_task)
ExecAsserts(t) ==
  /\ At(t, "run")
  /\ main[proc[t]] # t
  /\ panicked' = TRUE
  /\ UNCHANGED <<objects, threads, history>>

ExecAdd(t, u) ==
  /\ At(t, "run")
  /\ main[proc[t]] = t
  /\ pc[u] = "none"
  /\ pc' = [pc EXCEPT ![t] = "exec"]
  /\ new' = [new EXCEPT ![t] = u]
  /\ UNCHANGED <<objects, proc, slot, panicked, history>>

\* The program cannot be loaded: drop_task, and the caller goes on.
ExecFails(t) ==
  /\ Goto(t, "exec", "run")
  /\ new' = [new EXCEPT ![t] = Null]
  /\ UNCHANGED <<objects, proc, slot, panicked, history>>

\* exec queues the new task, which may run before its caller goes on.
ExecQueue(t) ==
  LET u == new[t] IN
  /\ At(t, "exec")
  /\ pc[u] = "none"
  /\ pc' = [pc EXCEPT ![t] = "execed", ![u] = "run"]
  /\ proc' = [proc EXCEPT ![u] = proc[t]]
  /\ root' = [root EXCEPT ![u] = root[t]]
  /\ UNCHANGED <<objects, slot, new, panicked, tenant, dad, pid, home, exited, result>>

\* Faulty: main_thread is not set.
ExecReturnFaulty(t) ==
  /\ Goto(t, "execed", "halt")
  /\ new' = [new EXCEPT ![t] = Null]
  /\ UNCHANGED <<objects, proc, slot, panicked, history>>

\* cur_proc->main_thread = task, through a pointer that may be stale by now.
ExecReturn(t) ==
  /\ Goto(t, "execed", "halt")
  /\ main' = [main EXCEPT ![proc[t]] = new[t]]
  /\ new' = [new EXCEPT ![t] = Null]
  /\ UNCHANGED <<used, table, id, parent, children, proc, slot, panicked, history>>

-----------------------------------------------------------------------------
(* sys_exit *)

\* Interrupts are off from the search for the entry to the end. Without a parent,
\* or an entry in its children[], nothing is reported. The build merges
\* child_process_mark_dead and child_process_set_exit_code into one store.
Exit(t) ==
  LET o == proc[t]
      p == parent[o]
      found == IF p = Null THEN {} ELSE Entries(p, id[o])
  IN  /\ Goto(t, "run", "halt")
      /\ children' = IF found = {} THEN children
                     ELSE [children EXCEPT ![p][Min(found)].dead = TRUE,
                                           ![p][Min(found)].code = t]
      /\ Drop(o)
      /\ exited' = exited \cup {root[t]}
      /\ UNCHANGED <<id, parent, main, proc, slot, new, panicked,
                     root, tenant, dad, pid, home, result>>

-----------------------------------------------------------------------------
(* sys_waitpid *)

WaitFind(t, x) ==
  /\ Goto(t, "run", "wait")
  /\ Entries(proc[t], x) # {}
  /\ slot' = [slot EXCEPT ![t] = FirstEntry(proc[t], x)]
  /\ UNCHANGED <<objects, proc, new, panicked, history>>

\* Faulty: the entry is freed, and stays dead.
WaitResolveFaulty(t) ==
  LET o == proc[t]
      entry == children[o][slot[t]]
  IN  /\ Goto(t, "wait", "run")
      /\ entry.dead
      /\ children' = [children EXCEPT ![o][slot[t]].id = Invalid]
      /\ slot' = [slot EXCEPT ![t] = 0]
      /\ result' = <<root[t], entry.id, entry.code>>
      /\ UNCHANGED <<used, table, id, parent, main, proc, new, panicked,
                     root, tenant, dad, pid, home, exited>>

\* Faulty: the child need not have exited.
WaitResolveEarly(t) ==
  LET o == proc[t]
      entry == children[o][slot[t]]
  IN  /\ Goto(t, "wait", "run")
      /\ children' = [children EXCEPT ![o][slot[t]] = NoChild]
      /\ slot' = [slot EXCEPT ![t] = 0]
      /\ result' = <<root[t], entry.id, entry.code>>
      /\ UNCHANGED <<used, table, id, parent, main, proc, new, panicked,
                     root, tenant, dad, pid, home, exited>>

\* try_resolve_waitpid, in the timer handler of the caller's processor.
WaitResolve(t) ==
  LET o == proc[t]
      entry == children[o][slot[t]]
  IN  /\ Goto(t, "wait", "run")
      /\ entry.dead
      /\ children' = [children EXCEPT ![o][slot[t]] = NoChild]
      /\ slot' = [slot EXCEPT ![t] = 0]
      /\ result' = <<root[t], entry.id, entry.code>>
      /\ UNCHANGED <<used, table, id, parent, main, proc, new, panicked,
                     root, tenant, dad, pid, home, exited>>

-----------------------------------------------------------------------------
\* A system call once made goes on, as soon as it can.
Step(t) ==
  \/ ForkFails(t)
  \/ \E u \in Tasks : ForkQueue(t, u)
  \/ ForkReturn(t)
  \/ ExecFails(t) \/ ExecQueue(t) \/ ExecReturn(t)
  \/ WaitResolve(t)

Syscall(t) ==
  \/ \E o \in Objs : ForkAdd(t, o)
  \/ ExecAsserts(t)
  \/ \E u \in Tasks : ExecAdd(t, u)
  \/ Exit(t)
  \/ \E x \in Pids : WaitFind(t, x)

Next == \E t \in Tasks : Step(t) \/ Syscall(t)

Spec == Init /\ [][Next]_vars

-----------------------------------------------------------------------------
(* Properties. A process is named by its first task. *)

Live(r) == root[r] = r /\ r \notin exited

\* w is blocked on an entry with the pid of its child r.
Awaits(w, r) ==
  /\ pc[w] = "wait"
  /\ dad[r] = root[w]
  /\ children[proc[w]][slot[w]].id = pid[r]

TypeOK ==
  /\ used \in SUBSET Objs
  /\ table \in [Pids -> Objs \cup {Null}]
  /\ id \in [Objs -> Pids]
  /\ parent \in [Objs -> Objs \cup {Null}]
  /\ main \in [Objs -> Tasks \cup {Null}]
  /\ children \in [Objs -> [Children -> [id : Pids \cup {Invalid}, dead : BOOLEAN,
                                        code : Tasks \cup {Null}]]]
  /\ proc \in [Tasks -> Objs \cup {Null}]
  /\ pc \in [Tasks -> PC]
  /\ slot \in [Tasks -> {0} \cup Children]
  /\ new \in [Tasks -> Tasks \cup Objs \cup {Null}]
  /\ panicked \in BOOLEAN
  /\ root \in [Tasks -> Tasks \cup {Null}]
  /\ tenant \in [Objs -> Tasks \cup {Null}]
  /\ dad \in [Tasks -> Tasks \cup {Null}]
  /\ pid \in [Tasks -> Pids \cup {Invalid}]
  /\ home \in [Tasks -> {0} \cup Children]
  /\ exited \in SUBSET Tasks
  /\ result \in (Tasks \cup {Null}) \X (Pids \cup {Invalid}) \X (Tasks \cup {Null})

\* Processes that have not exited have an object and a pid of their own, however
\* objects and pids are reused: no failure path of fork, no late exit and no
\* stale store of exec takes either away.
LiveDistinct ==
  \A r \in Tasks : Live(r) =>
    /\ proc[r] \in used
    /\ tenant[proc[r]] = r
    /\ table[pid[r]] = proc[r]
    /\ \A q \in Tasks : Live(q) /\ pid[q] = pid[r] => q = r

\* As long as a process and its parent both live, the entry that fork made for it
\* stays, with its pid and not dead: no exit of an earlier process with the same
\* pid, no waitpid and no orphan takes or kills it.
EntryOfLiveChild ==
  \A r \in Tasks : Live(r) /\ dad[r] # Null /\ Live(dad[r]) =>
    LET entry == children[proc[dad[r]]][home[r]] IN
    entry.id = pid[r] /\ ~entry.dead

\* A dead entry in the children[] of a live process is that of a child of this
\* process which has exited.
DeadEntryExited ==
  \A d \in Tasks : Live(d) => \A i \in Children :
    LET entry == children[proc[d]][i] IN
    entry.dead => \E r \in exited : dad[r] = d /\ pid[r] = entry.id

\* The three above, of states whose variables have their types.
IInv == TypeOK /\ LiveDistinct /\ EntryOfLiveChild /\ DeadEntryExited

Exits(t) == root[t] \notin exited /\ root[t] \in exited'

\* exit only ever writes to the children[] of the process that forked it, or to
\* the memory that process had: never to those of another process that has got
\* the object since.
ReportsToParent ==
  [][\A t \in Tasks : Exits(t) =>
       \A o \in Objs : children'[o] # children[o] => tenant[o] = dad[root[t]]]_vars

\* When a process exits while its parent waits for its pid, the very entry the
\* parent is blocked on becomes dead: exit and waitpid search alike.
WakesWaiter ==
  [][\A r, w \in Tasks :
       Live(r) /\ Exits(r) /\ Awaits(w, r) => children'[proc[w]][slot[w]].dead]_vars

\* waitpid returns what a child of the caller with that pid gave to exit.
WaitReturnsOwnChild ==
  [][result' # result =>
       \E r \in exited : /\ dad[r] = result'[1]
                         /\ pid[r] = result'[2]
                         /\ result'[3] \in Tasks /\ root[result'[3]] = r]_vars

\* The assertion of exec (syscall.c:289) speaks of processes with several threads,
\* and none here has: it only fails while the exec that started the caller has not
\* set main_thread yet, or after one that did so too late has overwritten the
\* main_thread of the process that has got the object since.
ExecPanicExplained ==
  [][panicked' # panicked =>
       \E t \in Tasks :
          /\ pc[t] = "run" /\ main[proc[t]] # t
          /\ \/ \E u \in Tasks : pc[u] = "execed" /\ new[u] = t
             \/ root[main[proc[t]]] \in exited]_vars

=============================================================================
