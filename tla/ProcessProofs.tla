---------------------------- MODULE ProcessProofs ----------------------------
(***************************************************************************)
(* Machine-checked proofs about Process, for every set of tasks and of     *)
(* process objects and every number of pids and child entries: processes   *)
(* that live keep an object, a pid and an entry in their parent's          *)
(* children[] of their own; exit reports to the parent, wakes it, and      *)
(* waitpid returns what an own child gave to exit; and the assertion of    *)
(* exec fails in two cases only.                                           *)
(***************************************************************************)
EXTENDS Process, FiniteSetTheorems, WellFoundedInduction, TLAPS

\* It runs code, or a system call that goes on to do so.
Active(t) == pc[t] \in {"run", "fork", "forked", "exec", "wait"}

\* Each task runs a process, and that never changes; what it holds depends on where it is.
TasksSound ==
  \A t \in Tasks :
    /\ pc[t] = "none" <=> root[t] = Null
    /\ root[t] # Null =>
         /\ root[t] \in Tasks /\ root[root[t]] = root[t]
         /\ proc[t] \in Objs /\ proc[t] = proc[root[t]]
    /\ Active(t) => root[t] \notin exited
    /\ pc[t] = "fork" => new[t] \in Objs /\ slot[t] \in Children
    /\ pc[t] \in {"exec", "execed"} => new[t] \in Tasks
    /\ pc[t] = "wait" => slot[t] \in Children

\* A process is run by one task at a time.
Alone == \A t, u \in Tasks : Active(t) /\ Active(u) /\ root[t] = root[u] => t = u

RootsSound ==
  \A r \in Tasks :
    /\ r \in exited => root[r] = r
    /\ root[r] = r => pid[r] \in Pids /\ (dad[r] # Null => root[dad[r]] = dad[r] /\ home[r] \in Children)

TableSound == \A p \in Pids : table[p] # Null => id[table[p]] = p /\ table[p] \in used

LiveSound ==
  \A r \in Tasks : Live(r) =>
    /\ proc[r] \in used /\ tenant[proc[r]] = r
    /\ table[pid[r]] = proc[r] /\ id[proc[r]] = pid[r]

\* The object that parent points to is the parent's, or has been reused; whoever has it
\* then was forked, and has forked, while the pid was taken.
ParentsSound ==
  \A r \in Tasks : Live(r) =>
    IF dad[r] = Null THEN parent[proc[r]] = Null
    ELSE /\ parent[proc[r]] = proc[dad[r]]
         /\ \/ tenant[proc[dad[r]]] = dad[r]
            \/ \A i \in Children : children[proc[dad[r]]][i].id # pid[r]

\* DeadEntryExited, and what the entry says.
DeadSound ==
  \A d \in Tasks : Live(d) => \A i \in Children :
    children[proc[d]][i].dead =>
      \E r \in exited :
        /\ dad[r] = d /\ pid[r] = children[proc[d]][i].id
        /\ children[proc[d]][i].code \in Tasks /\ root[children[proc[d]][i].code] = r

\* The object of a process that is not complete is nobody else's.
ForksSound ==
  \A t \in Tasks : pc[t] = "fork" =>
    /\ new[t] \in used /\ tenant[new[t]] = Null
    /\ table[id[new[t]]] = new[t] /\ parent[new[t]] = proc[t]
    /\ \A i \in Children : children[new[t]][i] = NoChild
    /\ children[proc[t]][slot[t]].id = id[new[t]] /\ ~children[proc[t]][slot[t]].dead
    /\ \A u \in Tasks : pc[u] = "fork" /\ new[u] = new[t] => u = t

\* The entry that waitpid found is still the first one with its id.
WaitsSound ==
  \A w \in Tasks : pc[w] = "wait" => \A i \in Children :
    children[proc[w]][i].id = children[proc[w]][slot[w]].id => slot[w] <= i

MainSound(t) ==
  \/ main[proc[t]] = t
  \/ \E u \in Tasks : pc[u] = "execed" /\ new[u] = t
  \/ main[proc[t]] \in Tasks /\ root[main[proc[t]]] \in exited

MainsSound == \A t \in Tasks : Active(t) => MainSound(t)

\* Before main_thread is set the new task cannot exec.
ExecsSound ==
  \A t \in Tasks : pc[t] = "execed" =>
    /\ root[new[t]] = root[t]
    /\ root[t] \notin exited =>
         /\ Active(new[t]) /\ pc[new[t]] # "exec" /\ main[proc[t]] # new[t]
         /\ \A u \in Tasks : pc[u] = "execed" /\ root[u] = root[t] => u = t

Sound ==
  /\ TasksSound
  /\ Alone
  /\ RootsSound
  /\ TableSound
  /\ LiveSound
  /\ ParentsSound
  /\ EntryOfLiveChild
  /\ DeadSound
  /\ ForksSound
  /\ WaitsSound
  /\ MainsSound
  /\ ExecsSound

Inductive == TypeOK /\ Sound

-----------------------------------------------------------------------------
(* The entries of children[], and the slots of the process table *)

\* A set of numbers that is not empty has a least one.
LEMMA MinIsLeast ==
  ASSUME NEW S \in SUBSET Nat, S # {}
  PROVE  Min(S) \in S /\ \A y \in S : Min(S) <= y
<1>1. PICK x \in S : \A y \in S : ~ (<<y, x>> \in OpToRel(<, Nat))
  BY WFMin, NatLessThanWellFounded
<1>2. ASSUME NEW y \in S PROVE x <= y
  <2>1. x \in Nat /\ y \in Nat
    OBVIOUS
  <2>2. ~ (y < x)
    BY <1>1, <2>1 DEF OpToRel
  <2>. QED
    BY <2>1, <2>2
<1>3. \E z \in S : \A y \in S : z <= y
  BY <1>2
<1>. QED
  BY <1>3 DEF Min

LEMMA FirstEntryIsFirst ==
  ASSUME NEW o, NEW x, Entries(o, x) # {}
  PROVE  /\ Min(Entries(o, x)) \in Children
         /\ children[o][Min(Entries(o, x))].id = x
         /\ \A i \in Children : children[o][i].id = x => Min(Entries(o, x)) <= i
<1>1. Entries(o, x) \in SUBSET Nat
  BY ProcessAssumption DEF Entries, Children
<1>2. Min(Entries(o, x)) \in Entries(o, x) /\ \A i \in Entries(o, x) : Min(Entries(o, x)) <= i
  BY <1>1, MinIsLeast
<1>. QED
  BY <1>2 DEF Entries

\* As long as an object is free, so is a slot: no object is in the table twice.
LEMMA EmptySlotIsEmpty ==
  ASSUME TypeOK, TableSound, NEW o \in Objs, o \notin used
  PROVE  EmptySlot \in Pids /\ table[EmptySlot] = Null
<1>. DEFINE S == {p \in Pids : table[p] = Null}
<1>1. IsFiniteSet(Pids) /\ Cardinality(Pids) = NPids
  <2>1. 0 \in Int /\ NPids - 1 \in Int /\ NPids \in Nat
    BY ProcessAssumption
  <2>. QED
    BY <2>1, FS_Interval DEF Pids
<1>2. IsFiniteSet(Objs \ {o}) /\ Cardinality(Objs \ {o}) < Cardinality(Pids)
  <2>1. Cardinality(Objs \ {o}) = Cardinality(Objs) - 1 /\ IsFiniteSet(Objs \ {o})
    BY ProcessAssumption, FS_RemoveElement
  <2>2. Cardinality(Objs) \in Nat /\ NPids \in Nat /\ NPids >= Cardinality(Objs)
    BY ProcessAssumption, FS_CardinalityType
  <2>. QED
    BY <1>1, <2>1, <2>2
<1>3. S # {}
  <2>. SUFFICES ASSUME S = {} PROVE FALSE
    OBVIOUS
  <2>1. table \in [Pids -> Objs \ {o}]
    BY DEF TypeOK, TableSound
  <2>2. PICK p, q \in Pids : p # q /\ table[p] = table[q]
    BY <1>1, <1>2, <2>1, FS_PigeonHole
  <2>. QED
    BY <2>2 DEF TableSound
<1>4. S \in SUBSET Nat
  BY ProcessAssumption DEF Pids
<1>5. EmptySlot \in S
  BY <1>3, <1>4, MinIsLeast DEF EmptySlot
<1>. QED
  BY <1>5

-----------------------------------------------------------------------------
(* Tasks and processes *)

LEMMA Placed ==
  ASSUME TypeOK, TasksSound, NEW t \in Tasks, pc[t] # "none"
  PROVE  /\ root[t] \in Tasks /\ root[root[t]] = root[t]
         /\ proc[t] \in Objs /\ proc[t] = proc[root[t]]
         /\ Null \notin Tasks /\ Null \notin Objs /\ Invalid \notin Pids
<1>1. Null \notin Tasks /\ Null \notin Objs
  BY ProcessAssumption
<1>2. Invalid \notin Pids
  BY ProcessAssumption DEF Invalid, Pids
<1>. QED
  BY <1>1, <1>2 DEF TasksSound

LEMMA ActiveLive ==
  ASSUME TypeOK, Sound, NEW t \in Tasks, Active(t)
  PROVE  /\ pc[t] # "none" /\ root[t] \in Tasks /\ Live(root[t])
         /\ proc[t] = proc[root[t]] /\ proc[t] \in Objs /\ proc[t] \in used
         /\ tenant[proc[t]] = root[t]
         /\ id[proc[t]] = pid[root[t]] /\ pid[root[t]] \in Pids /\ table[pid[root[t]]] = proc[t]
<1>1. pc[t] # "none"
  BY DEF Active
<1>2. /\ root[t] \in Tasks /\ root[root[t]] = root[t]
      /\ proc[t] \in Objs /\ proc[t] = proc[root[t]]
  BY <1>1, Placed DEF Sound
<1>3. Live(root[t])
  BY <1>2 DEF Sound, TasksSound, Live
<1>. QED
  BY <1>1, <1>2, <1>3 DEF Sound, LiveSound, RootsSound

\* Two processes that live have two objects and two pids.
LEMMA LiveApart ==
  ASSUME TypeOK, Sound, NEW q \in Tasks, NEW r \in Tasks, Live(q), Live(r),
         proc[q] = proc[r] \/ pid[q] = pid[r]
  PROVE  q = r
BY DEF Sound, LiveSound

LEMMA SameObject ==
  ASSUME TypeOK, Sound, NEW t \in Tasks, NEW u \in Tasks, pc[t] # "none", root[t] = root[u]
  PROVE  pc[u] # "none" /\ proc[t] = proc[u]
<1>1. root[t] # Null
  BY DEF Sound, TasksSound
<1>2. pc[u] # "none"
  BY <1>1 DEF Sound, TasksSound
<1>. QED
  BY <1>2, Placed DEF Sound

\* An object being prepared is not that of a process that lives.
LEMMA ForkApart ==
  ASSUME TypeOK, Sound, NEW t \in Tasks, pc[t] = "fork"
  PROVE  /\ new[t] \in Objs /\ slot[t] \in Children /\ Active(t)
         /\ \A r \in Tasks : Live(r) => proc[r] # new[t] /\ pid[r] # id[new[t]]
<1>1. new[t] \in Objs /\ slot[t] \in Children /\ Active(t)
  BY DEF Sound, TasksSound, Active
<1>2. tenant[new[t]] = Null /\ table[id[new[t]]] = new[t]
  BY DEF Sound, ForksSound
<1>3. ASSUME NEW r \in Tasks, Live(r) PROVE proc[r] # new[t] /\ pid[r] # id[new[t]]
  <2>1. tenant[proc[r]] = r /\ table[pid[r]] = proc[r] /\ r # Null
    BY <1>3, ProcessAssumption DEF Sound, LiveSound
  <2>. QED
    BY <1>2, <2>1
<1>. QED
  BY <1>1, <1>3

-----------------------------------------------------------------------------
(* The steps that change children[], entry by entry *)

Entry == [id : Pids \cup {Invalid}, dead : BOOLEAN, code : Tasks \cup {Null}]

LEMMA UpdateEntry ==
  ASSUME NEW E, NEW c \in [Objs -> [Children -> E]],
         NEW p \in Objs, NEW i \in Children, NEW e \in E,
         NEW d, d = [c EXCEPT ![p] = [c[p] EXCEPT ![i] = e]]
  PROVE  /\ d \in [Objs -> [Children -> E]]
         /\ d[p][i] = e
         /\ \A q \in Objs, j \in Children : ~(q = p /\ j = i) => d[q][j] = c[q][j]
         /\ \A q \in Objs : q # p => d[q] = c[q]
OBVIOUS

\* The new process object o, an entry i of the caller's object p and a slot x.
ForkAdded(t, o, p, i, x) ==
  /\ p = proc[t] /\ o # p /\ o \notin used /\ pc[t] = "run"
  /\ table[x] = Null /\ children[p][i].id = Invalid
  /\ used' = used \cup {o} /\ table' = [table EXCEPT ![x] = o] /\ id' = [id EXCEPT ![o] = x]
  /\ parent' = [parent EXCEPT ![o] = p] /\ main' = [main EXCEPT ![o] = Null]
  /\ pc' = [pc EXCEPT ![t] = "fork"]
  /\ new' = [new EXCEPT ![t] = o] /\ slot' = [slot EXCEPT ![t] = i]
  /\ tenant' = [tenant EXCEPT ![o] = Null]
  /\ children' \in [Objs -> [Children -> Entry]]
  /\ \A j \in Children : children'[o][j] = NoChild
  /\ children'[p][i].id = x /\ children'[p][i].dead = children[p][i].dead
  /\ children'[p][i].code = children[p][i].code
  /\ \A q \in Objs, j \in Children : q # o /\ ~(q = p /\ j = i) => children'[q][j] = children[q][j]
  /\ UNCHANGED <<proc, panicked, root, dad, pid, home, exited, result>>

LEMMA ForkAddSteps ==
  ASSUME TypeOK, Sound, NEW t \in Tasks, NEW o \in Objs, ForkAdd(t, o)
  PROVE  \E p \in Objs, i \in Children, x \in Pids : ForkAdded(t, o, p, i, x)
<1>1. pc[t] = "run" /\ proc[t] \in Objs /\ proc[t] # o /\ o \notin used
  BY ActiveLive DEF ForkAdd, Goto, At, Active
<1>2. PICK p \in Objs : p = proc[t] /\ p # o
  BY <1>1
<1>3. PICK i \in Children : i = FirstEntry(p, Invalid) /\ children[p][i].id = Invalid
  BY <1>2, FirstEntryIsFirst DEF ForkAdd, FirstEntry
<1>4. PICK x \in Pids : x = EmptySlot /\ table[x] = Null
  BY <1>1, EmptySlotIsEmpty DEF Sound
<1>. DEFINE none == [j \in Children |-> NoChild]
            c == [children EXCEPT ![o] = none]
            e == [children[p][i] EXCEPT !.id = x]
<1>5. /\ used' = used \cup {o} /\ table' = [table EXCEPT ![x] = o] /\ id' = [id EXCEPT ![o] = x]
      /\ parent' = [parent EXCEPT ![o] = p] /\ main' = [main EXCEPT ![o] = Null]
      /\ children' = [children EXCEPT ![o] = none, ![p][i].id = x]
      /\ pc' = [pc EXCEPT ![t] = "fork"]
      /\ new' = [new EXCEPT ![t] = o] /\ slot' = [slot EXCEPT ![t] = i]
      /\ tenant' = [tenant EXCEPT ![o] = Null]
      /\ UNCHANGED <<proc, panicked, root, dad, pid, home, exited, result>>
  BY <1>2, <1>3, <1>4 DEF ForkAdd, Goto
<1>6. NoChild \in Entry /\ children \in [Objs -> [Children -> Entry]]
  BY DEF NoChild, Entry, TypeOK
<1>7. none \in [Children -> Entry] /\ \A j \in Children : none[j] = NoChild
  BY <1>6
<1>. HIDE DEF none
<1>8. /\ c \in [Objs -> [Children -> Entry]] /\ c[o] = none
      /\ \A q \in Objs : q # o => c[q] = children[q]
  BY <1>6, <1>7
<1>9. e \in Entry /\ e.id = x /\ e.dead = children[p][i].dead /\ e.code = children[p][i].code
  <2>1. children[p][i] \in Entry
    BY <1>6
  <2>. QED
    BY <2>1 DEF Entry
<1>10. children' = [c EXCEPT ![p] = [c[p] EXCEPT ![i] = e]]
  <2>1. children' = [children EXCEPT ![o] = none, ![p] = [children[p] EXCEPT ![i] = e]]
    BY <1>2, <1>5, <1>6
  <2>. QED
    BY <1>2, <1>8, <2>1
<1>. HIDE DEF c, e
<1>11. /\ children' \in [Objs -> [Children -> Entry]]
       /\ children'[p][i] = e
       /\ \A q \in Objs, j \in Children : ~(q = p /\ j = i) => children'[q][j] = c[q][j]
       /\ \A q \in Objs : q # p => children'[q] = c[q]
  BY <1>8, <1>9, <1>10, UpdateEntry
<1>12. /\ \A j \in Children : children'[o][j] = NoChild
       /\ children'[p][i].id = x /\ children'[p][i].dead = children[p][i].dead
       /\ children'[p][i].code = children[p][i].code
       /\ \A q \in Objs, j \in Children :
            q # o /\ ~(q = p /\ j = i) => children'[q][j] = children[q][j]
  BY <1>2, <1>7, <1>8, <1>9, <1>11
<1>13. ForkAdded(t, o, p, i, x)
  BY <1>1, <1>2, <1>3, <1>4, <1>5, <1>11, <1>12 DEF ForkAdded
<1>. QED
  BY <1>13

\* What exit writes, it writes into the first entry of its pid.
Reported(t, r, p, i) ==
  /\ dad[r] # Null /\ p = proc[dad[r]]
  /\ children[p][i].id = pid[r]
  /\ \A j \in Children : children[p][j].id = pid[r] => i <= j
  /\ children'[p][i].id = pid[r] /\ children'[p][i].dead /\ children'[p][i].code = t
  /\ \A q \in Objs, j \in Children : ~(q = p /\ j = i) => children'[q][j] = children[q][j]
  /\ \A q \in Objs : q # p => children'[q] = children[q]

\* There is nobody, or nothing, to report to.
Unreported(r) ==
  /\ children' = children
  /\ dad[r] = Null \/ \A j \in Children : children[proc[dad[r]]][j].id # pid[r]

Exited(t, r, o) ==
  /\ r = root[t] /\ Live(r) /\ o = proc[t] /\ o = proc[r] /\ pc[t] = "run"
  /\ used' = used \ {o} /\ table' = [table EXCEPT ![pid[r]] = Null]
  /\ exited' = exited \cup {r} /\ pc' = [pc EXCEPT ![t] = "halt"]
  /\ children' \in [Objs -> [Children -> Entry]]
  /\ Unreported(r) \/ \E p \in Objs, i \in Children : Reported(t, r, p, i)
  /\ UNCHANGED <<id, parent, main, proc, slot, new, panicked,
                 root, tenant, dad, pid, home, result>>

LEMMA ExitSteps ==
  ASSUME TypeOK, Sound, NEW t \in Tasks, Exit(t)
  PROVE  \E r \in Tasks, o \in Objs : Exited(t, r, o)
<1>1. pc[t] = "run" /\ Active(t)
  BY DEF Exit, Goto, At, Active
<1>2. PICK r \in Tasks : r = root[t] /\ Live(r) /\ proc[t] = proc[r]
  BY <1>1, ActiveLive
<1>3. PICK o \in Objs : o = proc[t] /\ o = proc[r]
  BY <1>1, <1>2, ActiveLive
<1>4. id[o] = pid[r] /\ pid[r] \in Pids /\ table[pid[r]] = o
  BY <1>1, <1>2, <1>3, ActiveLive
<1>5. /\ used' = used \ {o} /\ table' = [table EXCEPT ![pid[r]] = Null]
      /\ exited' = exited \cup {r} /\ pc' = [pc EXCEPT ![t] = "halt"]
      /\ UNCHANGED <<id, parent, main, proc, slot, new, panicked,
                     root, tenant, dad, pid, home, result>>
  BY <1>2, <1>3, <1>4 DEF Exit, Goto, Drop
<1>6. children \in [Objs -> [Children -> Entry]]
  BY DEF TypeOK, Entry
<1>7. CASE dad[r] = Null
  <2>1. parent[o] = Null
    BY <1>2, <1>3, <1>7 DEF Sound, ParentsSound
  <2>2. children' = children
    BY <1>3, <2>1 DEF Exit
  <2>3. Exited(t, r, o)
    BY <1>1, <1>2, <1>3, <1>5, <1>6, <1>7, <2>2 DEF Exited, Unreported
  <2>. QED
    BY <2>3
<1>8. CASE dad[r] # Null
  <2>1. parent[o] = proc[dad[r]]
    BY <1>2, <1>3, <1>8 DEF Sound, ParentsSound
  <2>2. dad[r] \in Tasks /\ pc[dad[r]] # "none"
    BY <1>2, <1>8 DEF Sound, RootsSound, TasksSound, Live, TypeOK
  <2>3. PICK p \in Objs : p = proc[dad[r]] /\ p # Null
    BY <2>2, Placed DEF Sound
  <2>4. CASE Entries(p, pid[r]) = {}
    <3>1. children' = children
      BY <1>3, <1>4, <2>1, <2>3, <2>4 DEF Exit
    <3>2. \A j \in Children : children[proc[dad[r]]][j].id # pid[r]
      BY <2>3, <2>4 DEF Entries
    <3>3. Exited(t, r, o)
      BY <1>1, <1>2, <1>3, <1>5, <1>6, <3>1, <3>2 DEF Exited, Unreported
    <3>. QED
      BY <3>3
  <2>5. CASE Entries(p, pid[r]) # {}
    <3>1. PICK i \in Children :
             /\ i = Min(Entries(p, pid[r])) /\ children[p][i].id = pid[r]
             /\ \A j \in Children : children[p][j].id = pid[r] => i <= j
      BY <2>5, FirstEntryIsFirst
    <3>. DEFINE e == [children[p][i] EXCEPT !.dead = TRUE, !.code = t]
    <3>2. children' = [children EXCEPT ![p][i].dead = TRUE, ![p][i].code = t]
      BY <1>3, <1>4, <2>1, <2>3, <2>5, <3>1 DEF Exit
    <3>3. children' = [children EXCEPT ![p] = [children[p] EXCEPT ![i] = e]]
      BY <1>6, <3>2
    <3>4. e \in Entry /\ e.id = pid[r] /\ e.dead /\ e.code = t
      <4>1. children[p][i] \in Entry
        BY <1>6
      <4>. QED
        BY <3>1, <4>1 DEF Entry
    <3>. HIDE DEF e
    <3>5. /\ children' \in [Objs -> [Children -> Entry]]
          /\ children'[p][i] = e
          /\ \A q \in Objs, j \in Children : ~(q = p /\ j = i) => children'[q][j] = children[q][j]
          /\ \A q \in Objs : q # p => children'[q] = children[q]
      BY <1>6, <3>3, <3>4, UpdateEntry
    <3>6. Reported(t, r, p, i)
      BY <1>8, <2>3, <3>1, <3>4, <3>5 DEF Reported
    <3>7. Exited(t, r, o)
      BY <1>1, <1>2, <1>3, <1>5, <3>5, <3>6 DEF Exited
    <3>. QED
      BY <3>7
  <2>. QED
    BY <2>4, <2>5
<1>. QED
  BY <1>7, <1>8

\* waitpid clears the entry it waits for, which is dead.
Waited(t, o, i) ==
  /\ o = proc[t] /\ i = slot[t] /\ pc[t] = "wait" /\ children[o][i].dead
  /\ children' \in [Objs -> [Children -> Entry]]
  /\ children'[o][i] = NoChild
  /\ \A q \in Objs, j \in Children : ~(q = o /\ j = i) => children'[q][j] = children[q][j]
  /\ \A q \in Objs : q # o => children'[q] = children[q]
  /\ pc' = [pc EXCEPT ![t] = "run"] /\ slot' = [slot EXCEPT ![t] = 0]
  /\ result' = <<root[t], children[o][i].id, children[o][i].code>>
  /\ UNCHANGED <<used, table, id, parent, main, proc, new, panicked,
                 root, tenant, dad, pid, home, exited>>

LEMMA WaitSteps ==
  ASSUME TypeOK, Sound, NEW t \in Tasks, WaitResolve(t)
  PROVE  \E o \in Objs, i \in Children : Waited(t, o, i)
<1>1. pc[t] = "wait" /\ Active(t)
  BY DEF WaitResolve, Goto, At, Active
<1>2. PICK o \in Objs, i \in Children : o = proc[t] /\ i = slot[t]
  BY <1>1, ActiveLive DEF Sound, TasksSound
<1>3. /\ children[o][i].dead /\ children' = [children EXCEPT ![o][i] = NoChild]
      /\ pc' = [pc EXCEPT ![t] = "run"] /\ slot' = [slot EXCEPT ![t] = 0]
      /\ result' = <<root[t], children[o][i].id, children[o][i].code>>
      /\ UNCHANGED <<used, table, id, parent, main, proc, new, panicked,
                     root, tenant, dad, pid, home, exited>>
  BY <1>2 DEF WaitResolve, Goto
<1>4. children \in [Objs -> [Children -> Entry]] /\ NoChild \in Entry
  BY DEF TypeOK, Entry, NoChild
<1>5. children' = [children EXCEPT ![o] = [children[o] EXCEPT ![i] = NoChild]]
  BY <1>3, <1>4
<1>6. /\ children' \in [Objs -> [Children -> Entry]]
      /\ children'[o][i] = NoChild
      /\ \A q \in Objs, j \in Children : ~(q = o /\ j = i) => children'[q][j] = children[q][j]
      /\ \A q \in Objs : q # o => children'[q] = children[q]
  BY <1>4, <1>5, UpdateEntry
<1>7. Waited(t, o, i)
  BY <1>1, <1>2, <1>3, <1>6 DEF Waited
<1>. QED
  BY <1>7

-----------------------------------------------------------------------------
(* Types *)

LEMMA NextTypeOK == TypeOK /\ Sound /\ Next => TypeOK'
<1>. SUFFICES ASSUME TypeOK, Sound, NEW t \in Tasks, Step(t) \/ Syscall(t) PROVE TypeOK'
  BY DEF Next
<1>1. ASSUME NEW o \in Objs, ForkAdd(t, o) PROVE TypeOK'
  <2>1. PICK p \in Objs, i \in Children, x \in Pids : ForkAdded(t, o, p, i, x)
    BY <1>1, ForkAddSteps
  <2>. QED
    BY <2>1 DEF ForkAdded, TypeOK, PC, Entry
<1>2. CASE ForkFails(t)
  <2>1. new[t] \in Objs
    BY <1>2, ForkApart DEF ForkFails, Goto, At
  <2>. QED
    BY <1>2, <2>1 DEF TypeOK, ForkFails, Drop, Goto, PC, history
<1>3. ASSUME NEW u \in Tasks, ForkQueue(t, u) PROVE TypeOK'
  <2>1. new[t] \in Objs
    BY <1>3, ForkApart DEF ForkQueue, At
  <2>. QED
    BY <1>3, <2>1 DEF TypeOK, ForkQueue, PC
<1>4. CASE ForkReturn(t)
  BY <1>4 DEF TypeOK, ForkReturn, Goto, PC, objects, history
<1>5. CASE ExecAsserts(t)
  BY <1>5 DEF TypeOK, ExecAsserts, objects, threads, history
<1>6. ASSUME NEW u \in Tasks, ExecAdd(t, u) PROVE TypeOK'
  BY <1>6 DEF TypeOK, ExecAdd, PC, objects, history
<1>7. CASE ExecFails(t)
  BY <1>7 DEF TypeOK, ExecFails, Goto, PC, objects, history
<1>8. CASE ExecQueue(t)
  BY <1>8 DEF TypeOK, ExecQueue, PC, objects
<1>9. CASE ExecReturn(t)
  <2>1. new[t] \in Tasks /\ pc[t] = "execed"
    BY <1>9 DEF Sound, TasksSound, ExecReturn, Goto, At
  <2>. QED
    BY <1>9, <2>1 DEF TypeOK, ExecReturn, Goto, PC, history
<1>10. CASE Exit(t)
  <2>1. PICK r \in Tasks, o \in Objs : Exited(t, r, o)
    BY <1>10, ExitSteps
  <2>. QED
    BY <2>1 DEF Exited, TypeOK, PC, Entry
<1>11. ASSUME NEW x \in Pids, WaitFind(t, x) PROVE TypeOK'
  <2>1. FirstEntry(proc[t], x) \in Children
    BY <1>11, FirstEntryIsFirst DEF WaitFind, FirstEntry
  <2>. QED
    BY <1>11, <2>1 DEF TypeOK, WaitFind, Goto, PC, objects, history
<1>12. CASE WaitResolve(t)
  <2>1. PICK o \in Objs, i \in Children : Waited(t, o, i)
    BY <1>12, WaitSteps
  <2>2. root[t] \in Tasks /\ children[o][i] \in Entry
    <3>1. Active(t)
      BY <1>12 DEF WaitResolve, Goto, At, Active
    <3>. QED
      BY <3>1, ActiveLive DEF TypeOK, Entry
  <2>3. result' \in (Tasks \cup {Null}) \X (Pids \cup {Invalid}) \X (Tasks \cup {Null})
    BY <2>1, <2>2 DEF Waited, Entry
  <2>. QED
    BY <2>1, <2>3 DEF Waited, TypeOK, PC, Entry
<1>. QED
  BY <1>1, <1>2, <1>3, <1>4, <1>5, <1>6, <1>7, <1>8, <1>9, <1>10, <1>11, <1>12 DEF Step, Syscall

-----------------------------------------------------------------------------
(* The invariant, action by action *)

\* Where a process and its parent are.
LEMMA LivePlaced ==
  ASSUME TypeOK, Sound, NEW r \in Tasks, Live(r)
  PROVE  /\ proc[r] \in Objs /\ proc[r] \in used /\ tenant[proc[r]] = r
         /\ pid[r] \in Pids /\ table[pid[r]] = proc[r] /\ id[proc[r]] = pid[r]
         /\ Null \notin Tasks /\ Null \notin Objs /\ Invalid \notin Pids
         /\ dad[r] # Null => dad[r] \in Tasks /\ proc[dad[r]] \in Objs /\ home[r] \in Children
<1>1. pc[r] # "none" /\ root[r] = r
  BY ProcessAssumption DEF Sound, TasksSound, Live
<1>2. dad[r] # Null => dad[r] \in Tasks /\ root[dad[r]] = dad[r] /\ home[r] \in Children
  BY <1>1 DEF Sound, RootsSound, TypeOK
<1>3. dad[r] # Null => pc[dad[r]] # "none"
  BY <1>2, ProcessAssumption DEF Sound, TasksSound
<1>. QED
  BY <1>1, <1>2, <1>3, Placed DEF Sound, LiveSound, RootsSound

\* A free entry of a process that lives is not dead.
LEMMA FreeNotDead ==
  ASSUME TypeOK, Sound, NEW d \in Tasks, Live(d), NEW i \in Children,
         children[proc[d]][i].id = Invalid
  PROVE  ~children[proc[d]][i].dead
<1>1. Invalid \notin Pids
  BY LivePlaced
<1>2. \A r \in exited : r \in Tasks /\ pid[r] \in Pids
  BY DEF TypeOK, Sound, RootsSound
<1>. QED
  BY <1>1, <1>2 DEF Sound, DeadSound

\* Steps that change nothing but where the task is, and what it found or is creating.
LEMMA QuietSound ==
  ASSUME TypeOK, TypeOK', Sound, NEW t \in Tasks,
         UNCHANGED <<objects, proc, history>>,
         pc[t] \in {"run", "forked", "exec"}, pc'[t] \in {"run", "exec", "wait"},
         \A u \in Tasks \ {t} : pc'[u] = pc[u] /\ new'[u] = new[u] /\ slot'[u] = slot[u],
         pc'[t] = "exec" => new'[t] \in Tasks /\ main[proc[t]] = t,
         pc'[t] = "wait" =>
           /\ slot'[t] \in Children
           /\ \A i \in Children :
                children[proc[t]][i].id = children[proc[t]][slot'[t]].id => slot'[t] <= i
  PROVE  Sound'
<1>1. /\ \A u \in Tasks : Active(u)' <=> Active(u)
      /\ \A u \in Tasks : pc'[u] = "none" <=> pc[u] = "none"
      /\ \A u \in Tasks : pc'[u] = "execed" => u # t /\ pc[u] = "execed" /\ new'[u] = new[u]
      /\ \A u \in Tasks : pc[u] = "execed" => u # t /\ pc'[u] = "execed" /\ new'[u] = new[u]
      /\ \A u \in Tasks : pc'[u] = "fork" => u # t /\ pc[u] = "fork" /\ new'[u] = new[u] /\ slot'[u] = slot[u]
  BY DEF Active
<1>2. UNCHANGED <<used, table, id, parent, main, children, proc, root, tenant, dad, pid, home, exited>>
  BY DEF objects, history
<1>3. TasksSound'
  BY <1>1, <1>2 DEF Sound, TasksSound
<1>4. Alone'
  BY <1>1, <1>2 DEF Sound, Alone
<1>5. RootsSound' /\ TableSound' /\ LiveSound' /\ ParentsSound'
  BY <1>2 DEF Sound, RootsSound, TableSound, LiveSound, ParentsSound, Live
<1>6. EntryOfLiveChild' /\ DeadSound'
  BY <1>2 DEF Sound, EntryOfLiveChild, DeadSound, Live
<1>7. ForksSound'
  BY <1>1, <1>2 DEF Sound, ForksSound
<1>8. WaitsSound'
  BY <1>2 DEF Sound, WaitsSound
<1>9. MainsSound'
  BY <1>1, <1>2 DEF Sound, MainsSound, MainSound
<1>10. ExecsSound'
  <2>1. ASSUME NEW u \in Tasks, pc[u] = "execed", root[u] \notin exited
        PROVE  pc'[new[u]] # "exec"
    <3>1. new[u] \in Tasks /\ root[new[u]] = root[u] /\ pc[new[u]] # "exec" /\ main[proc[u]] # new[u]
      BY <2>1 DEF Sound, TasksSound, ExecsSound
    <3>2. proc[u] = proc[new[u]]
      BY <2>1, <3>1, SameObject
    <3>. QED
      BY <3>1, <3>2
  <2>. QED
    BY <1>1, <1>2, <2>1 DEF Sound, ExecsSound, TasksSound
<1>. QED
  BY <1>3, <1>4, <1>5, <1>6, <1>7, <1>8, <1>9, <1>10 DEF Sound

LEMMA QuietSteps ==
  ASSUME TypeOK, Sound, NEW t \in Tasks,
         \/ ForkReturn(t) \/ ExecFails(t)
         \/ \E u \in Tasks : ExecAdd(t, u)
         \/ \E x \in Pids : WaitFind(t, x)
  PROVE  Sound'
<1>1. TypeOK'
  BY NextTypeOK DEF Next, Step, Syscall
<1>2. CASE ForkReturn(t) \/ ExecFails(t)
  <2>1. /\ pc[t] \in {"forked", "exec"} /\ pc' = [pc EXCEPT ![t] = "run"]
        /\ UNCHANGED <<objects, proc, history>>
        /\ new' = [new EXCEPT ![t] = Null]
        /\ slot' = [slot EXCEPT ![t] = 0] \/ slot' = slot
    BY <1>2 DEF ForkReturn, ExecFails, Goto, At
  <2>2. /\ pc'[t] = "run"
        /\ \A u \in Tasks \ {t} : pc'[u] = pc[u] /\ new'[u] = new[u] /\ slot'[u] = slot[u]
    BY <2>1 DEF TypeOK
  <2>. QED
    BY <1>1, <2>1, <2>2, QuietSound
<1>3. ASSUME NEW u \in Tasks, ExecAdd(t, u) PROVE Sound'
  <2>1. /\ pc[t] = "run" /\ pc' = [pc EXCEPT ![t] = "exec"] /\ main[proc[t]] = t
        /\ UNCHANGED <<objects, proc, history>>
        /\ new' = [new EXCEPT ![t] = u] /\ slot' = slot
    BY <1>3 DEF ExecAdd, At
  <2>2. /\ pc'[t] = "exec" /\ new'[t] = u
        /\ \A v \in Tasks \ {t} : pc'[v] = pc[v] /\ new'[v] = new[v] /\ slot'[v] = slot[v]
    BY <2>1 DEF TypeOK
  <2>. QED
    BY <1>1, <2>1, <2>2, QuietSound
<1>4. ASSUME NEW x \in Pids, WaitFind(t, x) PROVE Sound'
  <2>1. PICK i \in Children : /\ i = FirstEntry(proc[t], x) /\ children[proc[t]][i].id = x
                             /\ \A j \in Children : children[proc[t]][j].id = x => i <= j
    BY <1>4, FirstEntryIsFirst DEF WaitFind, FirstEntry
  <2>2. /\ pc[t] = "run" /\ pc' = [pc EXCEPT ![t] = "wait"]
        /\ UNCHANGED <<objects, proc, history>>
        /\ slot' = [slot EXCEPT ![t] = i] /\ new' = new
    BY <1>4, <2>1 DEF WaitFind, Goto, At
  <2>3. /\ pc'[t] = "wait" /\ slot'[t] = i
        /\ \A v \in Tasks \ {t} : pc'[v] = pc[v] /\ new'[v] = new[v] /\ slot'[v] = slot[v]
    BY <2>2 DEF TypeOK
  <2>. QED
    BY <1>1, <2>1, <2>2, <2>3, QuietSound
<1>. QED
  BY <1>2, <1>3, <1>4

LEMMA ForkAddSound ==
  ASSUME TypeOK, TypeOK', Sound, NEW t \in Tasks, NEW o \in Objs, ForkAdd(t, o)
  PROVE  Sound'
<1>1. PICK p \in Objs, i \in Children, x \in Pids : ForkAdded(t, o, p, i, x)
  BY ForkAddSteps
<1>2. /\ p = proc[t] /\ o # p /\ o \notin used /\ pc[t] = "run"
      /\ table[x] = Null /\ children[p][i].id = Invalid
      /\ used' = used \cup {o}
      /\ \A j \in Children : children'[o][j] = NoChild
      /\ children'[p][i].id = x /\ children'[p][i].dead = children[p][i].dead
      /\ children'[p][i].code = children[p][i].code
      /\ \A q \in Objs, j \in Children : q # o /\ ~(q = p /\ j = i) => children'[q][j] = children[q][j]
      /\ UNCHANGED <<proc, root, dad, pid, home, exited>>
  BY <1>1 DEF ForkAdded
<1>3. /\ table'[x] = o /\ \A y \in Pids \ {x} : table'[y] = table[y]
      /\ id'[o] = x /\ parent'[o] = p /\ tenant'[o] = Null
      /\ \A q \in Objs \ {o} : /\ id'[q] = id[q] /\ parent'[q] = parent[q] /\ main'[q] = main[q]
                              /\ tenant'[q] = tenant[q]
      /\ pc'[t] = "fork" /\ new'[t] = o /\ slot'[t] = i
      /\ \A u \in Tasks \ {t} : pc'[u] = pc[u] /\ new'[u] = new[u] /\ slot'[u] = slot[u]
  BY <1>1 DEF ForkAdded, TypeOK
<1>4. /\ Active(t) /\ root[t] \in Tasks /\ Live(root[t]) /\ p = proc[root[t]]
      /\ p \in used /\ tenant[p] = root[t]
  BY <1>2, ActiveLive DEF Active
<1>5. Null \notin Tasks /\ Null \notin Objs /\ Invalid \notin Pids
  BY <1>4, LivePlaced
<1>6. \A u \in Tasks : Active(u)' <=> Active(u)
  BY <1>2, <1>3 DEF Active
<1>7. \A r \in Tasks : Live(r)' <=> Live(r)
  BY <1>2 DEF Live
<1>8. ASSUME NEW r \in Tasks, Live(r) PROVE proc[r] \in Objs \ {o} /\ pid[r] \in Pids \ {x}
  BY <1>2, <1>5, <1>8, LivePlaced
<1>9. ~children[p][i].dead
  BY <1>2, <1>4, FreeNotDead
<1>10. TasksSound'
  BY <1>2, <1>3, <1>6 DEF Sound, TasksSound
<1>11. Alone'
  BY <1>2, <1>6 DEF Sound, Alone
<1>12. RootsSound'
  BY <1>2 DEF Sound, RootsSound
<1>13. TableSound'
  <2>1. ASSUME NEW y \in Pids \ {x}, table[y] # Null
        PROVE  table[y] \in Objs \ {o} /\ table[y] \in used /\ id[table[y]] = y
    BY <1>2, <2>1 DEF Sound, TableSound, TypeOK
  <2>. QED
    BY <1>2, <1>3, <2>1 DEF TableSound
<1>14. LiveSound'
  BY <1>2, <1>3, <1>7, <1>8 DEF Sound, LiveSound
<1>15. ParentsSound'
  <2>1. ASSUME NEW r \in Tasks, Live(r)
        PROVE  IF dad[r] = Null THEN parent'[proc[r]] = Null
               ELSE /\ parent'[proc[r]] = proc[dad[r]]
                    /\ \/ tenant'[proc[dad[r]]] = dad[r]
                       \/ \A j \in Children : children'[proc[dad[r]]][j].id # pid[r]
    <3>1. /\ parent'[proc[r]] = parent[proc[r]] /\ pid[r] \in Pids /\ pid[r] # x
          /\ dad[r] # Null => proc[dad[r]] \in Objs
      BY <1>3, <1>8, <2>1, LivePlaced
    <3>2. CASE dad[r] = Null
      BY <2>1, <3>1, <3>2 DEF Sound, ParentsSound
    <3>3. CASE dad[r] # Null /\ proc[dad[r]] = o
      <4>1. \A j \in Children : children'[o][j].id # pid[r]
        BY <1>2, <1>5, <3>1 DEF NoChild
      <4>. QED
        BY <2>1, <3>1, <3>3, <4>1 DEF Sound, ParentsSound
    <3>4. CASE dad[r] # Null /\ proc[dad[r]] # o
      <4>1. \A j \in Children : children'[proc[dad[r]]][j].id = pid[r] => children[proc[dad[r]]][j].id = pid[r]
        BY <1>2, <3>1, <3>4
      <4>. QED
        BY <1>3, <2>1, <3>1, <3>4, <4>1 DEF Sound, ParentsSound
    <3>. QED
      BY <3>2, <3>3, <3>4
  <2>. QED
    BY <1>2, <1>7, <2>1 DEF ParentsSound
<1>16. EntryOfLiveChild'
  <2>1. ASSUME NEW r \in Tasks, Live(r), dad[r] # Null, Live(dad[r])
        PROVE  children'[proc[dad[r]]][home[r]].id = pid[r] /\ ~children'[proc[dad[r]]][home[r]].dead
    <3>1. dad[r] \in Tasks /\ home[r] \in Children /\ proc[dad[r]] \in Objs \ {o} /\ pid[r] \in Pids
      BY <1>8, <2>1, LivePlaced
    <3>2. children[proc[dad[r]]][home[r]].id = pid[r] /\ ~children[proc[dad[r]]][home[r]].dead
      BY <2>1 DEF Sound, EntryOfLiveChild
    <3>. QED
      BY <1>2, <1>5, <3>1, <3>2
  <2>. QED
    BY <1>2, <1>7, <2>1 DEF EntryOfLiveChild, Live
<1>17. DeadSound'
  <2>1. ASSUME NEW d \in Tasks, Live(d), NEW j \in Children, children'[proc[d]][j].dead
        PROVE  children'[proc[d]][j] = children[proc[d]][j]
    BY <1>2, <1>8, <1>9, <2>1
  <2>. QED
    BY <1>2, <1>7, <2>1 DEF Sound, DeadSound
<1>18. ForksSound'
  <2>1. ASSUME NEW u \in Tasks, pc'[u] = "fork", u # t
        PROVE  /\ new[u] \in used' /\ tenant'[new[u]] = Null
               /\ table'[id'[new[u]]] = new[u] /\ parent'[new[u]] = proc[u]
               /\ \A j \in Children : children'[new[u]][j] = NoChild
               /\ children'[proc[u]][slot[u]].id = id'[new[u]] /\ ~children'[proc[u]][slot[u]].dead
               /\ new[u] # o
    <3>1. pc[u] = "fork"
      BY <1>3, <2>1
    <3>2. /\ new[u] \in used /\ tenant[new[u]] = Null
          /\ table[id[new[u]]] = new[u] /\ parent[new[u]] = proc[u]
          /\ \A j \in Children : children[new[u]][j] = NoChild
          /\ children[proc[u]][slot[u]].id = id[new[u]] /\ ~children[proc[u]][slot[u]].dead
      BY <3>1 DEF Sound, ForksSound
    <3>3. new[u] \in Objs /\ slot[u] \in Children /\ proc[u] \in Objs /\ proc[u] # o
      BY <1>2, <3>1, ForkApart, ActiveLive
    <3>4. new[u] # o /\ new[u] # p /\ id[new[u]] \in Pids /\ id[new[u]] # x
      BY <1>2, <1>4, <1>5, <3>2, <3>3 DEF TypeOK
    <3>5. ~(proc[u] = p /\ slot[u] = i)
      BY <1>2, <1>5, <3>2, <3>4
    <3>. QED
      BY <1>2, <1>3, <3>2, <3>3, <3>4, <3>5
  <2>2. /\ o \in used' /\ table'[id'[o]] = o
        /\ children'[proc[t]][i].id = id'[o] /\ ~children'[proc[t]][i].dead
    BY <1>2, <1>3, <1>9
  <2>3. ASSUME NEW u \in Tasks, NEW v \in Tasks, pc'[u] = "fork", pc'[v] = "fork", new'[u] = new'[v]
        PROVE  u = v
    BY <1>3, <2>1, <2>3 DEF Sound, ForksSound
  <2>. QED
    BY <1>2, <1>3, <2>1, <2>2, <2>3 DEF ForksSound
<1>19. WaitsSound'
  <2>1. ASSUME NEW w \in Tasks, pc'[w] = "wait"
        PROVE  \A j \in Children : children'[proc[w]][j] = children[proc[w]][j]
    <3>1. w # t /\ pc[w] = "wait" /\ Active(w)
      BY <1>3, <2>1 DEF Active
    <3>2. proc[w] \in Objs /\ proc[w] # o /\ tenant[proc[w]] = root[w]
      BY <1>2, <3>1, ActiveLive
    <3>3. proc[w] # p
      BY <1>4, <3>1, <3>2 DEF Sound, Alone
    <3>. QED
      BY <1>2, <3>2, <3>3
  <2>. QED
    BY <1>2, <1>3, <2>1 DEF Sound, WaitsSound, TasksSound
<1>20. MainsSound'
  <2>1. ASSUME NEW u \in Tasks, Active(u) PROVE main'[proc[u]] = main[proc[u]]
    BY <1>2, <1>3, <2>1, ActiveLive
  <2>2. \A u \in Tasks : pc[u] = "execed" => pc'[u] = "execed" /\ new'[u] = new[u]
    BY <1>2, <1>3
  <2>. QED
    BY <1>2, <1>6, <2>1, <2>2 DEF Sound, MainsSound, MainSound
<1>21. ExecsSound'
  <2>1. ASSUME NEW u \in Tasks, pc'[u] = "execed"
        PROVE  /\ pc[u] = "execed" /\ new'[u] = new[u] /\ new[u] \in Tasks
               /\ root[u] \notin exited => main'[proc[u]] = main[proc[u]]
    <3>1. u # t /\ pc[u] = "execed" /\ new'[u] = new[u] /\ new[u] \in Tasks
      BY <1>3, <2>1 DEF Sound, TasksSound
    <3>2. ASSUME root[u] \notin exited PROVE main'[proc[u]] = main[proc[u]]
      <4>1. root[u] \in Tasks /\ Live(root[u]) /\ proc[u] = proc[root[u]]
        BY <3>1, <3>2, Placed DEF Sound, Live
      <4>. QED
        BY <1>3, <1>8, <4>1
    <3>. QED
      BY <3>1, <3>2
  <2>. QED
    BY <1>2, <1>3, <1>6, <2>1 DEF Sound, ExecsSound
<1>. QED
  BY <1>10, <1>11, <1>12, <1>13, <1>14, <1>15, <1>16, <1>17, <1>18, <1>19, <1>20, <1>21 DEF Sound

LEMMA ForkFailsSound ==
  ASSUME TypeOK, TypeOK', Sound, NEW t \in Tasks, ForkFails(t)
  PROVE  Sound'
<1>1. PICK n \in Objs : n = new[t]
  BY ForkApart DEF ForkFails, Goto, At
<1>2. /\ pc[t] = "fork" /\ table[id[n]] = n /\ id[n] \in Pids
      /\ \A r \in Tasks : Live(r) => proc[r] # n /\ pid[r] # id[n]
  <2>1. pc[t] = "fork"
    BY DEF ForkFails, Goto, At
  <2>. QED
    BY <1>1, <2>1, ForkApart DEF Sound, ForksSound, TypeOK
<1>3. /\ used' = used \ {n} /\ table' = [table EXCEPT ![id[n]] = Null]
      /\ pc' = [pc EXCEPT ![t] = "run"] /\ new' = [new EXCEPT ![t] = Null] /\ slot' = [slot EXCEPT ![t] = 0]
      /\ UNCHANGED <<id, parent, main, children, proc, root, tenant, dad, pid, home, exited>>
  BY <1>1, <1>2 DEF ForkFails, Goto, Drop, history
<1>4. /\ table'[id[n]] = Null /\ \A y \in Pids \ {id[n]} : table'[y] = table[y]
      /\ pc'[t] = "run"
      /\ \A u \in Tasks \ {t} : pc'[u] = pc[u] /\ new'[u] = new[u] /\ slot'[u] = slot[u]
  BY <1>2, <1>3 DEF TypeOK
<1>5. \A u \in Tasks : Active(u)' <=> Active(u)
  BY <1>2, <1>4 DEF Active
<1>6. \A r \in Tasks : Live(r)' <=> Live(r)
  BY <1>3 DEF Live
<1>7. TasksSound' /\ Alone'
  BY <1>2, <1>3, <1>4, <1>5 DEF Sound, TasksSound, Alone
<1>8. RootsSound' /\ ParentsSound' /\ EntryOfLiveChild' /\ DeadSound'
  BY <1>3, <1>6 DEF Sound, RootsSound, ParentsSound, EntryOfLiveChild, DeadSound, Live
<1>9. TableSound'
  BY <1>2, <1>3, <1>4 DEF Sound, TableSound
<1>10. LiveSound'
  BY <1>2, <1>3, <1>4, <1>6, LivePlaced DEF LiveSound
<1>11. ForksSound'
  <2>1. ASSUME NEW u \in Tasks, pc'[u] = "fork"
        PROVE  /\ u # t /\ pc[u] = "fork" /\ new'[u] = new[u] /\ slot'[u] = slot[u]
               /\ new[u] # n /\ table'[id[new[u]]] = new[u]
    <3>1. u # t /\ pc[u] = "fork" /\ new'[u] = new[u] /\ slot'[u] = slot[u]
      BY <1>4, <2>1
    <3>2. new[u] # n /\ table[id[new[u]]] = new[u] /\ id[new[u]] \in Pids
      BY <1>1, <1>2, <3>1, ForkApart DEF Sound, ForksSound, TypeOK
    <3>. QED
      BY <1>2, <1>4, <3>1, <3>2
  <2>. QED
    BY <1>3, <2>1 DEF Sound, ForksSound
<1>12. WaitsSound'
  BY <1>3, <1>4 DEF Sound, WaitsSound
<1>13. MainsSound' /\ ExecsSound'
  BY <1>2, <1>3, <1>4, <1>5 DEF Sound, MainsSound, MainSound, ExecsSound, TasksSound
<1>. QED
  BY <1>7, <1>8, <1>9, <1>10, <1>11, <1>12, <1>13 DEF Sound

\* A task that is not created is nobody's root, parent or result.
LEMMA NotCreated ==
  ASSUME TypeOK, Sound, NEW u \in Tasks, pc[u] = "none"
  PROVE  /\ root[u] = Null /\ u \notin exited /\ ~Live(u) /\ Null \notin Tasks
         /\ \A v \in Tasks : root[v] # u
         /\ \A r \in Tasks : root[r] = r => dad[r] # u
<1>1. root[u] = Null /\ Null \notin Tasks
  BY ProcessAssumption DEF Sound, TasksSound
<1>2. u \notin exited /\ ~Live(u)
  BY <1>1 DEF Sound, RootsSound, Live
<1>3. ASSUME NEW v \in Tasks, root[v] = u PROVE FALSE
  BY <1>1, <1>3 DEF Sound, TasksSound
<1>4. ASSUME NEW r \in Tasks, root[r] = r, dad[r] = u PROVE FALSE
  BY <1>1, <1>4 DEF Sound, RootsSound
<1>. QED
  BY <1>1, <1>2, <1>3, <1>4

LEMMA ForkQueueSound ==
  ASSUME TypeOK, TypeOK', Sound, NEW t \in Tasks, NEW u \in Tasks, ForkQueue(t, u)
  PROVE  Sound'
<1>1. PICK n \in Objs : n = new[t]
  BY ForkApart DEF ForkQueue, At
<1>2. pc[t] = "fork" /\ pc[u] = "none" /\ t # u
  BY DEF ForkQueue, At
<1>3. /\ n \in used /\ tenant[n] = Null /\ table[id[n]] = n /\ parent[n] = proc[t] /\ id[n] \in Pids
      /\ \A j \in Children : children[n][j] = NoChild
      /\ children[proc[t]][slot[t]].id = id[n] /\ ~children[proc[t]][slot[t]].dead
      /\ \A v \in Tasks : pc[v] = "fork" /\ new[v] = n => v = t
      /\ slot[t] \in Children /\ Active(t)
      /\ \A r \in Tasks : Live(r) => proc[r] # n
  BY <1>1, <1>2, ForkApart DEF Sound, ForksSound, TypeOK
<1>4. /\ root[t] \in Tasks /\ Live(root[t]) /\ proc[t] = proc[root[t]] /\ proc[t] \in Objs
      /\ tenant[proc[t]] = root[t] /\ root[root[t]] = root[t]
  BY <1>3, ActiveLive DEF Live
<1>5. /\ root[u] = Null /\ u \notin exited /\ ~Live(u) /\ Null \notin Tasks
      /\ \A v \in Tasks : root[v] # u
      /\ \A r \in Tasks : root[r] = r => dad[r] # u
  BY <1>2, NotCreated
<1>6. /\ pc'[t] = "forked" /\ pc'[u] = "run" /\ new'[t] = u
      /\ main'[n] = u /\ tenant'[n] = u
      /\ proc'[u] = n /\ root'[u] = u /\ dad'[u] = root[t] /\ pid'[u] = id[n] /\ home'[u] = slot[t]
      /\ \A v \in Tasks \ {t, u} : pc'[v] = pc[v]
      /\ \A v \in Tasks \ {t} : new'[v] = new[v]
      /\ \A v \in Tasks \ {u} : /\ proc'[v] = proc[v] /\ root'[v] = root[v] /\ dad'[v] = dad[v]
                              /\ pid'[v] = pid[v] /\ home'[v] = home[v]
      /\ \A q \in Objs \ {n} : main'[q] = main[q] /\ tenant'[q] = tenant[q]
      /\ UNCHANGED <<used, table, id, parent, children, slot, exited>>
  BY <1>1, <1>2 DEF ForkQueue, TypeOK
<1>7. \A v \in Tasks : Active(v)' <=> Active(v) \/ v = u
  BY <1>2, <1>6 DEF Active
<1>8. \A r \in Tasks : Live(r)' <=> Live(r) \/ r = u
  BY <1>5, <1>6 DEF Live
<1>9. TasksSound'
  <2>1. \A v \in Tasks \ {u} : pc'[v] = "none" <=> pc[v] = "none"
    BY <1>2, <1>6
  <2>2. \A v \in Tasks \ {u} : root[v] \in Tasks => root'[root[v]] = root[root[v]] /\ proc'[root[v]] = proc[root[v]]
    BY <1>5, <1>6
  <2>. QED
    BY <1>2, <1>5, <1>6, <1>7, <2>1, <2>2 DEF Sound, TasksSound
<1>10. Alone'
  BY <1>5, <1>6, <1>7 DEF Sound, Alone
<1>11. RootsSound'
  <2>1. \A r \in Tasks : root[r] = r /\ dad[r] # Null => dad[r] \in Tasks /\ root'[dad[r]] = root[dad[r]]
    BY <1>5, <1>6 DEF TypeOK
  <2>2. root'[root[t]] = root[t]
    BY <1>4, <1>5, <1>6
  <2>. QED
    BY <1>3, <1>5, <1>6, <2>1, <2>2 DEF Sound, RootsSound
<1>12. TableSound'
  BY <1>6 DEF Sound, TableSound
<1>13. LiveSound'
  <2>1. ASSUME NEW r \in Tasks, Live(r)
        PROVE  r # u /\ proc[r] \in Objs /\ proc[r] # n
    BY <1>3, <1>5, <2>1, LivePlaced
  <2>. QED
    BY <1>3, <1>6, <1>8, <2>1 DEF Sound, LiveSound
<1>14. ParentsSound'
  <2>1. ASSUME NEW r \in Tasks, Live(r)
        PROVE  IF dad'[r] = Null THEN parent'[proc'[r]] = Null
               ELSE /\ parent'[proc'[r]] = proc'[dad'[r]]
                    /\ \/ tenant'[proc'[dad'[r]]] = dad'[r]
                       \/ \A j \in Children : children'[proc'[dad'[r]]][j].id # pid'[r]
    <3>1. /\ r # u /\ dad'[r] = dad[r] /\ proc'[r] = proc[r] /\ pid'[r] = pid[r]
          /\ dad[r] # Null => /\ dad[r] \in Tasks /\ proc[dad[r]] \in Objs
                              /\ dad[r] # u /\ proc'[dad[r]] = proc[dad[r]]
      BY <1>5, <1>6, <2>1, LivePlaced DEF Live
    <3>2. IF dad[r] = Null THEN parent[proc[r]] = Null
          ELSE /\ parent[proc[r]] = proc[dad[r]]
               /\ \/ tenant[proc[dad[r]]] = dad[r]
                  \/ \A j \in Children : children[proc[dad[r]]][j].id # pid[r]
      BY <2>1 DEF Sound, ParentsSound
    <3>3. CASE dad[r] = Null
      BY <1>6, <3>1, <3>2, <3>3
    <3>4. CASE dad[r] # Null
      <4>1. tenant[proc[dad[r]]] = dad[r] => tenant'[proc[dad[r]]] = dad[r]
        BY <1>3, <1>6, <3>1, <3>4
      <4>. QED
        BY <1>6, <3>1, <3>2, <3>4, <4>1
    <3>. QED
      BY <3>3, <3>4
  <2>2. /\ dad'[u] # Null /\ parent'[proc'[u]] = proc'[dad'[u]]
        /\ tenant'[proc'[dad'[u]]] = dad'[u]
    BY <1>3, <1>4, <1>5, <1>6
  <2>. QED
    BY <1>8, <2>1, <2>2 DEF ParentsSound
<1>15. EntryOfLiveChild'
  <2>1. ASSUME NEW r \in Tasks, Live(r), dad'[r] # Null, root'[dad'[r]] = dad'[r], dad'[r] \notin exited
        PROVE  children'[proc'[dad'[r]]][home'[r]].id = pid'[r] /\ ~children'[proc'[dad'[r]]][home'[r]].dead
    <3>1. /\ r # u /\ dad'[r] = dad[r] /\ pid'[r] = pid[r] /\ home'[r] = home[r]
          /\ dad[r] \in Tasks /\ dad[r] # u /\ proc'[dad[r]] = proc[dad[r]]
      BY <1>5, <1>6, <2>1, LivePlaced DEF Live
    <3>2. Live(dad[r])
      BY <1>6, <2>1, <3>1 DEF Live
    <3>. QED
      BY <1>6, <2>1, <3>1, <3>2 DEF Sound, EntryOfLiveChild
  <2>2. children'[proc'[dad'[u]]][home'[u]].id = pid'[u] /\ ~children'[proc'[dad'[u]]][home'[u]].dead
    BY <1>3, <1>4, <1>5, <1>6
  <2>3. \A r \in Tasks : Live(r)' => Live(r) \/ r = u
    BY <1>8
  <2>. QED
    BY <1>6, <2>1, <2>2, <2>3 DEF EntryOfLiveChild, Live
<1>16. DeadSound'
  <2>1. \A j \in Children : ~children'[proc'[u]][j].dead
    BY <1>3, <1>6 DEF NoChild
  <2>2. ASSUME NEW d \in Tasks, Live(d), NEW j \in Children, children[proc[d]][j].dead
        PROVE  \E r \in exited :
                 /\ dad'[r] = d /\ pid'[r] = children[proc[d]][j].id
                 /\ children[proc[d]][j].code \in Tasks /\ root'[children[proc[d]][j].code] = r
    <3>1. PICK r \in exited :
                 /\ dad[r] = d /\ pid[r] = children[proc[d]][j].id
                 /\ children[proc[d]][j].code \in Tasks /\ root[children[proc[d]][j].code] = r
      BY <2>2 DEF Sound, DeadSound
    <3>2. r \in Tasks /\ r # u /\ children[proc[d]][j].code # u
      BY <1>5, <3>1 DEF TypeOK
    <3>. QED
      BY <1>6, <3>1, <3>2
  <2>3. \A d \in Tasks : Live(d) => d # u /\ proc'[d] = proc[d]
    BY <1>5, <1>6
  <2>. QED
    BY <1>6, <1>8, <2>1, <2>2, <2>3 DEF DeadSound
<1>17. ForksSound'
  <2>1. ASSUME NEW w \in Tasks, pc'[w] = "fork"
        PROVE  /\ w # t /\ w # u /\ pc[w] = "fork" /\ new'[w] = new[w] /\ proc'[w] = proc[w]
               /\ new[w] \in Objs /\ new[w] # n /\ tenant'[new[w]] = tenant[new[w]]
    <3>1. w # t /\ w # u /\ pc[w] = "fork" /\ new'[w] = new[w] /\ proc'[w] = proc[w]
      BY <1>6, <2>1
    <3>2. new[w] \in Objs /\ new[w] # n
      BY <1>3, <3>1, ForkApart
    <3>. QED
      BY <1>6, <3>1, <3>2
  <2>. QED
    BY <1>6, <2>1 DEF Sound, ForksSound
<1>18. WaitsSound'
  <2>1. \A w \in Tasks : pc'[w] = "wait" => w # u /\ pc[w] = "wait" /\ proc'[w] = proc[w]
    BY <1>6
  <2>. QED
    BY <1>6, <2>1 DEF Sound, WaitsSound
<1>19. \A w \in Tasks : pc[w] = "execed" => pc'[w] = "execed" /\ new'[w] = new[w]
  BY <1>2, <1>6
<1>20. MainsSound'
  <2>1. ASSUME NEW v \in Tasks, Active(v), v # u PROVE MainSound(v)'
    <3>1. proc'[v] = proc[v] /\ main'[proc[v]] = main[proc[v]]
      BY <1>3, <1>6, <2>1, ActiveLive
    <3>2. main[proc[v]] \in Tasks /\ root[main[proc[v]]] \in exited => root'[main[proc[v]]] = root[main[proc[v]]]
      BY <1>5, <1>6 DEF TypeOK
    <3>3. MainSound(v)
      BY <2>1 DEF Sound, MainsSound
    <3>. QED
      BY <1>6, <1>19, <3>1, <3>2, <3>3 DEF MainSound
  <2>2. MainSound(u)'
    BY <1>6 DEF MainSound
  <2>. QED
    BY <1>7, <2>1, <2>2 DEF MainsSound
<1>21. ExecsSound'
  <2>1. ASSUME NEW w \in Tasks, pc'[w] = "execed"
        PROVE  /\ pc[w] = "execed" /\ new'[w] = new[w] /\ root'[w] = root[w] /\ proc'[w] = proc[w]
               /\ new[w] \in Tasks /\ new[w] # u /\ root'[new[w]] = root[new[w]]
               /\ root[w] \notin exited => main'[proc[w]] = main[proc[w]]
    <3>1. w # t /\ w # u /\ pc[w] = "execed" /\ new'[w] = new[w]
      BY <1>6, <2>1
    <3>2. new[w] \in Tasks /\ new[w] # u
      BY <1>5, <3>1 DEF Sound, TasksSound, ExecsSound
    <3>3. ASSUME root[w] \notin exited PROVE main'[proc[w]] = main[proc[w]]
      <4>1. root[w] \in Tasks /\ Live(root[w]) /\ proc[w] = proc[root[w]] /\ proc[w] \in Objs
        BY <3>1, <3>3, Placed DEF Sound, Live
      <4>. QED
        BY <1>3, <1>6, <4>1
    <3>. QED
      BY <1>6, <3>1, <3>2, <3>3
  <2>2. \A v \in Tasks : pc'[v] = "exec" => pc[v] = "exec"
    BY <1>6
  <2>. QED
    BY <1>6, <1>7, <2>1, <2>2 DEF Sound, ExecsSound
<1>. QED
  BY <1>9, <1>10, <1>11, <1>12, <1>13, <1>14, <1>15, <1>16, <1>17, <1>18, <1>20, <1>21 DEF Sound

LEMMA ExecQueueSound ==
  ASSUME TypeOK, TypeOK', Sound, NEW t \in Tasks, ExecQueue(t)
  PROVE  Sound'
<1>1. pc[t] = "exec" /\ Active(t) /\ new[t] \in Tasks
  BY DEF ExecQueue, At, Active, Sound, TasksSound
<1>2. PICK u \in Tasks : u = new[t] /\ pc[u] = "none" /\ u # t
  BY <1>1 DEF ExecQueue, At
<1>3. /\ root[t] \in Tasks /\ Live(root[t]) /\ proc[t] = proc[root[t]] /\ proc[t] \in Objs
      /\ root[root[t]] = root[t] /\ root[t] \notin exited
  BY <1>1, ActiveLive DEF Live
<1>4. /\ root[u] = Null /\ u \notin exited /\ ~Live(u) /\ Null \notin Tasks
      /\ \A v \in Tasks : root[v] # u
      /\ \A r \in Tasks : root[r] = r => dad[r] # u
  BY <1>2, NotCreated
<1>5. /\ pc'[t] = "execed" /\ pc'[u] = "run"
      /\ proc'[u] = proc[t] /\ root'[u] = root[t]
      /\ \A v \in Tasks \ {t, u} : pc'[v] = pc[v]
      /\ \A v \in Tasks \ {u} : proc'[v] = proc[v] /\ root'[v] = root[v]
      /\ UNCHANGED <<used, table, id, parent, main, children, slot, new, tenant, dad, pid, home, exited>>
  BY <1>2 DEF ExecQueue, TypeOK, objects
<1>6. \A v \in Tasks : Active(v)' <=> (Active(v) /\ v # t) \/ v = u
  BY <1>2, <1>5 DEF Active
<1>7. \A r \in Tasks : Live(r)' <=> Live(r)
  BY <1>4, <1>5 DEF Live
<1>8. \A r \in Tasks : Live(r) => r # u
  BY <1>4
<1>9. TasksSound'
  <2>1. \A v \in Tasks \ {u} : pc'[v] = "none" <=> pc[v] = "none"
    BY <1>1, <1>2, <1>5
  <2>2. \A v \in Tasks : root[v] \in Tasks => root'[root[v]] = root[root[v]] /\ proc'[root[v]] = proc[root[v]]
    BY <1>4, <1>5
  <2>. QED
    BY <1>1, <1>2, <1>3, <1>4, <1>5, <1>6, <2>1, <2>2 DEF Sound, TasksSound
<1>10. Alone'
  BY <1>1, <1>4, <1>5, <1>6 DEF Sound, Alone
<1>11. RootsSound'
  <2>1. \A r \in Tasks : root'[r] = r => r # u /\ root[r] = r
    BY <1>4, <1>5
  <2>2. \A r \in Tasks : root[r] = r /\ dad[r] # Null => dad[r] \in Tasks /\ root'[dad[r]] = root[dad[r]]
    BY <1>4, <1>5 DEF TypeOK
  <2>. QED
    BY <1>4, <1>5, <2>1, <2>2 DEF Sound, RootsSound
<1>12. TableSound'
  BY <1>5 DEF Sound, TableSound
<1>13. LiveSound'
  BY <1>5, <1>7, <1>8 DEF Sound, LiveSound
<1>14. \A r \in Tasks : Live(r) /\ dad[r] # Null => dad[r] \in Tasks /\ proc'[dad[r]] = proc[dad[r]]
  BY <1>4, <1>5, LivePlaced DEF Live
<1>15. ParentsSound'
  BY <1>5, <1>7, <1>8, <1>14 DEF Sound, ParentsSound
<1>16. EntryOfLiveChild'
  <2>1. ASSUME NEW r \in Tasks, Live(r)', dad'[r] # Null, Live(dad[r])'
        PROVE  children'[proc'[dad'[r]]][home'[r]].id = pid'[r] /\ ~children'[proc'[dad'[r]]][home'[r]].dead
    <3>1. Live(r) /\ dad'[r] = dad[r]
      BY <1>5, <1>7, <2>1
    <3>2. dad[r] \in Tasks /\ proc'[dad[r]] = proc[dad[r]]
      BY <1>14, <2>1, <3>1
    <3>3. Live(dad[r])
      BY <1>4, <1>5, <2>1, <3>1, <3>2 DEF Live
    <3>. QED
      BY <1>5, <2>1, <3>1, <3>2, <3>3 DEF Sound, EntryOfLiveChild
  <2>. QED
    BY <1>5, <2>1 DEF EntryOfLiveChild, Live
<1>17. DeadSound'
  <2>1. ASSUME NEW d \in Tasks, Live(d), NEW j \in Children, children[proc[d]][j].dead
        PROVE  \E r \in exited :
                 /\ dad[r] = d /\ pid[r] = children[proc[d]][j].id
                 /\ children[proc[d]][j].code \in Tasks /\ root'[children[proc[d]][j].code] = r
    <3>1. PICK r \in exited :
                 /\ dad[r] = d /\ pid[r] = children[proc[d]][j].id
                 /\ children[proc[d]][j].code \in Tasks /\ root[children[proc[d]][j].code] = r
      BY <2>1 DEF Sound, DeadSound
    <3>2. children[proc[d]][j].code # u
      BY <1>4, <3>1 DEF TypeOK
    <3>. QED
      BY <1>5, <3>1, <3>2
  <2>. QED
    BY <1>5, <1>7, <1>8, <2>1 DEF DeadSound
<1>18. ForksSound'
  <2>1. \A w \in Tasks : pc'[w] = "fork" => pc[w] = "fork" /\ w # u /\ proc'[w] = proc[w]
    BY <1>5
  <2>. QED
    BY <1>5, <2>1 DEF Sound, ForksSound
<1>19. WaitsSound'
  <2>1. \A w \in Tasks : pc'[w] = "wait" => pc[w] = "wait" /\ w # u /\ proc'[w] = proc[w]
    BY <1>5
  <2>. QED
    BY <1>5, <2>1 DEF Sound, WaitsSound
<1>20. \A w \in Tasks : pc[w] = "execed" => pc'[w] = "execed"
  BY <1>1, <1>2, <1>5
<1>21. MainsSound'
  <2>1. ASSUME NEW v \in Tasks, Active(v), v # u PROVE MainSound(v)'
    <3>1. proc'[v] = proc[v]
      BY <1>5, <2>1
    <3>2. main[proc[v]] \in Tasks /\ root[main[proc[v]]] \in exited => root'[main[proc[v]]] = root[main[proc[v]]]
      BY <1>4, <1>5 DEF TypeOK
    <3>3. MainSound(v)
      BY <2>1 DEF Sound, MainsSound
    <3>. QED
      BY <1>5, <1>20, <3>1, <3>2, <3>3 DEF MainSound
  <2>2. MainSound(u)'
    BY <1>2, <1>5 DEF MainSound
  <2>. QED
    BY <1>6, <2>1, <2>2 DEF MainsSound
<1>22. ExecsSound'
  \* Nobody else is about to set main_thread, for this one could not have been in exec.
  <2>1. \A w \in Tasks : pc[w] = "execed" => root[w] # root[t] /\ new[w] # t
    <3>1. ASSUME NEW w \in Tasks, pc[w] = "execed", root[w] = root[t] \/ new[w] = t
          PROVE  FALSE
      <4>1. new[w] \in Tasks /\ root[new[w]] = root[w] /\ root[w] = root[t]
        BY <3>1 DEF Sound, TasksSound, ExecsSound
      <4>2. Active(new[w]) /\ pc[new[w]] # "exec"
        BY <1>3, <3>1, <4>1 DEF Sound, ExecsSound
      <4>. QED
        BY <1>1, <4>1, <4>2 DEF Sound, Alone
    <3>. QED
      BY <3>1
  <2>2. main[proc[t]] # u
    <3>1. MainSound(t)
      BY <1>1 DEF Sound, MainsSound
    <3>2. main[proc[t]] = t \/ (main[proc[t]] \in Tasks /\ root[main[proc[t]]] \in exited)
      BY <2>1, <3>1 DEF MainSound
    <3>. QED
      BY <1>2, <1>4, <3>2 DEF TypeOK
  <2>3. ASSUME NEW w \in Tasks, pc'[w] = "execed", w # t
        PROVE  /\ pc[w] = "execed" /\ root'[w] = root[w] /\ proc'[w] = proc[w]
               /\ new[w] \in Tasks /\ new[w] # u /\ root'[new[w]] = root[new[w]]
               /\ new[w] # t /\ root[w] # root[t]
    <3>1. w # u /\ pc[w] = "execed"
      BY <1>5, <2>3
    <3>2. new[w] \in Tasks /\ new[w] # u
      BY <1>4, <3>1 DEF Sound, TasksSound, ExecsSound
    <3>. QED
      BY <1>5, <2>1, <3>1, <3>2
  <2>4. ASSUME NEW w \in Tasks, pc'[w] = "execed", w # t
        PROVE  /\ root'[new[w]] = root'[w]
               /\ root'[w] \notin exited =>
                    /\ Active(new[w])' /\ pc'[new[w]] # "exec" /\ main[proc'[w]] # new[w]
                    /\ \A v \in Tasks : pc'[v] = "execed" /\ root'[v] = root'[w] => v = w
    <3>1. /\ root[new[w]] = root[w]
          /\ root[w] \notin exited =>
                    /\ Active(new[w]) /\ pc[new[w]] # "exec" /\ main[proc[w]] # new[w]
                    /\ \A v \in Tasks : pc[v] = "execed" /\ root[v] = root[w] => v = w
      BY <2>3, <2>4 DEF Sound, ExecsSound
    <3>2. root[w] \notin exited => Active(new[w])' /\ pc'[new[w]] # "exec"
      BY <1>5, <1>6, <2>3, <2>4, <3>1
    <3>3. \A v \in Tasks : pc'[v] = "execed" /\ root'[v] = root'[w] => pc[v] = "execed" /\ root[v] = root[w]
      BY <1>2, <1>5, <2>3, <2>4
    <3>. QED
      BY <2>3, <2>4, <3>1, <3>2, <3>3
  <2>5. /\ root'[u] = root'[t] /\ Active(u)' /\ pc'[u] # "exec" /\ main[proc'[t]] # u
        /\ \A v \in Tasks : pc'[v] = "execed" /\ root'[v] = root'[t] => v = t
    BY <1>2, <1>5, <1>6, <2>2, <2>3
  <2>. QED
    BY <1>2, <1>5, <2>4, <2>5 DEF ExecsSound
<1>. QED
  BY <1>9, <1>10, <1>11, <1>12, <1>13, <1>15, <1>16, <1>17, <1>18, <1>19, <1>21, <1>22 DEF Sound

LEMMA ExecReturnSound ==
  ASSUME TypeOK, TypeOK', Sound, NEW t \in Tasks, ExecReturn(t)
  PROVE  Sound'
<1>1. /\ pc[t] = "execed" /\ new[t] \in Tasks /\ proc[t] \in Objs
      /\ root[t] \in Tasks /\ root[new[t]] = root[t] /\ proc[t] = proc[root[t]] /\ root[root[t]] = root[t]
  <2>1. pc[t] = "execed"
    BY DEF ExecReturn, Goto, At
  <2>. QED
    BY <2>1, Placed DEF Sound, TasksSound, ExecsSound
<1>2. PICK u \in Tasks, o \in Objs : u = new[t] /\ o = proc[t]
  BY <1>1
<1>3. /\ pc'[t] = "halt" /\ \A v \in Tasks \ {t} : pc'[v] = pc[v] /\ new'[v] = new[v]
      /\ main'[o] = u /\ \A q \in Objs \ {o} : main'[q] = main[q]
      /\ UNCHANGED <<used, table, id, parent, children, proc, slot, root, tenant, dad, pid, home, exited>>
  BY <1>2 DEF ExecReturn, Goto, TypeOK, history
<1>4. \A v \in Tasks : Active(v)' <=> Active(v)
  BY <1>1, <1>3 DEF Active
<1>5. \A r \in Tasks : Live(r)' <=> Live(r)
  BY <1>3 DEF Live
<1>6. TasksSound' /\ Alone'
  <2>1. \A v \in Tasks : pc'[v] = "none" <=> pc[v] = "none"
    BY <1>1, <1>3
  <2>. QED
    BY <1>3, <1>4, <2>1 DEF Sound, TasksSound, Alone
<1>7. RootsSound' /\ TableSound' /\ LiveSound' /\ ParentsSound' /\ EntryOfLiveChild' /\ DeadSound'
  BY <1>3 DEF Sound, RootsSound, TableSound, LiveSound, ParentsSound, EntryOfLiveChild, DeadSound, Live
<1>8. ForksSound'
  <2>1. \A w \in Tasks : pc'[w] = "fork" => pc[w] = "fork" /\ new'[w] = new[w]
    BY <1>3
  <2>. QED
    BY <1>3, <2>1 DEF Sound, ForksSound
<1>9. WaitsSound'
  BY <1>3 DEF Sound, WaitsSound
\* Whoever has the object by now is the task that exec created, if that process still lives.
<1>10. ASSUME NEW r \in Tasks, Live(r), proc[r] = o
       PROVE  r = root[t] \/ root[t] \in exited
  BY <1>1, <1>2, <1>10, LiveApart DEF Live
<1>11. root[t] \notin exited =>
         /\ Active(u) /\ \A v \in Tasks : pc[v] = "execed" /\ root[v] = root[t] => v = t
  BY <1>1, <1>2 DEF Sound, ExecsSound
<1>12. MainsSound'
  <2>1. ASSUME NEW v \in Tasks, Active(v) PROVE MainSound(v)'
    <3>1. root[v] \in Tasks /\ Live(root[v]) /\ proc[v] = proc[root[v]] /\ proc[v] \in Objs
      BY <2>1, ActiveLive
    <3>2. CASE proc[v] = o /\ root[t] \in exited
      BY <1>1, <1>2, <1>3, <3>2 DEF MainSound
    <3>3. CASE proc[v] = o /\ root[t] \notin exited
      <4>1. root[v] = root[t]
        BY <1>10, <3>1, <3>3
      <4>2. v = u
        BY <1>1, <1>2, <1>11, <2>1, <3>3, <4>1 DEF Sound, Alone
      <4>. QED
        BY <1>3, <3>3, <4>2 DEF MainSound
    <3>4. CASE proc[v] # o
      <4>1. u # v
        <5>1. pc[t] # "none" /\ root[t] = root[u]
          BY <1>1, <1>2
        <5>. QED
          BY <1>2, <3>4, <5>1, SameObject
      <4>2. MainSound(v) /\ main'[proc[v]] = main[proc[v]]
        BY <1>3, <2>1, <3>1, <3>4 DEF Sound, MainsSound
      <4>. QED
        BY <1>2, <1>3, <4>1, <4>2 DEF MainSound
    <3>. QED
      BY <3>2, <3>3, <3>4
  <2>. QED
    BY <1>4, <2>1 DEF MainsSound
<1>13. ExecsSound'
  <2>1. ASSUME NEW w \in Tasks, pc'[w] = "execed"
        PROVE  /\ pc[w] = "execed" /\ w # t /\ new'[w] = new[w] /\ new[w] \in Tasks
               /\ root[w] \notin exited => main'[proc[w]] # new[w]
    <3>1. w # t /\ pc[w] = "execed" /\ new'[w] = new[w] /\ new[w] \in Tasks /\ root[new[w]] = root[w]
      BY <1>3, <2>1 DEF Sound, TasksSound, ExecsSound
    <3>2. ASSUME root[w] \notin exited PROVE main'[proc[w]] # new[w]
      <4>1. root[w] \in Tasks /\ Live(root[w]) /\ proc[w] = proc[root[w]] /\ proc[w] \in Objs
        BY <3>1, <3>2, Placed DEF Sound, Live
      <4>2. main[proc[w]] # new[w]
        BY <3>1, <3>2 DEF Sound, ExecsSound
      <4>3. CASE proc[w] = o
        <5>1. root[t] \in exited
          BY <1>10, <1>11, <3>1, <4>1, <4>3
        <5>. QED
          BY <1>1, <1>2, <1>3, <3>1, <3>2, <4>3, <5>1
      <4>. QED
        BY <1>3, <4>1, <4>2, <4>3
    <3>. QED
      BY <3>1, <3>2
  <2>2. \A v \in Tasks : pc'[v] = "exec" => pc[v] = "exec"
    BY <1>3
  <2>. QED
    BY <1>3, <1>4, <2>1, <2>2 DEF Sound, ExecsSound
<1>. QED
  BY <1>6, <1>7, <1>8, <1>9, <1>12, <1>13 DEF Sound

LEMMA ExitSound ==
  ASSUME TypeOK, TypeOK', Sound, NEW t \in Tasks, Exit(t)
  PROVE  Sound'
<1>1. PICK r \in Tasks, o \in Objs : Exited(t, r, o)
  BY ExitSteps
<1>2. /\ r = root[t] /\ Live(r) /\ o = proc[t] /\ o = proc[r] /\ pc[t] = "run" /\ Active(t)
      /\ used' = used \ {o} /\ exited' = exited \cup {r}
      /\ UNCHANGED <<id, parent, main, proc, slot, new, root, tenant, dad, pid, home>>
  BY <1>1 DEF Exited, Active
<1>3. /\ pid[r] \in Pids /\ id[o] = pid[r] /\ table[pid[r]] = o /\ tenant[o] = r /\ root[r] = r
      /\ Null \notin Tasks /\ Null \notin Objs /\ Invalid \notin Pids
  BY <1>2, LivePlaced DEF Live
<1>4. /\ table'[pid[r]] = Null /\ \A y \in Pids \ {pid[r]} : table'[y] = table[y]
      /\ pc'[t] = "halt" /\ \A u \in Tasks \ {t} : pc'[u] = pc[u]
  BY <1>1, <1>3 DEF Exited, TypeOK
<1>5. \A q \in Objs, j \in Children :
        /\ children'[q][j].id = children[q][j].id
        /\ children[q][j].id # pid[r] => children'[q][j] = children[q][j]
  BY <1>1 DEF Exited, Unreported, Reported
<1>6. ASSUME NEW q \in Objs, NEW j \in Children, children'[q][j] # children[q][j]
      PROVE  /\ dad[r] # Null /\ q = proc[dad[r]]
             /\ children'[q][j].id = pid[r] /\ children'[q][j].code = t
             /\ children[q][j].id = pid[r]
  BY <1>1, <1>6 DEF Exited, Unreported, Reported
<1>7. \A v \in Tasks : Active(v)' <=> Active(v) /\ v # t
  BY <1>2, <1>4 DEF Active
<1>8. \A q \in Tasks : Live(q)' <=> Live(q) /\ q # r
  BY <1>2 DEF Live
<1>9. \A v \in Tasks : Active(v) /\ v # t => root[v] # r
  BY <1>2 DEF Sound, Alone
<1>10. ASSUME NEW q \in Tasks, Live(q), q # r
       PROVE  proc[q] \in Objs \ {o} /\ pid[q] \in Pids \ {pid[r]}
  BY <1>2, <1>10, LivePlaced, LiveApart
<1>11. TasksSound'
  <2>1. \A v \in Tasks : pc'[v] = "none" <=> pc[v] = "none"
    BY <1>2, <1>4
  <2>2. \A v \in Tasks : pc'[v] # "halt" => pc'[v] = pc[v]
    BY <1>4
  <2>. QED
    BY <1>2, <1>7, <1>9, <2>1, <2>2 DEF Sound, TasksSound
<1>12. Alone'
  BY <1>2, <1>7 DEF Sound, Alone
<1>13. RootsSound'
  BY <1>2, <1>3 DEF Sound, RootsSound
<1>14. TableSound'
  BY <1>2, <1>3, <1>4 DEF Sound, TableSound
<1>15. LiveSound'
  BY <1>2, <1>4, <1>8, <1>10 DEF Sound, LiveSound
<1>16. ParentsSound'
  <2>1. ASSUME NEW q \in Tasks, Live(q), dad[q] # Null,
               \A j \in Children : children[proc[dad[q]]][j].id # pid[q]
        PROVE  \A j \in Children : children'[proc[dad[q]]][j].id # pid[q]
    BY <1>5, <2>1, LivePlaced
  <2>. QED
    BY <1>2, <1>8, <2>1 DEF Sound, ParentsSound
<1>17. EntryOfLiveChild'
  <2>1. ASSUME NEW q \in Tasks, Live(q), q # r, dad[q] # Null, Live(dad[q])
        PROVE  children'[proc[dad[q]]][home[q]].id = pid[q] /\ ~children'[proc[dad[q]]][home[q]].dead
    <3>1. children[proc[dad[q]]][home[q]].id = pid[q] /\ ~children[proc[dad[q]]][home[q]].dead
      BY <2>1 DEF Sound, EntryOfLiveChild
    <3>2. proc[dad[q]] \in Objs /\ home[q] \in Children /\ pid[q] # pid[r]
      BY <1>10, <2>1, LivePlaced
    <3>. QED
      BY <1>5, <3>1, <3>2
  <2>2. ASSUME NEW q \in Tasks, Live(q)', dad[q] # Null, Live(dad[q])'
        PROVE  Live(q) /\ q # r /\ Live(dad[q])
    BY <1>2, <1>8, <2>2 DEF Live
  <2>. QED
    BY <1>2, <2>1, <2>2 DEF EntryOfLiveChild
<1>18. DeadSound'
  <2>1. ASSUME NEW d \in Tasks, Live(d), d # r, NEW j \in Children, children'[proc[d]][j].dead
        PROVE  \E q \in exited' :
                 /\ dad[q] = d /\ pid[q] = children'[proc[d]][j].id
                 /\ children'[proc[d]][j].code \in Tasks /\ root[children'[proc[d]][j].code] = q
    <3>1. CASE children'[proc[d]][j] = children[proc[d]][j]
      BY <1>2, <2>1, <3>1 DEF Sound, DeadSound
    <3>2. CASE children'[proc[d]][j] # children[proc[d]][j]
      <4>1. proc[d] \in Objs /\ tenant[proc[d]] = d
        BY <2>1, LivePlaced
      <4>2. /\ dad[r] # Null /\ proc[d] = proc[dad[r]]
            /\ children'[proc[d]][j].id = pid[r] /\ children'[proc[d]][j].code = t
            /\ children[proc[d]][j].id = pid[r]
        BY <1>6, <3>2, <4>1
      <4>3. d = dad[r]
        BY <1>2, <4>1, <4>2 DEF Sound, ParentsSound
      <4>. QED
        BY <1>2, <4>2, <4>3
    <3>. QED
      BY <3>1, <3>2
  <2>. QED
    BY <1>2, <1>8, <2>1 DEF DeadSound
<1>19. ForksSound'
  <2>1. ASSUME NEW w \in Tasks, pc[w] = "fork"
        PROVE  /\ new[w] \in used' /\ table'[id[new[w]]] = new[w]
               /\ \A j \in Children : children'[new[w]][j] = NoChild
               /\ children'[proc[w]][slot[w]] = children[proc[w]][slot[w]]
    <3>1. /\ new[w] \in Objs /\ slot[w] \in Children /\ new[w] # o /\ id[new[w]] # pid[r]
          /\ proc[w] \in Objs /\ id[new[w]] \in Pids
      BY <1>2, <2>1, ForkApart, ActiveLive DEF TypeOK
    <3>2. /\ new[w] \in used /\ table[id[new[w]]] = new[w]
          /\ \A j \in Children : children[new[w]][j] = NoChild
          /\ children[proc[w]][slot[w]].id = id[new[w]]
      BY <2>1 DEF Sound, ForksSound
    <3>3. NoChild.id # pid[r]
      BY <1>3 DEF NoChild
    <3>. QED
      BY <1>2, <1>4, <1>5, <3>1, <3>2, <3>3
  <2>2. \A w \in Tasks : pc'[w] = "fork" => pc[w] = "fork"
    BY <1>4
  <2>. QED
    BY <1>2, <2>1, <2>2 DEF Sound, ForksSound
<1>20. WaitsSound'
  <2>1. ASSUME NEW w \in Tasks, pc'[w] = "wait"
        PROVE  pc[w] = "wait" /\ proc[w] \in Objs /\ slot[w] \in Children
    <3>1. pc[w] = "wait" /\ Active(w)
      BY <1>4, <2>1 DEF Active
    <3>. QED
      BY <3>1, ActiveLive DEF Sound, TasksSound
  <2>. QED
    BY <1>2, <1>5, <2>1 DEF Sound, WaitsSound
<1>21. \A w \in Tasks : pc'[w] = "execed" <=> pc[w] = "execed"
  BY <1>2, <1>4
<1>22. MainsSound'
  BY <1>2, <1>7, <1>21 DEF Sound, MainsSound, MainSound
<1>23. ExecsSound'
  <2>1. ASSUME NEW w \in Tasks, pc[w] = "execed", root[w] # r
        PROVE  new[w] \in Tasks /\ new[w] # t
    BY <1>2, <2>1 DEF Sound, TasksSound, ExecsSound
  <2>2. \A v \in Tasks : pc'[v] = "exec" => pc[v] = "exec"
    BY <1>4
  <2>. QED
    BY <1>2, <1>7, <1>21, <2>1, <2>2 DEF Sound, ExecsSound
<1>. QED
  BY <1>11, <1>12, <1>13, <1>14, <1>15, <1>16, <1>17, <1>18, <1>19, <1>20, <1>22, <1>23 DEF Sound

LEMMA WaitResolveSound ==
  ASSUME TypeOK, TypeOK', Sound, NEW t \in Tasks, WaitResolve(t)
  PROVE  Sound'
<1>1. PICK o \in Objs, i \in Children : Waited(t, o, i)
  BY WaitSteps
<1>2. /\ o = proc[t] /\ i = slot[t] /\ pc[t] = "wait" /\ children[o][i].dead /\ Active(t)
      /\ children'[o][i] = NoChild
      /\ \A q \in Objs, j \in Children : ~(q = o /\ j = i) => children'[q][j] = children[q][j]
      /\ UNCHANGED <<used, table, id, parent, main, proc, new, root, tenant, dad, pid, home, exited>>
  BY <1>1 DEF Waited, Active
<1>3. /\ pc'[t] = "run" /\ \A u \in Tasks \ {t} : pc'[u] = pc[u] /\ slot'[u] = slot[u]
  BY <1>1 DEF Waited, TypeOK
<1>4. tenant[o] = root[t] /\ root[t] \in Tasks /\ Null \notin Tasks /\ Invalid \notin Pids
  BY <1>2, ActiveLive, LivePlaced
<1>5. \A v \in Tasks : Active(v)' <=> Active(v)
  BY <1>2, <1>3 DEF Active
<1>6. \A r \in Tasks : Live(r)' <=> Live(r)
  BY <1>2 DEF Live
<1>7. NoChild.id = Invalid /\ ~NoChild.dead
  BY DEF NoChild
<1>8. TasksSound' /\ Alone'
  <2>1. \A v \in Tasks : pc'[v] = "none" <=> pc[v] = "none"
    BY <1>2, <1>3
  <2>. QED
    BY <1>2, <1>3, <1>5, <2>1 DEF Sound, TasksSound, Alone
<1>9. RootsSound' /\ TableSound' /\ LiveSound'
  BY <1>2, <1>6 DEF Sound, RootsSound, TableSound, LiveSound
<1>10. ParentsSound'
  <2>1. ASSUME NEW q \in Tasks, Live(q), dad[q] # Null,
               \A j \in Children : children[proc[dad[q]]][j].id # pid[q]
        PROVE  \A j \in Children : children'[proc[dad[q]]][j].id # pid[q]
    BY <1>2, <1>4, <1>7, <2>1, LivePlaced
  <2>. QED
    BY <1>2, <1>6, <2>1 DEF Sound, ParentsSound
<1>11. EntryOfLiveChild'
  <2>1. ASSUME NEW q \in Tasks, Live(q), dad[q] # Null, Live(dad[q])
        PROVE  children'[proc[dad[q]]][home[q]] = children[proc[dad[q]]][home[q]]
    <3>1. ~children[proc[dad[q]]][home[q]].dead /\ proc[dad[q]] \in Objs /\ home[q] \in Children
      BY <2>1, LivePlaced DEF Sound, EntryOfLiveChild
    <3>. QED
      BY <1>2, <3>1
  <2>. QED
    BY <1>2, <1>6, <2>1 DEF Sound, EntryOfLiveChild, Live
<1>12. DeadSound'
  <2>1. ASSUME NEW d \in Tasks, Live(d), NEW j \in Children, children'[proc[d]][j].dead
        PROVE  children'[proc[d]][j] = children[proc[d]][j]
    BY <1>2, <1>7, <2>1, LivePlaced
  <2>. QED
    BY <1>2, <1>6, <2>1 DEF Sound, DeadSound
<1>13. ForksSound'
  <2>1. ASSUME NEW w \in Tasks, pc[w] = "fork"
        PROVE  /\ \A j \in Children : children'[new[w]][j] = NoChild
               /\ children'[proc[w]][slot[w]] = children[proc[w]][slot[w]]
    <3>1. new[w] \in Objs /\ slot[w] \in Children /\ proc[w] \in Objs
      BY <2>1, ForkApart, ActiveLive
    <3>2. /\ \A j \in Children : children[new[w]][j] = NoChild
          /\ ~children[proc[w]][slot[w]].dead
      BY <2>1 DEF Sound, ForksSound
    <3>. QED
      BY <1>2, <3>1, <3>2
  <2>2. \A w \in Tasks : pc'[w] = "fork" => pc[w] = "fork" /\ slot'[w] = slot[w]
    BY <1>3
  <2>. QED
    BY <1>2, <2>1, <2>2 DEF Sound, ForksSound
<1>14. WaitsSound'
  <2>1. ASSUME NEW w \in Tasks, pc'[w] = "wait"
        PROVE  /\ pc[w] = "wait" /\ slot'[w] = slot[w] /\ slot[w] \in Children
               /\ \A j \in Children : children'[proc[w]][j] = children[proc[w]][j]
    <3>1. w # t /\ pc[w] = "wait" /\ Active(w) /\ slot'[w] = slot[w]
      BY <1>3, <2>1 DEF Active
    <3>2. proc[w] \in Objs /\ tenant[proc[w]] = root[w] /\ slot[w] \in Children
      BY <3>1, ActiveLive DEF Sound, TasksSound
    <3>3. proc[w] # o
      BY <1>2, <1>4, <3>1, <3>2 DEF Sound, Alone
    <3>. QED
      BY <1>2, <3>1, <3>2, <3>3
  <2>. QED
    BY <1>2, <2>1 DEF Sound, WaitsSound
<1>15. \A w \in Tasks : pc'[w] = "execed" <=> pc[w] = "execed"
  BY <1>2, <1>3
<1>16. MainsSound'
  BY <1>2, <1>5, <1>15 DEF Sound, MainsSound, MainSound
<1>17. ExecsSound'
  <2>1. \A v \in Tasks : pc'[v] = "exec" => pc[v] = "exec"
    BY <1>3
  <2>. QED
    BY <1>2, <1>5, <1>15, <2>1 DEF Sound, ExecsSound, TasksSound
<1>. QED
  BY <1>8, <1>9, <1>10, <1>11, <1>12, <1>13, <1>14, <1>16, <1>17 DEF Sound

-----------------------------------------------------------------------------
(* The invariant of the specification, and what follows *)

LEMMA InitInductive == Init => Inductive
<1>. SUFFICES ASSUME Init PROVE Inductive
  OBVIOUS
<1>1. /\ InitTask \in Tasks /\ InitObj \in Objs /\ Null \notin Tasks /\ Null \notin Objs
      /\ 1 \in Children /\ NPids \in Nat /\ 0 \in Pids /\ Invalid \notin Pids
  <2>1. Cardinality(Objs) # 0 /\ Cardinality(Objs) \in Nat
    BY ProcessAssumption, FS_EmptySet, FS_CardinalityType
  <2>2. NPids \in Nat \ {0}
    BY <2>1, ProcessAssumption
  <2>. QED
    BY <2>2, ProcessAssumption DEF Pids, Children, Invalid
<1>2. /\ \A t \in Tasks : pc[t] = IF t = InitTask THEN "run" ELSE "none"
      /\ \A t \in Tasks : root[t] = IF t = InitTask THEN InitTask ELSE Null
      /\ \A t \in Tasks : t # InitTask => ~Live(t) /\ ~Active(t)
      /\ proc[InitTask] = InitObj /\ exited = {} /\ main[InitObj] = InitTask
      /\ dad[InitTask] = Null /\ pid[InitTask] = 0
      /\ \A o \in Objs, j \in Children : children[o][j] = NoChild
  BY <1>1 DEF Init, Live, Active
<1>3. TypeOK
  <2>1. NoChild \in [id : Pids \cup {Invalid}, dead : BOOLEAN, code : Tasks \cup {Null}]
    BY DEF NoChild
  <2>2. children \in [Objs -> [Children -> [id : Pids \cup {Invalid}, dead : BOOLEAN,
                                            code : Tasks \cup {Null}]]]
    BY <2>1 DEF Init
  <2>. QED
    BY <1>1, <2>2 DEF Init, TypeOK, PC
<1>4. TasksSound /\ Alone /\ RootsSound
  BY <1>1, <1>2 DEF TasksSound, Alone, RootsSound, Active
<1>5. TableSound /\ LiveSound
  BY <1>1, <1>2 DEF Init, TableSound, LiveSound
<1>6. ParentsSound /\ EntryOfLiveChild /\ DeadSound
  BY <1>1, <1>2 DEF Init, ParentsSound, EntryOfLiveChild, DeadSound, NoChild
<1>7. ForksSound /\ WaitsSound /\ MainsSound /\ ExecsSound
  BY <1>1, <1>2 DEF ForksSound, WaitsSound, MainsSound, MainSound, ExecsSound
<1>. QED
  BY <1>3, <1>4, <1>5, <1>6, <1>7 DEF Inductive, Sound

LEMMA NextInductive == Inductive /\ [Next]_vars => Inductive'
<1>. SUFFICES ASSUME Inductive, [Next]_vars PROVE Inductive'
  OBVIOUS
<1>1. ASSUME UNCHANGED <<used, table, id, parent, main, children, proc, pc, slot, new,
                         root, tenant, dad, pid, home, exited>>
      PROVE  Sound'
  BY <1>1 DEF Inductive, Sound, TasksSound, Alone, RootsSound, TableSound, LiveSound, ParentsSound,
     EntryOfLiveChild, DeadSound, ForksSound, WaitsSound, MainsSound, MainSound, ExecsSound,
     Active, Live
<1>2. CASE UNCHANGED vars
  <2>1. Sound'
    BY <1>1, <1>2 DEF vars, objects, threads, history
  <2>2. TypeOK'
    BY <1>2 DEF Inductive, TypeOK, vars, objects, threads, history
  <2>. QED
    BY <2>1, <2>2 DEF Inductive
<1>3. CASE Next
  <2>1. TypeOK /\ TypeOK' /\ Sound
    BY <1>3, NextTypeOK DEF Inductive
  <2>2. PICK t \in Tasks : Step(t) \/ Syscall(t)
    BY <1>3 DEF Next
  <2>3. CASE ExecAsserts(t)
    BY <1>1, <2>1, <2>3 DEF ExecAsserts, objects, threads, history, Inductive
  <2>. QED
    BY <2>1, <2>2, <2>3, QuietSteps, ForkAddSound, ForkFailsSound, ForkQueueSound, ExecQueueSound,
       ExecReturnSound, ExitSound, WaitResolveSound DEF Step, Syscall, Inductive
<1>. QED
  BY <1>2, <1>3

\* The inductive invariant: which task runs which process, and where its object, its pid
\* and its entries are, during fork, exec and waitpid too.
THEOREM Invariant == Spec => []Inductive
<1>1. Init => Inductive
  BY InitInductive
<1>2. Inductive /\ [Next]_vars => Inductive'
  BY NextInductive
<1>. QED
  BY <1>1, <1>2, PTL DEF Spec

\* A process that has not exited has an object and a pid of its own; its entry in its
\* parent's children[] stays as fork made it, and an entry that is dead is that of a child
\* which has exited.
THEOREM Processes == Spec => []IInv
<1>1. Inductive => IInv
  <2>. SUFFICES ASSUME TypeOK, Sound PROVE IInv
    BY DEF Inductive
  <2>1. LiveDistinct
    BY LiveApart DEF LiveDistinct, Sound, LiveSound
  <2>2. DeadEntryExited
    BY DEF DeadEntryExited, Sound, DeadSound
  <2>. QED
    BY <2>1, <2>2 DEF IInv, Sound
<1>. QED
  BY <1>1, Invariant, PTL

LEMMA ExitedBy ==
  ASSUME Inductive, [Next]_vars, NEW r \in Tasks, r \notin exited, r \in exited'
  PROVE  \E t \in Tasks : Exit(t) /\ root[t] = r
<1>1. PICK t \in Tasks : Step(t) \/ Syscall(t)
  BY DEF Next, vars, history
<1>2. Exit(t)
  BY <1>1 DEF Step, Syscall, ForkAdd, ForkFails, ForkQueue, ForkReturn, ExecAsserts, ExecAdd,
     ExecFails, ExecQueue, ExecReturn, WaitFind, WaitResolve, history
<1>3. root[t] = r
  BY <1>2 DEF Exit
<1>. QED
  BY <1>2, <1>3

\* exit writes into the children[] of nobody but the parent of its process, or into the
\* free memory where the parent was.
THEOREM Reports == Spec => ReportsToParent
<1>1. Inductive /\ [Next]_vars =>
        \A t \in Tasks : Exits(t) =>
          \A o \in Objs : children'[o] # children[o] => tenant[o] = dad[root[t]]
  <2>. SUFFICES ASSUME Inductive, [Next]_vars, NEW u \in Tasks, Exits(u),
                       NEW q \in Objs, children'[q] # children[q]
                PROVE  tenant[q] = dad[root[u]]
    OBVIOUS
  <2>1. TypeOK /\ TypeOK' /\ Sound
    BY NextInductive DEF Inductive
  <2>2. root[u] \in Tasks /\ root[u] \notin exited /\ root[u] \in exited'
    BY <2>1 DEF Exits, TypeOK
  <2>3. PICK t \in Tasks : Exit(t) /\ root[t] = root[u]
    BY <2>2, ExitedBy
  <2>4. PICK r \in Tasks, o \in Objs : Exited(t, r, o)
    BY <2>1, <2>3, ExitSteps
  <2>5. r = root[u] /\ Live(r)
    BY <2>3, <2>4 DEF Exited
  <2>6. PICK p \in Objs, i \in Children : Reported(t, r, p, i)
    BY <2>4 DEF Exited, Unreported
  <2>7. dad[r] # Null /\ q = proc[dad[r]] /\ children[q][i].id = pid[r]
    BY <2>6 DEF Reported
  <2>. QED
    BY <2>1, <2>5, <2>7 DEF Sound, ParentsSound
<1>. QED
  BY <1>1, Invariant, PTL DEF Spec, ReportsToParent

\* When a process exits for whose pid its parent waits, the very entry that the parent
\* waits for becomes dead.
THEOREM Wakes == Spec => WakesWaiter
<1>1. Inductive /\ [Next]_vars =>
        \A r, w \in Tasks :
          Live(r) /\ Exits(r) /\ Awaits(w, r) => children'[proc[w]][slot[w]].dead
  <2>. SUFFICES ASSUME Inductive, [Next]_vars, NEW r \in Tasks, NEW w \in Tasks,
                       Live(r), Exits(r), Awaits(w, r)
                PROVE  children'[proc[w]][slot[w]].dead
    OBVIOUS
  <2>1. TypeOK /\ Sound
    BY DEF Inductive
  <2>2. PICK t \in Tasks : Exit(t) /\ root[t] = r
    BY ExitedBy DEF Exits, Live
  <2>3. PICK o \in Objs : Exited(t, r, o)
    BY <2>1, <2>2, ExitSteps DEF Exited
  <2>4. /\ pc[w] = "wait" /\ Active(w) /\ dad[r] = root[w] /\ slot[w] \in Children
        /\ children[proc[w]][slot[w]].id = pid[r]
    BY <2>1 DEF Awaits, Active, Sound, TasksSound
  <2>5. root[w] \in Tasks /\ proc[w] = proc[root[w]] /\ proc[w] \in Objs /\ Null \notin Tasks
    BY <2>1, <2>4, ActiveLive, ProcessAssumption
  <2>6. PICK p \in Objs, i \in Children : Reported(t, r, p, i)
    BY <2>3, <2>4, <2>5 DEF Exited, Unreported
  <2>7. /\ p = proc[w] /\ children[p][i].id = pid[r] /\ i <= slot[w] /\ children'[p][i].dead
    BY <2>4, <2>5, <2>6 DEF Reported
  <2>8. slot[w] <= i
    BY <2>1, <2>4, <2>7 DEF Sound, WaitsSound
  <2>9. slot[w] = i
    BY <2>4, <2>7, <2>8, ProcessAssumption DEF Children
  <2>. QED
    BY <2>7, <2>9
<1>. QED
  BY <1>1, Invariant, PTL DEF Spec, WakesWaiter

\* waitpid returns the result of a child of the caller that has exited.
THEOREM WaitReturns == Spec => WaitReturnsOwnChild
<1>1. Inductive /\ [Next]_vars =>
        (result' # result =>
           \E r \in exited : /\ dad[r] = result'[1]
                             /\ pid[r] = result'[2]
                             /\ result'[3] \in Tasks /\ root[result'[3]] = r)
  <2>. SUFFICES ASSUME Inductive, [Next]_vars, result' # result
                PROVE  \E r \in exited : /\ dad[r] = result'[1]
                                         /\ pid[r] = result'[2]
                                         /\ result'[3] \in Tasks /\ root[result'[3]] = r
    OBVIOUS
  <2>1. TypeOK /\ Sound
    BY DEF Inductive
  <2>2. PICK t \in Tasks : Step(t) \/ Syscall(t)
    BY DEF Next, vars, history
  <2>3. WaitResolve(t)
    BY <2>2 DEF Step, Syscall, ForkAdd, ForkFails, ForkQueue, ForkReturn, ExecAsserts, ExecAdd,
       ExecFails, ExecQueue, ExecReturn, Exit, WaitFind, history
  <2>4. PICK o \in Objs, i \in Children : Waited(t, o, i)
    BY <2>1, <2>3, WaitSteps
  <2>5. /\ o = proc[t] /\ children[o][i].dead /\ Active(t)
        /\ result' = <<root[t], children[o][i].id, children[o][i].code>>
    BY <2>4 DEF Waited, Active
  <2>6. root[t] \in Tasks /\ Live(root[t]) /\ o = proc[root[t]]
    BY <2>1, <2>5, ActiveLive
  <2>. QED
    BY <2>1, <2>5, <2>6 DEF Sound, DeadSound
<1>. QED
  BY <1>1, Invariant, PTL DEF Spec, WaitReturnsOwnChild

\* The assertion of exec fails only before the exec that started the caller has set
\* main_thread, or after an exec of an earlier process in the same memory has.
THEOREM Panics == Spec => ExecPanicExplained
<1>1. Inductive /\ [Next]_vars =>
        (panicked' # panicked =>
           \E t \in Tasks :
              /\ pc[t] = "run" /\ main[proc[t]] # t
              /\ \/ \E u \in Tasks : pc[u] = "execed" /\ new[u] = t
                 \/ root[main[proc[t]]] \in exited)
  <2>. SUFFICES ASSUME Inductive, [Next]_vars, panicked' # panicked
                PROVE  \E t \in Tasks :
                          /\ pc[t] = "run" /\ main[proc[t]] # t
                          /\ \/ \E u \in Tasks : pc[u] = "execed" /\ new[u] = t
                             \/ root[main[proc[t]]] \in exited
    OBVIOUS
  <2>1. PICK t \in Tasks : Step(t) \/ Syscall(t)
    BY DEF Next, vars
  <2>2. ExecAsserts(t)
    BY <2>1 DEF Step, Syscall, ForkAdd, ForkFails, ForkQueue, ForkReturn, ExecAdd,
       ExecFails, ExecQueue, ExecReturn, Exit, WaitFind, WaitResolve, history
  <2>3. pc[t] = "run" /\ main[proc[t]] # t /\ Active(t)
    BY <2>2 DEF ExecAsserts, At, Active
  <2>4. MainSound(t)
    BY <2>3 DEF Inductive, Sound, MainsSound
  <2>. QED
    BY <2>3, <2>4 DEF MainSound
<1>. QED
  BY <1>1, Invariant, PTL DEF Spec, ExecPanicExplained

=============================================================================
