------------------------------ MODULE TaskRefs ------------------------------
(***************************************************************************)
(* Who owns what: the reference counts of tasks (kern/task.c), of VM areas *)
(* (kern/vm_area.c) and files (kern/file.c), and what threads hold of them *)
(* (kern/thread.c), through fork, exec, vanish and wait with every failure *)
(* of an allocation that the code looks at.                                *)
(*                                                                         *)
(* Kernel structures are in one record h, C functions operators on it.  A  *)
(* task has one thread, named like the task.  The references the scheduler *)
(* holds to threads are the subject of module Scheduler and left out here. *)
(* A failed assertion stops the machine: h.halted.                         *)
(***************************************************************************)
EXTENDS Integers, Sequences, FiniteSets, SequencesExt, FiniteSetsExt

CONSTANTS Task, init, File, NULL,
          ForkFailure, \* the allocations that may fail in a fork
          ExecFailure, \* and in an exec
          Orphans      \* tasks vanish that have children

\* The areas of a task; "text" stands for those that hold a file.  The memory
\* of one may fail ("text"), and before it malloc of its vm_area_t.
Area == {"text", "stack", "kstack"}
MallocOf == [text |-> "malloc_text", stack |-> "malloc_stack", kstack |-> "malloc_kstack"]

ASSUME TaskRefsAssumption ==
  /\ init \in Task /\ NULL \notin Task \cup File /\ Orphans \in BOOLEAN
  /\ ForkFailure \subseteq {"directory"} \cup Area \cup {MallocOf[a] : a \in Area}
  /\ ExecFailure \subseteq {"file", "text", MallocOf["text"]}

VARIABLE h

-----------------------------------------------------------------------------
(* Files and tasks *)

\* count 0: not allocated.
file_get(x, f) == [x EXCEPT !.fcount[f] = @ + 1]
file_put(x, f) == IF f = NULL THEN x
                  ELSE [x EXCEPT !.fcount[f] = @ - 1, !.misused = @ \/ x.fcount[f] = 0]

task_get(x, t) == [x EXCEPT !.count[t] = @ + 1]

\* The caller of a put may be the last: task_free puts the file, the
\* directory and the parent.  x.misused: what was freed is put or freed.  The
\* hypervisor refuses to free the directory in use, which the kernel asserts.
RECURSIVE task_put(_, _)

task_free(x, t) ==
  LET n == [file_put(x, x.file[t]) EXCEPT !.dir = @ \ {t}, !.misused = @ \/ t \notin x.tasks,
                                          !.halted = @ \/ t = x.using]
      m == IF x.parent[t] = NULL THEN n ELSE task_put(n, x.parent[t])
  IN  [m EXCEPT !.tasks = @ \ {t}, !.stuck = @ \ {t}]

task_put(x, t) ==
  LET n == [x EXCEPT !.count[t] = @ - 1, !.misused = @ \/ t \notin x.tasks]
  IN  IF n.count[t] = 0 THEN task_free(n, t) ELSE n

task_init(x, t, parent) ==
  LET blank == [x EXCEPT !.tasks = @ \cup {t}, !.count[t] = 0, !.parent[t] = parent,
                         !.file[t] = IF parent = NULL THEN NULL ELSE x.file[parent],
                         !.kids[t] = {}, !.area[t] = [a \in Area |-> 0], !.list[t] = <<>>,
                         !.map = @ \cup {t}]
      kin   == IF parent = NULL THEN blank
               ELSE task_get(task_get([blank EXCEPT !.kids[parent] = @ \cup {t}], parent), t)
      held  == IF kin.file[t] = NULL THEN kin ELSE file_get(kin, kin.file[t])
  IN  task_get(held, t)  \* sched_add_task

-----------------------------------------------------------------------------
(* VM areas *)

\* vm_area_init takes a reference to the task, which no failure after it gives
\* back.  vm_area_init_file and vm_area_init_copy take the file when all went
\* well.
vm_area_alloc(x, t, a, file, fails) ==
  LET n == task_get(x, t)
      m == [n EXCEPT !.area[t][a] = 1, !.list[t] = Append(@, a),
                     !.afile[t] = IF a = "text" THEN file ELSE @]
  IN  IF MallocOf[a] \in fails THEN [x EXCEPT !.failed = TRUE]
      ELSE IF a \in fails THEN [n EXCEPT !.stuck = @ \cup {t}, !.failed = TRUE]
      ELSE IF a = "text" THEN file_get(m, file) ELSE m

vm_area_free(x, t, a) ==
  task_put(IF a = "text" THEN file_put([x EXCEPT !.afile[t] = NULL], x.afile[t]) ELSE x, t)

vm_area_get(x, t, a) == [x EXCEPT !.area[t][a] = @ + 1]
vm_area_put(x, t, a) ==
  LET n == [x EXCEPT !.area[t][a] = @ - 1, !.misused = @ \/ x.area[t][a] = 0]
  IN  IF n.area[t][a] = 0 THEN vm_area_free(n, t, a) ELSE n

vm_area_remove(x, t, a) == vm_area_put([x EXCEPT !.list[t] = Remove(@, a)], t, a)

RemoveAreas(x, t, areas) == FoldLeft(LAMBDA y, a : vm_area_remove(y, t, a), x, areas)

-----------------------------------------------------------------------------
(* Task life *)

\* Mutant of task_reap: the reference of the parent's list stays.
ReapUnmapped(x, t) ==
  LET parent   == x.parent[t]
      unmapped == task_put([x EXCEPT !.map = @ \ {t}, !.kids[parent] = @ \ {t}], t)
      alone    == [task_put(unmapped, parent) EXCEPT !.parent[t] = NULL]
  IN  RemoveAreas(alone, t, alone.list[t])

\* task_reap, on a task whose structure it reads to the end.  Children keep
\* their parent pointer.
task_reap(x, t) ==
  LET parent   == x.parent[t]
      unmapped == task_put([x EXCEPT !.map = @ \ {t}], t)
      apart    == task_put(task_put([unmapped EXCEPT !.kids[parent] = @ \ {t}], t), parent)
      alone    == IF parent = NULL THEN unmapped ELSE [apart EXCEPT !.parent[t] = NULL]
      barren   == FoldSet(LAMBDA c, y : task_put([y EXCEPT !.kids[t] = @ \ {c}], c),
                          alone, alone.kids[t])
  IN  RemoveAreas(barren, t, barren.list[t])

\* Undoing a fork.
Undo(x, t) == task_free(task_reap(x, t), t)

\* task_create with vmm_task_create, which puts the new directory in use.
task_create(x, t, parent, fails) ==
  LET n == task_init(x, t, parent)
  IN  IF "directory" \in fails THEN [Undo(n, t) EXCEPT !.failed = TRUE]
      ELSE [n EXCEPT !.dir = @ \cup {t}, !.using = t]

\* vmm_task_copy: every area but the kernel stack, up to the first that fails.
CopyAreas(x, t, parent, fails) ==
  FoldLeft(LAMBDA y, a : IF y.failed \/ a = "kstack" THEN y
                         ELSE vm_area_alloc(y, t, a, x.afile[parent], fails),
           x, x.list[parent])

task_copy(x, t, parent, fails) ==
  LET made == task_create(x, t, parent, fails)
      copied == CopyAreas(made, t, parent, fails)
  IN  IF made.failed THEN made
      ELSE IF copied.failed THEN Undo(copied, t) ELSE copied

\* task_load: the file, and the areas made from it.
task_load(x, t, file, fails) ==
  IF "file" \in fails THEN [x EXCEPT !.failed = TRUE]
  ELSE vm_area_alloc([file_get(x, file) EXCEPT !.file[t] = file], t, "text", file, fails)

-----------------------------------------------------------------------------
(* Threads *)

\* What thread t holds of its areas is held[t]; tcount is thread->count.
RECURSIVE thread_put(_, _)

\* Mutant of thread_free: the parent keeps the reference.
FreeButParent(x, t) ==
  LET n == FoldSet(LAMBDA a, y : vm_area_put(y, t, a), x, x.held[t])
  IN  [task_put(n, t) EXCEPT !.threads = @ \ {t}, !.held[t] = {}]

thread_free(x, t) ==
  LET n == FoldSet(LAMBDA a, y : vm_area_put(y, t, a), x, x.held[t])
      m == IF x.tparent[t] = NULL THEN n ELSE thread_put(n, x.tparent[t])
  IN  [task_put(m, t) EXCEPT !.threads = @ \ {t}, !.held[t] = {}]

thread_put(x, t) ==
  LET n == [x EXCEPT !.tcount[t] = @ - 1, !.misused = @ \/ t \notin x.threads]
  IN  IF n.tcount[t] = 0 THEN thread_free(n, t) ELSE n

thread_get(x, t) == [x EXCEPT !.tcount[t] = @ + 1]

thread_init(x, t, parent) ==
  LET n == [x EXCEPT !.threads = @ \cup {t}, !.tcount[t] = 1, !.tparent[t] = parent,
                     !.tkids[t] = {}, !.zombies[t] = <<>>, !.held[t] = {}]
      m == IF parent = NULL THEN n
           ELSE thread_get([n EXCEPT !.tkids[parent] = @ \cup {t}], parent)
  IN  task_get(m, t)

\* vmm_thread_copy, vmm_thread_create: a reference to the user stack, and a
\* kernel stack.
Hold(x, t, a) == [vm_area_get(x, t, a) EXCEPT !.held[t] = @ \cup {a}]

\* Mutant of MakeStacks: the kernel stack is on the list of areas only.
ListStack(x, t, fails) == vm_area_alloc(Hold(x, t, "stack"), t, "kstack", NULL, fails)

MakeStacks(x, t, fails) ==
  LET n == vm_area_alloc(Hold(x, t, "stack"), t, "kstack", NULL, fails)
  IN  IF n.failed THEN n ELSE Hold(n, t, "kstack")

\* sched_add_thread, and the reference of task->thread.
Start(x, t) == [thread_get(thread_get(x, t), t) EXCEPT !.tmap = @ \cup {t}, !.thread = @ \cup {t}]

thread_copy(x, t, parent, fails) ==
  LET n == MakeStacks(thread_init(x, t, parent), t, fails)
  IN  IF n.failed THEN thread_put([n EXCEPT !.tkids[parent] = @ \ {t}], t) ELSE Start(n, t)

thread_vanish_noyield(x, t) ==
  LET parent == x.tparent[t]
      hidden == thread_put([x EXCEPT !.tmap = @ \ {t}], t)
      bare   == vm_area_put([hidden EXCEPT !.held[t] = @ \ {"stack"}], t, "stack")
      zombie == IF parent = NULL THEN bare
                ELSE [bare EXCEPT !.tkids[parent] = @ \ {t}, !.zombies[parent] = Append(@, t)]
      reaped == FoldLeft(LAMBDA y, z : thread_put(y, z), [zombie EXCEPT !.zombies[t] = <<>>],
                         zombie.zombies[t])
      done   == [thread_put(reaped, t) EXCEPT !.thread = @ \ {t}]
  IN  task_reap(done, t)

-----------------------------------------------------------------------------
(* System calls *)

Running == h.thread   \* the tasks with a thread
Unused == Task \ h.tasks

\* The call returns with m in memory, unless an assertion has failed.  x.using
\* matters within a fork only: the directory of a task that runs is not freed,
\* nor is that of a task left without a thread.
Return(m) ==
  h' = IF m.halted THEN [h EXCEPT !.halted = TRUE] ELSE [m EXCEPT !.failed = FALSE, !.using = NULL]

\* task_vanish_noyield does nothing for a task without a thread, which is left.
sys_fork(t, c, fails) ==
  /\ c \in Unused
  /\ LET copied == task_copy(h, c, t, fails)
         forked == thread_copy(copied, c, t, fails)
     IN  IF copied.failed THEN Return(copied)
         ELSE Return([forked EXCEPT !.left = IF forked.failed THEN @ \cup {c} ELSE @])

\* task_reload: a failure ends the task.
sys_exec(t, file, fails) ==
  /\ h.fcount[file] = 0
  /\ LET bare == RemoveAreas(h, t, SelectSeq(h.list[t], LAMBDA a : a = "text"))
         closed == [file_put(bare, bare.file[t]) EXCEPT !.file[t] = NULL]
         loaded == task_load(closed, t, file, fails)
     IN  Return(IF loaded.failed THEN thread_vanish_noyield(loaded, t) ELSE loaded)

sys_vanish(t) == Return(thread_vanish_noyield(h, t))

\* thread_wait for a zombie.
sys_wait(t) ==
  /\ h.zombies[t] # <<>>
  /\ Return(thread_put([h EXCEPT !.zombies[t] = Tail(@)], Head(h.zombies[t])))

\* A task without children or that may leave them; the comment in
\* thread_vanish_noyield assumes the former.
MayVanish(t) == t # init /\ (h.tkids[t] = {} \/ Orphans)

Nothing ==
  [tasks |-> {}, count |-> [t \in Task |-> 0], parent |-> [t \in Task |-> NULL],
   file |-> [t \in Task |-> NULL], kids |-> [t \in Task |-> {}], map |-> {}, dir |-> {},
   area |-> [t \in Task |-> [a \in Area |-> 0]], list |-> [t \in Task |-> <<>>],
   afile |-> [t \in Task |-> NULL], fcount |-> [f \in File |-> 0],
   threads |-> {}, tcount |-> [t \in Task |-> 0], tparent |-> [t \in Task |-> NULL],
   tkids |-> [t \in Task |-> {}], zombies |-> [t \in Task |-> <<>>],
   held |-> [t \in Task |-> {}], tmap |-> {}, thread |-> {},
   stuck |-> {}, left |-> {}, using |-> NULL,
   failed |-> FALSE, misused |-> FALSE, halted |-> FALSE]

\* sched_start_init: a thread with its stacks, then its executable.
sched_start_init(file) ==
  LET task == task_create(Nothing, init, NULL, {})
      thread == vm_area_alloc(thread_init(task, init, NULL), init, "stack", NULL, {})
  IN  [task_load(Start(MakeStacks(thread, init, {}), init), init, file, {}) EXCEPT !.using = NULL]

Init == \E f \in File : h = sched_start_init(f)

\* At most one allocation of a call fails.
AtMostOne(failures) == {{}} \cup {{a} : a \in failures}

Next ==
  /\ ~h.halted
  /\ \E t \in Running :
    \/ \E c \in Task, fails \in AtMostOne(ForkFailure) : sys_fork(t, c, fails)
    \/ \E f \in File, fails \in AtMostOne(ExecFailure) :
         (fails # {} => MayVanish(t)) /\ sys_exec(t, f, fails)
    \/ MayVanish(t) /\ sys_vanish(t)
    \/ sys_wait(t)

Spec == Init /\ [][Next]_h

-----------------------------------------------------------------------------
One(b) == IF b THEN 1 ELSE 0

TaskRefs(t) ==
  One(t \in h.map) + One(t \in h.threads) + One(t \in h.stuck)
  + Cardinality({a \in Area : h.area[t][a] > 0})
  + Cardinality({p \in h.tasks : t \in h.kids[p]})
  + Cardinality({c \in h.tasks : h.parent[c] = t})

ThreadRefs(t) ==
  One(t \in h.tmap) + One(t \in h.thread) + One(t = init)
  + Cardinality({p \in h.threads : t \in h.tkids[p] \cup Range(h.zombies[p])})
  + Cardinality({c \in h.threads : h.tparent[c] = t})

FileRefs(f) ==
  Cardinality({t \in h.tasks : h.file[t] = f})
  + Cardinality({t \in Task : h.area[t]["text"] > 0 /\ h.afile[t] = f})

(* What has been freed is neither put nor freed again, whatever fails on   *)
(* the way.  The comments of task_create and task_copy have it so: "Release*)
(* all the resources held", then "Free the task" (task.c:250-253).  README *)
(* .dox:183-184 suspects that there "may be an invalid 'free'" when memory *)
(* runs out in a fork.                                                     *)
FreedOnce == ~h.misused

(* Every count is the number of references there are, so that a structure  *)
(* is freed by the put that drops the last one and by no other (task_put,  *)
(* thread_put, vm_area_put, file_put, task_reap, thread_free).  A task     *)
(* counts one more for an area that could not be made (vm_area_alloc).     *)
CountsExact ==
  /\ FreedOnce
  /\ \A t \in Task :
       /\ TaskRefs(t) = IF t \in h.tasks THEN h.count[t] ELSE 0
       /\ ThreadRefs(t) = IF t \in h.threads THEN h.tcount[t] ELSE One(t = init)
       /\ \A a \in Area : h.area[t][a] = One(a \in Range(h.list[t])) + One(a \in h.held[t])
  /\ \A t \in h.tasks : h.count[t] > 0
  /\ \A t \in h.threads : h.tcount[t] > 0
  /\ \A f \in File : h.fcount[f] = FileRefs(f)

(* A zombie keeps its kernel stack and its page directory, on which the    *)
(* last context switch away from it still runs (the comments in task_reap),*)
(* until its parent waits for it or vanishes.                              *)
ZombiesKeepStack ==
  \A p \in h.threads : \A z \in Range(h.zombies[p]) :
    /\ z \in h.threads \cap h.dir /\ h.area[z]["kstack"] = 1
    /\ h.area[z]["text"] + h.area[z]["stack"] = 0

\* The tasks that may stay for ever: those with a reference of an area that
\* could not be made, those a fork left without a thread, and their parents.
Lost == h.stuck \cup h.left
Wrecked == {t \in h.tasks : t \in Lost \/ \E c \in Lost : h.parent[c] = t}

(* A task is there for as long as it runs or is a zombie: the end of a     *)
(* task, a wait or the end of its parent gives back the task, its file and *)
(* its directory, unless the fork that made it or its child failed in the  *)
(* middle, or its own exec did.                                            *)
NoTaskOutlivesItsThread ==
  /\ \A t \in h.tasks \ Wrecked : t \in h.thread \/ \E p \in h.threads : t \in Range(h.zombies[p])
  /\ h.dir = h.tasks
=============================================================================
