-------------------------- MODULE SchedulerProps --------------------------
(***************************************************************************)
(* What makes the scheduler correct.                                       *)
(***************************************************************************)
EXTENDS Scheduler

RunQueue   == Members(k, RunQ, "runnable_link")
DoneQueue  == Members(k, DoneQ, "runnable_link")
Sleepers   == Members(k, SleepQ, "wait_link")
Waiters    == UNION {Members(k, SelfWait(t), "wait_link") : t \in k.alloc}
ChildrenOf(t) == Members(k, Children(t), "child_link")
ZombiesOf(t)  == Members(k, Zombies(t), "child_link")

(* A thread's state and the queue it is on agree: sched_yield only finds   *)
(* threads on the run queue and sched_wakeup_threads only on wait lists.   *)
StateMatchesQueue ==
  LET runnable == RunQueue
      asleep   == Sleepers
      waiting  == Waiters
  IN  /\ asleep \cap waiting = {}
      /\ \A t \in k.alloc \ {IdleThread} :
           /\ k.state[t] = "RUNNABLE" <=> t \in runnable
           /\ k.state[t] = "WAITING" <=> t \in asleep \cup waiting
           /\ k.state[t] \in {"ZOMBIE", "DONE"} <=> t \notin k.map

(* The processor only ever runs a live, schedulable thread: a vanished,    *)
(* sleeping or waiting thread is never switched to (sched_thread_yield,    *)
(* called from sched_yield and from thread_yield).                         *)
CurrentIsRunnable == current \in k.map /\ k.state[current] = "RUNNABLE"

(* A thread's reference count is the number of references that exist: the  *)
(* hash map, its task (both dropped by thread_vanish_noyield), a queue,    *)
(* the parent's ownership, its children's parent pointers, and its own     *)
(* hold while it is inside thread_wait.                                    *)
RefCount(t, queued) ==
  LET one(b) == IF b THEN 1 ELSE 0
  IN  2 * one(t \in k.map)
      + one(t \in queued)
      + one(\/ k.parent[t] = NULL
            \/ t \in ChildrenOf(k.parent[t]) \cup ZombiesOf(k.parent[t]))
      + Cardinality({c \in k.alloc : k.parent[c] = t})
      + one(cont[t] = "thread_wait")

RefCountsExact ==
  LET queued == RunQueue \cup DoneQueue \cup Sleepers \cup Waiters
  IN  \A t \in k.alloc : k.count[t] = RefCount(t, queued)

(* Every pointer is NULL or a thread, and no queue, parent pointer, map    *)
(* entry or current_thread refers to a thread_t that thread_free has       *)
(* released.                                                               *)
NoDanglingThread ==
  /\ k \in KernelMemory
  /\ RunQueue \cup DoneQueue \cup Sleepers \cup Waiters \cup k.map \cup {current}
       \subseteq k.alloc
  /\ \A t \in k.alloc : /\ k.parent[t] \in k.alloc \cup {NULL}
                        /\ ChildrenOf(t) \cup ZombiesOf(t) \subseteq k.alloc

(* No lost wakeup: a thread blocked in thread_wait has a living child and  *)
(* no unreaped one, so some thread_vanish_noyield is still to wake it.     *)
NoLostWakeup ==
  \A t \in k.alloc : t \in Waiters => ChildrenOf(t) # {} /\ ZombiesOf(t) = {}

(* thread_wait returns from sched_wait_on only when there is a zombie to   *)
(* reap: its second "if (zombie != NULL)" never fails.                     *)
WaitFindsZombie ==
  cont[current] = "thread_wait" /\ mode = "kernel" => ZombiesOf(current) # {}

(* sleep(n) lasts n ticks: a sleeping thread becomes runnable only when    *)
(* its deadline has come, whichever step reaches sched_wakeup_threads.     *)
NoEarlyWakeup ==
  [][\A t \in Sleepers : k'.state[t] = "RUNNABLE" => k.deadline[t] = 0]_vars

-----------------------------------------------------------------------------
(***************************************************************************)
(* Liveness.  Kernel code runs to its end (weak fairness of the calls and  *)
(* of Resume), and the timer hits user mode again and again: bottom halves *)
(* that find the lock taken are dropped, so that is an assumption about    *)
(* the timer's phase (strong fairness of UserTick), without which two      *)
(* threads that call sleep(0) in turn keep every other from running.       *)
(* The kinds of step are named by the change of mode only they make.       *)
(***************************************************************************)
Leaves(from, to) == mode = from /\ mode' \in to

FairSpec == /\ Spec
            /\ WF_mode(Leaves("syscall", {"user", "kernel"}))  \* Syscall
            /\ WF_mode(Leaves("kernel", {"user"}))             \* Resume
            /\ SF_mode(Leaves("user", {"kernel"}))             \* UserTick

(* No starvation: a runnable thread gets the processor, although           *)
(* sched_wakeup_threads queues woken threads in front of it.  (Threads     *)
(* that call yield(tid) in turn do keep others from running.)              *)
RunnableRuns ==
  \A t \in Thread \ {IdleThread} :
    t \in RunQueue ~> current = t \/ t \notin k.map

(* Every sleeper runs again: some thread executes step 4 of sched_yield    *)
(* after the deadline, even if idle is the only thread left.               *)
SleepersWake ==
  \A t \in Thread : t \in Sleepers ~> current = t \/ t \notin k.map

(* A thread blocked in thread_wait whose child has vanished returns.       *)
WaitReturns ==
  \A t \in Thread :
    cont[t] = "thread_wait" /\ ZombiesOf(t) # {} ~> cont[t] = "none"

-----------------------------------------------------------------------------
(***************************************************************************)
(* What the documentation and the comments say, and the code does not do.  *)
(***************************************************************************)
(* README.dox: the scheduler "also maintains a list of threads waiting on  *)
(* the timer": every thread blocked in sched_wait_on is on a list that     *)
(* sched_wakeup_threads scans.                                             *)
WaitersListed ==
  \A t \in k.map : k.state[t] = "WAITING" => t \in Sleepers \cup Waiters
=============================================================================
