----------------------------- MODULE Scheduler -----------------------------
(***************************************************************************)
(* The scheduler and the thread life cycle: kern/sched.c, kern/thread.c    *)
(* and the thread system calls of kern/process.c.                          *)
(*                                                                         *)
(* Kernel memory is the record k: the queues of VariableQueue, and per     *)
(* thread_t its state, deadline, reference count and parent; alloc is the  *)
(* set of thread_t structures malloc has handed out, map the thread hash   *)
(* map.  Each C function is an operator from kernel memory to kernel       *)
(* memory; each system call is an action.                                  *)
(*                                                                         *)
(* The kernel lock makes a system call atomic up to the context switch in  *)
(* sched_thread_yield; what the thread has left to do when it is switched  *)
(* back in is its continuation cont[t].  The only thing that interleaves   *)
(* inside the kernel is the timer's top half, which advances the tick      *)
(* counter (Tick in mode "syscall" or "kernel").                           *)
(*                                                                         *)
(* A deadline is compared with the tick counter only, so deadline[t] holds *)
(* the ticks that are left, max(0, thread->deadline - numTicks), and a     *)
(* tick decrements it; this keeps the state finite without a bound on the  *)
(* number of ticks.                                                        *)
(***************************************************************************)
EXTENDS Naturals, Integers, Sequences, FiniteSets

CONSTANTS Thread,      \* the thread_t structures malloc can return
          IdleThread, InitThread, \* sched_idle_thread and sched_init_thread
          NULL,
          Program,     \* Program[t]: the system calls thread t's code may make
          SleepArgs,   \* the arguments sleep is called with
          Victims      \* the threads task_vanish is called on

ASSUME ThreadAssumption ==
  /\ IdleThread \in Thread /\ InitThread \in Thread /\ IdleThread # InitThread
  /\ NULL \notin Thread /\ IsFiniteSet(Thread)
  /\ SleepArgs \subseteq Nat
  /\ Victims \subseteq Thread

\* sched_runnable_queue, sched_sleep_queue, sched_done_queue, and the lists
\* inside a thread_t.  (thread_t.wait_list is never inserted into.)
RunQ      == <<"runnable_queue", NULL>>
SleepQ    == <<"sleep_queue", NULL>>
DoneQ     == <<"done_queue", NULL>>
SelfWait(t) == <<"self_wait_list", t>>
Children(t) == <<"child_list", t>>
Zombies(t)  == <<"zombie_list", t>>

Heads == {RunQ, SleepQ, DoneQ}
           \cup {SelfWait(t) : t \in Thread}
           \cup {Children(t) : t \in Thread}
           \cup {Zombies(t) : t \in Thread}
Links == {"runnable_link", "wait_link", "child_link"}

INSTANCE VariableQueue WITH Elem <- Thread, QHead <- Heads, Link <- Links

\* thread_state_t; FREE marks a structure that is not allocated.
States == {"RUNNABLE", "WAITING", "SUSPENDED", "ZOMBIE", "DONE", "FREE"}

VARIABLES k,        \* kernel memory
          current,  \* current_thread
          mode,     \* user, syscall (lock held, call not yet executed), or
                    \* kernel (lock held, current was just switched in)
          cont      \* what a switched-out thread does when it runs again: enter
                    \* user mode for the first time (exit_kernel), return from
                    \* thread_yield, go through step 4 of sched_yield, or do
                    \* that and then finish thread_wait; "none" otherwise

vars == <<k, current, mode, cont>>

KernelMemory ==
  [first : [Heads -> Ptr], last : [Heads -> Ptr],
   next : [Links -> [Thread -> Ptr]], prev : [Links -> [Thread -> Ptr]],
   state : [Thread -> States], deadline : [Thread -> Nat],
   count : [Thread -> Int], parent : [Thread -> Ptr],
   alloc : SUBSET Thread, map : SUBSET Thread]

-----------------------------------------------------------------------------
(***************************************************************************)
(* Reference counts.  thread_put frees the thread when the count reaches   *)
(* zero, and thread_free puts the parent, which may free it in turn.       *)
(***************************************************************************)
thread_get(m, t) == [m EXCEPT !.count[t] = @ + 1]

\* t, its parent, its grandparent, ... as long as each one is freed.
FreedBy(m, t) ==
  LET up[n \in 0..Cardinality(Thread)] ==
        IF n = 0 THEN t ELSE IF up[n-1] = NULL THEN NULL ELSE m.parent[up[n-1]]
      freed(n) == \A i \in 0..n : up[i] # NULL /\ m.count[up[i]] = 1
  IN  {up[n] : n \in {n \in 0..Cardinality(Thread) : freed(n)}}

thread_put(m, t) ==
  LET freed == FreedBy(m, t)
      put   == {t} \cup {m.parent[u] : u \in freed}
  IN  [m EXCEPT !.count = [u \in Thread |-> IF u \in put THEN @[u] - 1 ELSE @[u]],
                !.state = [u \in Thread |-> IF u \in freed THEN "FREE" ELSE @[u]],
                !.parent = [u \in Thread |-> IF u \in freed THEN NULL ELSE @[u]],
                !.alloc = @ \ freed]

\* Moving an element between two queues of the same link.
Move(m, from, to, t, l) == Q_INSERT_TAIL(Q_REMOVE(m, from, t, l), to, t, l)

-----------------------------------------------------------------------------
(***************************************************************************)
(* sched.c                                                                 *)
(***************************************************************************)
\* Mutant of sched_add_thread: the hash map's reference is not counted.
AddThreadKeepsRef(m, t) == [m EXCEPT !.map = @ \cup {t}]

sched_add_thread(m, t) == [thread_get(m, t) EXCEPT !.map = @ \cup {t}]

sched_remove_thread(m, t) == thread_put([m EXCEPT !.map = @ \ {t}], t)

sched_add_runnable_thread(m, t) ==
  Q_INSERT_TAIL([thread_get(m, t) EXCEPT !.state[t] = "RUNNABLE"],
                RunQ, t, "runnable_link")

\* Mutant of sched_remove_runnable_thread: the removal forgotten.
RemoveRunnableKeepsLink(m, t) == thread_put(m, t)

sched_remove_runnable_thread(m, t) ==
  thread_put(Q_REMOVE(m, RunQ, t, "runnable_link"), t)

\* The sleep queue is linked by wait_link, but this names runnable_link.
sched_remove_waiting_thread(m, t) ==
  thread_put(Q_REMOVE(m, SleepQ, t, "runnable_link"), t)

sched_remove_done_thread(m, t) ==
  thread_put(Q_REMOVE(m, DoneQ, t, "runnable_link"), t)

\* Mutant of WakeUp: no deadline test.
WakeUpEarly(m, list, t) ==
  IF m.state[t] # "WAITING" THEN m
  ELSE Q_INSERT_FRONT([Q_REMOVE(m, list, t, "wait_link") EXCEPT !.state[t] = "RUNNABLE"],
                      RunQ, t, "runnable_link")
\* One round of the loop in sched_wakeup_threads.
WakeUp(m, list, t) ==
  IF m.deadline[t] > 0 THEN m
  ELSE LET out == Q_REMOVE(m, list, t, "wait_link")
       IN  IF m.state[t] = "WAITING"
           THEN Q_INSERT_FRONT([out EXCEPT !.state[t] = "RUNNABLE"],
                               RunQ, t, "runnable_link")
           ELSE Q_INSERT_TAIL(out, DoneQ, t, "runnable_link")

sched_wakeup_threads(m, list) ==
  LET s == Q_FOREACH(m, list, "wait_link")
      after[i \in 0..Len(s)] == IF i = 0 THEN m ELSE WakeUp(after[i-1], list, s[i])
  IN  after[Len(s)]

\* Mutant of Requeue: the thread that yields stays at the front.
RequeueInFront(m, old) ==
  IF old = IdleThread \/ m.state[old] # "RUNNABLE" THEN m
  ELSE Q_INSERT_FRONT(Q_REMOVE(m, RunQ, old, "runnable_link"), RunQ, old, "runnable_link")

\* sched_yield, step 1: requeue the thread that gives up the processor.
Requeue(m, old) ==
  IF old = IdleThread THEN m
  ELSE CASE m.state[old] = "RUNNABLE" -> Move(m, RunQ, RunQ, old, "runnable_link")
         [] m.state[old] = "DONE"     -> Move(m, RunQ, DoneQ, old, "runnable_link")
         [] OTHER -> m

\* sched_yield, step 2: threads at the front of the run queue that are not
\* runnable are moved to the done queue; then the front one is chosen.
DeadAtFront(m) ==
  LET s == Q_FOREACH(m, RunQ, "runnable_link")
      dead == {i \in DOMAIN s : \A j \in 1..i : m.state[s[j]] # "RUNNABLE"}
  IN  [i \in dead |-> s[i]]

Skim(m) ==
  LET s == DeadAtFront(m)
      after[i \in 0..Cardinality(DOMAIN s)] ==
        IF i = 0 THEN m ELSE Move(after[i-1], RunQ, DoneQ, s[i], "runnable_link")
  IN  after[Cardinality(DOMAIN s)]

NextThread(m) == IF Q_GET_FRONT(m, RunQ) = NULL THEN IdleThread ELSE Q_GET_FRONT(m, RunQ)

PutDead(m) ==
  LET s == Q_FOREACH(m, DoneQ, "runnable_link")
      after[i \in 0..Len(s)] == IF i = 0 THEN m ELSE sched_remove_done_thread(after[i-1], s[i])
  IN  after[Len(s)]

\* Mutant of CleanUp: the sleep queue is not scanned.
CleanUpDoneOnly(m) == PutDead(m)

\* sched_yield, step 4: put the dead threads and scan the sleep queue.
CleanUp(m) == sched_wakeup_threads(PutDead(m), SleepQ)

\* sched_thread_yield: the switch to thread new.  The caller's kernel stack
\* keeps its continuation c.
sched_thread_yield(new, c) ==
  /\ current' = new
  /\ mode' = "kernel"
  /\ cont' = [cont EXCEPT ![current] = c]

\* sched_yield, up to the switch, called with kernel memory m.
sched_yield(m, c) ==
  LET n == Skim(Requeue(m, current))
  IN  k' = n /\ sched_thread_yield(NextThread(n), c)

\* The call returns to its caller without a context switch.
Return(m) == k' = m /\ mode' = "user" /\ UNCHANGED <<current, cont>>

\* Mutant of FinishWait: the caller's own reference is not dropped.
FinishWaitKeepsRef(m, t) ==
  LET z == Q_GET_FRONT(m, Zombies(t))
  IN  IF z = NULL THEN m
      ELSE thread_put(Q_REMOVE(m, Zombies(t), z, "child_link"), z)

\* The end of thread_wait (thread.c): take the first zombie, if there is one, and drop
\* the reference the caller took on itself.
FinishWait(m, t) ==
  LET z == Q_GET_FRONT(m, Zombies(t))
  IN  thread_put(IF z = NULL THEN m
                 ELSE thread_put(Q_REMOVE(m, Zombies(t), z, "child_link"), z), t)

\* Mutant of sched_wait_on: the caller stays on the run queue.
WaitOnStaysRunnable(m, list, ticks, c) ==
  sched_yield(Q_INSERT_TAIL([m EXCEPT !.deadline[current] = ticks,
                                      !.state[current] = "WAITING"],
                            list, current, "wait_link"), c)

\* sched_wait_on: the current thread waits on a list, unless it is not runnable.
sched_wait_on(m, list, ticks, c) ==
  LET t == current
      waiting == [m EXCEPT !.deadline[t] = ticks, !.state[t] = "WAITING"]
      off == Q_REMOVE(waiting, RunQ, t, "runnable_link")
  IN  IF m.state[t] = "RUNNABLE"
      THEN sched_yield(Q_INSERT_TAIL(off, list, t, "wait_link"), c)
      ELSE Return(IF c = "thread_wait" THEN FinishWait(m, t) ELSE m)

-----------------------------------------------------------------------------
(***************************************************************************)
(* thread.c                                                                *)
(***************************************************************************)
\* memset, thread_init and sched_add_thread for the child t of p.
thread_copy(m, t, p) ==
  LET own == {SelfWait(t), Children(t), Zombies(t)}
      cleared ==
        [m EXCEPT !.first = [h \in Heads |-> IF h \in own THEN NULL ELSE @[h]],
                  !.last  = [h \in Heads |-> IF h \in own THEN NULL ELSE @[h]],
                  !.next  = [l \in Links |-> [@[l] EXCEPT ![t] = NULL]],
                  !.prev  = [l \in Links |-> [@[l] EXCEPT ![t] = NULL]],
                  !.state[t] = "RUNNABLE", !.deadline[t] = 0,
                  !.count[t] = 1, !.parent[t] = p, !.alloc = @ \cup {t}]
  IN  sched_add_thread(
        Q_INSERT_TAIL(thread_get(cleared, p), Children(p), t, "child_link"), t)

\* Mutants of BecomeZombie: the parent is not woken; the zombie is not put
\* on the parent's list.
ZombieWakesNobody(m, t) ==
  IF m.parent[t] = NULL THEN m
  ELSE [Move(m, Children(m.parent[t]), Zombies(m.parent[t]), t, "child_link")
          EXCEPT !.state[t] = "ZOMBIE"]
ZombieUnlisted(m, t) ==
  IF m.parent[t] = NULL THEN m
  ELSE sched_wakeup_threads(
         [Q_REMOVE(m, Children(m.parent[t]), t, "child_link")
            EXCEPT !.state[t] = "ZOMBIE"], SelfWait(m.parent[t]))

\* The parent's part of thread_vanish_noyield.
BecomeZombie(m, t) ==
  LET p == m.parent[t]
  IN  IF p = NULL THEN m
      ELSE sched_wakeup_threads(
             [Move(m, Children(p), Zombies(p), t, "child_link")
                EXCEPT !.state[t] = "ZOMBIE"], SelfWait(p))

ReleaseZombie(m, t, z) ==
  thread_put(Q_REMOVE([m EXCEPT !.state[z] = "DONE"], Zombies(t), z, "child_link"), z)

ReleaseZombies(m, t) ==
  LET s == Q_FOREACH(m, Zombies(t), "child_link")
      after[i \in 0..Len(s)] == IF i = 0 THEN m ELSE ReleaseZombie(after[i-1], t, s[i])
  IN  after[Len(s)]

thread_vanish_noyield(m, t) ==
  LET unmapped == sched_remove_thread(m, t)
      off == CASE unmapped.state[t] = "RUNNABLE" -> sched_remove_runnable_thread(unmapped, t)
               [] unmapped.state[t] = "WAITING"  -> sched_remove_waiting_thread(unmapped, t)
               [] OTHER -> unmapped
  IN  thread_put(ReleaseZombies(BecomeZombie(off, t), t), t)

-----------------------------------------------------------------------------
(***************************************************************************)
(* Boot, traps and ticks.                                                  *)
(***************************************************************************)
\* sched_init: idle and init exist, init is on the run queue and is being
\* switched to for the first time; the boot path holds the kernel lock.
Init ==
  /\ k = [first |-> [h \in Heads |-> IF h = RunQ THEN InitThread ELSE NULL],
          last  |-> [h \in Heads |-> IF h = RunQ THEN InitThread ELSE NULL],
          next  |-> [l \in Links |-> [t \in Thread |-> NULL]],
          prev  |-> [l \in Links |-> [t \in Thread |-> NULL]],
          state |-> [t \in Thread |-> IF t \in {IdleThread, InitThread} THEN "RUNNABLE" ELSE "FREE"],
          deadline |-> [t \in Thread |-> 0],
          count |-> [t \in Thread |-> IF t = IdleThread THEN 3 ELSE IF t = InitThread THEN 4 ELSE 0],
          parent |-> [t \in Thread |-> NULL],
          alloc |-> {IdleThread, InitThread}, map |-> {IdleThread, InitThread}]
  /\ current = InitThread
  /\ mode = "kernel"
  /\ cont = [t \in Thread |-> IF t \in {IdleThread, InitThread} THEN "exit_kernel" ELSE "none"]

\* SCW_PROLOG: a system call takes the kernel lock.
EnterKernel ==
  /\ mode = "user" /\ Program[current] # {}
  /\ mode' = "syscall"
  /\ UNCHANGED <<k, current, cont>>

Calling(call) == mode = "syscall" /\ call \in Program[current]

\* kernel_tick: every pending deadline is one tick closer.
Ticked(m) == [m EXCEPT !.deadline = [t \in Thread |-> IF @[t] > 0 THEN @[t] - 1 ELSE 0]]

\* timer_handler when the lock is held: trylock_kernel fails.
KernelTick ==
  /\ mode # "user"
  /\ k' = Ticked(k)
  /\ UNCHANGED <<current, mode, cont>>

\* timer_handler in user mode: the bottom half yields.
UserTick ==
  /\ mode = "user"
  /\ sched_yield(Ticked(k), "sched_yield")

\* The thread that was switched in runs its continuation and returns to
\* user mode, releasing the lock (SCW_EPILOG).
Resume ==
  /\ mode = "kernel"
  /\ mode' = "user"
  /\ cont' = [cont EXCEPT ![current] = "none"]
  /\ k' = CASE cont[current] \in {"exit_kernel", "thread_yield"} -> k
            [] cont[current] = "thread_wait" -> FinishWait(CleanUp(k), current)
            [] OTHER -> CleanUp(k)
  /\ UNCHANGED current

-----------------------------------------------------------------------------
(***************************************************************************)
(* The system calls.                                                       *)
(***************************************************************************)
sys_fork ==
  /\ Calling("fork")
  /\ \/ Return(k)   \* task_copy or thread_copy found no memory
     \/ \E t \in Thread \ k.alloc :
          LET child == sched_add_runnable_thread(thread_get(thread_copy(k, t, current), t), t)
              n == Skim(Requeue(child, current))
          IN  /\ k' = n
              /\ current' = NextThread(n)
              /\ mode' = "kernel"
              /\ cont' = [cont EXCEPT ![current] = "sched_yield", ![t] = "exit_kernel"]

\* sys_vanish, a failing exec, and a fatal exception of the current thread.
sys_vanish ==
  /\ Calling("vanish")
  /\ sched_yield(thread_vanish_noyield(k, current), "sched_yield")

sys_wait ==
  /\ Calling("wait")
  /\ LET none(h) == Q_GET_FRONT(k, h) = NULL
         held == thread_get(k, current)
     IN  \/ none(Children(current)) /\ none(Zombies(current)) /\ Return(k)
         \/ ~none(Zombies(current)) /\ Return(FinishWait(held, current))
         \/ /\ ~none(Children(current)) /\ none(Zombies(current))
            /\ sched_wait_on(held, SelfWait(current), 0, "thread_wait")

sys_sleep ==
  /\ Calling("sleep")
  /\ \E ticks \in SleepArgs : sched_wait_on(k, SleepQ, ticks, "sched_yield")

\* yield(-1), and the loop of readline.
sys_yield == Calling("yield") /\ sched_yield(k, "sched_yield")

\* Mutant of thread_yield: the target's state is not tested.
YieldToAny ==
  /\ Calling("yield_to")
  /\ \E t \in Thread :
       IF t \in k.map /\ t # current
       THEN sched_thread_yield(t, "thread_yield") /\ UNCHANGED k
       ELSE Return(k)

\* yield(tid): the switch bypasses the run queue.
thread_yield ==
  /\ Calling("yield_to")
  /\ \E t \in Thread :
       IF t \in k.map /\ k.state[t] = "RUNNABLE" /\ t # current
       THEN sched_thread_yield(t, "thread_yield") /\ UNCHANGED k
       ELSE Return(k)

sys_task_vanish ==
  /\ Calling("task_vanish")
  /\ \E t \in Victims :
       IF t \notin k.map THEN Return(k)
       ELSE sched_yield(IF k.state[t] = "DONE" THEN k ELSE thread_vanish_noyield(k, t),
                        "sched_yield")

\* cas2i_runflag(t, ev1, nv1, ev2, nv2).  A runflag is 0 for a runnable and
\* negative for a suspended thread.
RunFlagIs(s, ev) == (ev = 0 /\ s = "RUNNABLE") \/ (ev < 0 /\ s = "SUSPENDED")

NewRunState(s, ev1, nv1, ev2, nv2) ==
  IF \/ RunFlagIs(s, ev1) /\ nv1 < 0
     \/ ~RunFlagIs(s, ev1) /\ RunFlagIs(s, ev2) /\ nv2 < 0
  THEN "SUSPENDED" ELSE "RUNNABLE"

sys_cas2i_runflag ==
  /\ Calling("cas2i")
  /\ \E t \in Thread, ev1, nv1, ev2, nv2 \in {-1, 0, 1} :
       LET s   == k.state[t]
           new == NewRunState(s, ev1, nv1, ev2, nv2)
       IN  IF \/ t \notin k.map \/ s \in {"ZOMBIE", "DONE"} \/ new = s
              \/ new = "SUSPENDED" /\ (t # current \/ s # "RUNNABLE")
           THEN Return(k)
           ELSE IF new = "SUSPENDED"
           THEN sched_yield([sched_remove_runnable_thread(k, t)
                               EXCEPT !.state[t] = "SUSPENDED"], "sched_yield")
           ELSE Return(sched_add_runnable_thread(k, t))

Syscall == \/ sys_fork \/ sys_vanish \/ sys_wait \/ sys_sleep \/ sys_yield
           \/ thread_yield \/ sys_task_vanish \/ sys_cas2i_runflag

Next == EnterKernel \/ Syscall \/ Resume \/ UserTick \/ KernelTick

Spec == Init /\ [][Next]_vars
=============================================================================
