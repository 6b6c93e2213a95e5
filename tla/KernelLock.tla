----------------------------- MODULE KernelLock -----------------------------
(***************************************************************************)
(* The kernel lock, traps and the timer's event callback on the one        *)
(* virtual processor: kern/lock.S, the wrappers of kern/inc/kernel_asm.h   *)
(* and kern/inc/exception_wrappers.h, hypervisor_callback of               *)
(* 410kern/boot/head.S, timer_handler of kern/xen_time.c and               *)
(* sched_bottom_half of kern/sched.c.                                      *)
(*                                                                         *)
(* Every thread has a kernel stack of activations; each activation is the  *)
(* point its code has reached, the last one is running.  Traps do not mask *)
(* events, so a tick can interrupt a trap before it takes the lock and     *)
(* after it has released it, and timer_handler unmasks events before its   *)
(* bottom half, so ticks nest.  Which thread sched_yield picks, and what a *)
(* system call does with the lock, are left open here: see Scheduler.      *)
(***************************************************************************)
EXTENDS Naturals, Sequences

CONSTANTS Thread,
          NULL,     \* current_thread while the kernel boots
          MaxDepth, \* bound on the activations of one stack
          Faults    \* whether system calls touch user pages not yet present

ASSUME KernelLockAssumption ==
  NULL \notin Thread /\ Thread # {} /\ MaxDepth \in Nat /\ Faults \in BOOLEAN

\* The boot code is a context of its own, with current_thread = NULL.
Context == Thread \cup {NULL}

\* Activations that run with the lock: the boot code, a handler between the
\* lock and the unlock of its wrapper, the first exit of a new thread
\* (exit_kernel, exit_exec), the bottom half before and after its yield, and a
\* fault of the kernel itself in its handler and in panic.
Faulting == {"fault_kernel", "panic"}
Holding == {"boot", "trap_kernel", "exit_kernel", "bottom_kernel", "bottom_leave"}
           \cup Faulting

\* A trap before lock_kernel and after unlock_kernel; a fault of the kernel
\* before lock_kernel; the event callback in its masked top half, before
\* trylock_kernel, on its way out, and in the critical region after it has
\* unmasked events.
Points == Holding \cup {"trap_entry", "trap_exit", "fault_entry", "top_half",
                        "bottom_half", "callback_exit", "critical"}

VARIABLES kernel_lock, \* the mutex_t
          current,     \* current_thread
          esp0,        \* the thread whose kernel stack Xen uses for the next
                       \* trap from user mode (HYPERVISOR_stack_switch)
          upcall_mask, \* evtchn_upcall_mask
          stack        \* the activations of every context

vars == <<kernel_lock, current, esp0, upcall_mask, stack>>

TypeOK ==
  /\ kernel_lock \in {"MUTEX_LOCKED", "MUTEX_UNLOCKED"}
  /\ current \in Context
  /\ esp0 \in Context
  /\ upcall_mask \in BOOLEAN
  /\ stack \in [Context -> Seq(Points)]

\* kernel_lock is statically MUTEX_LOCKED; every thread is still to make its
\* first exit to user mode.  xen_init_events has run and events are unmasked.
Init ==
  /\ kernel_lock = "MUTEX_LOCKED"
  /\ current = NULL /\ esp0 = NULL
  /\ upcall_mask = FALSE
  /\ stack = [c \in Context |-> IF c = NULL THEN <<"boot">> ELSE <<"exit_kernel">>]

-----------------------------------------------------------------------------
\* The running activation is at p, and moves on to q.
At(p) == stack[current] # <<>> /\ stack[current][Len(stack[current])] = p
GoTo(q) == stack' = [stack EXCEPT ![current] = [@ EXCEPT ![Len(@)] = q]]

Push(c, p) == stack' = [stack EXCEPT ![c] = Append(@, p)]
Pop == stack' = [stack EXCEPT ![current] = SubSeq(@, 1, Len(@) - 1)]

Room == Len(stack[current]) < MaxDepth

\* A system call or an exception in user mode: the processor switches to the
\* kernel stack Xen was told of.
Trap ==
  /\ stack[current] = <<>> /\ Room
  /\ Push(esp0, "trap_entry")
  /\ UNCHANGED <<kernel_lock, current, esp0, upcall_mask>>

\* A page fault of the kernel itself, copying from or to user memory; its
\* wrapper calls lock_kernel like any other.
SupervisorFault ==
  /\ Faults /\ At("trap_kernel") /\ Room
  /\ Push(current, "fault_entry")
  /\ UNCHANGED <<kernel_lock, current, esp0, upcall_mask>>

\* mutex_spinlock does not wait.  The first cmpxchg that fails leaves 0, the
\* locked value, in EAX; the next compares with that, and succeeds.
lock_kernel ==
  /\ \/ At("trap_entry") /\ GoTo("trap_kernel")
     \/ At("fault_entry") /\ GoTo("fault_kernel")
  /\ kernel_lock' = "MUTEX_LOCKED"
  /\ UNCHANGED <<current, esp0, upcall_mask>>

\* Of pgf_exception_handler, its answer to a fault in supervisor mode.  panic
\* loops; the hypervisor delivers events on, its cli being of no effect there.
pgf_exception_handler ==
  /\ At("fault_kernel") /\ GoTo("panic")
  /\ UNCHANGED <<kernel_lock, current, esp0, upcall_mask>>

\* sched_yield and thread_yield: switch to any thread, or to none.  The boot
\* code and the bottom half yield once; a handler may yield again.
sched_thread_yield ==
  /\ \/ At("boot") /\ UNCHANGED stack
     \/ At("trap_kernel") /\ UNCHANGED stack
     \/ At("bottom_kernel") /\ GoTo("bottom_leave")
  /\ current' \in Thread
  /\ UNCHANGED <<kernel_lock, esp0, upcall_mask>>

\* Mutants of unlock_kernel: the bottom half does not save esp0; the bottom
\* half does not release the lock.
UnlockWithoutEsp0 ==
  /\ \/ (At("trap_kernel") \/ At("exit_kernel")) /\ GoTo("trap_exit") /\ esp0' = current
     \/ At("bottom_leave") /\ GoTo("callback_exit") /\ UNCHANGED esp0
  /\ kernel_lock' = "MUTEX_UNLOCKED"
  /\ UNCHANGED <<current, upcall_mask>>
UnlockTrapsOnly ==
  /\ \/ /\ At("trap_kernel") \/ At("exit_kernel")
        /\ GoTo("trap_exit") /\ kernel_lock' = "MUTEX_UNLOCKED"
     \/ At("bottom_leave") /\ GoTo("callback_exit") /\ UNCHANGED kernel_lock
  /\ esp0' = current
  /\ UNCHANGED <<current, upcall_mask>>

\* sched_save_kernel_esp0 and unlock_kernel, on every way out.
unlock_kernel ==
  /\ \/ (At("trap_kernel") \/ At("exit_kernel")) /\ GoTo("trap_exit")
     \/ At("bottom_leave") /\ GoTo("callback_exit")
  /\ esp0' = current
  /\ kernel_lock' = "MUTEX_UNLOCKED"
  /\ UNCHANGED <<current, upcall_mask>>

\* iret of a trap.
TrapReturn ==
  /\ At("trap_exit") /\ Pop
  /\ UNCHANGED <<kernel_lock, current, esp0, upcall_mask>>

-----------------------------------------------------------------------------
\* Xen delivers the timer event wherever it is not masked.  From user mode
\* the callback's frame goes on the stack Xen was told of; in the critical
\* region of another callback the two activations are merged.
hypervisor_callback ==
  /\ ~upcall_mask
  /\ \/ stack[current] = <<>> /\ Room /\ Push(esp0, "top_half")
     \/ stack[current] # <<>> /\ ~At("critical") /\ Room /\ Push(current, "top_half")
     \/ At("critical") /\ GoTo("top_half")
  /\ upcall_mask' = TRUE
  /\ UNCHANGED <<kernel_lock, current, esp0>>

\* Mutant of timer_handler: no __sti.
TimerStaysMasked ==
  /\ At("top_half") /\ GoTo("bottom_half")
  /\ UNCHANGED <<kernel_lock, current, esp0, upcall_mask>>

\* The top half counts the tick, clears the event and unmasks (__sti).
timer_handler ==
  /\ At("top_half") /\ GoTo("bottom_half")
  /\ upcall_mask' = FALSE
  /\ UNCHANGED <<kernel_lock, current, esp0>>

\* Mutants of sched_bottom_half: trylock_kernel's answer is not tested; the
\* bottom half yields without the lock.
BottomHalfAnyway ==
  /\ At("bottom_half")
  /\ kernel_lock' = "MUTEX_LOCKED"
  /\ GoTo(IF current = NULL THEN "callback_exit" ELSE "bottom_kernel")
  /\ UNCHANGED <<current, esp0, upcall_mask>>
BottomHalfUnlocked ==
  /\ At("bottom_half")
  /\ GoTo(IF kernel_lock = "MUTEX_LOCKED" \/ current = NULL
          THEN "callback_exit" ELSE "bottom_kernel")
  /\ UNCHANGED <<kernel_lock, current, esp0, upcall_mask>>

\* sched_bottom_half up to its sched_yield.
sched_bottom_half ==
  /\ At("bottom_half")
  /\ kernel_lock' = "MUTEX_LOCKED"
  /\ GoTo(IF kernel_lock = "MUTEX_LOCKED" \/ current = NULL
          THEN "callback_exit" ELSE "bottom_kernel")
  /\ UNCHANGED <<current, esp0, upcall_mask>>

\* safesti: unmask events and enter the critical region.
safesti ==
  /\ At("callback_exit") /\ GoTo("critical")
  /\ upcall_mask' = FALSE
  /\ UNCHANGED <<kernel_lock, current, esp0>>

\* The callback's iret, when no further event is pending.
CallbackReturn ==
  /\ At("critical") /\ Pop
  /\ UNCHANGED <<kernel_lock, current, esp0, upcall_mask>>

Kernel == \/ lock_kernel \/ pgf_exception_handler \/ sched_thread_yield \/ unlock_kernel
          \/ TrapReturn \/ timer_handler \/ sched_bottom_half \/ safesti \/ CallbackReturn

Next == Trap \/ SupervisorFault \/ hypervisor_callback \/ Kernel

Spec == Init /\ [][Next]_vars

-----------------------------------------------------------------------------
Locked == kernel_lock = "MUTEX_LOCKED"

\* The activations of c that run with the lock.
HoldingFrames(c) == {i \in 1..Len(stack[c]) : stack[c][i] \in Holding}

\* The kernel has faulted on behalf of c: the machine has stopped, or will.
Faulted(c) == \E i \in 1..Len(stack[c]) : stack[c][i] \in Faulting

(* Mutual exclusion over kernel data, across switches: the lock is taken   *)
(* exactly while some activation of the running thread holds it, and every *)
(* thread that is switched out is inside its locked region, so whoever is  *)
(* switched to owns the lock and releases it (SCW_EPILOG, EXW_EPILOG,      *)
(* exit_kernel, sched_bottom_half).  A second activation gets the lock     *)
(* only by a fault of the first, and ends in panic: however ticks nest,    *)
(* trylock_kernel gives it to none.                                        *)
OneInKernel ==
  /\ Locked <=> HoldingFrames(current) # {}
  /\ \A c \in Context : \A i, j \in HoldingFrames(c) :
       i < j => stack[c][i] = "trap_kernel" /\ stack[c][j] \in Faulting
  /\ \A c \in Context \ {current} : Len(stack[c]) \in HoldingFrames(c) /\ ~Faulted(c)

(* README.dox:172-175: "The kernel is non-reentrant for all operations on  *)
(* kernel data structures ... A single kernel lock is used to ensure there *)
(* is only one thread executing in kernel mode at any given time".  No two *)
(* activations of a thread have the lock: false as soon as the kernel      *)
(* faults, because lock_kernel gives away a lock that is taken.            *)
NonReentrant == \A c \in Context : \A i, j \in HoldingFrames(c) : i = j

(* A trap or tick from user mode lands on the running thread's own kernel  *)
(* stack: every exit path calls sched_save_kernel_esp0, also after a tick  *)
(* in kernel mode has switched threads.                                    *)
OwnKernelStack == ~Locked => esp0 = current

(* A system call or an exception in user mode finds the lock free, whatever*)
(* switches and nested ticks came before: lock_kernel would not wait for it*)
(* to be released (mutex_spinlock), so nothing but this keeps a trap out of*)
(* another's critical section.                                             *)
TrapsFindLockFree == At("trap_entry") => ~Locked

(* Events are masked in the top half only: a thread never reaches user     *)
(* mode, or is switched out, with ticks masked (__sti, safesti).           *)
MaskedInTopHalf == upcall_mask <=> At("top_half")

(* The lock is handed over with the processor, or the machine stops        *)
(* (LockHandoff).                                                          *)
Abstract == INSTANCE LockHandoff WITH
  running <- current, held <- Locked, stopped <- Faulted(current)

ImplementsHandoff == Abstract!Spec
=============================================================================
