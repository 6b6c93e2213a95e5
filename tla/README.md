# Verification of the paravirtualised Pebbles kernel

This directory holds TLA+ models of the kernel under `src/kern`, a 15-410
"Pebbles" kernel that runs as a Xen guest on one virtual processor, and of the
parts of `src/410kern` and `src/410user` it rests on. TLC checks the models on
small instances; TLAPS proves some of the results for every value of the
constants. Paths below are relative to `src/`.

Contents: [The system](#the-system) · [Modules](#modules) ·
[Runs](#runs) · [Bounds](#bounds-and-preconditions) · [Fairness](#fairness) ·
[Proofs](#proofs) ·
[Where code and documentation differ](#where-code-and-documentation-differ) ·
[Not modelled](#not-modelled) · [Plan](#plan)

## The system

The kernel runs user tasks of one thread each. A thread enters it by a system
call or an exception; the wrapper (`kern/inc/kernel_asm.h`,
`kern/inc/exception_wrappers.h`) takes the one kernel lock, calls the C
handler, records the thread's kernel stack for the next trap (`esp0`), and
releases the lock. Xen delivers events (timer, console) by
`hypervisor_callback` in `410kern/boot/head.S`, at any instruction at which
events are not masked, in user mode or in the kernel.

| Component | Source | State | What is hard, and what makes it correct |
|---|---|---|---|
| Queues | `kern/inc/variable_queue.h` | heads, links inside the elements | one link serves several queues; lists are consistent and are the sequences the names promise |
| Scheduler | `kern/sched.c` | run, sleep and done queue, `current_thread`, thread map | its last step runs in the *next* thread. State and queue agree, only live runnable threads run, no wakeup is lost or early, nobody starves |
| Threads | `kern/thread.c` | state, deadline, count, parent, wait/child/zombie lists | counts taken in one handler and dropped in another are exact; freed structures are unreachable |
| Process calls | `kern/process.c` | – | fork, exec, wait, vanish, yield, sleep, task_vanish, cas2i_runflag act on threads in any state |
| Tasks, areas, files | `kern/task.c`, `kern/vm_area.c`, `kern/file.c` | counts, parent, children, area list | every reference is put once, also by the paths that undo a failed fork or exec |
| Kernel lock, traps | `kern/lock.S`, wrappers, `kern/sched.c` | `kernel_lock`, `esp0`, kernel stacks | the lock is passed on by a context switch; it excludes nobody by itself, so traps must find it free; they land on the right stack |
| Events | `410kern/boot/head.S`, `kern/xen_events.c`, `kern/xen_time.c` | two levels of pending words, masks, upcall mark | callbacks nest and are switched out in the middle; no event is forgotten |
| Page allocator | `kern/vmm_zone.c` | free lists per order, `num_free` | no page lost, lent twice, or in two blocks |
| Page tables | `kern/vmm_page.c` | directories, tables, update queue, read-only frames | entries reach memory at a flush; a frame has one use; tables stay read-only |
| Address spaces, page faults | `kern/vm_area.c`, `kern/vmm.c`, `kern/mm.c`, `kern/kernel_exceptions.c` | areas per task, memory | areas are loaded page by page, copied by fork, replaced by exec; memory may run out in the middle; a task's memory is its own |
| Console, keyboard, readline | `kern/xencons_ring.c`, `kern/xen_console.c`, `kern/keyboard.c`, `kern/consoleio.c` | two rings shared with a daemon, a ring of characters, a line | full rings, wrapping indices, interrupt against reader, events cleared too late |
| Time page | `kern/xen_time.c` | shadow of the shared page | fields of different versions are never mixed |
| Loader | `kern/loader.c`, `410kern/elf`, `kern/vmm.c`, `kern/vm_area.c` | – | sections that begin and end inside pages, a file that ends early |
| exec arguments | `kern/usercopy.c`, `kern/vmm.c`, `kern/process.c` | – | measured, packed, unpacked on another stack |
| Kernel heap | `410kern/lmm`, `410kern/malloc` | regions, address-ordered free lists | no byte lost or given twice, aligned requests met when they can be |
| User heap | `410user/libmalloc` | boundary tags | tags agree through splits, joins, growth |
| Number formats | `stdio/doprnt.c`, `stdlib/strtol.c` of both libraries | – | printed numbers read back |

How they interact: every handler calls the scheduler to block or to switch;
the scheduler moves threads between queues and takes and drops their
references; the last reference to a thread frees its kernel stack area, whose
pages go back to the page allocator, and one to its task; the timer's bottom
half calls `sched_yield` if, and only if, it can take the kernel lock, on
whatever stack the callback runs; a page fault calls the area it falls in.

## Modules

**`VariableQueue`** has one operator per macro, each the stores of the macro
on a record of heads and links. The operators do what the stores do also when
the contract is broken (an element removed through the wrong link), because the
scheduler does that. **`QueueMachine`** is any client that keeps the contract:
`m` is the memory, `on[e]` the queue `e` is on. **`SequenceQueues`** is the
abstract specification, one sequence per queue. **`QueueProofs`** has the proofs,
**`QueueLists`** the lemmas on what each macro does to the list a queue is.

**`Scheduler`** holds kernel memory in one record `k`, and each C function is an
operator from memory to memory with the function's name; each system call is
an action. A call is atomic up to the context switch, since it runs under the
kernel lock; what is left of it when the thread is switched back in is
`cont[t]`, executed by `Resume`. Only the timer's top half comes in between
(`KernelTick`). `deadline[t]` holds the ticks left, which is all the code
compares. `sched_yield` is `Requeue` (step 1), `Skim` and `NextThread` (2 and 3),
and `CleanUp` (4). `malloc` returns any structure not allocated, or fails.
**`SchedulerProps`** states the properties, **`MCScheduler`** the instances.
**`SchedulerProofs`** has the lemmas on what each C function does to kernel
memory, on top of those of `QueueLists`, and then the proofs.

**`KernelLock`** looks below the level of a system call: every thread has a
kernel stack of activations, each at the point its code has reached. A trap
pushes on the stack named by `esp0`; the callback pushes wherever events are not
masked; `timer_handler` unmasks; `sched_bottom_half` tries the lock. Which
thread is switched to is open. `lock_kernel` has no guard on the lock: the loop of
`mutex_spinlock` ends in its second round whatever the lock is
([below](#where-code-and-documentation-differ)). What keeps a trap out of another's
critical section is that it never finds the lock taken (`TrapsFindLockFree`).
A page fault in the kernel itself is `SupervisorFault`, enabled by `Faults`; it
happens because `usercopy.c` touches user pages that are loaded lazily. It gets the
lock its own thread holds and ends in panic. **`LockHandoff`** is the abstract
specification, with the stop of the machine; **`KernelLockProofs`** has the proofs.

**`XenEvents`** takes the same callback from the side of the hypervisor: the
pending and mask bits of ports, the word selector, the upcall mark, and the loop
of `do_hypervisor_callback` one access at a time on the stack of whatever thread
it interrupted. The timer's handler lets events in and may switch threads, so a
half-finished loop stays behind on a stack; a thread may be killed with one.
`lost` is a history variable: what `xen_get_cr2` wipes and what a killed
thread's stack had still to serve. **`XenEventsProofs`** has the proofs.

**`PageTables`** has directories, tables and frames as one record; its operators
are the functions of `vmm_page.c` with their return codes, the queue of updates
with its flushes, and what the hypervisor does with an update (it refuses one
that would make a table writable). **`AddressSpaces`** adds areas and the calls
that make and unmake them: each handler is one step, because it runs under the
lock to its final switch, and every allocation in it, of a frame or of an area's
structure, can be the one that fails. What reference counts decide in the code is a task's state there;
that they decide it right is the subject of **`TaskRefs`**. **`TaskMemory`** is
the abstract specification: what each task reads at each address. A task's memory
"is" also what is still to be loaded from its executable. **`MCAddressSpaces`**
has the layout of the instance, **`AddressSpacesProofs`** the proofs. The loops of
the code over pages, tables, areas and waiting updates are `Each` on a sequence, a
fold written as a recursive function so that it can be proved about; a loop that
ends with its first failure has `AndThen` in its body (`EachPage`). A failed
assertion stops the machine, and what its handler has done by then is dropped
(`Settled`): nobody runs any more who could see it.

**`TaskRefs`** has the counts of tasks, areas, files and threads and the pointers
they stand for, through fork, exec, vanish and wait. At most one allocation of a call
fails: the page directory, the structure of an area (`MallocOf`) or its memory
(`ForkFailure`), or the opening of a file (`ExecFailure`). What has been freed and is put
or freed again sets `misused`; a failed assertion stops the machine (`halted`).

**`ConsoleIO`** has the daemon, the callback and the reading thread, each a step
per access another can see. **`LineInput`** is the abstract specification: a
bounded queue of characters that is read into a line and echoed.
**`ConsoleIOProofs`** has the proof of the refinement.

**`BuddyZone`** is the allocator: a page is its number, a free list a sequence
of first pages; the loop of a call is stepped through in `call`, one split
(`buddy_split_node`) or one merge (`Merge`) at a time. **`PagePool`** is the
abstract specification, **`MCBuddyZone`** the instance; **`ServicesProofs`** has the
proofs about it and about the time page. **`KernelHeap`**,
**`UserHeap`**, **`XenTime`**, **`ProgramLoader`**, **`ExecArguments`** and
**`Formats`** model the components of these names. **`MCServices`** runs the seven
side by side: a behaviour belongs to one of them, chosen at the start (`part`).
`Formats` maps `printf` and `Read` to the user library's files; the kernel's copies are the
same code.

Definitions marked "Mutant" are the code with one plausible slip. They are used
nowhere; substituting one for the definition after it makes a property fail,
which shows that the property depends on the code.

## Runs

| Run | Instance | Shows |
|---|---|---|
| `QueueMachine` | 2 queues on one link, 5 elements | consistent lists, refinement of `SequenceQueues` action by action |
| `SchedBlocking` | idle, init, 3 forked threads; sleep(0), sleep(1) | state matches queue, exact counts, nothing dangling, no lost or early wakeup, `thread_wait` wakes with a zombie |
| `SchedRunFlag` | the same threads; cas2i_runflag, task_vanish, no sleepers | state matches queue |
| `SchedLive` | idle, init, 2 threads | every runnable thread runs, sleepers wake, waits return |
| `LockSwitches` | 2 threads, 4 activations deep, supervisor faults | who has the kernel lock, also after a fault of the kernel, and `esp0`; refinement of `LockHandoff` |
| `XenEvents` | 2 threads, 2 ports in 2 words, 2 callbacks deep | no event stranded, marks are taken, pending events are taken in the end |
| `AddressSpaces` | idle, init, a child; 12 frames, 3 stacks; pages of 2 cells, tables of 2 pages, a queue of 3 updates | a frame has one use, tables are read-only, the running task's directory is in use, only a fork loses frames, refinement of `TaskMemory` |
| `TaskRefs` | 4 tasks, 3 files, one failure per call (not the directory's) | counts are the pointers there are, zombies keep their stacks, nothing outlives its thread |
| `ConsoleIO` | rings of 2, indices modulo 4, 1 free key slot of 2, lines of 3 | refinement of `LineInput`, lines return |
| `Services` | the seven services below | one property each, two for the page allocator and the kernel heap |
| `SchedKillSleepers`, `ForkCopies` | small | each finds the violation described [below](#where-code-and-documentation-differ) |

`Services`: a zone of ten pages under every allocation and free, refining
`PagePool`; a kernel heap of three regions (sizes 1 and 6, alignment 8), `malloc`,
`memalign`, `smalloc`, `smemalign`, `realloc`, `free`; a user heap that grows by up
to three pages of one chunk each; two updates of two clocks of two fields; 288
executables in pages of four bytes; 144 argument memories; eight numbers from
−170 to 100 under every flag with widths 0, 2 and 6.

## Bounds and preconditions

* Queues: five elements give a queue with two inner elements beside a second
  non-empty one; no macro looks further than two links.
* Scheduler: the number of threads is the number of structures `malloc` can
  return; three give a parent with two children, and a grandchild, and freed
  structures are reused. `SleepArgs`: 0 is due at once, 1 must wait for a tick.
  Forked threads are interchangeable, and the safety runs use that symmetry; the
  liveness run does not. `SchedBlocking` leaves out task_vanish and
  cas2i_runflag, because on sleeping threads they break the queues (below);
  `SchedRunFlag` has them, without sleepers or waiters. init never vanishes, as in
  `410user/progs/init.c`; idle makes no calls.
* `MaxDepth` in `KernelLock` and `XenEvents` bounds the nesting of activations,
  which the code does not bound. Four hold a trap, its fault and two nested
  ticks; two callbacks are one that interrupts another. `LockSwitches` does not
  check deadlock: after a supervisor fault the kernel stays in panic.
* `AddressSpaces`: the frames are few enough that every fork, exec and fault can
  fail at every allocation; a queue of three updates flushes in the middle of an
  area; text and data share no page but data and bss do. Each task
  can be in one state "spoiled" (a copy ran out of frames, or areas overlapped), after which only
  the safety of frames is claimed for it. `OutOfStacks = FALSE`: in a
  fork the child's kernel stack can be made, its pages and its structure (below).
* `TaskRefs`: three files are as many as tasks can hold at once with one loading;
  `Orphans = FALSE`: a task ends after its children, as
  the comment at `kern/thread.c:294` assumes; "directory" is not in `ForkFailure`
  (below). The first is a precondition, the second a fault of the code.
* `ConsoleIO`: a ring of two is empty, half full and full; modulus 4 is the
  smallest that tells a full ring from an empty one and makes the indices
  wrap. One key fits in the keyboard's buffer, so that it overflows. `View` forgets
  where in a ring its content begins, which no action and no property depends on.
* `KernelHeap`, `UserHeap`: sizes that leave a remainder too small to split, one
  that is not, and an alignment larger than the unit.
* CHECK_DEADLOCK FALSE where programs may all have ended (`AddressSpaces`, `ForkCopies`,
  `TaskRefs`), where a loss is not followed (`XenEvents`), where the daemon and the
  kernel wait for one another (`ConsoleIO`, `InputDead`), and where a service has
  nothing left to do (`Services`).

## Fairness

`Scheduler!FairSpec`: kernel code runs on (weak fairness of the system calls and
of `Resume`; it has no unbounded loop under the lock), and ticks arrive in user
mode again and again (strong fairness of `UserTick`). The second is an assumption
about the timer's phase. The code drops a bottom half that finds the lock taken,
so threads that enter the kernel at every tick are never preempted; without the
assumption two threads calling sleep(0) in turn keep others from running, because
`sched_wakeup_threads` inserts at the front of the run queue. User code need not
do anything: no system call is ever assumed to be made.

`XenEvents!FairSpec`: the processor and the timer do not stop, the scheduler gives
every thread its turn (strong fairness of a switch away from others, what
`RunnableRuns` establishes), and in the long run the devices are slower than the
handlers (`Slower`). Without the last, `do_hypervisor_callback`'s inner loop
(`kern/xen_events.c:109`) need not end and `EventsTaken` is false.

`ConsoleIO!FairSpec`: daemon, callback and thread run on, the thread gets on
between two callbacks, and the user types on, in the long run one key at a time
(`Patient`), with Enter again and again. A user who types ahead for ever can
fill every buffer, and what is dropped may be every Enter.

## Proofs

`QueuesStayConsistent` (`QueueProofs`): for any elements, heads and links,
`TypeOK` and `QueueInv` hold under the contract. `QueueInv` is local: it speaks
of an element, its neighbours and its queue's ends, never of reachability, so it
is inductive as it stands and no induction along a list is needed. There is one
lemma per macro.

`QueuesAreSequences` (`QueueProofs`): every macro is the operation on sequences
its name promises (`ImplementsSequences`), for any heads and links and any finite
set of elements. What `QueueInv` leaves open, that the links do not run in a
circle or past the end, is said by `IsList(m, h, l, s)` of `QueueLists`: place by
place, the queue is the sequence s, without repetition. `ListsInv`, that every
queue is a list and `on` says which, is the inductive invariant. An insertion or
removal turns the list into the sequence with one place more or less and leaves
the queues it does not touch alone (`InsertFrontList` ... `RemoveList`,
`OtherLists`); `ForeachList` shows, by induction on numbers, that `Q_FOREACH`
visits the list, so the sequence of the refinement mapping is the list of the
invariant.

`EachPageOnce`, `ZonesArePool` (`ServicesProofs`): for any zones that do not
overlap, each of 2 to 2^20 pages, every page is in exactly one block, free, lent
or in the hands of a call, and the allocator implements `PagePool`: a block that
is lent was free, and what is freed comes back, also in the middle of the loops
of splits and merges. The invariant: free lists hold addresses in order,
consistently with `num_free`; what is lent and what a call holds is well formed;
and the blocks tile the zones (each in its zone, no two overlapping, no page
uncovered). A step takes some blocks away and puts others over the same pages,
which keeps any tiling (`Replaced`); a split, a merge, a change of hands are
cases of it. `PowersOfTwo` is the arithmetic of block sizes, which the provers
lack; it is an ASSUME that TLC evaluates.

`StatesMatch`, `RunnerIsRunnable`, `CountsAreExact`, `NothingDangles`,
`WakeupsArrive`, `WaitersFindZombies`, `SleepersSleepOut` (`SchedulerProofs`):
every safety property of `SchedBlocking` and `SchedRunFlag`, for any finite set of
threads, any arguments of sleep, and any programs that satisfy `SoundPrograms`: idle
makes no call, init does not vanish (as `410user/progs/idle.c` and `init.c`),
task_vanish is not aimed at either (they have no parent to become a zombie of), and
task_vanish and cas2i_runflag are called only where no thread sleeps or waits. The
last is a restriction of what is claimed, and a necessary one: on a sleeping thread
either call breaks the queues ([below](#where-code-and-documentation-differ)), so the
properties are false with them. The argument has two layers.

* The first forgets the order on the queues. `Is(m, q, s, d, c, p, a, mp)`
  says that memory m has the well-formed queues q (as sets), the states s,
  deadlines d, counts c, parents p, allocated threads a and map mp; a lemma for each
  C function says what it does to these eight values. The loops
  (`sched_wakeup_threads`, step 2 of `sched_yield`, the cascade of frees in
  `thread_put`) are inductions on numbers over the walk of a queue.
* The second is the inductive invariant `IInv`: there are such values with
  `Placed` (queues hold allocated threads, the done queue is empty, only its owner
  is on a self_wait_list), `Agrees` (state, queue and map), `Family` (children and
  parents), `Counted` (counts are references), `Waits` (who is inside thread_wait
  has a living child or a zombie), and the running thread is mapped and runnable.
  None of them is inductive alone. A count that is too small frees a thread that is
  on a queue; a thread that waits without a child is woken by nobody, and one that
  is woken without a zombie leaves with its own reference; a zombie that its
  children still count on must not be freed when its parent vanishes. There is one lemma
  per action (`ForkSound` ... `ResumeSound`), and each also says that no sleeper
  was woken early. Where threads control one another, the first part of `Waits`
  leaves nobody asleep (`NobodyWaits`): the victim of task_vanish or the target of
  cas2i_runflag is on the run queue or suspended on none.

`CopyIsWhole` (`ServicesProofs`): for any fields and any number of updates, the
copy the timer's handler ends with is one update, not older than its call. The
invariant ties the hypervisor's fields to the parity of its version
(`SourceInv`), and says that as long as the version the handler has loaded is
still the page's and even, what it has loaded is of that update (`CopyInv`).

`LinesAreWhatIsTyped` (`ConsoleIOProofs`): the console implements `LineInput`, for
rings and buffers of every size, indices that wrap at any multiple of twice the
size, and lines of every length. `Contents(r, p, c, M, S)` is the sequence that a
ring of S places holds between two indices modulo M. To store at one index and
step it on appends to the sequence, unless it is full; to step the other takes
the head (`ContentsPut`, `ContentsTake`): the arithmetic is that S divides M, so
an index that wraps leaves its place where it was (`Around`), and that places less
than S apart differ (`Apart`). The loop of `handle_input` is an induction on the
number of characters: after n of them the keyboard's buffer holds the first of
what it held and what has arrived, as far as there is room (`KeybOK`). With that a
step of the code is a step of `LineInput` on sequences. `IInv` adds to the types
what the thread knows between its steps: the character it has taken is still the
first of the buffer, whatever the interrupt adds (`TakesFirst`); the carriage return
follows a new line, and a character that is skipped is not stored (`StoresOnly`);
a line that is read is not full and has no new line (`ReadsOn`).

`FramesUsedOnce`, `TablesAreReadOnly`, `OwnDirectory` (`AddressSpacesProofs`): the
safety invariants of `AddressSpaces`, for any tasks, any finite set of frames, any
size of pages, tables and of the queue of updates, any areas and any executable; the
third where a fork can always make the kernel stack (`~OutOfStacks`), which
is necessary ([below](#where-code-and-documentation-differ)). The invariant `Good`
describes memory in the middle of a handler, between any two of its calls:

* `EntriesOK`: a frame holds what its role says, what waits in the queue are entries
  of tables, and a frame that an entry names *or will name when the queue is
  flushed* (`Points`) is data and named at one place. That no page is in two places is
  not inductive by itself, because `vmm_map_page` compares with the table as it is,
  not with what waits. A page that is unmapped is freed only after a flush
  (`UnmapDoes`), and one that is given new rights keeps its place (`MapIs`).
* `TablesOK`: a directory is that of one task, a table is in one place of one
  directory and every table is in one, and the frames that are read-only to the
  kernel are these. A table is made read-only before the directory points to it, and
  writable after it is taken out, as the hypervisor wants it (`NewTableIs`,
  `FreeTableIs`).

A flush is an induction on the number of updates (`ApplyPrefix`); it may happen inside
any `vmm_queue_mmu_update`, when the queue is full. `Does(x, y, T)` says that what leads
from memory x to y leaves directories, states and high memory alone and keeps `Good`, if the
machine does not stop and the tasks T have directories. Every call below a handler does
(`UnmapDoes` ... `TaskCopyDoes`), whether it fails or not, so a loop of such calls
does (`DoesLoop`), and a handler is a chain of them that ends in a switch or a
return. Only `vmm_create_pgdir` and `vmm_free_pgdir` change who has a directory
(`CreateDirectoryIs`, `FreeDirectoryIs`). The latter stops the machine if the directory
is in use; a fork whose copy fails comes to that. `Inv`, the invariant of the
specification, adds to `Good` that the tasks with a directory are those that are live,
zombies or lost, that the directory in use is one of theirs, and, for the third theorem,
whose it is. There is one lemma per action (`ForkStep` ... `ReapStep`).

`OneThreadInKernel`, `StackIsOwn`, `TrapsFindFree`, `OnlyFaultsReenter`,
`OnlyTopHalfMasked`, `LockIsHandedOver` (`KernelLockProofs`): for any set of threads,
any `MaxDepth` and with or without supervisor faults, but for `OnlyFaultsReenter`: without
them (`~Faults`) the kernel is non-reentrant. The inductive invariant is
`TypeOK /\ LockInv /\ FaultInv /\ OwnKernelStack /\ BootFrame`. `LockInv` says of the
activations other than faults what a lock should: it is taken exactly while the
running thread has one that holds it, no thread has two, and a thread that is switched
out has its one on top. This is not inductive alone: a trap pushes on the stack named
by `esp0`, so it must be known that this is the running thread's (`OwnKernelStack`);
and a bottom half that finds no `current_thread` takes the lock and leaves, which is
harmless only because the boot code's activation still holds it then (`BootFrame`).
Since `lock_kernel` waits for nothing, that a trap finds the lock free is a consequence
of the invariant and not of a guard: a trap is the first activation on its stack, so
that none below it holds the lock.
`FaultInv` keeps faults apart: only the running thread has any, and on its stack
(`WellStacked`) the one that holds the lock lies below the fault, and above it there
are only ticks, which find the lock taken and leave; so whoever has faulted
never yields or unlocks again. `OneInKernel` follows. Masking needs in addition that the top
half is always the last activation of the running thread (`TopHalfOnTop`).

`NothingStranded`, `EveryMarkTaken` (`XenEventsProofs`): for any threads, ports,
word size and `MaxDepth`. `NoEventStranded` is inductive with the types: whoever
takes a mark owes a look at the word (`Owed`), and the only step that drops an
owed word is the death of a thread, which the history `lost` records.
`MarksAreTaken` needs `EntryOnTop` as well: while events are off the running
thread is in the callback, and an activation between its acknowledgement and its
exchange is on the top of that thread, so no switch, no nested callback and no
kill comes between the two. Lemmas about the stack (`TopChanges`, `PushKeeps`,
`PopKeeps`) say once what each change keeps; there is one lemma per action.

The proofs assume the named ASSUMEs of the modules: NULL is no element and no
thread; the elements of queues and the threads are finitely many (memory is);
there is a thread, idle and init are different ones; the constants have their
types; zones are disjoint, of 2 to 2^20 pages, in a 32-bit address space; the
arithmetic of powers of two up to 2^20; frames are finitely many numbers other than
NULL, and areas are not empty and have their pages where directories have entries for
programs. TLC evaluates them in the runs. The only theorems with a hypothesis of their
own are those of `SchedulerProofs`, `OwnDirectory` and `OnlyFaultsReenter`.

Only model-checked:

* liveness: fairness and ENABLED are beyond the prover;
* the refinement of `TaskMemory`, `ForkCopies` and `OnlyForkLosesFrames`: they need,
  beyond `Good`, what every call leaves in every cell, or that it loses no frame, which
  is another lemma for each of the calls;
* `TaskRefs`: putting a reference may put another, a recursion through three kinds
  of object, written with recursive operators;
* the heaps, the loader, the arguments and the number formats: they use recursive
  operators or are checked over an enumeration of inputs.

## Where code and documentation differ

Found by a run:

* `SchedKillSleepers`: `sched_remove_waiting_thread` (`kern/sched.c:374`) removes
  a sleeper by `runnable_link` from a queue linked by `wait_link`. Killing the
  first sleeper empties the queue; the others never wake.
* `ForkCopies`: `kern/vm_area.c:1195` says a copied area has everything from its
  source. `vm_area_init_copy` (line 1104) copies the file but not the offset, so
  a page of data that the parent has not touched yet reads, in the child, from the
  start of the file.

Seen while modelling, each the reason for a precondition or a weaker property:

* Scheduler. A sleeping thread whose run flag is set by cas2i_runflag is put on
  the run queue and stays on the sleep queue, although `kern/process.c:335` says a
  thread is runnable or suspended. `README.dox:149` has the timer scan the
  sleepers before the run queue changes; the code does it after the switch.
  yield(tid) passes over the run queue, so two threads that name each other
  keep a third waiting.
* Lock. `README.dox:172` calls the kernel non-reentrant, by a lock that ensures
  "there is only one thread executing in kernel mode". `mutex_spinlock` sets EAX to 1
  once, before its loop (`kern/lock.S:24`); a `cmpxchg` that fails leaves the locked
  value 0 in EAX, the next compares 0 with 0 and takes the lock. A page fault of the
  kernel therefore enters it a second time while the lock is held, and `NonReentrant`
  is false after two steps more than it takes to enter the kernel. The handler panics
  (`kern/kernel_exceptions.c:235`) before it changes any kernel structure, and by
  `OnlyFaultsReenter` there is no other way to meet a taken lock, so that nothing worse
  comes of it. `README.dox:176` says the bottom half runs only when invoked from user
  mode; it also runs inside a trap before the lock is taken and after it is
  released, which `OwnKernelStack` and `OneInKernel` show to be harmless.
  `410kern/boot/head.S:75` wants no stacked callbacks; `timer_handler` unmasks
  events before its bottom half.
* Events. `xen_get_cr2` clears the upcall mark (`kern/kernel_exceptions.c:196`):
  a mark set just before is lost, and with it, until some other event, every
  further announcement for that word (`MarksAreTaken` says that nothing else
  does that).
* Console. `do_event` clears the port after its handler (`kern/xen_events.c:95`).
  If the daemon fills the ring in between, it waits for a notification and the
  kernel for an event, for good (`InputDead`). `xencons_ring_send` may take fewer
  bytes than it was given, and nobody looks. The character 0xff is taken for "no
  key" and dropped.
* Fork. When high memory is used up, `thread_copy` fails after the child's
  directory is in use (`kern/vmm.c:106`), and the parent returns to its
  program on it (`kern/process.c:52`): with `OutOfStacks = TRUE`,
  `RunsOnOwnDirectory` is false. A copy that runs out of frames maps what is not
  there (`kern/vm_area.c:240`), or frees the directory in use, which stops
  the machine. Areas that share a page are copied twice and a frame is lost, with every
  fork of a program whose data and bss share one.
* Stacks. `kern/vm_area.c:412` says they are released with
  `vmm_ppfs_highmem_free`; line 1271 uses `vmm_ppfs_free`, so high memory drains
  with every thread that ends.
* Tasks. When the directory of a new task cannot be made, `task_reap` puts the last
  reference and so frees the task, and `task_free` frees it again
  (`kern/task.c:250-253`): the double free that `README.dox:183` suspects behind
  fork_bomb's failure. With "directory" in `ForkFailure`, `FreedOnce` is false after
  one fork. One that fails in the copy is undone in the same way
  (`kern/task.c:274`), but by then the child's directory is in use: the hypervisor
  refuses to free it, and an assertion stops the machine first
  (`kern/vmm_page.c:71-78`). A task that is reaped before its children puts them but
  leaves them its pointer, and each puts itself and it again (`kern/task.c:372`), which
  breaks `CountsExact`. An area that cannot be made keeps its reference to the task
  (`kern/vm_area.c:1229`).
* mm. remove_pages takes the start of any area, the stack's and the program's too.
* Loader. The place of bss is computed as the end of data (`kern/vmm.c:576`): with
  a gap its last bytes are not mapped, and without data it is at address 0. The
  ELF header is never verified, though `410kern/elf/load_helper.c:28` assumes it
  was.
* exec. That all arguments fit in a page (`kern/process.c:114`) is tested nowhere.
* Heaps. `sfree` calls `_free`, which reads a size that `smalloc` does not write
  (`kern/malloc_wrappers.c:83`). `mm_realloc` copies the old block's size, tags
  included; sizes near the largest integer overflow in both heaps.
* Zone. `vmm_buddy_free_pages` merges any neighbours of one order, so that the
  largest block may not be restored when all is freed.
* strtol does not accept a plus sign, which printf writes on demand.

## Not modelled

* Boot, trap table, hypercall stubs: straight-line code; its result is the `Init`
  of the modules.
* Copy on write (`vm_area_copy_on_write` and its page-write function): no area is
  given them. The other exceptions: they end the task like a bad page fault.
* gettid, set_status, get_ticks, colours and the cursor: one field each.
* Hash maps: buckets of the modelled queues.
* `kern/console.c`, `kern/timer.c`, the keyboard's interrupt wrapper and scan
  codes: not used under Xen, where the console sends characters.
  `monotonic_clock` and `block` have no callers.
* String functions, qsort, random numbers, doscan: pure functions of libraries.
* `libthrgrp` needs mutexes and condition variables of a thread library of which
  the repository has only a stub. User programs are tests.
* `kern/inc/xen`, `elf_common.h` and other headers: about a third of the
  repository's lines, declarations of interfaces.
* Of what is modelled: exit status and registers, logging, the wrap of 32-bit
  integers other than ring indices, sys_print's splitting of a buffer.

## Plan

Done: queues, scheduler and threads, kernel lock, events, page allocator, page
tables and address spaces, reference counts, console, and the services; proofs of
the queues, the scheduler, the kernel lock, the events, the time page, the page
allocator, the console, and the frames and tables of address spaces.

Left, in this order:

1. Proofs: that no step but a fork loses a frame (`OnlyForkLosesFrames`), by a second
   relation beside `Does`; the refinement of `TaskMemory`; `TaskRefs` without recursive
   operators, as a worklist of references to put, and its counts.
2. Composition of `Scheduler` with `ConsoleIO`: readline's polling under the
   scheduler's own fairness.
3. Copy on write, if the code comes to use it.
