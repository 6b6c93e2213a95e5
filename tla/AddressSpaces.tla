--------------------------- MODULE AddressSpaces ---------------------------
(***************************************************************************)
(* The address spaces of tasks: VM areas (kern/vm_area.c), how fork, exec  *)
(* and exit make and unmake them (vmm.c, task.c), the page fault handler   *)
(* (kernel_exceptions.c), new_pages and remove_pages (mm.c).               *)
(*                                                                         *)
(* A handler runs without a switch of threads up to its last sched_yield:  *)
(* it is one step, an operator on the memory of module PageTables.  What   *)
(* the reference counts decide in the code is a task's state here.         *)
(***************************************************************************)
EXTENDS PageTables

CONSTANTS Task, idle, init,
          Sections,    \* the areas of the executable, in the order of task_load
          UserStack,   \* the area of vmm_user_stack_init
          NewAreas,    \* the areas programs ask new_pages for
          Writable, Value, Zero, \* the cells programs write, and the values
          FileByte(_), \* the executable
          OutOfStacks  \* a fork may find no memory for the kernel stack

VARIABLES m,    \* the kernel's memory
          cur   \* the task that runs

vars == <<m, cur>>

PagesOf(v) == PageOf(v.start)..PageOf(v.start + v.size - 1)
Addresses(v) == v.start..(v.start + v.size - 1)
Covers(v, page) == page \in PagesOf(v)

\* The pages a directory has entries for, and the areas made of them.
UserPage(page) == page \in Nat /\ PdeOf(page) \in Table
UserArea ==
  {v \in [start : Nat, size : Nat \ {0}, wr : BOOLEAN, type : {"file", "zero"},
          off : Nat, stack : BOOLEAN] : \A page \in PagesOf(v) : UserPage(page)}

ASSUME AddressSpacesAssumption ==
  /\ {idle, init} \subseteq Task /\ idle # init /\ OutOfStacks \in BOOLEAN
  /\ NewAreas \cup {UserStack} \subseteq UserArea /\ Sections \in Seq(UserArea)
  /\ \A a \in Writable : a \in Nat /\ UserPage(PageOf(a))

Live == {t \in Task : m.state[t] = "live"}
Unused == {t \in Task : m.state[t] = "none"}

PagesInTurn(v) == Ascending(PageOf(v.start), PageOf(v.start + v.size - 1))

\* A loop over the pages of an area that ends with the first that fails.
EachPage(Op(_, _), x, v) ==
  Each(LAMBDA y, page : AndThen(y, LAMBDA z : Op(z, page)), Ok(x), PagesInTurn(v))

-----------------------------------------------------------------------------
(* VM areas *)

UnmapPage(y, t, page) ==
  LET frame == vmm_get_mapping(y, y.pgdir[t], page).frame
  IN  IF frame = NULL THEN y
      ELSE vmm_ppf_free(vmm_flush_mmu_update_queue(
             vmm_map_page(y, y.pgdir[t], page, NULL, FALSE)), frame)

vm_area_unmap(x, t, v) == EachPage(LAMBDA y, page : UnmapPage(y, t, page), x, v)

\* vm_area_create_null makes the tables for the area, its pages absent.
MapNothing(y, t, page) == vmm_map_page(y, y.pgdir[t], page, NULL, FALSE)

MapNothings(x, t, v) == EachPage(LAMBDA y, page : MapNothing(y, t, page), x, v)

vm_area_create_null(x, t, v) == AndThen(MapNothings(x, t, v), vmm_flush_mmu_update_queue)

\* Mutant of vm_area_copy: the child gets the parent's frames.
ShareFrames(x, t, src, v) ==
  LET SharePage(y, page) == LET pte == vmm_get_mapping(y, y.pgdir[src], page)
                            IN  vmm_map_page(y, y.pgdir[t], page, pte.frame, pte.wr)
  IN  AndThen(EachPage(SharePage, x, v), vmm_flush_mmu_update_queue)

\* vm_area_copy gives task t a copy of each page present in task src.  It
\* does not look whether vmm_ppf_alloc returned NULL: the page is absent in t
\* then, whose memory is spoiled.
CopyPage(y, t, src, page) ==
  LET pte == vmm_get_mapping(y, y.pgdir[src], page)
      dst == IF Full(y) THEN NULL ELSE NextFrame(y)
      copied == IF Full(y) THEN [y EXCEPT !.spoiled = @ \cup {t}]
                ELSE vmm_ppf_alloc(y, "data", y.ram[pte.frame].word)
  IN  IF pte.frame = NULL THEN MapNothing(y, t, page)
      ELSE vmm_map_page(copied, y.pgdir[t], page, dst, pte.wr)

CopyPages(x, t, src, v) == EachPage(LAMBDA y, page : CopyPage(y, t, src, page), x, v)

vm_area_copy(x, t, src, v) == AndThen(CopyPages(x, t, src, v), vmm_flush_mmu_update_queue)

\* vm_area_add keeps the list in the order of the addresses.
vm_area_add(list, v) ==
  InsertAt(list, Min({i \in DOMAIN list : list[i].start > v.start} \cup {Len(list) + 1}), v)

\* vm_area_alloc, and the vm_area_init_... of its type on n.  A failure
\* leaves the reference vm_area_init took: the task will never be freed.
Alloc(n, t, v) ==
  IF Failed(n) THEN Fail([vm_area_unmap(n, t, v) EXCEPT !.stuck = @ \cup {t}])
  ELSE [n EXCEPT !.vmas[t] = vm_area_add(@, v)]

vm_area_alloc(x, t, v) == Alloc(vm_area_create_null(x, t, v), t, v)

\* VMA_TYPE_COPY: the offset in the file is not among what vm_area_init_copy
\* takes over, and vm_area_init has set it to zero.
vm_area_init_copy(x, t, src, v) == Alloc(vm_area_copy(x, t, src, v), t, [v EXCEPT !.off = 0])

vm_area_remove(x, t, v) ==
  vm_area_unmap([x EXCEPT !.vmas[t] = RemoveFirst(@, v)], t, v)

RemoveUnlessStack(x, t, v) == IF v.stack THEN x ELSE vm_area_remove(x, t, v)

vm_area_remove_all(x, t) == Each(LAMBDA y, v : vm_area_remove(y, t, v), x, x.vmas[t])
vm_area_remove_taskvm(x, t) == Each(LAMBDA y, v : RemoveUnlessStack(y, t, v), x, x.vmas[t])

\* vm_area_init_kernel_stack, and vm_area_free_resources for a kernel stack:
\* the wrong zone gets it, as a block too small for vmm_ppf_alloc.
vmm_kernel_stack_init(x, t) ==
  IF x.high = {} THEN Fail([x EXCEPT !.stuck = @ \cup {t}])
  ELSE Ok([x EXCEPT !.kstack[t] = Min(x.high), !.high = @ \ {Min(@)}])
FreeKernelStack(x, t) ==
  [x EXCEPT !.kstack[t] = NULL, !.misplaced = @ \cup ({x.kstack[t]} \ {NULL})]

-----------------------------------------------------------------------------
(* Page faults *)

\* A frame nobody has written to.
JunkPage == [c \in 0..(CellsPerPage - 1) |-> Junk]

\* Mutant of vm_area_create: a frame for a page that has one.
CreateAfresh(x, t, v, page) ==
  IF Full(x) THEN Fail(x)
  ELSE Ok(vmm_flush_mmu_update_queue(
         vmm_map_page(vmm_ppf_alloc(x, "data", JunkPage),
                      x.pgdir[t], page, NextFrame(x), v.wr)))

\* vm_area_create for one page: a frame if it has none, and the area's rights.
vm_area_create(x, t, v, page) ==
  LET old == vmm_get_mapping(x, x.pgdir[t], page).frame
      frame == IF old = NULL THEN NextFrame(x) ELSE old
      n == IF old # NULL THEN x
           ELSE vmm_ppf_alloc(x, "data", JunkPage)
  IN  IF old = NULL /\ Full(x) THEN Fail(x)
      ELSE Ok(vmm_flush_mmu_update_queue(vmm_map_page(n, x.pgdir[t], page, frame, v.wr)))

\* Fill the cells of v on the page, in the frame that is mapped there.
Fill(x, t, v, page, content) ==
  LET frame == vmm_get_mapping(x, x.pgdir[t], page).frame
      cells == {Cell(a) : a \in {b \in Addresses(v) : PageOf(b) = page}}
  IN  IF frame = NULL THEN x
      ELSE [x EXCEPT !.ram[frame].word =
              [c \in cells |-> content[page * CellsPerPage + c]] @@ @]

ZeroContent(v) == [a \in Addresses(v) |-> Zero]
FileContent(v) == [a \in Addresses(v) |-> FileByte(v.off + a - v.start)]

vma_nopage_zeropage(x, t, v, page) ==
  AndThen(vm_area_create(x, t, v, page), LAMBDA n : Fill(n, t, v, page, ZeroContent(v)))

\* vma_nopage_file with vm_area_load: from the file, at the area's offset.
vma_nopage_file(x, t, v, page) ==
  AndThen(vm_area_create(x, t, v, page), LAMBDA n : Fill(n, t, v, page, FileContent(v)))

nopage(x, t, v, page) ==
  IF v.type = "file" THEN vma_nopage_file(x, t, v, page) ELSE vma_nopage_zeropage(x, t, v, page)

\* vma_pagewrite_write with vm_area_setflags; vma_pagewrite_default.
pagewrite(x, t, v, page) ==
  IF ~v.wr THEN Fail(x)
  ELSE vmm_flush_mmu_update_queue(
         vmm_map_page(x, x.pgdir[t], page, vmm_get_mapping(x, x.pgdir[t], page).frame, TRUE))

\* The handler's loop visits the areas from find_vm_area's on, while they
\* cover the page: all that do, in order.  None: nothing is handled.
Visited(x, t, page) == {v \in Range(x.vmas[t]) : Covers(v, page)}

Visit(y, t, v, page, present) ==
  IF ~Covers(v, page) THEN y
  ELSE IF present THEN pagewrite(y, t, v, page) ELSE nopage(y, t, v, page)

HandleFault(x, t, page, present) ==
  IF Visited(x, t, page) = {} THEN Fail(x)
  ELSE Each(LAMBDA y, v : AndThen(y, LAMBDA z : Visit(z, t, v, page, present)), Ok(x), x.vmas[t])

-----------------------------------------------------------------------------
(* Tasks *)

\* The loops over areas s, up to the first that fails.
AllocAreas(x, t, s) ==
  Each(LAMBDA y, v : AndThen(y, LAMBDA z : vm_area_alloc(z, t, v)), Ok(x), s)

CopyAreas(x, t, src, s) ==
  Each(LAMBDA y, v : AndThen(y, LAMBDA z : vm_area_init_copy(z, t, src, v)), Ok(x), s)

\* malloc has given a vm_area_t to k of the areas s, and then NULL: before
\* vm_area_init, which changes nothing.
StructsFor(n, k, s) == IF k < Len(s) THEN Fail(n) ELSE n

task_load(x, t, k) == StructsFor(AllocAreas(x, t, SubSeq(Sections, 1, k)), k, Sections)

\* vmm_thread_create.
vmm_thread_create(x, t) ==
  AndThen(vm_area_alloc(x, t, UserStack), LAMBDA n : vmm_kernel_stack_init(n, t))

vmm_task_copy(x, t, src, k) ==
  StructsFor(CopyAreas(x, t, src, SubSeq(x.vmas[src], 1, k)), k, x.vmas[src])

\* A failed assertion stops the machine.
Settled(x) == IF x.panicked THEN [m EXCEPT !.panicked = TRUE] ELSE x

\* Mutant of SwitchTo: the directory stays.
SwitchStackOnly(x, t) == m' = x /\ cur' = t

\* sched_yield ends in context_switch, for the task of any thread.
SwitchTo(x, t) == /\ m' = Settled(vmm_set_user_pgdir(x, x.pgdir[t]))
                  /\ cur' = t

Yield(x) == \E t \in {u \in Task : x.state[u] = "live"} : SwitchTo(x, t)

\* task_vanish: what is left of the task is its stack and its directory.
task_vanish(t) ==
  Yield([vm_area_remove_all(m, t) EXCEPT !.state[t] = "zombie"])

\* The kernel is at the start of a handler, on behalf of task t.
Enter(t) == ~m.panicked /\ cur = t /\ t # idle

Switch == ~m.panicked /\ Yield(m)

\* task_create and task_copy make the child's directory the one in use.  A
\* fork that fails after that frees it, or goes on with it.
ThreadCopied(n, c) ==
  IF Failed(n) THEN m' = Settled(Ok([n EXCEPT !.state[c] = "lost"])) /\ UNCHANGED cur
  ELSE Yield([n EXCEPT !.state[c] = "live"])

\* The fork's kernel stack, or malloc has no vm_area_t for it.
Stacked(n, c) == {vmm_kernel_stack_init(n, c)} \cup (IF OutOfStacks THEN {Fail(n)} ELSE {})

TaskCopied(n, c) ==
  IF Failed(n) THEN m' = Settled(vmm_free_pgdir(vm_area_remove_all(n, c), c)) /\ UNCHANGED cur
  ELSE \E y \in Stacked(n, c) : ThreadCopied(y, c)

TaskCreated(n, t, c) ==
  IF Failed(n) THEN m' = Ok(n) /\ UNCHANGED cur
  ELSE LET b == vmm_set_user_pgdir(
                  [n EXCEPT !.spoiled = IF t \in @ THEN @ \cup {c} ELSE @], n.pgdir[c])
       IN  \E k \in 0..Len(b.vmas[t]) : TaskCopied(vmm_task_copy(b, c, t, k), c)

sys_fork(t, c) ==
  /\ Enter(t) /\ c \in Unused
  /\ (m.high = {} => OutOfStacks)
  /\ TaskCreated(vmm_create_pgdir(m, c), t, c)

\* A program that calls exec has its stack in memory: vmm_copy_argvec writes
\* there from the kernel, where a fault is fatal.
StackPresent(t) == vmm_get_mapping(m, m.pgdir[t], PageOf(UserStack.start)).frame # NULL

\* task_reload: the stack is zeroed, the areas go, the executable's come.
Reloaded(n, t) ==
  IF Failed(n) THEN Yield([Ok(vm_area_remove_all(n, t)) EXCEPT !.state[t] = "zombie"])
  ELSE SwitchTo(n, t)

ZeroStackPage(x, t, page) == Fill(x, t, UserStack, page, ZeroContent(UserStack))
ZeroStack(x, t) == EachPage(LAMBDA y, page : ZeroStackPage(y, t, page), x, UserStack)

sys_exec(t) ==
  /\ Enter(t) /\ StackPresent(t)
  /\ \E k \in 0..Len(Sections) :
       Reloaded(task_load(vm_area_remove_taskvm(ZeroStack(m, t), t), t, k), t)

\* task_init is never left: init does not vanish.
sys_vanish(t) == Enter(t) /\ t # init /\ task_vanish(t)

\* thread_wait: the last reference to the zombie's thread, and with it to its
\* kernel stack and, but for references that leaked, to its task.
Reap(t, z) ==
  /\ Enter(t) /\ m.state[z] = "zombie"
  /\ LET n == FreeKernelStack(m, z)
     IN  m' = IF z \in m.stuck THEN [n EXCEPT !.state[z] = "lost"]
              ELSE Settled([vmm_free_pgdir(n, z) EXCEPT !.state[z] = "none", !.spoiled = @ \ {z}])
  /\ UNCHANGED cur

-----------------------------------------------------------------------------
(* Memory *)

\* Mutant of find_vm_area_overlap: only an area the new one starts in.
OverlapBelow(t, v) ==
  \E i \in DOMAIN m.vmas[t] :
     LET w == m.vmas[t][i] IN v.start > w.start /\ v.start < w.start + w.size

\* find_vm_area_overlap, for an area that starts and ends with a page.
find_vm_area_overlap(t, v) ==
  \E i \in DOMAIN m.vmas[t] : LET w == m.vmas[t][i]
                                first == w.start
                                last == w.start + w.size - 1
                            IN  \/ v.start \in {first, last}
                                \/ v.start < first /\ v.start + v.size - 1 >= first
                                \/ v.start > first /\ v.start < last

\* Without a vm_area_t from malloc nothing happens.
sys_new_pages(t, v) ==
  /\ Enter(t) /\ ~find_vm_area_overlap(t, v)
  /\ m' = Settled(Ok(AndThen(vm_area_alloc(m, t, v), LAMBDA n : vmm_set_user_pgdir(n, n.pgdir[t]))))
  /\ UNCHANGED cur

\* The code takes the start of any area; programs name one of new_pages.
sys_remove_pages(t, v) ==
  /\ Enter(t) /\ v \in NewAreas \cap Range(m.vmas[t])
  /\ m' = Settled(vmm_set_user_pgdir(vm_area_remove(m, t, v), m.pgdir[t]))
  /\ UNCHANGED cur

\* The entry the processor finds for page: in the directory in use.
Entry(page) == vmm_get_mapping(m, m.cr3, page)

Store(t, a, x) ==
  /\ Enter(t) /\ Entry(PageOf(a)).wr
  /\ m' = [m EXCEPT !.ram[Entry(PageOf(a)).frame].word[Cell(a)] = x]
  /\ UNCHANGED cur

\* pgf_exception_handler for an access, a write or not, that page has no
\* entry or no permission for.
Handled(n, t) ==
  IF Failed(n) THEN t # init /\ Yield([Ok(vm_area_remove_all(n, t)) EXCEPT !.state[t] = "zombie"])
  ELSE SwitchTo(n, t)

pgf_exception_handler(t, page, write) ==
  LET present == Entry(page).frame # NULL
  IN  /\ Enter(t) /\ (present => write /\ ~Entry(page).wr)
      /\ Handled(HandleFault(m, t, page, present), t)

-----------------------------------------------------------------------------
NoMemory ==
  [rc |-> 0, panicked |-> FALSE, strayed |-> FALSE, queue |-> <<>>, cr3 |-> NULL,
   ram |-> [f \in LowFrame |-> FreeFrame],
   high |-> HighFrame, misplaced |-> {}, readonly |-> {},
   pgdir |-> [t \in Task |-> NULL], kstack |-> [t \in Task |-> NULL],
   vmas |-> [t \in Task |-> <<>>], state |-> [t \in Task |-> "none"],
   stuck |-> {}, spoiled |-> {}]

\* Boot: the idle task, whose memory nobody looks at, and init with its
\* executable, its stack and its kernel stack.
Started ==
  LET idling == AndThen(vmm_create_pgdir(NoMemory, idle), LAMBDA n : vmm_kernel_stack_init(n, idle))
      made   == AndThen(idling, LAMBDA n : vmm_create_pgdir(n, init))
      loaded == AndThen(made, LAMBDA n : task_load(n, init, Len(Sections)))
  IN  AndThen(loaded, LAMBDA n : vmm_thread_create(n, init))

Booted ==
  vmm_set_user_pgdir([Started EXCEPT !.state[idle] = "live", !.state[init] = "live"],
                     Started.pgdir[init])

\* A machine with too little memory for that does not come up.
Init == m = Booted /\ ~Failed(m) /\ ~m.panicked /\ cur = init

Pages == UNION {PagesOf(v) : v \in NewAreas \cup Range(Sections) \cup {UserStack}}

Next ==
  \/ Switch
  \/ \E t \in Live :
       \/ \E c \in Task : sys_fork(t, c)
       \/ sys_exec(t) \/ sys_vanish(t)
       \/ \E z \in Task : Reap(t, z)
       \/ \E v \in NewAreas : sys_new_pages(t, v)
       \/ \E v \in NewAreas : sys_remove_pages(t, v)
       \/ \E a \in Writable, x \in Value : Store(t, a, x)
       \/ \E page \in Pages, write \in BOOLEAN : pgf_exception_handler(t, page, write)

Spec == Init /\ [][Next]_vars

-----------------------------------------------------------------------------
\* The frames in use, and what for: <<frame, use, ...>>.
Directories == {t \in Task : m.pgdir[t] # NULL}
TableUses == {<<m.pgdir[t], "directory", t>> : t \in Directories}
             \cup {u \in {<<m.ram[m.pgdir[d[1]]].word[d[2]], "table", d>> : d \in Directories \X Table} :
                     u[1] # NULL}
PageUses == {u \in {<<vmm_get_mapping(m, m.pgdir[d[1]], d[2]).frame, "page", d>> :
                      d \in Directories \X Pages} : u[1] # NULL}
Uses == {<<f, "free">> : f \in Free(m)} \cup TableUses \cup PageUses

(* Whatever programs do and however far memory runs out, no frame is used  *)
(* for two things: free while mapped (vm_area_unmap, vm_area_copy), in two *)
(* tasks, a table and a page (vmm_map_page, vmm_free_pgdir).               *)
NoFrameTwice == Cardinality({u[1] : u \in Uses}) = Cardinality(Uses)

(* The pages that are tables or directories are the ones the kernel cannot *)
(* write, as the hypervisor wants it (the comments in vmm_map_page and     *)
(* vmm_create_pgdir): no table is writable and no freed frame, which will  *)
(* be data, is left read-only.                                             *)
ReadOnlyTables == ~m.panicked => m.readonly = {u[1] : u \in TableUses}

(* The directory in use is that of the task that runs (context_switch,     *)
(* sys_fork, pgf_exception_handler), or the task works on another's        *)
(* memory.                                                                 *)
RunsOnOwnDirectory == ~m.panicked => m.cr3 = m.pgdir[cur]

Lost == LowFrame \ {u[1] : u \in Uses}

(* No step but the fork of a new task loses a frame: faults, exec,         *)
(* new_pages, remove_pages, a fork that fails and the end of a task leave  *)
(* each frame free or in use (vm_area_unmap, vmm_free_pgdir), until the    *)
(* machine stops.                                                          *)
OnlyForkLosesFrames ==
  [][Lost' \subseteq Lost \/ m'.panicked \/ \E c \in Unused : m'.state[c] # "none"]_vars

-----------------------------------------------------------------------------
\* What task t reads at an address of area v, or would once it is loaded.
Sees(t, v, a) ==
  LET frame == vmm_get_mapping(m, m.pgdir[t], PageOf(a)).frame
  IN  IF frame # NULL THEN m.ram[frame].word[Cell(a)]
      ELSE IF v.type = "file" THEN FileContent(v)[a] ELSE Zero

Areas(t) == IF m.state[t] = "live" /\ t \notin m.spoiled THEN Range(m.vmas[t]) ELSE {}
AreaOf(t, a) == CHOOSE v \in Areas(t) : a \in Addresses(v)

MemoryOf(t) == [a \in UNION {Addresses(v) : v \in Areas(t)} |-> Sees(t, AreaOf(t, a), a)]
LazyOf(t) == {a \in UNION {Addresses(v) : v \in {w \in Areas(t) : w.type = "file"}} :
                vmm_get_mapping(m, m.pgdir[t], PageOf(a)).frame = NULL}

(* Tasks have memory of their own that stores, faults, fork, exec and      *)
(* vanish of other tasks do not change, and their own do as TaskMemory     *)
(* says, until a copy runs out of frames (vm_area_copy).                   *)
TaskMem == INSTANCE TaskMemory WITH
  mem <- [t \in Task |-> MemoryOf(t)],
  lazy <- [t \in Task |-> LazyOf(t)],
  Image <- [a \in UNION {Addresses(v) : v \in Range(Sections)} |->
              LET v == CHOOSE w \in Range(Sections) : a \in Addresses(w)
              IN  IF v.type = "file" THEN FileContent(v)[a] ELSE Zero],
  Stack <- Addresses(UserStack),
  Area <- {Addresses(v) : v \in NewAreas}

ImplementsTaskMemory == TaskMem!Spec

(* vm_area.c: the copy of an area is made "copying everything from the     *)
(* src": a child reads what its parent does when fork returns.             *)
ForkCopies ==
  [][\A c \in Live' \ Live : c \notin m.spoiled' => MemoryOf(c)' = MemoryOf(cur)]_vars
=============================================================================
