----------------------------- MODULE PageTables -----------------------------
(***************************************************************************)
(* Page directories, page tables and the queue of updates that a           *)
(* paravirtual kernel hands to the hypervisor (kern/vmm_page.c).           *)
(*                                                                         *)
(* The functions of the C code are operators on the kernel's memory m, a   *)
(* record; m.rc is what the last of them returned.  A frame is a number,   *)
(* NULL is 0, a virtual address is the number of a cell of CellsPerPage to *)
(* a page.  The kernel's own part of a directory, the same in all of them, *)
(* is left out but for the pages the hypervisor wants read-only.           *)
(***************************************************************************)
EXTENDS Integers, Sequences, FiniteSets, SequencesExt, FiniteSetsExt

CONSTANTS LowFrame,      \* the frames of lomem_zone, one for every vmm_ppf_alloc
          HighFrame,     \* the one-page stacks of himem_zone
          CellsPerPage, PagesPerTable,
          FirstTable, LastTable, \* the entries of a directory for the memory of programs
          QueueSize,     \* XEN_UPDATE_QUEUE_SIZE
          Junk           \* what a frame holds that nobody has written

ASSUME PageTablesAssumption ==
  /\ LowFrame \cup HighFrame \subseteq Nat \ {0} /\ LowFrame \cap HighFrame = {}
  /\ IsFiniteSet(LowFrame)
  /\ {CellsPerPage, PagesPerTable, QueueSize} \subseteq Nat \ {0}
  /\ {FirstTable, LastTable} \subseteq Nat

NULL == 0
NoPte == [frame |-> NULL, wr |-> FALSE]

Table == FirstTable..LastTable

PageOf(a) == a \div CellsPerPage
Cell(a) == a % CellsPerPage
PdeOf(page) == page \div PagesPerTable
PteOf(page) == page % PagesPerTable

Ok(m) == [m EXCEPT !.rc = 0]
Fail(m) == [m EXCEPT !.rc = 1]   \* a negative return value
Failed(m) == m.rc # 0

\* What is done on the memory n a call has left, unless the call failed.
AndThen(n, Op(_)) == IF Failed(n) THEN n ELSE Op(n)

\* A loop: Op on the memory that is left, for each element of s in turn.  (The
\* FoldLeft of SequencesExt, as a function that can be reasoned about.)
Each(Op(_, _), x, s) ==
  LET after[n \in 0..Len(s)] == IF n = 0 THEN x ELSE Op(after[n - 1], s[n])
  IN  after[Len(s)]

\* The numbers from a to b in turn.
Ascending(a, b) == [i \in 1..(b - a + 1) |-> a + i - 1]

-----------------------------------------------------------------------------
(* Frames *)

\* m.ram[f]: what frame f is used as, and the words in it.
Free(m) == {f \in LowFrame : m.ram[f].role = "free"}
Full(m) == Free(m) = {}

\* The frame vmm_ppf_alloc returns.  Free frames are alike: any will do.
NextFrame(m) == Min(Free(m))

vmm_ppf_alloc(m, role, words) ==
  [m EXCEPT !.ram[NextFrame(m)] = [role |-> role, word |-> words]]

\* What is in a free frame nobody reads.
FreeFrame == [role |-> "free", word |-> <<>>]
vmm_ppf_free(m, f) == [m EXCEPT !.ram[f] = FreeFrame]

-----------------------------------------------------------------------------
(* The queue of updates *)

PteUpdate(table, slot, pte) == [of |-> "table", frame |-> table, slot |-> slot, val |-> pte]
PdeUpdate(dir, slot, table) == [of |-> "directory", frame |-> dir, slot |-> slot, val |-> table]
KernelUpdate(frame, wr) == [of |-> "kernel", frame |-> frame, slot |-> 0, val |-> wr]

\* The hypervisor: the directory in use and its tables must be read-only.
InUse(m) == {m.cr3} \cup {m.ram[m.cr3].word[i] : i \in Table}
Refused(m, u) ==
  \/ u.of = "kernel" /\ u.val /\ u.frame \in InUse(m)
  \/ u.of = "directory" /\ u.frame = m.cr3 /\ u.val # NULL /\ u.val \notin m.readonly

\* One update.  The kernel asserts that none is refused; m.strayed records
\* one for a table that is none any more.
Apply(m, u) ==
  IF m.panicked \/ (m.cr3 # NULL /\ Refused(m, u)) THEN [m EXCEPT !.panicked = TRUE]
  ELSE IF u.of = "kernel"
       THEN [m EXCEPT !.readonly = IF u.val THEN @ \ {u.frame} ELSE @ \cup {u.frame}]
  ELSE IF u.of = m.ram[u.frame].role THEN [m EXCEPT !.ram[u.frame].word[u.slot] = u.val]
  ELSE [m EXCEPT !.strayed = TRUE]

vmm_flush_mmu_update_queue(m) ==
  [Each(Apply, m, m.queue) EXCEPT !.queue = <<>>]

FlushFull(m) == IF Len(m.queue) = QueueSize THEN vmm_flush_mmu_update_queue(m) ELSE m

vmm_queue_mmu_update(m, u) == FlushFull([m EXCEPT !.queue = Append(@, u)])

-----------------------------------------------------------------------------
(* Mappings *)

TableOf(m, dir, page) == m.ram[dir].word[PdeOf(page)]

EmptyTable == [slot \in 0..(PagesPerTable - 1) |-> NoPte]
EmptyDirectory == [i \in Table |-> NULL]

\* vmm_get_mapping looks at the tables, not at the queue.
vmm_get_mapping(m, dir, page) ==
  LET table == TableOf(m, dir, page)
  IN  IF table = NULL THEN NoPte ELSE m.ram[table].word[PteOf(page)]

\* vmm_map_page, for want of a table: a zeroed one, read-only to the kernel
\* before the directory points to it.
NewTable(m, dir, page) ==
  LET table == NextFrame(m)
      new == vmm_ppf_alloc(m, "table", EmptyTable)
      queued == vmm_queue_mmu_update(new, KernelUpdate(table, FALSE))
  IN  vmm_flush_mmu_update_queue(
        vmm_queue_mmu_update(queued, PdeUpdate(dir, PdeOf(page), table)))

\* The new entry is queued unless the table, as it is, has it already.
SetEntry(m, dir, page, pte) ==
  IF m.panicked \/ vmm_get_mapping(m, dir, page) = pte THEN m
  ELSE vmm_queue_mmu_update(m, PteUpdate(TableOf(m, dir, page), PteOf(page), pte))

vmm_map_page(m, dir, page, frame, wr) ==
  IF TableOf(m, dir, page) = NULL /\ Full(m) THEN Fail(m)
  ELSE SetEntry(Ok(IF TableOf(m, dir, page) = NULL THEN NewTable(m, dir, page) ELSE m), dir, page,
                IF frame = NULL THEN NoPte ELSE [frame |-> frame, wr |-> wr])

-----------------------------------------------------------------------------
(* Directories *)

UseDirectory(m, dir) == [m EXCEPT !.cr3 = dir, !.panicked = @ \/ dir \notin m.readonly]

vmm_set_user_pgdir(m, dir) == UseDirectory(vmm_flush_mmu_update_queue(m), dir)

\* m.pgdir[t] is the directory of a new task t, read-only from the start.
vmm_create_pgdir(m, t) ==
  IF Full(m) THEN Fail(m)
  ELSE LET dir == NextFrame(m)
           new == [vmm_ppf_alloc(m, "directory", EmptyDirectory) EXCEPT !.pgdir[t] = dir]
       IN  Ok(vmm_flush_mmu_update_queue(vmm_queue_mmu_update(new, KernelUpdate(dir, FALSE))))

\* vmm_free_pgdir takes the tables out of the directory one by one, makes
\* each writable again and frees it; then the directory.
\* Mutant of FreeTable: the table is freed as it is.
FreeTableReadOnly(m, dir, i) ==
  LET table == m.ram[dir].word[i]
  IN  IF table = NULL THEN m
      ELSE vmm_ppf_free(vmm_flush_mmu_update_queue(
             vmm_queue_mmu_update(m, PdeUpdate(dir, i, NULL))), table)

FreeTable(m, dir, i) ==
  LET table == m.ram[dir].word[i]
      out == vmm_queue_mmu_update(m, PdeUpdate(dir, i, NULL))
  IN  IF table = NULL THEN m
      ELSE vmm_ppf_free(vmm_flush_mmu_update_queue(
             vmm_queue_mmu_update(out, KernelUpdate(table, TRUE))), table)

FreeTables(m, dir) ==
  Each(LAMBDA x, i : FreeTable(x, dir, i), m, Ascending(FirstTable, LastTable))

vmm_free_pgdir(m, t) ==
  LET dir == m.pgdir[t]
      n == FreeTables(m, dir)
  IN  [vmm_ppf_free(vmm_flush_mmu_update_queue(
         vmm_queue_mmu_update(n, KernelUpdate(dir, TRUE))), dir) EXCEPT !.pgdir[t] = NULL]
=============================================================================
