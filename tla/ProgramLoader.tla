---------------------------- MODULE ProgramLoader ----------------------------
(***************************************************************************)
(* From an executable in the file system that is linked into the kernel to *)
(* the bytes a program finds in memory: the sections that elf_load_helper  *)
(* picks (410kern/elf/load_helper.c), the areas task_load makes of them    *)
(* (vmm.c), and how a fault on a page reads its part of each area          *)
(* (vm_area.c, loader.c).  Frames and tables are module AddressSpaces'     *)
(* subject; here it is the arithmetic of offsets and lengths.              *)
(***************************************************************************)
EXTENDS Integers, Sequences, SequencesExt, FiniteSets

CONSTANTS PAGE_SIZE,
          Executables \* [sections, len]: the section headers, the file's length

VARIABLES exe,   \* the executable
          areas, \* the program's areas, by address
          frame, \* [page -> [offset -> byte]] for the pages that are present
          alive

vars == <<exe, areas, frame, alive>>

Byte(offset) == <<"file", offset>>
Zero == <<"zero">>
Junk == <<"junk">>

Lesser(x, y) == IF x < y THEN x ELSE y

-----------------------------------------------------------------------------
(* The file *)

\* How many bytes are read.
getbytes(offset, size) ==
  IF offset >= exe.len THEN 0 ELSE Lesser(size, exe.len - offset)

NoSection == [addr |-> 0, size |-> 0, off |-> 0]
Known == {".text", ".rodata", ".data", ".bss"}

\* The known sections; of two with one name, the last.  simple_elf_t has no
\* address for .bss.
elf_load_helper ==
  FoldLeft(LAMBDA hdr, s : IF s.name \in Known
                           THEN [hdr EXCEPT ![s.name] = [addr |-> s.addr, size |-> s.size, off |-> s.off]]
                           ELSE hdr,
           [name \in Known |-> NoSection], exe.sections)

Area(s, type) == <<[start |-> s.addr, size |-> s.size, off |-> s.off, type |-> type]>>
AreaUnlessEmpty(s, type) == IF s.size = 0 THEN <<>> ELSE Area(s, type)

vmm_load_bss(hdr) ==
  AreaUnlessEmpty([addr |-> hdr[".data"].addr + hdr[".data"].size,
                   size |-> hdr[".bss"].size, off |-> 0], "zero")

\* task_load: the areas are kept in the order of their addresses.
task_load(hdr) ==
  SortSeq(Area(hdr[".text"], "file") \o AreaUnlessEmpty(hdr[".rodata"], "file")
            \o AreaUnlessEmpty(hdr[".data"], "file") \o vmm_load_bss(hdr),
          LAMBDA v, w : v.start < w.start)

-----------------------------------------------------------------------------
(* Page faults *)

Start(page) == page * PAGE_SIZE
End(page) == Start(page) + PAGE_SIZE - 1

\* Mutant of Part: the area's end is not looked at.
PartToPageEnd(v, page) ==
  LET vaddr == IF v.start >= Start(page) THEN v.start ELSE Start(page)
  IN  [vaddr |-> vaddr, length |-> PAGE_SIZE - (vaddr - Start(page))]

\* vma_nopage_file and vma_nopage_zeropage: what of the area is on the page.
Part(v, page) ==
  LET vaddr == IF v.start >= Start(page) THEN v.start ELSE Start(page)
      last == v.start + v.size - 1
      room == PAGE_SIZE - (vaddr - Start(page))
  IN  [vaddr |-> vaddr,
       length |-> IF last < End(page) THEN room - (End(page) - last) ELSE room]

Failed(x) == x = <<>>

\* vm_area_zero and vm_area_load on the page's bytes.  A truncated read fails.
vm_area_zero(x, part, page) ==
  [o \in DOMAIN x |-> IF Start(page) + o \in part.vaddr .. part.vaddr + part.length - 1
                      THEN Zero ELSE x[o]]

vm_area_load(x, v, part, page) ==
  LET foffset == v.off + (part.vaddr - v.start)
      at == part.vaddr - Start(page)
      bytes_read == getbytes(foffset, part.length)
  IN  IF bytes_read # part.length THEN <<>>
      ELSE [o \in DOMAIN x |-> IF o \in at .. at + bytes_read - 1 THEN Byte(foffset + o - at) ELSE x[o]]

nopage(x, v, page) ==
  IF v.type = "zero" THEN vm_area_zero(x, Part(v, page), page)
  ELSE vm_area_load(x, v, Part(v, page), page)

Covers(v, page) == v.start <= End(page) /\ Start(page) < v.start + v.size

\* The handler's loop over the areas on the page; the first makes the frame.
pgf_exception_handler(page) ==
  LET on == SelectSeq(areas, LAMBDA v : Covers(v, page))
      fresh == [o \in 0 .. PAGE_SIZE - 1 |-> Junk]
      loaded == FoldLeft(LAMBDA x, v : IF Failed(x) THEN x ELSE nopage(x, v, page), fresh, on)
  IN  /\ alive /\ page \notin DOMAIN frame /\ on # <<>>
      /\ IF Failed(loaded) THEN alive' = FALSE /\ UNCHANGED frame
         ELSE /\ frame' = [p \in DOMAIN frame \cup {page} |->
                             IF p = page THEN loaded ELSE frame[p]]
              /\ UNCHANGED alive
      /\ UNCHANGED <<exe, areas>>

Init ==
  /\ exe \in Executables
  /\ LET hdr == elf_load_helper
     IN  IF hdr[".text"].size = 0 THEN areas = <<>> /\ alive = FALSE
         ELSE areas = task_load(hdr) /\ alive = TRUE
  /\ frame = [p \in {} |-> <<>>]

Contents == {s \in Range(exe.sections) : s.name \in Known /\ s.size > 0}
Pages == UNION {s.addr \div PAGE_SIZE .. (s.addr + s.size - 1) \div PAGE_SIZE : s \in Contents}

Next == \E page \in Pages : pgf_exception_handler(page)

-----------------------------------------------------------------------------
(* In whatever order a program touches its pages, each byte of each of its *)
(* sections is the file's, or zero for the bss, though sections share      *)
(* pages and end within one (vma_nopage_file, vm_area_load); every page of *)
(* a section can be had, and no program is killed whose file is complete.  *)
SectionsAreInMemory ==
  /\ alive => \A s \in Contents : \A a \in s.addr .. s.addr + s.size - 1 :
       LET page == a \div PAGE_SIZE
       IN  /\ \E k \in DOMAIN areas : Covers(areas[k], page)
           /\ page \in DOMAIN frame =>
                frame[page][a % PAGE_SIZE] =
                  IF s.name = ".bss" THEN Zero ELSE Byte(s.off + a - s.addr)
  /\ ~alive => \/ \A s \in Contents : s.name # ".text"
               \/ \E s \in Contents : s.name # ".bss" /\ s.off + s.size > exe.len
=============================================================================
