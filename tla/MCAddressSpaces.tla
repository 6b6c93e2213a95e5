-------------------------- MODULE MCAddressSpaces --------------------------
(***************************************************************************)
(* A machine with pages of two cells and tables of two pages.  The         *)
(* executable's data and bss share a page, as linkers lay them out.  The   *)
(* second area asked of new_pages overlaps the data and the stack.         *)
(***************************************************************************)
EXTENDS AddressSpaces

CONSTANTS t1

Section(start, size, wr, type, off) ==
  [start |-> start, size |-> size, wr |-> wr, type |-> type, off |-> off, stack |-> FALSE]

MCSections == <<Section(5, 1, FALSE, "file", 1), Section(6, 1, TRUE, "file", 2),
                Section(7, 1, TRUE, "zero", 0)>>
MCUserStack == [Section(10, 1, TRUE, "zero", 0) EXCEPT !.stack = TRUE]
MCNewAreas == {Section(12, 4, TRUE, "zero", 0), Section(6, 4, TRUE, "zero", 0)}

\* The file: a header, the text, the data.
MCFileByte(offset) == CASE offset = 0 -> "header" [] offset = 1 -> "text" [] OTHER -> "data"

\* Frames are alike: two memories that differ in which frame is where, but not
\* in what is there, are one.  (With a frame used twice, or rights on it that
\* do not fit, they are told apart.)
PageView(t, p) ==
  LET pte == vmm_get_mapping(m, m.pgdir[t], p)
  IN  IF pte.frame = NULL THEN <<>> ELSE <<pte.wr, m.ram[pte.frame].word>>
TaskView(t) ==
  <<m.state[t], m.vmas[t], m.kstack[t] # NULL,
    IF m.pgdir[t] = NULL THEN <<>>
    ELSE <<[i \in Table |-> m.ram[m.pgdir[t]].word[i] # NULL], [p \in Pages |-> PageView(t, p)]>> >>

View ==
  <<cur, [t \in Task |-> TaskView(t)], Cardinality(Free(m)), Cardinality(m.high),
    m.stuck, m.spoiled, m.panicked, Len(m.queue), m.strayed, m.cr3 = m.pgdir[cur],
    NoFrameTwice, ReadOnlyTables>>
=============================================================================
