------------------------------ MODULE KernelHeap ------------------------------
(***************************************************************************)
(* The kernel's heap: the list memory manager (410kern/lmm) with its       *)
(* regions and their lists of free nodes, how the boot code fills it       *)
(* (410kern/boot/util_lmm.c), and malloc and its kin on top of it          *)
(* (410kern/malloc, kern/malloc_wrappers.c).                               *)
(*                                                                         *)
(* An address is a number; no address is 0, which is NULL.  What blocks    *)
(* hold is left out, but for the word in which malloc keeps the size.      *)
(***************************************************************************)
EXTENDS Integers, Sequences, SequencesExt, FiniteSets, FiniteSetsExt

CONSTANTS
  ALIGN,     \* ALIGN_SIZE, twice a word
  WORD,      \* sizeof(size_t)
  Regions,   \* the arguments of lmm_add_region at boot, in order
  HeapStart, UserStart, \* what is free at boot: bspgtab_end_pa, USER_MEM_START
  Reserved,  \* 0x100000: what is below is taken back
  Top,       \* the end of the address space
  Sizes, Alignments \* of the calls

VARIABLES heap,   \* the regions in the order of their list
          blocks, \* [at, base, size]: given out at "at"; lmm's block is at "base"
          last,   \* what the last call asked of the manager and was answered
          spoilt  \* sfree has read a size where there is none

vars == <<heap, blocks, last, spoilt>>

NULL == 0
Down(x) == x - (x % ALIGN)
Up(x) == Down(x + ALIGN - 1)
Bytes(addr, size) == addr .. addr + size - 1

Node(addr, size) == IF size = 0 THEN <<>> ELSE <<[addr |-> addr, size |-> size]>>

-----------------------------------------------------------------------------
(* The list memory manager *)

\* Regions by falling priority, then by falling size.
lmm_add_region(regions, r) ==
  LET reg == [min |-> Up(r.addr), max |-> Down(r.addr + r.size), flags |-> r.flags,
              pri |-> r.pri, nodes |-> <<>>, free |-> 0]
      After(s) == ~(s.pri > reg.pri \/ (s.pri = reg.pri /\ s.max - s.min > reg.max - reg.min))
      k == SelectInSeq(regions, After)
  IN  IF reg.max <= reg.min THEN regions
      ELSE InsertAt(regions, IF k = 0 THEN Len(regions) + 1 ELSE k, reg)

\* The nodes of a list with a node added between two parts of it, joined with
\* the ones it touches.
Touch(low, high) == low # <<>> /\ high # <<>> /\ Last(low).addr + Last(low).size >= Head(high).addr
Merge(low, high) ==
  IF Touch(low, high)
  THEN Front(low) \o Node(Last(low).addr, Last(low).size + Head(high).size) \o Tail(high)
  ELSE low \o high

JoinBelow(before, node, after) == Merge(before, node) \o after
Join(before, node, after) == Merge(Merge(before, node), after)

\* The block, rounded out, goes into its region's list in address order.
FreeUnrounded(regions, block, size) ==
  LET r == CHOOSE i \in DOMAIN regions : regions[i].min <= block /\ block < regions[i].max
      Lower(node) == node.addr < block
      before == SelectSeq(regions[r].nodes, Lower)
  IN  [regions EXCEPT
         ![r].free = @ + Up(size),
         ![r].nodes = Join(before, Node(Down(block), Up(size)),
                           SubSeq(@, Len(before) + 1, Len(@)))]

lmm_free(regions, block, size) ==
  LET start == Down(block)
      n == Up((block % ALIGN) + size)
      r == CHOOSE i \in DOMAIN regions : regions[i].min <= start /\ start < regions[i].max
      Lower(node) == node.addr < start
      before == SelectSeq(regions[r].nodes, Lower)
  IN  [regions EXCEPT
         ![r].free = @ + n,
         ![r].nodes = Join(before, Node(start, n), SubSeq(@, Len(before) + 1, Len(@)))]

\* Node k of region r gives up n from its "skip"th on.
Carve(regions, r, k, skip, n) ==
  LET nodes == regions[r].nodes
      node == nodes[k]
  IN  [regions EXCEPT
         ![r].free = @ - n,
         ![r].nodes = SubSeq(nodes, 1, k - 1)
                        \o Node(node.addr, skip)
                        \o Node(node.addr + skip + n, node.size - skip - n)
                        \o SubSeq(nodes, k + 1, Len(nodes))]

\* The first node of the first region, both in the order of their lists.
FirstOf(places) ==
  CHOOSE p \in places : \A q \in places : p[1] < q[1] \/ (p[1] = q[1] /\ p[2] <= q[2])

Denied(regions) == [heap |-> regions, addr |-> NULL]

lmm_alloc(regions, size, flags) ==
  LET n == Up(size)
      places == {p \in UNION {{r} \X DOMAIN regions[r].nodes : r \in DOMAIN regions} :
                   /\ flags \subseteq regions[p[1]].flags
                   /\ regions[p[1]].nodes[p[2]].size >= n}
      p == FirstOf(places)
  IN  IF places = {} THEN Denied(regions)
      ELSE [heap |-> Carve(regions, p[1], p[2], 0, n),
            addr |-> regions[p[1]].nodes[p[2]].addr]

\* The block starts at an address that is ofs modulo align, within bounds.
lmm_alloc_gen(regions, size, flags, align, ofs, in_min, in_max) ==
  LET Addr(node) == LET a == Max({node.addr, in_min}) IN a + ((ofs - a) % align)
      places == {p \in UNION {{r} \X DOMAIN regions[r].nodes : r \in DOMAIN regions} :
                   LET node == regions[p[1]].nodes[p[2]]
                   IN  /\ flags \subseteq regions[p[1]].flags
                       /\ Addr(node) - node.addr + size <= node.size
                       /\ Addr(node) + size <= in_max}
      p == FirstOf(places)
      node == regions[p[1]].nodes[p[2]]
      addr == Addr(node)
  IN  IF places = {} THEN Denied(regions)
      ELSE [heap |-> Carve(regions, p[1], p[2], Down(addr) - node.addr, Up((addr % ALIGN) + size)),
            addr |-> addr]

\* What is free and not below addr, lowest first.
lmm_find_free(regions, addr) ==
  LET start == Up(addr)
      found == {[addr |-> Max({node.addr, start}), end |-> node.addr + node.size] :
                  node \in {m \in UNION {Range(regions[r].nodes) : r \in DOMAIN regions} :
                              m.addr + m.size > start}}
  IN  IF found = {} THEN [addr |-> Top, end |-> Top]
      ELSE CHOOSE f \in found : \A g \in found : f.addr <= g.addr

\* lmm_add_free: the block, rounded in, goes to the regions it overlaps.
lmm_add_free(regions, block, size) ==
  LET min == Up(block)
      max == Down(block + size)
      Add(regs, r) == LET lo == Max({min, regs[r].min})
                          hi == Min({max, regs[r].max})
                      IN  IF lo < hi THEN lmm_free(regs, lo, hi - lo) ELSE regs
  IN  FoldLeft(Add, regions, [r \in DOMAIN regions |-> r])

RECURSIVE lmm_remove_free(_, _, _)
lmm_remove_free(regions, start, end) ==
  LET f == lmm_find_free(regions, start)
      n == Min({f.end, end}) - f.addr
  IN  IF start >= end \/ f.addr >= end THEN regions
      ELSE lmm_remove_free(lmm_alloc_gen(regions, n, {}, 1, 0, f.addr, f.addr + n).heap,
                           f.addr, end)

\* mb_util_lmm
BootHeap ==
  LET added == FoldLeft(lmm_add_region, <<>>, Regions)
      freed == lmm_add_free(added, HeapStart, UserStart - HeapStart)
      cut == lmm_remove_free(freed, UserStart, Top - ALIGN)
  IN  lmm_remove_free(cut, 0, Reserved)

-----------------------------------------------------------------------------
(* malloc and its kin *)

Request(size, align, ofs, addr) == [size |-> size, align |-> align, ofs |-> ofs, addr |-> addr]
NoRequest == Request(0, 1, 0, Top)

\* The answer of the manager; a block of it is known by its address plus "head",
\* the word before it, of which free will read the size.
Answer(got, size, align, ofs, head) ==
  /\ heap' = got.heap
  /\ last' = Request(size, align, ofs, got.addr)
  /\ blocks' = IF got.addr = NULL THEN blocks
               ELSE blocks \cup {[at |-> got.addr + head, base |-> got.addr, size |-> size]}
  /\ UNCHANGED spoilt

malloc(n) == Answer(lmm_alloc(heap, n + WORD, {}), n + WORD, 1, 0, WORD)

memalign(align, n) ==
  LET ofs == align - WORD
  IN  Answer(lmm_alloc_gen(heap, n + WORD, {}, align, ofs, 0, Top), n + WORD, align, ofs, WORD)

smalloc(n) == Answer(lmm_alloc(heap, n, {}), n, 1, 0, 0)

smemalign(align, n) == Answer(lmm_alloc_gen(heap, n, {}, align, 0, 0, Top), n, align, 0, 0)

Headed(b) == b.at # b.base

free(b) ==
  /\ Headed(b) /\ blocks' = blocks \ {b} /\ heap' = lmm_free(heap, b.base, b.size)
  /\ last' = NoRequest /\ UNCHANGED spoilt

\* The new block is taken before the old one is given back.
realloc(b, n) ==
  LET got == lmm_alloc(heap, n + WORD, {})
  IN  /\ Headed(b) /\ last' = Request(n + WORD, 1, 0, got.addr)
      /\ IF got.addr = NULL THEN UNCHANGED <<heap, blocks>>
         ELSE /\ heap' = lmm_free(got.heap, b.base, b.size)
              /\ blocks' = (blocks \ {b}) \cup
                           {[at |-> got.addr + WORD, base |-> got.addr, size |-> n + WORD]}
      /\ UNCHANGED spoilt

\* The wrapper calls _free, which takes the word before the block for its size.
sfree(b) == ~Headed(b) /\ spoilt' = TRUE /\ UNCHANGED <<heap, blocks, last>>

Init == /\ heap = BootHeap /\ blocks = {} /\ last = NoRequest /\ spoilt = FALSE

Next ==
  /\ ~spoilt
  /\ \/ \E n \in Sizes : malloc(n) \/ smalloc(n)
     \/ \E n \in Sizes, a \in Alignments : memalign(a, n) \/ smemalign(a, n)
     \/ \E b \in blocks : free(b) \/ sfree(b) \/ \E n \in Sizes : realloc(b, n)

-----------------------------------------------------------------------------
FreeBytes(r) == UNION {Bytes(node.addr, node.size) : node \in Range(r.nodes)}
BlockBytes(b) == Bytes(Down(b.base), Up((b.base % ALIGN) + b.size))

(* The bytes between the end of the boot structures and user memory are    *)
(* each in one free node or in one block (the splits of lmm_alloc_gen, the *)
(* rounding and joining of lmm_free): none is given twice, none is lost;   *)
(* the lists are in order and joined, and their counters true.             *)
HeapIsWhole ==
  LET all == [r \in DOMAIN heap |-> FreeBytes(heap[r])]
      taken == UNION {BlockBytes(b) : b \in blocks}
  IN  /\ UNION Range(all) \cup taken = Up(Max({HeapStart, Reserved})) .. Down(UserStart) - 1
      /\ UNION Range(all) \cap taken = {}
      /\ \A b, c \in blocks : b # c => BlockBytes(b) \cap BlockBytes(c) = {}
      /\ \A r \in DOMAIN heap :
           /\ heap[r].free = Cardinality(all[r])
           /\ \A k \in 1 .. Len(heap[r].nodes) - 1 :
                heap[r].nodes[k].addr + heap[r].nodes[k].size < heap[r].nodes[k + 1].addr

(* A request fails only if no region holds it, at an address of the wanted *)
(* alignment (lmm_alloc, lmm_alloc_gen under malloc, memalign and realloc),*)
(* and one that is met has that alignment.                                 *)
RequestsAreMet ==
  IF last.addr # NULL THEN last.addr % last.align = last.ofs
  ELSE \A r \in DOMAIN heap :
         \A a \in {x \in FreeBytes(heap[r]) : x % last.align = last.ofs} :
           ~(Bytes(a, last.size) \subseteq FreeBytes(heap[r]))
=============================================================================
