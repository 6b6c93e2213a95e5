------------------------------- MODULE UserHeap -------------------------------
(***************************************************************************)
(* The heap of user programs (410user/libmalloc): an implicit list of      *)
(* blocks with a header and a footer each, joined with their free          *)
(* neighbours by these boundary tags, in memory that grows by new_pages.   *)
(*                                                                         *)
(* Addresses and sizes count words (WSIZE); the code makes even numbers of *)
(* them (DSIZE).  A word is a tag or, alike in form, what a program wrote. *)
(***************************************************************************)
EXTENDS Integers, FiniteSets

CONSTANTS CHUNKSIZE, PAGE_SIZE, \* in words
          Limit,                \* bound: the words new_pages gives out
          Sizes                 \* of the calls, in words

VARIABLES mem,        \* [address -> word]
          heap_listp, \* the prologue's block pointer
          brkp, alloctop, \* mem_brkp, mem_alloctop
          inited,
          given       \* [bp, size]: what programs hold, and how much they use

vars == <<mem, heap_listp, brkp, alloctop, inited, given>>

NULL == 0
DSIZE == 2
OVERHEAD == 2
First == PAGE_SIZE \* the first page after the program

PACK(size, alloc) == [size |-> size, alloc |-> alloc]
Written == PACK(DSIZE, FALSE)   \* what programs write: no block is so small

PUT(m, p, word) == [m EXCEPT ![p] = word]
HDRP(bp) == bp - 1
GET_SIZE(m, bp) == m[HDRP(bp)].size
GET_ALLOC(m, bp) == m[HDRP(bp)].alloc
FTRP(m, bp) == bp + GET_SIZE(m, bp) - DSIZE
NEXT_BLKP(m, bp) == bp + GET_SIZE(m, bp)
PREV_BLKP(m, bp) == bp - m[bp - DSIZE].size

\* A header, and the footer it leads to.
Tag(m, bp, size, alloc) ==
  LET n == PUT(m, HDRP(bp), PACK(size, alloc)) IN PUT(n, FTRP(n, bp), PACK(size, alloc))

-----------------------------------------------------------------------------
\* Mutant of coalesce: the block before is not looked at.
CoalesceForward(m, bp) ==
  LET next == NEXT_BLKP(m, bp)
  IN  [m |-> IF GET_ALLOC(m, next) THEN m
             ELSE Tag(m, bp, GET_SIZE(m, bp) + GET_SIZE(m, next), FALSE),
       bp |-> bp]

coalesce(m, bp) ==
  LET prev == PREV_BLKP(m, bp)
      next == NEXT_BLKP(m, bp)
      prev_alloc == m[FTRP(m, prev)].alloc
      next_alloc == GET_ALLOC(m, next)
      size == GET_SIZE(m, bp) + (IF prev_alloc THEN 0 ELSE GET_SIZE(m, prev))
                              + (IF next_alloc THEN 0 ELSE GET_SIZE(m, next))
      first == IF prev_alloc THEN bp ELSE prev
  IN  [m |-> IF prev_alloc /\ next_alloc THEN m ELSE Tag(m, first, size, FALSE),
       bp |-> first]

place(m, bp, asize) ==
  LET csize == GET_SIZE(m, bp)
  IN  IF csize - asize >= DSIZE + OVERHEAD
      THEN LET n == Tag(m, bp, asize, TRUE) IN Tag(n, NEXT_BLKP(n, bp), csize - asize, FALSE)
      ELSE Tag(m, bp, csize, TRUE)

\* The blocks of the list, from the prologue to the one before the epilogue.
RECURSIVE Blocks(_, _)
Blocks(m, bp) ==
  IF bp \notin First + 1 .. First + Limit - 1 \/ GET_SIZE(m, bp) <= 0 THEN {}
  ELSE {bp} \cup Blocks(m, NEXT_BLKP(m, bp))

Fits(m, asize) ==
  {bp \in Blocks(m, heap_listp) : ~GET_ALLOC(m, bp) /\ asize <= GET_SIZE(m, bp)}

find_fit(m, asize) ==
  IF Fits(m, asize) = {} THEN NULL ELSE CHOOSE bp \in Fits(m, asize) : \A b \in Fits(m, asize) : bp <= b

\* mem_sbrk: what it asks of new_pages, in whole pages.
Pages(brk, top, incr) ==
  IF brk + incr <= top THEN 0
  ELSE PAGE_SIZE * ((brk + incr - top + PAGE_SIZE - 1) \div PAGE_SIZE)

\* extend_heap once mem_sbrk has given it an even number of words at old.
Extended(m, old, words) ==
  LET n == Tag(m, old, words, FALSE)
  IN  coalesce(PUT(n, HDRP(NEXT_BLKP(n, old)), PACK(0, TRUE)), old)

Even(words) == words + (words % 2)

Adjusted(size) ==
  IF size <= DSIZE THEN DSIZE + OVERHEAD
  ELSE DSIZE * ((size + OVERHEAD + DSIZE - 1) \div DSIZE)

Larger(x, y) == IF x > y THEN x ELSE y
Lesser(x, y) == IF x < y THEN x ELSE y

-----------------------------------------------------------------------------
\* mm_init: the empty list on a fresh page, and the first chunk.  If there is
\* no page for the chunk, the next call starts again on another.
mm_init(granted) ==
  LET start == IF alloctop = NULL THEN First ELSE alloctop
      top == start + PAGE_SIZE
      more == Pages(start + 4, top, Even(CHUNKSIZE))
      lp == start + DSIZE
      empty == PUT(Tag(PUT(mem, start, PACK(0, FALSE)), lp, OVERHEAD, TRUE),
                   HDRP(lp + DSIZE), PACK(0, TRUE))
  IN  /\ ~inited /\ top <= First + Limit
      /\ granted => top + more <= First + Limit
      /\ heap_listp' = lp
      /\ IF more = 0 \/ granted
         THEN /\ mem' = Extended(empty, start + 4, Even(CHUNKSIZE)).m
              /\ brkp' = start + 4 + Even(CHUNKSIZE) /\ alloctop' = top + more
              /\ inited' = TRUE
         ELSE mem' = empty /\ brkp' = start + 4 /\ alloctop' = top /\ UNCHANGED inited
      /\ UNCHANGED given

\* The programs fill what they asked for, from word "from" on.
Fill(bp, from, size) == [p \in bp + from .. bp + size - 1 |-> Written]

Over(m, part) == [p \in DOMAIN m |-> IF p \in DOMAIN part THEN part[p] ELSE m[p]]

Chunk(size) == Even(Larger(Adjusted(size), CHUNKSIZE))

\* What mem_sbrk asks new_pages for; whether that is granted is up to the kernel.
Asked(size) ==
  IF find_fit(mem, Adjusted(size)) # NULL THEN 0 ELSE Pages(brkp, alloctop, Chunk(size))

Met(size, granted) ==
  Asked(size) = 0 \/ (granted /\ alloctop + Asked(size) <= First + Limit)

mm_malloc(size) ==
  LET bp == find_fit(mem, Adjusted(size))
      grown == Extended(mem, brkp, Chunk(size))
      at == IF bp # NULL THEN bp ELSE grown.bp
  IN  [bp |-> at,
       m |-> place(IF bp # NULL THEN mem ELSE grown.m, at, Adjusted(size)),
       brkp |-> IF bp # NULL THEN brkp ELSE brkp + Chunk(size)]

malloc(size, granted) ==
  LET got == mm_malloc(size)
  IN  /\ inited /\ Met(size, granted)
      /\ mem' = Over(got.m, Fill(got.bp, 0, size))
      /\ given' = given \cup {[bp |-> got.bp, size |-> size]}
      /\ brkp' = got.brkp /\ alloctop' = alloctop + Asked(size)
      /\ UNCHANGED <<heap_listp, inited>>

Freed(m, bp) == coalesce(Tag(m, bp, GET_SIZE(m, bp), FALSE), bp).m

free(b) ==
  /\ inited /\ mem' = Freed(mem, b.bp) /\ given' = given \ {b}
  /\ UNCHANGED <<heap_listp, brkp, alloctop, inited>>

\* mm_realloc copies as many words as the old block has, tags included, or as
\* the new one shall have.
realloc(b, size, granted) ==
  LET got == mm_malloc(size)
      words == Lesser(GET_SIZE(got.m, b.bp), size)
      copied == Over(got.m, [p \in got.bp .. got.bp + words - 1 |-> got.m[b.bp + p - got.bp]])
  IN  /\ inited /\ Met(size, granted)
      /\ mem' = Over(Freed(copied, b.bp), Fill(got.bp, b.size, size))
      /\ given' = (given \ {b}) \cup {[bp |-> got.bp, size |-> size]}
      /\ brkp' = got.brkp /\ alloctop' = alloctop + Asked(size)
      /\ UNCHANGED <<heap_listp, inited>>

Init ==
  /\ mem = [p \in First .. First + Limit - 1 |-> PACK(0, FALSE)]
  /\ heap_listp = NULL /\ brkp = NULL /\ alloctop = NULL /\ inited = FALSE /\ given = {}

Next ==
  \E granted \in BOOLEAN :
    \/ mm_init(granted)
    \/ \E size \in Sizes :
         \/ malloc(size, granted)
         \/ \E b \in given : realloc(b, size, granted)
    \/ \E b \in given : free(b)

-----------------------------------------------------------------------------
(* The blocks tile the heap from the prologue to the epilogue, each with a *)
(* footer like its header, no two free ones side by side (coalesce, place, *)
(* extend_heap), the taken ones are those the programs hold, and what the  *)
(* programs wrote in them is there (mm_realloc copies it).                 *)
UserHeapIsWhole ==
  inited =>
    LET blocks == Blocks(mem, heap_listp)
        After(bp) == NEXT_BLKP(mem, bp)
    IN  /\ \A bp \in blocks :
             /\ mem[FTRP(mem, bp)] = mem[HDRP(bp)]
             /\ After(bp) \in blocks \cup {brkp}
             /\ After(bp) \in blocks => GET_ALLOC(mem, bp) \/ GET_ALLOC(mem, After(bp))
        /\ mem[HDRP(brkp)] = PACK(0, TRUE) /\ brkp <= alloctop
        /\ {bp \in blocks \ {heap_listp} : GET_ALLOC(mem, bp)} = {b.bp : b \in given}
        /\ \A b \in given :
             /\ b.size <= GET_SIZE(mem, b.bp) - OVERHEAD
             /\ \A p \in b.bp .. b.bp + b.size - 1 : mem[p] = Written
=============================================================================
