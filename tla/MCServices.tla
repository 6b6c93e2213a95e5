----------------------------- MODULE MCServices -----------------------------
(***************************************************************************)
(* The parts of the system that work by themselves, one call after         *)
(* another, small enough to be checked in one run: a behaviour is one of a *)
(* single part, the others stay as they are.                               *)
(***************************************************************************)
EXTENDS MCBuddyZone, XenTime, Integers

VARIABLES part,
          heap, blocks, asked, spoilt,
          words, heap_listp, brkp, alloctop, inited, given,
          exe, areas, frame, alive,
          args, mem, esp, phase,
          directive, out, read

kernelHeap == <<heap, blocks, asked, spoilt>>
userHeap == <<words, heap_listp, brkp, alloctop, inited, given>>
loader == <<exe, areas, frame, alive>>
arguments == <<args, mem, esp, phase>>
formats == <<directive, out, read>>

Part == {"zone", "time", "kernel heap", "user heap", "loader", "arguments", "formats"}

\* Two regions, the memory that is free at boot within the second; a quarter
\* of it is lost to rounding and to what is taken back.
KH == INSTANCE KernelHeap WITH
  last <- asked, ALIGN <- 4, WORD <- 2,
  Regions <- <<[addr |-> 0, size |-> 9, flags |-> {"1MB", "16MB"}, pri |-> -2],
               [addr |-> 8, size |-> 24, flags |-> {"16MB"}, pri |-> -1],
               [addr |-> 32, size |-> 31, flags |-> {}, pri |-> 0]>>,
  HeapStart <- 5, UserStart <- 32, Reserved <- 8, Top <- 63,
  Sizes <- {1, 6}, Alignments <- {8}

\* Three pages of a chunk each.
UH == INSTANCE UserHeap WITH
  mem <- words, CHUNKSIZE <- 8, PAGE_SIZE <- 8, Limit <- 24, Sizes <- {1, 5}

\* Sections as a linker places them, in pages of four bytes: text and rodata,
\* data, bss; the last byte of the file may be missing.
Section(name, addr, size, off) == [name |-> name, addr |-> addr, size |-> size, off |-> off]
Executable(start, text, rodata, data, bss, missing) ==
  LET d == start + text + rodata + 1
      o == 2 + text + rodata
  IN  [sections |-> <<Section(".comment", 0, 1, 1), Section(".bss", d + data, bss, o + data),
                      Section(".data", d, data, o), Section(".rodata", start + text, rodata, 2 + text),
                      Section(".text", start, text, 2)>>,
       len |-> o + data - missing]
PL == INSTANCE ProgramLoader WITH
  PAGE_SIZE <- 4,
  Executables <- {Executable(start, text, rodata, data, bss, missing) :
                    start \in {4, 6}, text \in {0, 1, 4, 5}, rodata \in {0, 3},
                    data \in {1, 3, 6}, bss \in {0, 2, 5}, missing \in {0, 1}}

\* Three bytes of strings, any of whose suffixes may be an argument, and up to
\* two pointers to them.
Chars == {"a", "b", "nul"}
Strings3(s) == [a \in 1..3 |-> IF a = 3 THEN "nul" ELSE s[a]]
Pointers(p, q) == [a \in 4..9 |-> CASE a = 4 -> p [] a = 6 -> q [] a = 8 -> 0 [] OTHER -> "rest"]
XA == INSTANCE ExecArguments WITH
  PTR <- 2, Char <- Chars, Buffer <- 200, StackTop <- 100,
  Arguments <- {[memory |-> Strings3(s) @@ Pointers(p, q), argvec |-> 4] :
                  s \in [1..2 -> Chars], p \in 0..3, q \in 0..3}

FM == INSTANCE Formats WITH
  Numbers <- {-170, -9, -1, 0, 1, 8, 15, 100}, Widths <- {0, 2, 6}

LoaderOff == exe = <<>> /\ areas = <<>> /\ frame = <<>> /\ alive = FALSE
ArgumentsOff == args = <<>> /\ mem = <<>> /\ esp = 0 /\ phase = "none"
FormatsOff == directive = <<>> /\ out = <<>> /\ read = <<>>

ServicesInit ==
  /\ part \in Part
  /\ Init /\ TimeInit /\ KH!Init /\ UH!Init
  /\ IF part = "loader" THEN PL!Init ELSE LoaderOff
  /\ IF part = "arguments" THEN XA!Init ELSE ArgumentsOff
  /\ IF part = "formats" THEN FM!Init ELSE FormatsOff

ServicesNext ==
  /\ UNCHANGED part
  /\ \/ /\ part = "zone" /\ Next
        /\ UNCHANGED <<timeVars, kernelHeap, userHeap, loader, arguments, formats>>
     \/ /\ part = "time" /\ TimeNext
        /\ UNCHANGED <<vars, kernelHeap, userHeap, loader, arguments, formats>>
     \/ /\ part = "kernel heap" /\ KH!Next
        /\ UNCHANGED <<vars, timeVars, userHeap, loader, arguments, formats>>
     \/ /\ part = "user heap" /\ UH!Next
        /\ UNCHANGED <<vars, timeVars, kernelHeap, loader, arguments, formats>>
     \/ /\ part = "loader" /\ PL!Next
        /\ UNCHANGED <<vars, timeVars, kernelHeap, userHeap, arguments, formats>>
     \/ /\ part = "arguments" /\ XA!Next
        /\ UNCHANGED <<vars, timeVars, kernelHeap, userHeap, loader, formats>>
     \/ /\ part = "formats" /\ FM!Next
        /\ UNCHANGED <<vars, timeVars, kernelHeap, userHeap, loader, arguments>>

ServicesSpec ==
  ServicesInit /\ [][ServicesNext]_<<part, vars, timeVars, kernelHeap, userHeap, loader, arguments, formats>>

-----------------------------------------------------------------------------
\* The properties of the modules, each where its part is at work.
HeapIsWhole == KH!HeapIsWhole
RequestsAreMet == KH!RequestsAreMet
UserHeapIsWhole == UH!UserHeapIsWhole
SectionsAreInMemory == part = "loader" => PL!SectionsAreInMemory
ArgumentsArrive == part = "arguments" => XA!ArgumentsArrive
NumbersReadBack == part = "formats" => FM!NumbersReadBack
=============================================================================
