------------------------ MODULE AddressSpacesProofs ------------------------
(***************************************************************************)
(* What TLAPS proves of module AddressSpaces for any number of tasks, any  *)
(* frames, areas and length of the queue of updates: no frame is used for  *)
(* two things, the tables are what the kernel cannot write, and a task     *)
(* runs on its own directory.                                              *)
(*                                                                         *)
(* The updates that wait in the queue count as made: an entry of a table   *)
(* is what the table holds or what an update will put there.               *)
(***************************************************************************)
EXTENDS AddressSpaces, TLAPS, FiniteSetTheorems, SequenceTheorems, WellFoundedInduction

Slot == 0 .. (PagesPerTable - 1)
Pte == {NoPte} \cup [frame : LowFrame, wr : BOOLEAN]

Role(x, f) == x.ram[f].role
Word(x, f, i) == x.ram[f].word[i]

\* What a frame holds fits what it is used as.
RamOK(x) ==
  /\ DOMAIN x.ram = LowFrame
  /\ \A f \in LowFrame :
       /\ DOMAIN x.ram[f] = {"role", "word"}
       /\ Role(x, f) \in {"free", "directory", "table", "data"}
       /\ Role(x, f) = "directory" => x.ram[f].word \in [Table -> LowFrame \cup {NULL}]
       /\ Role(x, f) = "table" => x.ram[f].word \in [Slot -> Pte]

\* An update that can wait while a handler goes on: of an entry of a table.
IsUpdate(x, u) ==
  /\ u.of = "table" /\ u.frame \in LowFrame /\ Role(x, u.frame) = "table"
  /\ u.slot \in Slot /\ u.val \in Pte

QueueOK(x) == \A i \in DOMAIN x.queue : IsUpdate(x, x.queue[i])

\* Entry s of the table f names frame g, or will.
Waits(x, f, s, g) ==
  \E i \in DOMAIN x.queue :
    x.queue[i].frame = f /\ x.queue[i].slot = s /\ x.queue[i].val.frame = g
Holds(x, f, s, g) == Role(x, f) = "table" /\ Word(x, f, s).frame = g
Points(x, f, s, g) == Waits(x, f, s, g) \/ Holds(x, f, s, g)

\* A page of a program is data, and at one place.
PagesOK(x) ==
  /\ \A f \in LowFrame, s \in Slot, g \in LowFrame : Points(x, f, s, g) => Role(x, g) = "data"
  /\ \A f1, f2 \in LowFrame, s1, s2 \in Slot, g \in LowFrame :
       Points(x, f1, s1, g) /\ Points(x, f2, s2, g) => f1 = f2 /\ s1 = s2

EntriesOK(x) == RamOK(x) /\ QueueOK(x) /\ PagesOK(x)

\* A directory is that of one task, a table in one place of one directory.
DirectoriesOK(x) ==
  /\ \A t \in Task : x.pgdir[t] # NULL => x.pgdir[t] \in LowFrame /\ Role(x, x.pgdir[t]) = "directory"
  /\ \A t, u \in Task : x.pgdir[t] = x.pgdir[u] /\ x.pgdir[t] # NULL => t = u
  /\ \A f \in LowFrame : Role(x, f) = "directory" => \E t \in Task : x.pgdir[t] = f

Names(x, d, i, f) == Role(x, d) = "directory" /\ Word(x, d, i) = f

NamesOK(x) ==
  /\ \A d \in LowFrame, i \in Table, f \in LowFrame : Names(x, d, i, f) => Role(x, f) = "table"
  /\ \A d1, d2 \in LowFrame, i1, i2 \in Table, f \in LowFrame :
       Names(x, d1, i1, f) /\ Names(x, d2, i2, f) => d1 = d2 /\ i1 = i2
  /\ \A f \in LowFrame : Role(x, f) = "table" => \E d \in LowFrame, i \in Table : Names(x, d, i, f)

\* The kernel cannot write the directories and tables.
RightsOK(x) == x.readonly = {f \in LowFrame : Role(x, f) \in {"directory", "table"}}

TablesOK(x) == DirectoriesOK(x) /\ NamesOK(x) /\ RightsOK(x)

Good(x) == EntriesOK(x) /\ TablesOK(x)

\* A task has a directory; one is in use.
Lives(x) ==
  /\ x.state \in [Task -> {"none", "live", "zombie", "lost"}]
  /\ \A t \in Task : x.state[t] = "none" <=> x.pgdir[t] = NULL
InUseOK(x) == x.cr3 \in LowFrame /\ Role(x, x.cr3) = "directory"

-----------------------------------------------------------------------------
(* Numbers *)

\* A set of numbers with 0 that holds with a number the next one holds them all.
LEMMA AllNumbers ==
  ASSUME NEW S, 0 \in S, \A n \in Nat : n \in S => n + 1 \in S
  PROVE  \A n \in Nat : n \in S
<1> DEFINE R == {pair \in Nat \X Nat : pair[1] < pair[2]}
           T == Nat \ S
<1>1. IsWellFoundedOn(R, Nat)
  BY NatLessThanWellFounded DEF OpToRel
<1>2. \A x, y \in Nat : <<x, y>> \in R <=> x < y
  OBVIOUS
<1> HIDE DEF R
<1>3. SUFFICES ASSUME T # {} PROVE FALSE
  OBVIOUS
<1>4. PICK x \in T : \A y \in T : ~(<<y, x>> \in R)
  BY <1>1, <1>3, WFMin
<1>5. x \in Nat /\ x # 0 /\ x - 1 \in Nat /\ x - 1 < x
  BY <1>4
<1>6. x - 1 \in S
  BY <1>2, <1>4, <1>5
<1> QED
  BY <1>5, <1>6, <1>4

\* A set of numbers has a least one.
LEMMA LeastNumber ==
  ASSUME NEW S \in SUBSET Nat, S # {}
  PROVE  Min(S) \in S
<1> DEFINE R == {pair \in Nat \X Nat : pair[1] < pair[2]}
<1>1. IsWellFoundedOn(R, Nat)
  BY NatLessThanWellFounded DEF OpToRel
<1>2. \A x, y \in Nat : <<x, y>> \in R <=> x < y
  OBVIOUS
<1> HIDE DEF R
<1>3. PICK x \in S : \A y \in S : ~(<<y, x>> \in R)
  BY <1>1, WFMin
<1>4. ASSUME NEW y \in S
      PROVE  x <= y
  <2>1. x \in Nat /\ y \in Nat
    BY <1>3
  <2>2. ~(y < x)
    BY <1>2, <1>3, <2>1
  <2> QED
    BY <2>1, <2>2
<1> QED
  BY <1>4 DEF Min

\* Where a page is in a directory.
LEMMA PageIndices ==
  ASSUME NEW page, UserPage(page)
  PROVE  PdeOf(page) \in Table /\ PteOf(page) \in Slot
<1>1. page \in Nat /\ PagesPerTable \in Nat \ {0}
  BY PageTablesAssumption DEF UserPage
<1>2. page % PagesPerTable \in 0 .. (PagesPerTable - 1)
  BY <1>1
<1> QED
  BY <1>2 DEF UserPage, PteOf, Slot

\* Two pages are at two places.
LEMMA PagesDiffer ==
  ASSUME NEW page \in Nat, NEW other \in Nat,
         PdeOf(page) = PdeOf(other), PteOf(page) = PteOf(other)
  PROVE  page = other
<1>1. PagesPerTable \in Nat \ {0}
  BY PageTablesAssumption
<1>2. \A a \in Nat : a = PagesPerTable * (a \div PagesPerTable) + (a % PagesPerTable)
  BY <1>1
<1> QED
  BY <1>2 DEF PdeOf, PteOf

\* The numbers from a to b, in turn.
LEMMA AscendingIs ==
  ASSUME NEW a \in Nat, NEW b \in Nat
  PROVE  /\ Len(Ascending(a, b)) \in Nat
         /\ Len(Ascending(a, b)) = IF a <= b THEN b - a + 1 ELSE 0
         /\ \A n \in 1 .. Len(Ascending(a, b)) :
              Ascending(a, b)[n] = a + n - 1 /\ a + n - 1 \in a .. b
<1> DEFINE l == IF a <= b THEN b - a + 1 ELSE 0
<1>1. l \in Nat /\ 1 .. (b - a + 1) = 1 .. l
  OBVIOUS
<1>2. Ascending(a, b) = [n \in 1 .. l |-> a + n - 1]
  BY <1>1 DEF Ascending
<1>3. Len(Ascending(a, b)) = l
  BY <1>1, <1>2
<1>4. \A n \in 1 .. l : a + n - 1 \in a .. b
  OBVIOUS
<1> HIDE DEF l
<1>5. \A n \in 1 .. l : Ascending(a, b)[n] = a + n - 1
  BY <1>2
<1> QED
  BY <1>1, <1>3, <1>4, <1>5 DEF l

\* An area's pages are those of programs.
LEMMA PagesOfArea ==
  ASSUME NEW v \in UserArea
  PROVE  /\ PageOf(v.start) \in Nat /\ PageOf(v.start + v.size - 1) \in Nat
         /\ \A page \in PageOf(v.start) .. PageOf(v.start + v.size - 1) : UserPage(page)
<1>1. v.start \in Nat /\ v.start + v.size - 1 \in Nat /\ CellsPerPage \in Nat \ {0}
  BY PageTablesAssumption DEF UserArea
<1>2. \A a \in Nat : a \div CellsPerPage \in Nat
  BY <1>1
<1> QED
  BY <1>1, <1>2 DEF UserArea, PagesOf, PageOf

-----------------------------------------------------------------------------
(* Loops *)

\* The bodies of the loops, chosen by a record c.
Body(y, c) ==
  CASE c.of = "apply" -> Apply(y, c.e)
    [] c.of = "free" -> FreeTable(y, c.dir, c.e)
    [] c.of = "unmap" -> IF Failed(y) THEN y ELSE UnmapPage(y, c.task, c.e)
    [] c.of = "nothing" -> IF Failed(y) THEN y ELSE MapNothing(y, c.task, c.e)
    [] c.of = "copy" -> IF Failed(y) THEN y ELSE CopyPage(y, c.task, c.src, c.e)
    [] c.of = "zero" -> IF Failed(y) THEN y ELSE ZeroStackPage(y, c.task, c.e)
    [] c.of = "remove" -> vm_area_remove(y, c.task, c.e)
    [] c.of = "exec" -> RemoveUnlessStack(y, c.task, c.e)
    [] c.of = "fault" -> IF Failed(y) THEN y ELSE Visit(y, c.task, c.e, c.page, c.present)
    [] c.of = "load" -> IF Failed(y) THEN y ELSE vm_area_alloc(y, c.task, c.e)
    [] c.of = "fork" -> IF Failed(y) THEN y ELSE vm_area_init_copy(y, c.task, c.src, c.e)

Runs(f, x, c, n) == f = [k \in 0 .. n |-> IF k = 0 THEN x ELSE Body(f[k - 1], c[k])]

\* The recursion of a loop has a value.
LEMMA RunsExist ==
  ASSUME NEW x, NEW c, NEW z \in Nat
  PROVE  \E f : Runs(f, x, c, z)
<1> DEFINE S == {n \in Nat : \E f : Runs(f, x, c, n)}
<1>1. 0 \in S
  <2> DEFINE f == [n \in 0 .. 0 |-> x]
  <2>1. Runs(f, x, c, 0)
    BY DEF Runs
  <2> HIDE DEF f
  <2> QED
    BY <2>1
<1>2. ASSUME NEW n \in Nat, n \in S
      PROVE  n + 1 \in S
  <2>1. PICK f : Runs(f, x, c, n)
    BY <1>2
  <2> DEFINE w == Body(f[n], c[n + 1])
             g == [k \in 0 .. n + 1 |-> IF k = n + 1 THEN w ELSE f[k]]
  <2>2. \A k \in 0 .. n : f[k] = IF k = 0 THEN x ELSE Body(f[k - 1], c[k])
    BY <2>1 DEF Runs
  <2>3. g[n + 1] = w /\ \A k \in 0 .. n : g[k] = f[k]
    BY <1>2
  <2> HIDE DEF g
  <2>4. ASSUME NEW k \in 0 .. n + 1
        PROVE  g[k] = IF k = 0 THEN x ELSE Body(g[k - 1], c[k])
    <3>1. CASE k = n + 1
      <4>1. k # 0 /\ k - 1 = n /\ n \in 0 .. n
        BY <1>2, <3>1
      <4>2. g[k] = w /\ g[k - 1] = f[n]
        BY <2>3, <3>1, <4>1
      <4> QED
        BY <3>1, <4>1, <4>2
    <3>2. CASE k # n + 1
      <4>1. k \in 0 .. n /\ (k # 0 => k - 1 \in 0 .. n)
        BY <1>2, <3>2
      <4> QED
        BY <2>2, <2>3, <4>1
    <3> QED
      BY <3>1, <3>2
  <2>5. g = [k \in 0 .. n + 1 |-> g[k]]
    BY DEF g
  <2>6. Runs(g, x, c, n + 1)
    BY <2>4, <2>5 DEF Runs
  <2> QED
    BY <1>2, <2>6
<1> HIDE DEF S
<1>3. \A n \in Nat : n \in S
  BY <1>1, <1>2, AllNumbers
<1>4. z \in S
  BY <1>3
<1> QED
  BY <1>4 DEF S

\* The updates of a queue are applied in turn.
Applied(x, q) == Each(Apply, x, q)

\* The values a loop goes through: the updates waiting, the areas of the executable.
ApplyRun(f, x, q, n) ==
  /\ f[0] = x /\ Applied(x, q) = f[n]
  /\ \A k \in 1 .. n : f[k] = Apply(f[k - 1], q[k])

LoadRun(f, x, t, s, n) ==
  /\ f[0] = Ok(x) /\ AllocAreas(x, t, s) = f[n]
  /\ \A k \in 1 .. n : f[k] = IF Failed(f[k - 1]) THEN f[k - 1]
                               ELSE vm_area_alloc(f[k - 1], t, s[k])

\* A flush applies the updates that wait and leaves none
\* (vmm_flush_mmu_update_queue).
LEMMA FlushApplies ==
  ASSUME NEW x
  PROVE  vmm_flush_mmu_update_queue(x) = [Applied(x, x.queue) EXCEPT !.queue = <<>>]
BY DEF vmm_flush_mmu_update_queue, Applied, Each

\* The memory after each update.
LEMMA ApplyLoop ==
  ASSUME NEW x, NEW q, NEW l \in Nat, Len(q) = l
  PROVE  \E f : ApplyRun(f, x, q, l)
<1> DEFINE R(f) == f = [n \in 0 .. Len(q) |-> IF n = 0 THEN x ELSE Apply(f[n - 1], q[n])]
           g == CHOOSE f : R(f)
           c == [n \in 1 .. Len(q) |-> [of |-> "apply", e |-> q[n]]]
<1>1. PICK f : Runs(f, x, c, Len(q))
  BY RunsExist
<1>2. \A n \in 1 .. Len(q) : \A h : Body(h, c[n]) = Apply(h, q[n])
  BY DEF Body
<1> HIDE DEF c
<1>3. R(f)
  <2>1. /\ f = [n \in 0 .. Len(q) |-> f[n]]
        /\ \A n \in 0 .. Len(q) : f[n] = IF n = 0 THEN x ELSE Body(f[n - 1], c[n])
    BY <1>1 DEF Runs
  <2>2. ASSUME NEW n \in 0 .. Len(q)
        PROVE  f[n] = IF n = 0 THEN x ELSE Apply(f[n - 1], q[n])
    <3>1. n # 0 => n \in 1 .. Len(q)
      OBVIOUS
    <3>2. n # 0 => Body(f[n - 1], c[n]) = Apply(f[n - 1], q[n])
      BY <1>2, <3>1
    <3> QED
      BY <2>1, <3>2
  <2> QED
    BY <2>1, <2>2
<1>4. R(g)
  BY <1>3
<1>5. Applied(x, q) = g[Len(q)]
  BY DEF Applied, Each
<1> HIDE DEF g
<1>6. \A n \in 0 .. Len(q) : g[n] = IF n = 0 THEN x ELSE Apply(g[n - 1], q[n])
  BY <1>4
<1>7. g[0] = x /\ \A n \in 1 .. Len(q) : g[n] = Apply(g[n - 1], q[n])
  BY <1>6
<1>8. ApplyRun(g, x, q, l)
  BY <1>5, <1>7 DEF ApplyRun
<1> QED
  BY <1>8

\* The tables of a directory go one by one.
LEMMA FreeLoop ==
  ASSUME NEW x, NEW dir,
         Len(Ascending(FirstTable, LastTable)) \in Nat
  PROVE  \E f : /\ f[0] = x /\ FreeTables(x, dir) = f[Len(Ascending(FirstTable, LastTable))]
                /\ \A n \in 1 .. Len(Ascending(FirstTable, LastTable)) :
                     f[n] = FreeTable(f[n - 1], dir, Ascending(FirstTable, LastTable)[n])
<1> DEFINE s == Ascending(FirstTable, LastTable)
           R(f) == f = [n \in 0 .. Len(s) |-> IF n = 0 THEN x
                                             ELSE FreeTable(f[n - 1], dir, s[n])]
           g == CHOOSE f : R(f)
           c == [n \in 1 .. Len(s) |-> [of |-> "free", dir |-> dir, e |-> s[n]]]
<1>1. PICK f : Runs(f, x, c, Len(s))
  BY RunsExist
<1>2. FreeTables(x, dir) = g[Len(s)]
  BY DEF FreeTables, Each
<1>3. ASSUME NEW n \in 1 .. Len(s), NEW y
      PROVE  Body(y, c[n]) = FreeTable(y, dir, s[n])
  <2>1. c[n] = [of |-> "free", dir |-> dir, e |-> s[n]]
    OBVIOUS
  <2> HIDE DEF c, s
  <2> QED
    BY <2>1 DEF Body
<1> HIDE DEF c, s
<1>4. R(f)
  <2>1. /\ f = [n \in 0 .. Len(s) |-> f[n]]
        /\ \A n \in 0 .. Len(s) : f[n] = IF n = 0 THEN x ELSE Body(f[n - 1], c[n])
    BY <1>1 DEF Runs
  <2>2. ASSUME NEW n \in 0 .. Len(s)
        PROVE  f[n] = IF n = 0 THEN x ELSE FreeTable(f[n - 1], dir, s[n])
    <3>1. n # 0 => n \in 1 .. Len(s)
      BY DEF s
    <3>2. n # 0 => Body(f[n - 1], c[n]) = FreeTable(f[n - 1], dir, s[n])
      BY <1>3, <3>1
    <3> QED
      BY <2>1, <3>2
  <2> QED
    BY <2>1, <2>2
<1>5. R(g)
  BY <1>4
<1> HIDE DEF g
<1>6. \A n \in 0 .. Len(s) : g[n] = IF n = 0 THEN x ELSE FreeTable(g[n - 1], dir, s[n])
  BY <1>5
<1>7. \A n \in 1 .. Len(s) : g[n] = FreeTable(g[n - 1], dir, s[n])
  BY <1>6 DEF s
<1>8. g[0] = x
  BY <1>6 DEF s
<1> QED
  BY <1>2, <1>7, <1>8 DEF s

\* The pages of an area are unmapped.
LEMMA UnmapLoop ==
  ASSUME NEW x, NEW t, NEW v,
         Len(PagesInTurn(v)) \in Nat
  PROVE  \E f : /\ f[0] = Ok(x) /\ vm_area_unmap(x, t, v) = f[Len(PagesInTurn(v))]
                /\ \A n \in 1 .. Len(PagesInTurn(v)) :
                     f[n] = IF Failed(f[n - 1]) THEN f[n - 1]
                            ELSE UnmapPage(f[n - 1], t, PagesInTurn(v)[n])
<1> DEFINE s == PagesInTurn(v)
           R(f) == f = [n \in 0 .. Len(s) |-> IF n = 0 THEN Ok(x)
                                             ELSE IF Failed(f[n - 1]) THEN f[n - 1]
                                                  ELSE UnmapPage(f[n - 1], t, s[n])]
           g == CHOOSE f : R(f)
           c == [n \in 1 .. Len(s) |-> [of |-> "unmap", task |-> t, e |-> s[n]]]
<1>1. PICK f : Runs(f, Ok(x), c, Len(s))
  BY RunsExist
<1>2. vm_area_unmap(x, t, v) = g[Len(s)]
  BY DEF vm_area_unmap, EachPage, Each, AndThen
<1>3. ASSUME NEW n \in 1 .. Len(s), NEW y
      PROVE  Body(y, c[n]) = IF Failed(y) THEN y ELSE UnmapPage(y, t, s[n])
  <2>1. c[n] = [of |-> "unmap", task |-> t, e |-> s[n]]
    OBVIOUS
  <2> HIDE DEF c, s
  <2> QED
    BY <2>1 DEF Body
<1> HIDE DEF c, s
<1>4. R(f)
  <2>1. /\ f = [n \in 0 .. Len(s) |-> f[n]]
        /\ \A n \in 0 .. Len(s) : f[n] = IF n = 0 THEN Ok(x) ELSE Body(f[n - 1], c[n])
    BY <1>1 DEF Runs
  <2>2. ASSUME NEW n \in 0 .. Len(s)
        PROVE  f[n] = IF n = 0 THEN Ok(x) ELSE IF Failed(f[n - 1]) THEN f[n - 1]
                                               ELSE UnmapPage(f[n - 1], t, s[n])
    <3>1. n # 0 => n \in 1 .. Len(s)
      BY DEF s
    <3>2. n # 0 => Body(f[n - 1], c[n]) = IF Failed(f[n - 1]) THEN f[n - 1]
                                          ELSE UnmapPage(f[n - 1], t, s[n])
      BY <1>3, <3>1
    <3> QED
      BY <2>1, <3>2
  <2> QED
    BY <2>1, <2>2
<1>5. R(g)
  BY <1>4
<1> HIDE DEF g
<1>6. \A n \in 0 .. Len(s) : g[n] = IF n = 0 THEN Ok(x) ELSE IF Failed(g[n - 1]) THEN g[n - 1]
                                                             ELSE UnmapPage(g[n - 1], t, s[n])
  BY <1>5
<1>7. \A n \in 1 .. Len(s) : g[n] = IF Failed(g[n - 1]) THEN g[n - 1]
                                    ELSE UnmapPage(g[n - 1], t, s[n])
  BY <1>6 DEF s
<1>8. g[0] = Ok(x)
  BY <1>6 DEF s
<1> QED
  BY <1>2, <1>7, <1>8 DEF s

\* The tables for an area are made.
LEMMA NothingLoop ==
  ASSUME NEW x, NEW t, NEW v,
         Len(PagesInTurn(v)) \in Nat
  PROVE  \E f : /\ f[0] = Ok(x) /\ MapNothings(x, t, v) = f[Len(PagesInTurn(v))]
                /\ \A n \in 1 .. Len(PagesInTurn(v)) :
                     f[n] = IF Failed(f[n - 1]) THEN f[n - 1]
                            ELSE MapNothing(f[n - 1], t, PagesInTurn(v)[n])
<1> DEFINE s == PagesInTurn(v)
           R(f) == f = [n \in 0 .. Len(s) |-> IF n = 0 THEN Ok(x)
                                             ELSE IF Failed(f[n - 1]) THEN f[n - 1]
                                                  ELSE MapNothing(f[n - 1], t, s[n])]
           g == CHOOSE f : R(f)
           c == [n \in 1 .. Len(s) |-> [of |-> "nothing", task |-> t, e |-> s[n]]]
<1>1. PICK f : Runs(f, Ok(x), c, Len(s))
  BY RunsExist
<1>2. MapNothings(x, t, v) = g[Len(s)]
  BY DEF MapNothings, EachPage, Each, AndThen
<1>3. ASSUME NEW n \in 1 .. Len(s), NEW y
      PROVE  Body(y, c[n]) = IF Failed(y) THEN y ELSE MapNothing(y, t, s[n])
  <2>1. c[n] = [of |-> "nothing", task |-> t, e |-> s[n]]
    OBVIOUS
  <2> HIDE DEF c, s
  <2> QED
    BY <2>1 DEF Body
<1> HIDE DEF c, s
<1>4. R(f)
  <2>1. /\ f = [n \in 0 .. Len(s) |-> f[n]]
        /\ \A n \in 0 .. Len(s) : f[n] = IF n = 0 THEN Ok(x) ELSE Body(f[n - 1], c[n])
    BY <1>1 DEF Runs
  <2>2. ASSUME NEW n \in 0 .. Len(s)
        PROVE  f[n] = IF n = 0 THEN Ok(x) ELSE IF Failed(f[n - 1]) THEN f[n - 1]
                                               ELSE MapNothing(f[n - 1], t, s[n])
    <3>1. n # 0 => n \in 1 .. Len(s)
      BY DEF s
    <3>2. n # 0 => Body(f[n - 1], c[n]) = IF Failed(f[n - 1]) THEN f[n - 1]
                                          ELSE MapNothing(f[n - 1], t, s[n])
      BY <1>3, <3>1
    <3> QED
      BY <2>1, <3>2
  <2> QED
    BY <2>1, <2>2
<1>5. R(g)
  BY <1>4
<1> HIDE DEF g
<1>6. \A n \in 0 .. Len(s) : g[n] = IF n = 0 THEN Ok(x) ELSE IF Failed(g[n - 1]) THEN g[n - 1]
                                                             ELSE MapNothing(g[n - 1], t, s[n])
  BY <1>5
<1>7. \A n \in 1 .. Len(s) : g[n] = IF Failed(g[n - 1]) THEN g[n - 1]
                                    ELSE MapNothing(g[n - 1], t, s[n])
  BY <1>6 DEF s
<1>8. g[0] = Ok(x)
  BY <1>6 DEF s
<1> QED
  BY <1>2, <1>7, <1>8 DEF s

\* The pages of an area are copied.
LEMMA CopyLoop ==
  ASSUME NEW x, NEW t, NEW src, NEW v,
         Len(PagesInTurn(v)) \in Nat
  PROVE  \E f : /\ f[0] = Ok(x) /\ CopyPages(x, t, src, v) = f[Len(PagesInTurn(v))]
                /\ \A n \in 1 .. Len(PagesInTurn(v)) :
                     f[n] = IF Failed(f[n - 1]) THEN f[n - 1]
                            ELSE CopyPage(f[n - 1], t, src, PagesInTurn(v)[n])
<1> DEFINE s == PagesInTurn(v)
           R(f) == f = [n \in 0 .. Len(s) |-> IF n = 0 THEN Ok(x)
                                             ELSE IF Failed(f[n - 1]) THEN f[n - 1]
                                                  ELSE CopyPage(f[n - 1], t, src, s[n])]
           g == CHOOSE f : R(f)
           c == [n \in 1 .. Len(s) |-> [of |-> "copy", task |-> t, src |-> src, e |-> s[n]]]
<1>1. PICK f : Runs(f, Ok(x), c, Len(s))
  BY RunsExist
<1>2. CopyPages(x, t, src, v) = g[Len(s)]
  BY DEF CopyPages, EachPage, Each, AndThen
<1>3. ASSUME NEW n \in 1 .. Len(s), NEW y
      PROVE  Body(y, c[n]) = IF Failed(y) THEN y ELSE CopyPage(y, t, src, s[n])
  <2>1. c[n] = [of |-> "copy", task |-> t, src |-> src, e |-> s[n]]
    OBVIOUS
  <2> HIDE DEF c, s
  <2> QED
    BY <2>1 DEF Body
<1> HIDE DEF c, s
<1>4. R(f)
  <2>1. /\ f = [n \in 0 .. Len(s) |-> f[n]]
        /\ \A n \in 0 .. Len(s) : f[n] = IF n = 0 THEN Ok(x) ELSE Body(f[n - 1], c[n])
    BY <1>1 DEF Runs
  <2>2. ASSUME NEW n \in 0 .. Len(s)
        PROVE  f[n] = IF n = 0 THEN Ok(x) ELSE IF Failed(f[n - 1]) THEN f[n - 1]
                                               ELSE CopyPage(f[n - 1], t, src, s[n])
    <3>1. n # 0 => n \in 1 .. Len(s)
      BY DEF s
    <3>2. n # 0 => Body(f[n - 1], c[n]) = IF Failed(f[n - 1]) THEN f[n - 1]
                                          ELSE CopyPage(f[n - 1], t, src, s[n])
      BY <1>3, <3>1
    <3> QED
      BY <2>1, <3>2
  <2> QED
    BY <2>1, <2>2
<1>5. R(g)
  BY <1>4
<1> HIDE DEF g
<1>6. \A n \in 0 .. Len(s) : g[n] = IF n = 0 THEN Ok(x) ELSE IF Failed(g[n - 1]) THEN g[n - 1]
                                                             ELSE CopyPage(g[n - 1], t, src, s[n])
  BY <1>5
<1>7. \A n \in 1 .. Len(s) : g[n] = IF Failed(g[n - 1]) THEN g[n - 1]
                                    ELSE CopyPage(g[n - 1], t, src, s[n])
  BY <1>6 DEF s
<1>8. g[0] = Ok(x)
  BY <1>6 DEF s
<1> QED
  BY <1>2, <1>7, <1>8 DEF s

\* The pages of the stack are zeroed.
LEMMA ZeroLoop ==
  ASSUME NEW x, NEW t,
         Len(PagesInTurn(UserStack)) \in Nat
  PROVE  \E f : /\ f[0] = Ok(x) /\ ZeroStack(x, t) = f[Len(PagesInTurn(UserStack))]
                /\ \A n \in 1 .. Len(PagesInTurn(UserStack)) :
                     f[n] = IF Failed(f[n - 1]) THEN f[n - 1]
                            ELSE ZeroStackPage(f[n - 1], t, PagesInTurn(UserStack)[n])
<1> DEFINE s == PagesInTurn(UserStack)
           R(f) == f = [n \in 0 .. Len(s) |-> IF n = 0 THEN Ok(x)
                                             ELSE IF Failed(f[n - 1]) THEN f[n - 1]
                                                  ELSE ZeroStackPage(f[n - 1], t, s[n])]
           g == CHOOSE f : R(f)
           c == [n \in 1 .. Len(s) |-> [of |-> "zero", task |-> t, e |-> s[n]]]
<1>1. PICK f : Runs(f, Ok(x), c, Len(s))
  BY RunsExist
<1>2. ZeroStack(x, t) = g[Len(s)]
  BY DEF ZeroStack, EachPage, Each, AndThen
<1>3. ASSUME NEW n \in 1 .. Len(s), NEW y
      PROVE  Body(y, c[n]) = IF Failed(y) THEN y ELSE ZeroStackPage(y, t, s[n])
  <2>1. c[n] = [of |-> "zero", task |-> t, e |-> s[n]]
    OBVIOUS
  <2> HIDE DEF c, s
  <2> QED
    BY <2>1 DEF Body
<1> HIDE DEF c, s
<1>4. R(f)
  <2>1. /\ f = [n \in 0 .. Len(s) |-> f[n]]
        /\ \A n \in 0 .. Len(s) : f[n] = IF n = 0 THEN Ok(x) ELSE Body(f[n - 1], c[n])
    BY <1>1 DEF Runs
  <2>2. ASSUME NEW n \in 0 .. Len(s)
        PROVE  f[n] = IF n = 0 THEN Ok(x) ELSE IF Failed(f[n - 1]) THEN f[n - 1]
                                               ELSE ZeroStackPage(f[n - 1], t, s[n])
    <3>1. n # 0 => n \in 1 .. Len(s)
      BY DEF s
    <3>2. n # 0 => Body(f[n - 1], c[n]) = IF Failed(f[n - 1]) THEN f[n - 1]
                                          ELSE ZeroStackPage(f[n - 1], t, s[n])
      BY <1>3, <3>1
    <3> QED
      BY <2>1, <3>2
  <2> QED
    BY <2>1, <2>2
<1>5. R(g)
  BY <1>4
<1> HIDE DEF g
<1>6. \A n \in 0 .. Len(s) : g[n] = IF n = 0 THEN Ok(x) ELSE IF Failed(g[n - 1]) THEN g[n - 1]
                                                             ELSE ZeroStackPage(g[n - 1], t, s[n])
  BY <1>5
<1>7. \A n \in 1 .. Len(s) : g[n] = IF Failed(g[n - 1]) THEN g[n - 1]
                                    ELSE ZeroStackPage(g[n - 1], t, s[n])
  BY <1>6 DEF s
<1>8. g[0] = Ok(x)
  BY <1>6 DEF s
<1> QED
  BY <1>2, <1>7, <1>8 DEF s

\* The areas of a task are removed.
LEMMA RemoveLoop ==
  ASSUME NEW x, NEW t,
         Len(x.vmas[t]) \in Nat
  PROVE  \E f : /\ f[0] = x /\ vm_area_remove_all(x, t) = f[Len(x.vmas[t])]
                /\ \A n \in 1 .. Len(x.vmas[t]) :
                     f[n] = vm_area_remove(f[n - 1], t, x.vmas[t][n])
<1> DEFINE s == x.vmas[t]
           R(f) == f = [n \in 0 .. Len(s) |-> IF n = 0 THEN x
                                             ELSE vm_area_remove(f[n - 1], t, s[n])]
           g == CHOOSE f : R(f)
           c == [n \in 1 .. Len(s) |-> [of |-> "remove", task |-> t, e |-> s[n]]]
<1>1. PICK f : Runs(f, x, c, Len(s))
  BY RunsExist
<1>2. vm_area_remove_all(x, t) = g[Len(s)]
  BY DEF vm_area_remove_all, Each
<1>3. ASSUME NEW n \in 1 .. Len(s), NEW y
      PROVE  Body(y, c[n]) = vm_area_remove(y, t, s[n])
  <2>1. c[n] = [of |-> "remove", task |-> t, e |-> s[n]]
    OBVIOUS
  <2> HIDE DEF c, s
  <2> QED
    BY <2>1 DEF Body
<1> HIDE DEF c, s
<1>4. R(f)
  <2>1. /\ f = [n \in 0 .. Len(s) |-> f[n]]
        /\ \A n \in 0 .. Len(s) : f[n] = IF n = 0 THEN x ELSE Body(f[n - 1], c[n])
    BY <1>1 DEF Runs
  <2>2. ASSUME NEW n \in 0 .. Len(s)
        PROVE  f[n] = IF n = 0 THEN x ELSE vm_area_remove(f[n - 1], t, s[n])
    <3>1. n # 0 => n \in 1 .. Len(s)
      BY DEF s
    <3>2. n # 0 => Body(f[n - 1], c[n]) = vm_area_remove(f[n - 1], t, s[n])
      BY <1>3, <3>1
    <3> QED
      BY <2>1, <3>2
  <2> QED
    BY <2>1, <2>2
<1>5. R(g)
  BY <1>4
<1> HIDE DEF g
<1>6. \A n \in 0 .. Len(s) : g[n] = IF n = 0 THEN x ELSE vm_area_remove(g[n - 1], t, s[n])
  BY <1>5
<1>7. \A n \in 1 .. Len(s) : g[n] = vm_area_remove(g[n - 1], t, s[n])
  BY <1>6 DEF s
<1>8. g[0] = x
  BY <1>6 DEF s
<1> QED
  BY <1>2, <1>7, <1>8 DEF s

\* The areas but the stack are removed.
LEMMA ExecLoop ==
  ASSUME NEW x, NEW t,
         Len(x.vmas[t]) \in Nat
  PROVE  \E f : /\ f[0] = x /\ vm_area_remove_taskvm(x, t) = f[Len(x.vmas[t])]
                /\ \A n \in 1 .. Len(x.vmas[t]) :
                     f[n] = RemoveUnlessStack(f[n - 1], t, x.vmas[t][n])
<1> DEFINE s == x.vmas[t]
           R(f) == f = [n \in 0 .. Len(s) |-> IF n = 0 THEN x
                                             ELSE RemoveUnlessStack(f[n - 1], t, s[n])]
           g == CHOOSE f : R(f)
           c == [n \in 1 .. Len(s) |-> [of |-> "exec", task |-> t, e |-> s[n]]]
<1>1. PICK f : Runs(f, x, c, Len(s))
  BY RunsExist
<1>2. vm_area_remove_taskvm(x, t) = g[Len(s)]
  BY DEF vm_area_remove_taskvm, Each
<1>3. ASSUME NEW n \in 1 .. Len(s), NEW y
      PROVE  Body(y, c[n]) = RemoveUnlessStack(y, t, s[n])
  <2>1. c[n] = [of |-> "exec", task |-> t, e |-> s[n]]
    OBVIOUS
  <2> HIDE DEF c, s
  <2> QED
    BY <2>1 DEF Body
<1> HIDE DEF c, s
<1>4. R(f)
  <2>1. /\ f = [n \in 0 .. Len(s) |-> f[n]]
        /\ \A n \in 0 .. Len(s) : f[n] = IF n = 0 THEN x ELSE Body(f[n - 1], c[n])
    BY <1>1 DEF Runs
  <2>2. ASSUME NEW n \in 0 .. Len(s)
        PROVE  f[n] = IF n = 0 THEN x ELSE RemoveUnlessStack(f[n - 1], t, s[n])
    <3>1. n # 0 => n \in 1 .. Len(s)
      BY DEF s
    <3>2. n # 0 => Body(f[n - 1], c[n]) = RemoveUnlessStack(f[n - 1], t, s[n])
      BY <1>3, <3>1
    <3> QED
      BY <2>1, <3>2
  <2> QED
    BY <2>1, <2>2
<1>5. R(g)
  BY <1>4
<1> HIDE DEF g
<1>6. \A n \in 0 .. Len(s) : g[n] = IF n = 0 THEN x ELSE RemoveUnlessStack(g[n - 1], t, s[n])
  BY <1>5
<1>7. \A n \in 1 .. Len(s) : g[n] = RemoveUnlessStack(g[n - 1], t, s[n])
  BY <1>6 DEF s
<1>8. g[0] = x
  BY <1>6 DEF s
<1> QED
  BY <1>2, <1>7, <1>8 DEF s

\* The areas a fault visits.
LEMMA FaultLoop ==
  ASSUME NEW x, NEW t, NEW page, NEW present \in BOOLEAN, Visited(x, t, page) # {},
         Len(x.vmas[t]) \in Nat
  PROVE  \E f : /\ f[0] = Ok(x) /\ HandleFault(x, t, page, present) = f[Len(x.vmas[t])]
                /\ \A n \in 1 .. Len(x.vmas[t]) :
                     f[n] = IF Failed(f[n - 1]) THEN f[n - 1]
                            ELSE Visit(f[n - 1], t, x.vmas[t][n], page, present)
<1> DEFINE s == x.vmas[t]
           R(f) == f = [n \in 0 .. Len(s) |-> IF n = 0 THEN Ok(x)
                                             ELSE IF Failed(f[n - 1]) THEN f[n - 1]
                                                  ELSE Visit(f[n - 1], t, s[n], page, present)]
           g == CHOOSE f : R(f)
           c == [n \in 1 .. Len(s) |-> [of |-> "fault", task |-> t, page |-> page, present |-> present, e |-> s[n]]]
<1>1. PICK f : Runs(f, Ok(x), c, Len(s))
  BY RunsExist
<1>2. HandleFault(x, t, page, present) = g[Len(s)]
  BY DEF HandleFault, Each, AndThen
<1>3. ASSUME NEW n \in 1 .. Len(s), NEW y
      PROVE  Body(y, c[n]) = IF Failed(y) THEN y ELSE Visit(y, t, s[n], page, present)
  <2>1. c[n] = [of |-> "fault", task |-> t, page |-> page, present |-> present, e |-> s[n]]
    OBVIOUS
  <2> HIDE DEF c, s
  <2> QED
    BY <2>1 DEF Body
<1> HIDE DEF c, s
<1>4. R(f)
  <2>1. /\ f = [n \in 0 .. Len(s) |-> f[n]]
        /\ \A n \in 0 .. Len(s) : f[n] = IF n = 0 THEN Ok(x) ELSE Body(f[n - 1], c[n])
    BY <1>1 DEF Runs
  <2>2. ASSUME NEW n \in 0 .. Len(s)
        PROVE  f[n] = IF n = 0 THEN Ok(x) ELSE IF Failed(f[n - 1]) THEN f[n - 1]
                                               ELSE Visit(f[n - 1], t, s[n], page, present)
    <3>1. n # 0 => n \in 1 .. Len(s)
      BY DEF s
    <3>2. n # 0 => Body(f[n - 1], c[n]) = IF Failed(f[n - 1]) THEN f[n - 1]
                                          ELSE Visit(f[n - 1], t, s[n], page, present)
      BY <1>3, <3>1
    <3> QED
      BY <2>1, <3>2
  <2> QED
    BY <2>1, <2>2
<1>5. R(g)
  BY <1>4
<1> HIDE DEF g
<1>6. \A n \in 0 .. Len(s) : g[n] = IF n = 0 THEN Ok(x) ELSE IF Failed(g[n - 1]) THEN g[n - 1]
                                                             ELSE Visit(g[n - 1], t, s[n], page, present)
  BY <1>5
<1>7. \A n \in 1 .. Len(s) : g[n] = IF Failed(g[n - 1]) THEN g[n - 1]
                                    ELSE Visit(g[n - 1], t, s[n], page, present)
  BY <1>6 DEF s
<1>8. g[0] = Ok(x)
  BY <1>6 DEF s
<1> QED
  BY <1>2, <1>7, <1>8 DEF s

\* Areas are made.
LEMMA LoadLoop ==
  ASSUME NEW x, NEW t, NEW s,
         Len(s) \in Nat
  PROVE  \E f : LoadRun(f, x, t, s, Len(s))
<1> DEFINE R(f) == f = [n \in 0 .. Len(s) |-> IF n = 0 THEN Ok(x)
                                             ELSE IF Failed(f[n - 1]) THEN f[n - 1]
                                                  ELSE vm_area_alloc(f[n - 1], t, s[n])]
           g == CHOOSE f : R(f)
           c == [n \in 1 .. Len(s) |-> [of |-> "load", task |-> t, e |-> s[n]]]
<1>1. PICK f : Runs(f, Ok(x), c, Len(s))
  BY RunsExist
<1>2. AllocAreas(x, t, s) = g[Len(s)]
  BY DEF AllocAreas, Each, AndThen
<1>3. ASSUME NEW n \in 1 .. Len(s), NEW y
      PROVE  Body(y, c[n]) = IF Failed(y) THEN y ELSE vm_area_alloc(y, t, s[n])
  <2>1. c[n] = [of |-> "load", task |-> t, e |-> s[n]]
    OBVIOUS
  <2> HIDE DEF c
  <2> QED
    BY <2>1 DEF Body
<1> HIDE DEF c
<1>4. R(f)
  <2>1. /\ f = [n \in 0 .. Len(s) |-> f[n]]
        /\ \A n \in 0 .. Len(s) : f[n] = IF n = 0 THEN Ok(x) ELSE Body(f[n - 1], c[n])
    BY <1>1 DEF Runs
  <2>2. ASSUME NEW n \in 0 .. Len(s)
        PROVE  f[n] = IF n = 0 THEN Ok(x) ELSE IF Failed(f[n - 1]) THEN f[n - 1]
                                               ELSE vm_area_alloc(f[n - 1], t, s[n])
    <3>1. n # 0 => n \in 1 .. Len(s)
      OBVIOUS
    <3>2. n # 0 => Body(f[n - 1], c[n]) = IF Failed(f[n - 1]) THEN f[n - 1]
                                          ELSE vm_area_alloc(f[n - 1], t, s[n])
      BY <1>3, <3>1
    <3> QED
      BY <2>1, <3>2
  <2> QED
    BY <2>1, <2>2
<1>5. R(g)
  BY <1>4
<1> HIDE DEF g
<1>6. \A n \in 0 .. Len(s) : g[n] = IF n = 0 THEN Ok(x) ELSE IF Failed(g[n - 1]) THEN g[n - 1]
                                                             ELSE vm_area_alloc(g[n - 1], t, s[n])
  BY <1>5
<1>7. \A n \in 1 .. Len(s) : g[n] = IF Failed(g[n - 1]) THEN g[n - 1]
                                    ELSE vm_area_alloc(g[n - 1], t, s[n])
  BY <1>6
<1>8. g[0] = Ok(x)
  BY <1>6
<1>9. LoadRun(g, x, t, s, Len(s))
  BY <1>2, <1>7, <1>8 DEF LoadRun
<1> QED
  BY <1>9

\* The areas of a task are copied.
LEMMA ForkLoop ==
  ASSUME NEW x, NEW t, NEW src, NEW s,
         Len(s) \in Nat
  PROVE  \E f : /\ f[0] = Ok(x) /\ CopyAreas(x, t, src, s) = f[Len(s)]
                /\ \A n \in 1 .. Len(s) :
                     f[n] = IF Failed(f[n - 1]) THEN f[n - 1]
                            ELSE vm_area_init_copy(f[n - 1], t, src, s[n])
<1> DEFINE R(f) == f = [n \in 0 .. Len(s) |-> IF n = 0 THEN Ok(x)
                                             ELSE IF Failed(f[n - 1]) THEN f[n - 1]
                                                  ELSE vm_area_init_copy(f[n - 1], t, src, s[n])]
           g == CHOOSE f : R(f)
           c == [n \in 1 .. Len(s) |-> [of |-> "fork", task |-> t, src |-> src, e |-> s[n]]]
<1>1. PICK f : Runs(f, Ok(x), c, Len(s))
  BY RunsExist
<1>2. CopyAreas(x, t, src, s) = g[Len(s)]
  BY DEF CopyAreas, Each, AndThen
<1>3. ASSUME NEW n \in 1 .. Len(s), NEW y
      PROVE  Body(y, c[n]) = IF Failed(y) THEN y ELSE vm_area_init_copy(y, t, src, s[n])
  <2>1. c[n] = [of |-> "fork", task |-> t, src |-> src, e |-> s[n]]
    OBVIOUS
  <2> HIDE DEF c
  <2> QED
    BY <2>1 DEF Body
<1> HIDE DEF c
<1>4. R(f)
  <2>1. /\ f = [n \in 0 .. Len(s) |-> f[n]]
        /\ \A n \in 0 .. Len(s) : f[n] = IF n = 0 THEN Ok(x) ELSE Body(f[n - 1], c[n])
    BY <1>1 DEF Runs
  <2>2. ASSUME NEW n \in 0 .. Len(s)
        PROVE  f[n] = IF n = 0 THEN Ok(x) ELSE IF Failed(f[n - 1]) THEN f[n - 1]
                                               ELSE vm_area_init_copy(f[n - 1], t, src, s[n])
    <3>1. n # 0 => n \in 1 .. Len(s)
      OBVIOUS
    <3>2. n # 0 => Body(f[n - 1], c[n]) = IF Failed(f[n - 1]) THEN f[n - 1]
                                          ELSE vm_area_init_copy(f[n - 1], t, src, s[n])
      BY <1>3, <3>1
    <3> QED
      BY <2>1, <3>2
  <2> QED
    BY <2>1, <2>2
<1>5. R(g)
  BY <1>4
<1> HIDE DEF g
<1>6. \A n \in 0 .. Len(s) : g[n] = IF n = 0 THEN Ok(x) ELSE IF Failed(g[n - 1]) THEN g[n - 1]
                                                             ELSE vm_area_init_copy(g[n - 1], t, src, s[n])
  BY <1>5
<1>7. \A n \in 1 .. Len(s) : g[n] = IF Failed(g[n - 1]) THEN g[n - 1]
                                    ELSE vm_area_init_copy(g[n - 1], t, src, s[n])
  BY <1>6
<1>8. g[0] = Ok(x)
  BY <1>6
<1> QED
  BY <1>2, <1>7, <1>8

-----------------------------------------------------------------------------
(* What every operation on the memory keeps *)

Fields == {"rc", "panicked", "strayed", "queue", "cr3", "ram", "high", "misplaced", "readonly",
           "pgdir", "kstack", "vmas", "state", "stuck", "spoiled"}

IsMem(x) ==
  /\ DOMAIN x = Fields
  /\ x.panicked \in BOOLEAN
  /\ \E S : x.queue \in Seq(S)
  /\ DOMAIN x.pgdir = Task
  /\ x.vmas \in [Task -> Seq(UserArea)]

Keeps(x, y) ==
  /\ y.pgdir = x.pgdir /\ y.state = x.state /\ y.cr3 = x.cr3 /\ y.high = x.high

Shape(x, y) == IsMem(x) => IsMem(y) /\ (x.panicked => y.panicked) /\ Keeps(x, y)

\* What holds between the steps.
Fine(x) == IsMem(x) /\ Good(x) /\ Lives(x) /\ InUseOK(x)

\* From a good memory comes a good one, for the tasks of T that have a
\* directory, unless the machine stops.
Does(x, y, T) ==
  /\ Shape(x, y)
  /\ IsMem(x) /\ ~y.panicked /\ Good(x) /\ (\A t \in T : x.pgdir[t] # NULL) => Good(y)

\* Shape is kept by one change after another.
LEMMA ShapeChain ==
  ASSUME NEW x, NEW y, NEW z, Shape(x, y), Shape(y, z)
  PROVE  Shape(x, z)
BY DEF Shape, Keeps

\* What two changes to the memory of tasks T do is such a change.
LEMMA DoesChain ==
  ASSUME NEW x, NEW y, NEW z, NEW T, Does(x, y, T), Does(y, z, T)
  PROVE  Does(x, z, T)
<1>1. Shape(x, z)
  BY ShapeChain DEF Does
<1>2. ASSUME IsMem(x), ~z.panicked, Good(x), \A t \in T : x.pgdir[t] # NULL
      PROVE  Good(z)
  <2>1. IsMem(y) /\ y.pgdir = x.pgdir /\ ~y.panicked
    BY <1>2 DEF Does, Shape, Keeps
  <2>2. Good(y)
    BY <1>2, <2>1 DEF Does
  <2> QED
    BY <1>2, <2>1, <2>2 DEF Does
<1> QED
  BY <1>1, <1>2 DEF Does

\* A loop does what its body does.
LEMMA DoesLoop ==
  ASSUME NEW f, NEW N \in Nat, NEW T, \A n \in 1 .. N : Does(f[n - 1], f[n], T)
  PROVE  Does(f[0], f[N], T)
<1> DEFINE S == {n \in Nat : n <= N => Does(f[0], f[n], T)}
<1>1. 0 \in S
  BY DEF Does, Shape, Keeps
<1>2. ASSUME NEW n \in Nat, n \in S
      PROVE  n + 1 \in S
  <2> SUFFICES ASSUME n + 1 <= N PROVE Does(f[0], f[n + 1], T)
    OBVIOUS
  <2>1. n <= N /\ n + 1 \in 1 .. N /\ (n + 1) - 1 = n
    OBVIOUS
  <2>2. Does(f[0], f[n], T)
    BY <1>2, <2>1
  <2>3. Does(f[n], f[n + 1], T)
    BY <2>1
  <2> QED
    BY <2>2, <2>3, DoesChain
<1> HIDE DEF S
<1>3. \A n \in Nat : n \in S
  BY <1>1, <1>2, AllNumbers
<1>4. N \in S
  BY <1>3
<1> QED
  BY <1>4 DEF S

\* A loop keeps the shape its steps keep.
LEMMA ShapeLoop ==
  ASSUME NEW f, NEW N \in Nat, \A n \in 1 .. N : Shape(f[n - 1], f[n])
  PROVE  Shape(f[0], f[N])
<1> DEFINE S == {n \in Nat : n <= N => Shape(f[0], f[n])}
<1>1. 0 \in S
  BY DEF Shape, Keeps
<1>2. ASSUME NEW n \in Nat, n \in S
      PROVE  n + 1 \in S
  <2> SUFFICES ASSUME n + 1 <= N PROVE Shape(f[0], f[n + 1])
    OBVIOUS
  <2>1. n <= N /\ n + 1 \in 1 .. N /\ (n + 1) - 1 = n
    OBVIOUS
  <2>2. Shape(f[0], f[n])
    BY <1>2, <2>1
  <2>3. Shape(f[n], f[n + 1])
    BY <2>1
  <2> QED
    BY <2>2, <2>3, ShapeChain
<1> HIDE DEF S
<1>3. \A n \in Nat : n \in S
  BY <1>1, <1>2, AllNumbers
<1>4. N \in S
  BY <1>3
<1> QED
  BY <1>4 DEF S

\* What is said of a memory is said of its frames, its queue, its directories
\* and rights.
Same(x, y) ==
  /\ y.ram = x.ram /\ y.queue = x.queue /\ y.readonly = x.readonly /\ y.pgdir = x.pgdir

\* Good says nothing of other parts of memory.
LEMMA SameIsGood ==
  ASSUME NEW x, NEW y, Same(x, y)
  PROVE  /\ EntriesOK(y) <=> EntriesOK(x)
         /\ TablesOK(y) <=> TablesOK(x)
<1>1. RamOK(y) <=> RamOK(x)
  BY DEF Same, RamOK, Role
<1>2. QueueOK(y) <=> QueueOK(x)
  BY DEF Same, QueueOK, IsUpdate, Role
<1>3. PagesOK(y) <=> PagesOK(x)
  BY DEF Same, PagesOK, Points, Waits, Holds, Role, Word
<1>4. TablesOK(y) <=> TablesOK(x)
  BY DEF Same, TablesOK, DirectoriesOK, NamesOK, RightsOK, Names, Role, Word
<1> QED
  BY <1>1, <1>2, <1>3, <1>4 DEF EntriesOK

\* The return value 0 changes nothing else.
LEMMA OkIs ==
  ASSUME NEW x, NEW T
  PROVE  Does(x, Ok(x), T) /\ (IsMem(x) => Same(x, Ok(x)) /\ Ok(x).panicked = x.panicked)
<1>1. Shape(x, Ok(x)) /\ (IsMem(x) => Same(x, Ok(x)) /\ Ok(x).panicked = x.panicked)
  BY DEF Shape, IsMem, Keeps, Ok, Same, Fields
<1> QED
  BY <1>1, SameIsGood DEF Does, Good

\* A negative return value changes nothing else.
LEMMA FailIs ==
  ASSUME NEW x, NEW T
  PROVE  Does(x, Fail(x), T)
<1>1. Shape(x, Fail(x)) /\ (IsMem(x) => Same(x, Fail(x)))
  BY DEF Shape, IsMem, Keeps, Fail, Same, Fields
<1> QED
  BY <1>1, SameIsGood DEF Does, Good

-----------------------------------------------------------------------------
(* Updates *)

\* Only the words of tables differ.
Moved(x, y) ==
  /\ IsMem(y) /\ Keeps(x, y) /\ y.panicked = x.panicked /\ y.rc = x.rc /\ y.readonly = x.readonly
  /\ RamOK(y)
  /\ \A f \in LowFrame : /\ Role(y, f) = Role(x, f)
                         /\ Role(x, f) # "table" => y.ram[f] = x.ram[f]

\* Only the queue differs.
Alike(x, y) ==
  /\ IsMem(x) => IsMem(y)
  /\ Keeps(x, y) /\ y.panicked = x.panicked /\ y.rc = x.rc /\ y.readonly = x.readonly
  /\ y.ram = x.ram

\* The table f holds the frame g, or one of the first n updates puts it there.
Made(x, n, f, s, g) ==
  \/ Holds(x, f, s, g)
  \/ \E i \in 1 .. n : x.queue[i].frame = f /\ x.queue[i].slot = s /\ x.queue[i].val.frame = g

\* An update of any kind leaves memory in shape.
LEMMA ApplyShape ==
  ASSUME NEW x, NEW u, IsMem(x)
  PROVE  /\ Shape(x, Apply(x, u)) /\ Apply(x, u).queue = x.queue /\ Apply(x, u).rc = x.rc
<1> DEFINE y == Apply(x, u)
<1>1. \/ y = [x EXCEPT !.panicked = TRUE]
      \/ y = [x EXCEPT !.readonly = @ \ {u.frame}]
      \/ y = [x EXCEPT !.readonly = @ \cup {u.frame}]
      \/ y = [x EXCEPT !.ram[u.frame].word[u.slot] = u.val]
      \/ y = [x EXCEPT !.strayed = TRUE]
  BY DEF Apply
<1> HIDE DEF y
<1> QED
  BY <1>1 DEF y, Shape, IsMem, Keeps, Fields

\* The update of an entry of a table changes that entry.
LEMMA ApplyTable ==
  ASSUME NEW x, NEW u, IsMem(x), ~x.panicked, RamOK(x), IsUpdate(x, u)
  PROVE  /\ Moved(x, Apply(x, u)) /\ Apply(x, u).queue = x.queue
         /\ Word(Apply(x, u), u.frame, u.slot) = u.val
         /\ \A f \in LowFrame, s \in Slot :
              Role(x, f) = "table" /\ ~(f = u.frame /\ s = u.slot)
                => Word(Apply(x, u), f, s) = Word(x, f, s)
<1> DEFINE y == Apply(x, u)
<1>1. y = [x EXCEPT !.ram[u.frame].word[u.slot] = u.val]
  BY DEF Apply, Refused, IsUpdate, Role
<1>2. DOMAIN x.ram = LowFrame /\ u.frame \in LowFrame /\ Role(x, u.frame) = "table"
      /\ u.slot \in Slot /\ u.val \in Pte
  BY DEF RamOK, IsUpdate
<1>3. \A f \in LowFrame : /\ DOMAIN x.ram[f] = {"role", "word"}
                          /\ Role(x, f) = "table" => x.ram[f].word \in [Slot -> Pte]
  BY DEF RamOK
<1> HIDE DEF y
<1>4. IsMem(y) /\ Keeps(x, y) /\ y.queue = x.queue
  BY ApplyShape DEF y, Shape
<1>5. y.panicked = x.panicked /\ y.rc = x.rc /\ y.readonly = x.readonly /\ DOMAIN y.ram = LowFrame
  BY <1>1, <1>2 DEF IsMem, Fields
<1>6. ASSUME NEW f \in LowFrame
      PROVE  y.ram[f] = IF f = u.frame
                        THEN [x.ram[f] EXCEPT !.word = [@ EXCEPT ![u.slot] = u.val]]
                        ELSE x.ram[f]
  BY <1>1, <1>2 DEF IsMem, Fields
<1>7. \A f \in LowFrame : /\ Role(y, f) = Role(x, f) /\ DOMAIN y.ram[f] = {"role", "word"}
                          /\ Role(x, f) # "table" => y.ram[f] = x.ram[f]
  BY <1>2, <1>3, <1>6 DEF Role
<1>8. y.ram[u.frame].word = [x.ram[u.frame].word EXCEPT ![u.slot] = u.val]
  BY <1>2, <1>3, <1>6
<1>9. x.ram[u.frame].word \in [Slot -> Pte]
  BY <1>2, <1>3
<1>10. y.ram[u.frame].word \in [Slot -> Pte] /\ y.ram[u.frame].word[u.slot] = u.val
  BY <1>2, <1>8, <1>9
<1>11. \A s \in Slot : s # u.slot => y.ram[u.frame].word[s] = x.ram[u.frame].word[s]
  BY <1>2, <1>8, <1>9
<1>12. RamOK(y)
  BY <1>5, <1>6, <1>7, <1>10 DEF RamOK, Role
<1>13. \A f \in LowFrame, s \in Slot :
         Role(x, f) = "table" /\ ~(f = u.frame /\ s = u.slot) => Word(y, f, s) = Word(x, f, s)
  BY <1>6, <1>11 DEF Word
<1> QED
  BY <1>4, <1>5, <1>7, <1>10, <1>12, <1>13 DEF Moved, Word, y

\* Updates of tables, one after the other.
LEMMA ApplyPrefix ==
  ASSUME NEW x, IsMem(x), ~x.panicked, RamOK(x), NEW N \in Nat,
         \A i \in 1 .. N : IsUpdate(x, x.queue[i]),
         NEW h, h[0] = x, \A n \in 1 .. N : h[n] = Apply(h[n - 1], x.queue[n])
  PROVE  /\ Moved(x, h[N]) /\ h[N].queue = x.queue
         /\ \A f \in LowFrame, s \in Slot, g \in LowFrame : Holds(h[N], f, s, g) => Made(x, N, f, s, g)
<1> DEFINE Is(n) == /\ Moved(x, h[n]) /\ h[n].queue = x.queue
                    /\ \A f \in LowFrame, s \in Slot, g \in LowFrame :
                         Holds(h[n], f, s, g) => Made(x, n, f, s, g)
           S == {n \in Nat : n <= N => Is(n)}
<1>1. 0 \in S
  BY DEF Moved, Keeps, Made
<1>2. ASSUME NEW n \in Nat, n \in S
      PROVE  n + 1 \in S
  <2> SUFFICES ASSUME n + 1 <= N PROVE Is(n + 1)
    OBVIOUS
  <2>1. n <= N /\ n + 1 \in 1 .. N /\ (n + 1) - 1 = n
    OBVIOUS
  <2> DEFINE y == h[n]
             z == h[n + 1]
             u == x.queue[n + 1]
  <2>2. Is(n)
    BY <1>2, <2>1
  <2>3. z = Apply(y, u) /\ IsUpdate(x, u)
    BY <2>1
  <2>4. IsMem(y) /\ ~y.panicked /\ RamOK(y) /\ IsUpdate(y, u) /\ y.queue = x.queue
    BY <2>2, <2>3 DEF Moved, IsUpdate
  <2>5. /\ Moved(y, z) /\ z.queue = y.queue
        /\ Word(z, u.frame, u.slot) = u.val
        /\ \A f \in LowFrame, s \in Slot :
              Role(y, f) = "table" /\ ~(f = u.frame /\ s = u.slot) => Word(z, f, s) = Word(y, f, s)
    BY <2>3, <2>4, ApplyTable
  <2>6. Moved(x, z)
    BY <2>2, <2>5 DEF Moved, Keeps
  <2>7. ASSUME NEW f \in LowFrame, NEW s \in Slot, NEW g \in LowFrame, Holds(z, f, s, g)
        PROVE  Made(x, n + 1, f, s, g)
    <3>1. Role(y, f) = "table" /\ Word(z, f, s).frame = g
      BY <2>5, <2>7 DEF Holds, Moved
    <3>2. CASE f = u.frame /\ s = u.slot
      <4>1. n + 1 \in 1 .. n + 1 /\ u.val.frame = g
        BY <2>5, <3>1, <3>2
      <4> QED
        BY <3>2, <4>1 DEF Made
    <3>3. CASE ~(f = u.frame /\ s = u.slot)
      <4>1. Holds(y, f, s, g)
        BY <2>5, <3>1, <3>3 DEF Holds
      <4>2. Made(x, n, f, s, g)
        BY <2>2, <4>1
      <4>3. \A i \in 1 .. n : i \in 1 .. n + 1
        OBVIOUS
      <4> QED
        BY <4>2, <4>3 DEF Made
    <3> QED
      BY <3>2, <3>3
  <2> QED
    BY <2>2, <2>4, <2>5, <2>6, <2>7
<1> HIDE DEF S
<1>3. \A n \in Nat : n \in S
  BY <1>1, <1>2, AllNumbers
<1>4. N \in S
  BY <1>3
<1> QED
  BY <1>4 DEF S

\* Flushing leaves no update waiting.
LEMMA FlushShape ==
  ASSUME NEW x, IsMem(x)
  PROVE  /\ Shape(x, vmm_flush_mmu_update_queue(x)) /\ vmm_flush_mmu_update_queue(x).queue = <<>>
         /\ vmm_flush_mmu_update_queue(x).rc = x.rc
<1> DEFINE N == Len(x.queue)
           y == vmm_flush_mmu_update_queue(x)
<1>1. N \in Nat
  BY DEF IsMem
<1>0. PICK h : ApplyRun(h, x, x.queue, N)
  BY <1>1, ApplyLoop
<1>2. /\ h[0] = x /\ Applied(x, x.queue) = h[N]
      /\ \A n \in 1 .. N : h[n] = Apply(h[n - 1], x.queue[n])
  BY <1>0 DEF ApplyRun
<1> DEFINE S == {n \in Nat : n <= N => Shape(x, h[n]) /\ h[n].rc = x.rc}
<1>3. 0 \in S
  BY <1>2 DEF Shape, Keeps
<1>4. ASSUME NEW n \in Nat, n \in S
      PROVE  n + 1 \in S
  <2> SUFFICES ASSUME n + 1 <= N PROVE Shape(x, h[n + 1]) /\ h[n + 1].rc = x.rc
    OBVIOUS
  <2>1. n <= N /\ n + 1 \in 1 .. N /\ (n + 1) - 1 = n
    BY <1>1
  <2>2. Shape(x, h[n]) /\ h[n].rc = x.rc
    BY <1>4, <2>1
  <2>3. h[n + 1] = Apply(h[n], x.queue[n + 1])
    BY <1>2, <2>1
  <2>4. Shape(h[n], h[n + 1]) /\ h[n + 1].rc = h[n].rc
    BY <2>2, <2>3, ApplyShape DEF Shape
  <2> QED
    BY <2>2, <2>4, ShapeChain
<1> HIDE DEF S
<1>5. \A n \in Nat : n \in S
  BY <1>3, <1>4, AllNumbers
<1>6. N \in S
  BY <1>1, <1>5
<1>7. Shape(x, h[N]) /\ h[N].rc = x.rc
  BY <1>1, <1>6 DEF S
<1>8. y = [h[N] EXCEPT !.queue = <<>>]
  BY <1>2, FlushApplies
<1>9. IsMem(h[N])
  BY <1>7 DEF Shape
<1> HIDE DEF N, y
<1>10. Shape(h[N], y) /\ y.queue = <<>> /\ y.rc = h[N].rc
  BY <1>8, <1>9 DEF Shape, IsMem, Keeps, Fields
<1>11. Shape(x, y)
  BY <1>7, <1>10, ShapeChain
<1> QED
  BY <1>7, <1>10, <1>11 DEF y

\* The updates of tables that wait are made, and nothing else.
LEMMA FlushIs ==
  ASSUME NEW x, IsMem(x), ~x.panicked, RamOK(x), QueueOK(x)
  PROVE  /\ Moved(x, vmm_flush_mmu_update_queue(x)) /\ vmm_flush_mmu_update_queue(x).queue = <<>>
         /\ \A f \in LowFrame, s \in Slot, g \in LowFrame :
              Holds(vmm_flush_mmu_update_queue(x), f, s, g) => Points(x, f, s, g)
<1> DEFINE N == Len(x.queue)
           y == vmm_flush_mmu_update_queue(x)
<1>1. N \in Nat /\ DOMAIN x.queue = 1 .. N
  BY DEF IsMem
<1>0. PICK h : ApplyRun(h, x, x.queue, N)
  BY <1>1, ApplyLoop
<1>2. /\ h[0] = x /\ Applied(x, x.queue) = h[N]
      /\ \A n \in 1 .. N : h[n] = Apply(h[n - 1], x.queue[n])
  BY <1>0 DEF ApplyRun
<1>3. \A i \in 1 .. N : IsUpdate(x, x.queue[i])
  BY <1>1 DEF QueueOK
<1> HIDE DEF N
<1>4. /\ Moved(x, h[N])
      /\ \A f \in LowFrame, s \in Slot, g \in LowFrame : Holds(h[N], f, s, g) => Made(x, N, f, s, g)
  BY <1>1, <1>2, <1>3, ApplyPrefix
<1>5. y = [h[N] EXCEPT !.queue = <<>>]
  BY <1>2, FlushApplies DEF N
<1> HIDE DEF y
<1>6. IsMem(h[N])
  BY <1>4 DEF Moved
<1>7. Alike(h[N], y) /\ y.queue = <<>>
  BY <1>5, <1>6 DEF Alike, IsMem, Keeps, Fields
<1>8. Moved(x, y)
  BY <1>4, <1>7 DEF Moved, Alike, Keeps, RamOK, Role
<1>9. \A f, s, g : Holds(y, f, s, g) <=> Holds(h[N], f, s, g)
  BY <1>7 DEF Alike, Holds, Role, Word
<1>10. \A f, s, g : Made(x, N, f, s, g) => Points(x, f, s, g)
  BY <1>1 DEF Made, Points, Waits
<1> QED
  BY <1>4, <1>7, <1>8, <1>9, <1>10 DEF y

\* Nothing waits: nothing is done.
LEMMA FlushEmpty ==
  ASSUME NEW x, IsMem(x), x.queue = <<>>
  PROVE  Alike(x, vmm_flush_mmu_update_queue(x))
<1>0. PICK h : ApplyRun(h, x, x.queue, 0)
  BY ApplyLoop
<1>1. h[0] = x /\ Applied(x, x.queue) = h[Len(x.queue)]
  BY <1>0 DEF ApplyRun
<1>2. vmm_flush_mmu_update_queue(x) = [x EXCEPT !.queue = <<>>]
  BY <1>1, FlushApplies
<1> QED
  BY <1>2 DEF Alike, IsMem, Keeps, Fields

\* An update waits, or the queue is full and is flushed.
LEMMA QueueShape ==
  ASSUME NEW x, NEW u, IsMem(x)
  PROVE  Shape(x, vmm_queue_mmu_update(x, u)) /\ vmm_queue_mmu_update(x, u).rc = x.rc
<1> DEFINE z == [x EXCEPT !.queue = Append(@, u)]
<1>1. Shape(x, z) /\ IsMem(z) /\ z.rc = x.rc
  <2>1. PICK A : x.queue \in Seq(A)
    BY DEF IsMem
  <2>2. Append(x.queue, u) \in Seq(A \cup {u})
    BY <2>1
  <2> QED
    BY <2>2 DEF Shape, IsMem, Keeps, Fields
<1>2. vmm_queue_mmu_update(x, u) \in {z, vmm_flush_mmu_update_queue(z)}
  BY DEF vmm_queue_mmu_update, FlushFull
<1> HIDE DEF z
<1> QED
  BY <1>1, <1>2, FlushShape, ShapeChain

\* An update queued after those that wait is made after them.
LEMMA QueuedIs ==
  ASSUME NEW x, NEW u, IsMem(x), ~x.panicked, RamOK(x), QueueOK(x)
  PROVE  \E z : /\ Moved(x, z)
                /\ \A f \in LowFrame, s \in Slot, g \in LowFrame : Holds(z, f, s, g) => Points(x, f, s, g)
                /\ Alike(Apply(z, u), vmm_flush_mmu_update_queue([x EXCEPT !.queue = Append(@, u)]))
<1> DEFINE N == Len(x.queue)
           q == Append(x.queue, u)
           a == [x EXCEPT !.queue = q]
           y == vmm_flush_mmu_update_queue(a)
<1>1. /\ N \in Nat /\ DOMAIN x.queue = 1 .. N /\ Len(q) = N + 1 /\ q[N + 1] = u
      /\ \A i \in 1 .. N : q[i] = x.queue[i]
      /\ \E A : q \in Seq(A)
  <2>1. PICK A : x.queue \in Seq(A)
    BY DEF IsMem
  <2>2. q \in Seq(A \cup {u})
    BY <2>1
  <2> QED
    BY <2>1, <2>2
<1>2. Alike(x, a) /\ IsMem(a) /\ a.queue = q
  BY <1>1 DEF Alike, IsMem, Keeps, Fields
<1> HIDE DEF N, q, a
<1>3. N + 1 \in Nat /\ N + 1 \in 1 .. N + 1 /\ (N + 1) - 1 = N
      /\ \A i \in 1 .. N : i \in 1 .. N + 1
  BY <1>1
<1>0. PICK h : ApplyRun(h, a, q, N + 1)
  BY <1>1, <1>3, ApplyLoop
<1>4. /\ h[0] = a /\ Applied(a, q) = h[N + 1]
      /\ \A n \in 1 .. N + 1 : h[n] = Apply(h[n - 1], q[n])
  BY <1>0 DEF ApplyRun
<1>5. \A i \in 1 .. N : IsUpdate(a, a.queue[i])
  BY <1>1, <1>2 DEF QueueOK, IsUpdate, Alike, Role
<1>6. ~a.panicked /\ RamOK(a)
  BY <1>2 DEF Alike, RamOK, Role
<1>7. /\ Moved(a, h[N])
      /\ \A f \in LowFrame, s \in Slot, g \in LowFrame : Holds(h[N], f, s, g) => Made(a, N, f, s, g)
  BY <1>1, <1>2, <1>3, <1>4, <1>5, <1>6, ApplyPrefix
<1>8. h[N + 1] = Apply(h[N], u)
  BY <1>1, <1>3, <1>4
<1>9. y = [h[N + 1] EXCEPT !.queue = <<>>]
  BY <1>2, <1>4, FlushApplies
<1> HIDE DEF y
<1>10. IsMem(h[N + 1])
  BY <1>7, <1>8, ApplyShape DEF Moved, Shape
<1>11. Alike(Apply(h[N], u), y)
  BY <1>8, <1>9, <1>10 DEF Alike, IsMem, Keeps, Fields
<1>12. Moved(x, h[N])
  BY <1>2, <1>7 DEF Moved, Alike, Keeps, Role
<1>13. ASSUME NEW f \in LowFrame, NEW s \in Slot, NEW g \in LowFrame, Holds(h[N], f, s, g)
       PROVE  Points(x, f, s, g)
  <2>1. Made(a, N, f, s, g)
    BY <1>7, <1>13
  <2>2. Holds(a, f, s, g) <=> Holds(x, f, s, g)
    BY <1>2 DEF Alike, Holds, Role, Word
  <2> QED
    BY <1>1, <1>2, <2>1, <2>2 DEF Made, Points, Waits
<1> QED
  BY <1>11, <1>12, <1>13 DEF y, a, q

\* Memories that differ only in what waits.
LEMMA AlikeChain ==
  ASSUME NEW x, NEW y, NEW z, Alike(x, y), Alike(y, z)
  PROVE  Alike(x, z)
BY DEF Alike, Keeps

\* A queue with one more update is flushed then and there or on demand.
LEMMA FlushQueued ==
  ASSUME NEW x, NEW u, IsMem(x)
  PROVE  LET a == [x EXCEPT !.queue = Append(@, u)]
             y == vmm_queue_mmu_update(x, u)
         IN  /\ IsMem(a) /\ Alike(x, a) /\ a.queue = Append(x.queue, u)
             /\ y = a \/ y = vmm_flush_mmu_update_queue(a)
             /\ Alike(vmm_flush_mmu_update_queue(a), vmm_flush_mmu_update_queue(y))
             /\ vmm_flush_mmu_update_queue(y).queue = <<>>
<1> DEFINE a == [x EXCEPT !.queue = Append(@, u)]
           y == vmm_queue_mmu_update(x, u)
<1>1. IsMem(a) /\ Alike(x, a) /\ a.queue = Append(x.queue, u)
  <2>1. PICK A : x.queue \in Seq(A)
    BY DEF IsMem
  <2>2. Append(x.queue, u) \in Seq(A \cup {u})
    BY <2>1
  <2> QED
    BY <2>2 DEF Alike, IsMem, Keeps, Fields
<1>2. y = a \/ y = vmm_flush_mmu_update_queue(a)
  BY DEF vmm_queue_mmu_update, FlushFull
<1> HIDE DEF a, y
<1>3. IsMem(vmm_flush_mmu_update_queue(a)) /\ vmm_flush_mmu_update_queue(a).queue = <<>>
  BY <1>1, FlushShape DEF Shape
<1>4. Alike(vmm_flush_mmu_update_queue(a), vmm_flush_mmu_update_queue(y))
      /\ vmm_flush_mmu_update_queue(y).queue = <<>>
  <2>1. CASE y = a
    BY <1>3, <2>1 DEF Alike, Keeps
  <2>2. CASE y = vmm_flush_mmu_update_queue(a)
    BY <1>3, <2>2, FlushEmpty, FlushShape
  <2> QED
    BY <1>2, <2>1, <2>2
<1> QED
  BY <1>1, <1>2, <1>4 DEF a, y

\* After entries of tables moved, what waits does not matter.
LEMMA MovedAlike ==
  ASSUME NEW x, NEW y, NEW z, Moved(x, y), Alike(y, z)
  PROVE  Moved(x, z) /\ \A f, s, g : Holds(z, f, s, g) <=> Holds(y, f, s, g)
BY DEF Moved, Alike, Keeps, RamOK, Role, Holds, Word

\* Before entries of tables moved, what waits does not matter.
LEMMA AlikeMoved ==
  ASSUME NEW x, NEW y, NEW z, Alike(x, y), Moved(y, z)
  PROVE  Moved(x, z)
BY DEF Moved, Alike, Keeps, RamOK, Role

\* Entries of tables move once and again.
LEMMA MovedChain ==
  ASSUME NEW x, NEW y, NEW z, Moved(x, y), Moved(y, z)
  PROVE  Moved(x, z)
BY DEF Moved, Keeps

\* An entry queued and made.
LEMMA EntryMade ==
  ASSUME NEW x, NEW u, IsMem(x), ~x.panicked, RamOK(x), QueueOK(x), IsUpdate(x, u),
         NEW y, Alike(vmm_flush_mmu_update_queue([x EXCEPT !.queue = Append(@, u)]), y)
  PROVE  /\ Moved(x, y) /\ Word(y, u.frame, u.slot) = u.val
         /\ \A f \in LowFrame, s \in Slot, g \in LowFrame :
              Holds(y, f, s, g) /\ ~(f = u.frame /\ s = u.slot) => Points(x, f, s, g)
<1>1. PICK z : /\ Moved(x, z)
               /\ \A f \in LowFrame, s \in Slot, g \in LowFrame : Holds(z, f, s, g) => Points(x, f, s, g)
               /\ Alike(Apply(z, u), vmm_flush_mmu_update_queue([x EXCEPT !.queue = Append(@, u)]))
  BY QueuedIs
<1> DEFINE w == Apply(z, u)
<1>2. Alike(w, y)
  BY <1>1, AlikeChain
<1>3. IsMem(z) /\ ~z.panicked /\ RamOK(z) /\ IsUpdate(z, u)
  BY <1>1 DEF Moved, IsUpdate
<1>4. /\ Moved(z, w) /\ Word(w, u.frame, u.slot) = u.val
      /\ \A f \in LowFrame, s \in Slot :
           Role(z, f) = "table" /\ ~(f = u.frame /\ s = u.slot) => Word(w, f, s) = Word(z, f, s)
  BY <1>3, ApplyTable
<1> HIDE DEF w
<1>5. Moved(x, y)
  BY <1>1, <1>2, <1>4, MovedChain, MovedAlike
<1>6. Word(y, u.frame, u.slot) = u.val
  BY <1>2, <1>4 DEF Alike, Word
<1>7. ASSUME NEW f \in LowFrame, NEW s \in Slot, NEW g \in LowFrame, Holds(y, f, s, g),
             ~(f = u.frame /\ s = u.slot)
      PROVE  Points(x, f, s, g)
  <2>1. Role(w, f) = "table" /\ Word(w, f, s).frame = g
    BY <1>2, <1>7 DEF Alike, Holds, Role, Word
  <2>2. Role(z, f) = "table" /\ Word(z, f, s).frame = g
    BY <1>4, <1>7, <2>1 DEF Moved
  <2> QED
    BY <1>1, <2>2 DEF Holds
<1> QED
  BY <1>5, <1>6, <1>7

\* An entry that is queued and flushed is made, and with it what waited.
LEMMA EntryFlushed ==
  ASSUME NEW x, NEW u, IsMem(x), ~x.panicked, RamOK(x), QueueOK(x), IsUpdate(x, u)
  PROVE  LET y == vmm_flush_mmu_update_queue(vmm_queue_mmu_update(x, u))
         IN  /\ Moved(x, y) /\ y.queue = <<>> /\ Word(y, u.frame, u.slot) = u.val
             /\ \A f \in LowFrame, s \in Slot, g \in LowFrame :
                  Holds(y, f, s, g) /\ ~(f = u.frame /\ s = u.slot) => Points(x, f, s, g)
<1> DEFINE y == vmm_flush_mmu_update_queue(vmm_queue_mmu_update(x, u))
<1>1. Alike(vmm_flush_mmu_update_queue([x EXCEPT !.queue = Append(@, u)]), y) /\ y.queue = <<>>
  BY FlushQueued
<1> HIDE DEF y
<1>2. /\ Moved(x, y) /\ Word(y, u.frame, u.slot) = u.val
      /\ \A f \in LowFrame, s \in Slot, g \in LowFrame :
           Holds(y, f, s, g) /\ ~(f = u.frame /\ s = u.slot) => Points(x, f, s, g)
  BY <1>1, EntryMade
<1> QED
  BY <1>1, <1>2 DEF y

\* An entry queued: it may wait.
LEMMA EntryQueued ==
  ASSUME NEW x, NEW u, IsMem(x), ~x.panicked, RamOK(x), QueueOK(x), IsUpdate(x, u)
  PROVE  LET y == vmm_queue_mmu_update(x, u)
         IN  /\ Moved(x, y) /\ QueueOK(y)
             /\ \A f \in LowFrame, s \in Slot, g \in LowFrame :
                  Points(y, f, s, g) => \/ Points(x, f, s, g)
                                        \/ f = u.frame /\ s = u.slot /\ g = u.val.frame
<1> DEFINE a == [x EXCEPT !.queue = Append(@, u)]
           y == vmm_queue_mmu_update(x, u)
<1>1. /\ IsMem(a) /\ Alike(x, a) /\ a.queue = Append(x.queue, u)
      /\ y = a \/ y = vmm_flush_mmu_update_queue(a)
  BY FlushQueued
<1>2. CASE y = a
  <2> HIDE DEF a, y
  <2>1. Moved(x, y)
    BY <1>1, <1>2 DEF Moved, Alike, Keeps, RamOK, Role
  <2>2. /\ Len(x.queue) \in Nat /\ DOMAIN x.queue = 1 .. Len(x.queue)
        /\ DOMAIN a.queue = 1 .. Len(x.queue) + 1 /\ a.queue[Len(x.queue) + 1] = u
        /\ \A i \in 1 .. Len(x.queue) : a.queue[i] = x.queue[i]
    BY <1>1 DEF IsMem
  <2>3. \A i \in DOMAIN y.queue : y.queue[i] = u \/ (i \in DOMAIN x.queue /\ y.queue[i] = x.queue[i])
    BY <1>2, <2>2
  <2>4. QueueOK(y)
    BY <1>1, <1>2, <2>3 DEF QueueOK, IsUpdate, Alike, Role
  <2>5. ASSUME NEW f \in LowFrame, NEW s \in Slot, NEW g \in LowFrame, Points(y, f, s, g)
        PROVE  Points(x, f, s, g) \/ (f = u.frame /\ s = u.slot /\ g = u.val.frame)
    <3>1. CASE Holds(y, f, s, g)
      BY <1>1, <1>2, <3>1 DEF Alike, Holds, Role, Word, Points
    <3>2. CASE Waits(y, f, s, g)
      BY <2>3, <3>2 DEF Waits, Points
    <3> QED
      BY <2>5, <3>1, <3>2 DEF Points
  <2> QED
    BY <2>1, <2>4, <2>5 DEF y
<1>3. CASE y = vmm_flush_mmu_update_queue(a)
  <2>1. Alike(vmm_flush_mmu_update_queue(a), y) /\ y.queue = <<>>
    BY <1>1, <1>3, FlushShape DEF Alike, Keeps
  <2>2. /\ Moved(x, y) /\ Word(y, u.frame, u.slot) = u.val
        /\ \A f \in LowFrame, s \in Slot, g \in LowFrame :
             Holds(y, f, s, g) /\ ~(f = u.frame /\ s = u.slot) => Points(x, f, s, g)
    BY <2>1, EntryMade
  <2> HIDE DEF a, y
  <2>3. QueueOK(y) /\ \A f, s, g : ~Waits(y, f, s, g)
    BY <2>1 DEF QueueOK, Waits
  <2>4. ASSUME NEW f \in LowFrame, NEW s \in Slot, NEW g \in LowFrame, Points(y, f, s, g)
        PROVE  Points(x, f, s, g) \/ (f = u.frame /\ s = u.slot /\ g = u.val.frame)
    BY <2>2, <2>3, <2>4 DEF Points, Holds
  <2> QED
    BY <2>2, <2>3, <2>4 DEF y
<1> QED
  BY <1>1, <1>2, <1>3

\* Two updates queued and made, after those that wait.
LEMMA TwoFlushed ==
  ASSUME NEW x, NEW u1, NEW u2, IsMem(x), ~x.panicked, RamOK(x), QueueOK(x)
  PROVE  LET y == vmm_flush_mmu_update_queue(vmm_queue_mmu_update(vmm_queue_mmu_update(x, u1), u2))
         IN  \E z, w : /\ Moved(x, z)
                       /\ \A f \in LowFrame, s \in Slot, g \in LowFrame : Holds(z, f, s, g) => Points(x, f, s, g)
                       /\ Alike(Apply(z, u1), w) /\ IsMem(w)
                       /\ Alike(Apply(w, u2), y) /\ y.queue = <<>>
<1> DEFINE a == [x EXCEPT !.queue = Append(@, u1)]
           b == vmm_queue_mmu_update(x, u1)
           c == [b EXCEPT !.queue = Append(@, u2)]
           y == vmm_flush_mmu_update_queue(vmm_queue_mmu_update(b, u2))
<1>1. /\ IsMem(a) /\ Alike(x, a) /\ a.queue = Append(x.queue, u1)
      /\ b = a \/ b = vmm_flush_mmu_update_queue(a)
  BY FlushQueued
<1>2. IsMem(b)
  BY QueueShape DEF Shape
<1>3. /\ IsMem(c) /\ Alike(b, c) /\ c.queue = Append(b.queue, u2)
      /\ Alike(vmm_flush_mmu_update_queue(c), y) /\ y.queue = <<>>
  BY <1>2, FlushQueued
<1>4. CASE b = a
  <2> DEFINE N == Len(x.queue)
  <2> HIDE DEF a, b, c, y
  <2>1. /\ N \in Nat /\ DOMAIN x.queue = 1 .. N /\ Len(c.queue) = N + 2
        /\ c.queue[N + 1] = u1 /\ c.queue[N + 2] = u2
        /\ \A i \in 1 .. N : c.queue[i] = x.queue[i]
    <3>1. PICK A : x.queue \in Seq(A)
      BY DEF IsMem
    <3>2. /\ a.queue \in Seq(A \cup {u1}) /\ Len(a.queue) = N + 1 /\ N \in Nat /\ a.queue[N + 1] = u1
          /\ DOMAIN x.queue = 1 .. N /\ \A i \in 1 .. N : a.queue[i] = x.queue[i]
      BY <1>1, <3>1
    <3>3. /\ Len(c.queue) = N + 1 + 1 /\ c.queue[N + 1 + 1] = u2
          /\ \A i \in 1 .. N + 1 : c.queue[i] = a.queue[i]
      BY <1>3, <1>4, <3>2
    <3> HIDE DEF N
    <3>4. N + 1 + 1 = N + 2 /\ N + 1 \in 1 .. N + 1 /\ \A i \in 1 .. N : i \in 1 .. N + 1
      BY <3>2
    <3> QED
      BY <3>2, <3>3, <3>4
  <2> HIDE DEF N
  <2>2. /\ N + 2 \in Nat /\ N + 1 \in 1 .. N + 2 /\ N + 2 \in 1 .. N + 2
        /\ (N + 1) - 1 = N /\ (N + 2) - 1 = N + 1 /\ \A i \in 1 .. N : i \in 1 .. N + 2
    BY <2>1
  <2>3. Alike(x, c)
    BY <1>1, <1>3, <1>4, AlikeChain
  <2>0. PICK h : ApplyRun(h, c, c.queue, N + 2)
    BY <2>1, <2>2, ApplyLoop
  <2>4. /\ h[0] = c /\ Applied(c, c.queue) = h[N + 2]
        /\ \A n \in 1 .. N + 2 : h[n] = Apply(h[n - 1], c.queue[n])
    BY <2>0 DEF ApplyRun
  <2>5. \A i \in 1 .. N : IsUpdate(c, c.queue[i])
    BY <2>1, <2>3 DEF QueueOK, IsUpdate, Alike, Role
  <2>6. ~c.panicked /\ RamOK(c)
    BY <2>3 DEF Alike, RamOK, Role
  <2>7. /\ Moved(c, h[N])
        /\ \A f \in LowFrame, s \in Slot, g \in LowFrame : Holds(h[N], f, s, g) => Made(c, N, f, s, g)
    BY <1>3, <2>1, <2>2, <2>4, <2>5, <2>6, ApplyPrefix
  <2>8. h[N + 1] = Apply(h[N], u1) /\ h[N + 2] = Apply(h[N + 1], u2)
    BY <2>1, <2>2, <2>4
  <2>9. IsMem(h[N + 1])
    BY <2>7, <2>8, ApplyShape DEF Moved, Shape
  <2>10. IsMem(h[N + 2])
    BY <2>8, <2>9, ApplyShape DEF Shape
  <2>11. vmm_flush_mmu_update_queue(c) = [h[N + 2] EXCEPT !.queue = <<>>]
    BY <2>4, FlushApplies
  <2>12. Alike(h[N + 2], vmm_flush_mmu_update_queue(c))
    BY <2>10, <2>11 DEF Alike, IsMem, Keeps, Fields
  <2>13. Alike(h[N + 2], y)
    BY <1>3, <2>12, AlikeChain
  <2>14. Alike(Apply(h[N], u1), h[N + 1]) /\ Alike(Apply(h[N + 1], u2), y)
    BY <2>8, <2>13 DEF Alike, Keeps
  <2>15. Moved(x, h[N])
    BY <2>3, <2>7, AlikeMoved
  <2>16. ASSUME NEW f \in LowFrame, NEW s \in Slot, NEW g \in LowFrame, Holds(h[N], f, s, g)
         PROVE  Points(x, f, s, g)
    <3>1. Made(c, N, f, s, g)
      BY <2>7, <2>16
    <3>2. Holds(c, f, s, g) <=> Holds(x, f, s, g)
      BY <2>3 DEF Alike, Holds, Role, Word
    <3> QED
      BY <2>1, <3>1, <3>2 DEF Made, Points, Waits
  <2> QED
    BY <1>3, <2>9, <2>14, <2>15, <2>16 DEF y, b
<1>5. CASE b = vmm_flush_mmu_update_queue(a)
  <2>1. PICK z : /\ Moved(x, z)
                 /\ \A f \in LowFrame, s \in Slot, g \in LowFrame : Holds(z, f, s, g) => Points(x, f, s, g)
                 /\ Alike(Apply(z, u1), vmm_flush_mmu_update_queue(a))
    BY QueuedIs
  <2> HIDE DEF a, b, c, y
  <2>2. b.queue = <<>>
    BY <1>1, <1>5, FlushShape
  <2>3. Len(c.queue) = 1 /\ c.queue[1] = u2
    BY <1>3, <2>2
  <2>0. PICK h : ApplyRun(h, c, c.queue, 1)
    BY <2>3, ApplyLoop
  <2>4. /\ h[0] = c /\ Applied(c, c.queue) = h[1]
        /\ \A n \in 1 .. 1 : h[n] = Apply(h[n - 1], c.queue[n])
    BY <2>0 DEF ApplyRun
  <2>5. h[1] = Apply(c, u2)
    BY <2>3, <2>4
  <2>6. IsMem(h[1])
    BY <1>3, <2>5, ApplyShape DEF Shape
  <2>7. vmm_flush_mmu_update_queue(c) = [h[1] EXCEPT !.queue = <<>>]
    BY <2>4, FlushApplies
  <2>8. Alike(h[1], vmm_flush_mmu_update_queue(c))
    BY <2>6, <2>7 DEF Alike, IsMem, Keeps, Fields
  <2>9. Alike(Apply(c, u2), y)
    BY <1>3, <2>5, <2>8, AlikeChain
  <2>10. Alike(Apply(z, u1), c)
    BY <1>3, <1>5, <2>1, AlikeChain
  <2> QED
    BY <1>3, <2>1, <2>9, <2>10 DEF y, b
<1> QED
  BY <1>1, <1>4, <1>5

-----------------------------------------------------------------------------
(* Entries of tables *)

\* Where entries move, directories and tables stay what they are.
LEMMA MovedTables ==
  ASSUME NEW x, NEW y, Moved(x, y), TablesOK(x)
  PROVE  TablesOK(y)
<1>1. \A d \in LowFrame : \A i, f : Names(y, d, i, f) <=> Names(x, d, i, f)
  BY DEF Moved, Names, Role, Word
<1>2. DirectoriesOK(y)
  BY DEF Moved, Keeps, TablesOK, DirectoriesOK
<1>3. NamesOK(y)
  BY <1>1 DEF Moved, TablesOK, NamesOK
<1>4. RightsOK(y)
  BY DEF Moved, TablesOK, RightsOK
<1> QED
  BY <1>2, <1>3, <1>4 DEF TablesOK

\* Frames that no entry names any more are no one's.
LEMMA MovedPages ==
  ASSUME NEW x, NEW y, Moved(x, y), PagesOK(x),
         \A f \in LowFrame, s \in Slot, g \in LowFrame : Points(y, f, s, g) => Points(x, f, s, g)
  PROVE  PagesOK(y)
BY DEF Moved, PagesOK

\* A flush is harmless to every task.
LEMMA FlushDoes ==
  ASSUME NEW x, NEW T
  PROVE  Does(x, vmm_flush_mmu_update_queue(x), T)
<1> DEFINE y == vmm_flush_mmu_update_queue(x)
<1>1. Shape(x, y)
  BY FlushShape DEF Shape
<1>2. ASSUME IsMem(x), ~y.panicked, Good(x)
      PROVE  Good(y)
  <2>1. ~x.panicked /\ RamOK(x) /\ QueueOK(x) /\ PagesOK(x) /\ TablesOK(x)
    BY <1>1, <1>2 DEF Shape, IsMem, Good, EntriesOK
  <2>2. /\ Moved(x, y) /\ y.queue = <<>>
        /\ \A f \in LowFrame, s \in Slot, g \in LowFrame : Holds(y, f, s, g) => Points(x, f, s, g)
    BY <1>2, <2>1, FlushIs
  <2> HIDE DEF y
  <2>3. QueueOK(y) /\ \A f, s, g : ~Waits(y, f, s, g)
    BY <2>2 DEF QueueOK, Waits
  <2>4. PagesOK(y)
    BY <2>1, <2>2, <2>3, MovedPages DEF Points
  <2>5. TablesOK(y) /\ RamOK(y)
    BY <2>1, <2>2, MovedTables DEF Moved
  <2> QED
    BY <2>3, <2>4, <2>5 DEF Good, EntriesOK
<1> QED
  BY <1>1, <1>2 DEF Does

\* An entry may name a page of data that no other entry names.
Fits(x, u) ==
  /\ IsUpdate(x, u)
  /\ u.val.frame # NULL =>
       /\ Role(x, u.val.frame) = "data"
       /\ \A f \in LowFrame, s \in Slot : Points(x, f, s, u.val.frame) => f = u.frame /\ s = u.slot

\* To queue an entry that fits keeps one place to a page.
LEMMA EntryGood ==
  ASSUME NEW x, NEW u, IsMem(x), ~x.panicked, Good(x), Fits(x, u)
  PROVE  Moved(x, vmm_queue_mmu_update(x, u)) /\ Good(vmm_queue_mmu_update(x, u))
<1> DEFINE y == vmm_queue_mmu_update(x, u)
<1>1. RamOK(x) /\ QueueOK(x) /\ PagesOK(x) /\ TablesOK(x) /\ IsUpdate(x, u)
  BY DEF Good, EntriesOK, Fits
<1>2. /\ Moved(x, y) /\ QueueOK(y)
      /\ \A f \in LowFrame, s \in Slot, g \in LowFrame :
           Points(y, f, s, g) => \/ Points(x, f, s, g)
                                 \/ f = u.frame /\ s = u.slot /\ g = u.val.frame
  BY <1>1, EntryQueued
<1> HIDE DEF y
<1>3. NULL \notin LowFrame
  BY PageTablesAssumption DEF NULL
<1>4. PagesOK(y)
  <2>1. ASSUME NEW f \in LowFrame, NEW s \in Slot, NEW g \in LowFrame, Points(y, f, s, g)
        PROVE  Role(y, g) = "data"
    BY <1>1, <1>2, <1>3, <2>1 DEF PagesOK, Moved, Fits
  <2>2. ASSUME NEW f1 \in LowFrame, NEW f2 \in LowFrame, NEW s1 \in Slot, NEW s2 \in Slot,
               NEW g \in LowFrame, Points(y, f1, s1, g), Points(y, f2, s2, g)
        PROVE  f1 = f2 /\ s1 = s2
    <3>1. CASE g = u.val.frame
      BY <1>2, <1>3, <2>2, <3>1 DEF Fits
    <3>2. CASE g # u.val.frame
      <4>1. Points(x, f1, s1, g) /\ Points(x, f2, s2, g)
        BY <1>2, <2>2, <3>2
      <4> QED
        BY <1>1, <4>1 DEF PagesOK
    <3> QED
      BY <3>1, <3>2
  <2> QED
    BY <2>1, <2>2 DEF PagesOK
<1>5. TablesOK(y) /\ RamOK(y)
  BY <1>1, <1>2, MovedTables DEF Moved
<1> QED
  BY <1>2, <1>4, <1>5 DEF Good, EntriesOK, y

-----------------------------------------------------------------------------
(* Tables *)

\* The page of the kernel's memory that is the frame f.
LEMMA ApplyKernel ==
  ASSUME NEW x, NEW u, IsMem(x), ~x.panicked, ~Apply(x, u).panicked, u.of = "kernel"
  PROVE  /\ IsMem(Apply(x, u)) /\ Keeps(x, Apply(x, u)) /\ Apply(x, u).rc = x.rc /\ Apply(x, u).ram = x.ram
         /\ Apply(x, u).readonly = IF u.val THEN x.readonly \ {u.frame} ELSE x.readonly \cup {u.frame}
         /\ ~(x.cr3 # NULL /\ u.val /\ u.frame = x.cr3)
<1> DEFINE y == Apply(x, u)
<1>1. u.of = "kernel"
  OBVIOUS
<1>0. ~Apply(x, u).panicked
  OBVIOUS
<1>2. /\ ~(x.cr3 # NULL /\ u.val /\ u.frame \in InUse(x))
      /\ y = [x EXCEPT !.readonly = IF u.val THEN @ \ {u.frame} ELSE @ \cup {u.frame}]
  <2>1. [x EXCEPT !.panicked = TRUE].panicked
    BY DEF IsMem, Fields
  <2>2. ASSUME x.cr3 # NULL, Refused(x, u)
        PROVE  FALSE
    <3>1. Apply(x, u) = [x EXCEPT !.panicked = TRUE]
      BY <2>2 DEF Apply
    <3> QED
      BY <1>0, <2>1, <3>1
  <2> QED
    <3>1. ~(x.cr3 # NULL /\ u.val /\ u.frame \in InUse(x))
      BY <1>1, <2>2 DEF Refused
    <3>2. y = [x EXCEPT !.readonly = IF u.val THEN @ \ {u.frame} ELSE @ \cup {u.frame}]
      BY <1>1, <2>2 DEF Apply
    <3> QED
      BY <3>1, <3>2
<1>3. x.cr3 \in InUse(x)
  BY DEF InUse
<1> HIDE DEF y
<1> QED
  BY <1>1, <1>2, <1>3 DEF IsMem, Keeps, Fields, y

\* The kernel's page of a frame is made read only (set_read_only).
LEMMA ApplyReadOnly ==
  ASSUME NEW x, NEW f, IsMem(x), ~x.panicked, ~Apply(x, KernelUpdate(f, FALSE)).panicked
  PROVE  /\ IsMem(Apply(x, KernelUpdate(f, FALSE))) /\ Keeps(x, Apply(x, KernelUpdate(f, FALSE)))
         /\ Apply(x, KernelUpdate(f, FALSE)).rc = x.rc /\ Apply(x, KernelUpdate(f, FALSE)).ram = x.ram
         /\ Apply(x, KernelUpdate(f, FALSE)).readonly = x.readonly \cup {f}
<1> DEFINE u == KernelUpdate(f, FALSE)
<1>1. u.of = "kernel" /\ u.frame = f /\ u.val = FALSE
  BY DEF KernelUpdate
<1>2. ~Apply(x, u).panicked
  OBVIOUS
<1>3. /\ IsMem(Apply(x, u)) /\ Keeps(x, Apply(x, u)) /\ Apply(x, u).rc = x.rc /\ Apply(x, u).ram = x.ram
      /\ Apply(x, u).readonly = x.readonly \cup {f}
  <2> HIDE DEF u
  <2> QED
    BY <1>1, <1>2, ApplyKernel
<1> QED
  BY <1>3

\* It is made writable again, and is not the directory in use.
LEMMA ApplyWritable ==
  ASSUME NEW x, NEW f, IsMem(x), ~x.panicked, ~Apply(x, KernelUpdate(f, TRUE)).panicked
  PROVE  /\ IsMem(Apply(x, KernelUpdate(f, TRUE))) /\ Keeps(x, Apply(x, KernelUpdate(f, TRUE)))
         /\ Apply(x, KernelUpdate(f, TRUE)).rc = x.rc /\ Apply(x, KernelUpdate(f, TRUE)).ram = x.ram
         /\ Apply(x, KernelUpdate(f, TRUE)).readonly = x.readonly \ {f}
         /\ ~(x.cr3 # NULL /\ f = x.cr3)
<1> DEFINE u == KernelUpdate(f, TRUE)
<1>1. u.of = "kernel" /\ u.frame = f /\ u.val = TRUE
  BY DEF KernelUpdate
<1>2. ~Apply(x, u).panicked
  OBVIOUS
<1>3. /\ IsMem(Apply(x, u)) /\ Keeps(x, Apply(x, u)) /\ Apply(x, u).rc = x.rc /\ Apply(x, u).ram = x.ram
      /\ Apply(x, u).readonly = x.readonly \ {f}
      /\ ~(x.cr3 # NULL /\ f = x.cr3)
  <2> HIDE DEF u
  <2> QED
    BY <1>1, <1>2, ApplyKernel
<1> QED
  BY <1>3

\* An entry of a directory.
LEMMA ApplyDirectory ==
  ASSUME NEW x, NEW d \in LowFrame, NEW i \in Table, NEW f \in LowFrame \cup {NULL},
         IsMem(x), ~x.panicked, RamOK(x), Role(x, d) = "directory",
         ~Apply(x, PdeUpdate(d, i, f)).panicked
  PROVE  LET y == Apply(x, PdeUpdate(d, i, f))
         IN  /\ IsMem(y) /\ Keeps(x, y) /\ y.rc = x.rc /\ y.readonly = x.readonly /\ RamOK(y)
             /\ \A g \in LowFrame : /\ Role(y, g) = Role(x, g)
                                    /\ g # d => y.ram[g] = x.ram[g]
             /\ \A j \in Table : Word(y, d, j) = IF j = i THEN f ELSE Word(x, d, j)
<1> DEFINE u == PdeUpdate(d, i, f)
           y == Apply(x, u)
<1>1. u.of = "directory" /\ u.frame = d /\ u.slot = i /\ u.val = f
  BY DEF PdeUpdate
<1>0. ~Apply(x, u).panicked
  OBVIOUS
<1> HIDE DEF u
<1>2. y = [x EXCEPT !.ram[d].word[i] = f]
  <2>1. [x EXCEPT !.panicked = TRUE].panicked
    BY DEF IsMem, Fields
  <2>2. ASSUME x.cr3 # NULL, Refused(x, u)
        PROVE  FALSE
    <3>1. Apply(x, u) = [x EXCEPT !.panicked = TRUE]
      BY <2>2 DEF Apply
    <3> QED
      BY <1>0, <2>1, <3>1
  <2> QED
    BY <1>1, <2>2 DEF Apply, Role
<1> HIDE DEF y
<1>3. DOMAIN x.ram = LowFrame /\ DOMAIN x.ram[d] = {"role", "word"}
      /\ x.ram[d].word \in [Table -> LowFrame \cup {NULL}]
  BY DEF RamOK
<1>4. IsMem(y) /\ Keeps(x, y) /\ y.rc = x.rc /\ y.readonly = x.readonly /\ DOMAIN y.ram = LowFrame
  BY <1>2, <1>3 DEF IsMem, Keeps, Fields
<1>5. /\ \A g \in LowFrame : g # d => y.ram[g] = x.ram[g]
      /\ y.ram[d] = [x.ram[d] EXCEPT !.word = [@ EXCEPT ![i] = f]]
  BY <1>2, <1>3 DEF IsMem, Fields
<1>6. y.ram[d].role = x.ram[d].role /\ DOMAIN y.ram[d] = {"role", "word"}
      /\ y.ram[d].word = [x.ram[d].word EXCEPT ![i] = f]
  BY <1>3, <1>5
<1>7. /\ y.ram[d].word \in [Table -> LowFrame \cup {NULL}]
      /\ \A j \in Table : y.ram[d].word[j] = IF j = i THEN f ELSE x.ram[d].word[j]
  BY <1>3, <1>6
<1>8. RamOK(y)
  BY <1>3, <1>4, <1>5, <1>6, <1>7 DEF RamOK, Role
<1> QED
  BY <1>4, <1>5, <1>6, <1>7, <1>8 DEF Role, Word, y, u

\* The least free frame is free.
LEMMA NextIsFree ==
  ASSUME NEW x, ~Full(x)
  PROVE  NextFrame(x) \in LowFrame /\ Role(x, NextFrame(x)) = "free"
<1>1. Free(x) \in SUBSET Nat /\ Free(x) # {}
  BY PageTablesAssumption DEF Full, Free
<1>2. Min(Free(x)) \in Free(x)
  BY <1>1, LeastNumber
<1> QED
  BY <1>2 DEF NextFrame, Free, Role

\* A frame is taken from the free ones: nothing names it.
LEMMA AllocIs ==
  ASSUME NEW x, NEW role, NEW words, IsMem(x), RamOK(x), QueueOK(x), PagesOK(x), ~Full(x),
         \/ role = "table" /\ words = EmptyTable
         \/ role = "directory" /\ words = EmptyDirectory
         \/ role = "data"
  PROVE  LET y == vmm_ppf_alloc(x, role, words)
         IN  /\ IsMem(y) /\ Keeps(x, y) /\ y.panicked = x.panicked /\ y.rc = x.rc
             /\ y.readonly = x.readonly /\ y.queue = x.queue
             /\ RamOK(y) /\ QueueOK(y) /\ PagesOK(y)
             /\ y.ram[NextFrame(x)] = [role |-> role, word |-> words]
             /\ \A g \in LowFrame : g # NextFrame(x) => y.ram[g] = x.ram[g]
             /\ \A f \in LowFrame, s \in Slot, g \in LowFrame : Points(y, f, s, g) => Points(x, f, s, g)
             /\ \A f \in LowFrame, s \in Slot : ~Points(x, f, s, NextFrame(x))
<1> DEFINE new == NextFrame(x)
           y == vmm_ppf_alloc(x, role, words)
<1>1. new \in LowFrame /\ Role(x, new) = "free"
  BY NextIsFree
<1>2. y = [x EXCEPT !.ram[new] = [role |-> role, word |-> words]]
  BY DEF vmm_ppf_alloc
<1> HIDE DEF y, new
<1>3. DOMAIN x.ram = LowFrame
  BY DEF RamOK
<1>4. IsMem(y) /\ Keeps(x, y) /\ y.panicked = x.panicked /\ y.rc = x.rc
      /\ y.readonly = x.readonly /\ y.queue = x.queue /\ DOMAIN y.ram = LowFrame
  BY <1>2, <1>3 DEF IsMem, Keeps, Fields
<1>5. /\ y.ram[new] = [role |-> role, word |-> words]
      /\ \A g \in LowFrame : g # new => y.ram[g] = x.ram[g]
  BY <1>1, <1>2, <1>3 DEF IsMem, Fields
<1>6. NULL \notin LowFrame /\ EmptyTable \in [Slot -> Pte]
      /\ EmptyDirectory \in [Table -> LowFrame \cup {NULL}]
  BY PageTablesAssumption DEF NULL, EmptyTable, EmptyDirectory, Slot, Pte
<1>7. RamOK(y)
  BY <1>4, <1>5, <1>6 DEF RamOK, Role
<1>8. QueueOK(y)
  BY <1>1, <1>4, <1>5 DEF QueueOK, IsUpdate, Role
<1>9. ASSUME NEW f \in LowFrame, NEW s \in Slot, NEW g \in LowFrame, Points(y, f, s, g)
      PROVE  Points(x, f, s, g)
  <2>1. Waits(y, f, s, g) <=> Waits(x, f, s, g)
    BY <1>4 DEF Waits
  <2>2. CASE f # new
    BY <1>5, <1>9, <2>1, <2>2 DEF Points, Holds, Role, Word
  <2>3. CASE f = new
    <3>1. Holds(y, f, s, g) => FALSE
      <4>1. EmptyTable[s].frame = NULL
        BY DEF EmptyTable, Slot, NoPte
      <4> QED
        BY <1>5, <1>6, <2>3, <4>1 DEF Holds, Role, Word
    <3> QED
      BY <1>9, <2>1, <3>1 DEF Points
  <2> QED
    BY <2>2, <2>3
<1>10. \A f \in LowFrame, s \in Slot : ~Points(x, f, s, new)
  BY <1>1 DEF PagesOK
<1>11. PagesOK(y)
  <2>1. ASSUME NEW f \in LowFrame, NEW s \in Slot, NEW g \in LowFrame, Points(y, f, s, g)
        PROVE  Role(y, g) = "data"
    <3>1. Points(x, f, s, g)
      BY <1>9, <2>1
    <3>2. Role(x, g) = "data" /\ g # new
      BY <1>10, <3>1 DEF PagesOK
    <3> QED
      BY <1>5, <3>2 DEF Role
  <2> QED
    BY <1>9, <2>1 DEF PagesOK
<1> QED
  BY <1>4, <1>5, <1>7, <1>8, <1>9, <1>10, <1>11 DEF y, new

\* After a flush only the tables count.
LEMMA FlushedEntries ==
  ASSUME NEW x, NEW y, PagesOK(x), RamOK(y), y.queue = <<>>,
         \A f \in LowFrame, s \in Slot, g \in LowFrame :
           Holds(y, f, s, g) => Points(x, f, s, g) /\ Role(y, g) = "data"
  PROVE  EntriesOK(y) /\ \A f, s, g : Points(y, f, s, g) => Holds(y, f, s, g)
<1>1. QueueOK(y) /\ \A f, s, g : Points(y, f, s, g) <=> Holds(y, f, s, g)
  BY DEF QueueOK, Points, Waits
<1> QED
  BY <1>1 DEF EntriesOK, PagesOK

\* What a panic leaves stays.
LEMMA NotPanicked ==
  ASSUME NEW x, NEW u, NEW y, IsMem(x), Alike(Apply(x, u), y), ~y.panicked
  PROVE  IsMem(Apply(x, u)) /\ ~x.panicked /\ ~Apply(x, u).panicked
BY ApplyShape DEF Shape, Alike, IsMem

\* A new table leaves memory in shape.
LEMMA NewTableShape ==
  ASSUME NEW x, NEW dir, NEW page, IsMem(x)
  PROVE  Shape(x, NewTable(x, dir, page)) /\ NewTable(x, dir, page).rc = x.rc
<1> DEFINE tb == NextFrame(x)
           a == vmm_ppf_alloc(x, "table", EmptyTable)
           b == vmm_queue_mmu_update(a, KernelUpdate(tb, FALSE))
           c == vmm_queue_mmu_update(b, PdeUpdate(dir, PdeOf(page), tb))
<1>1. a = [x EXCEPT !.ram[tb] = [role |-> "table", word |-> EmptyTable]]
  BY DEF vmm_ppf_alloc
<1>2. NewTable(x, dir, page) = vmm_flush_mmu_update_queue(c)
  BY DEF NewTable
<1> HIDE DEF a
<1>3. Shape(x, a) /\ IsMem(a) /\ a.rc = x.rc
  BY <1>1 DEF Shape, IsMem, Keeps, Fields
<1>4. Shape(a, b) /\ IsMem(b) /\ b.rc = a.rc
  BY <1>3, QueueShape DEF Shape
<1>5. Shape(b, c) /\ IsMem(c) /\ c.rc = b.rc
  BY <1>4, QueueShape DEF Shape
<1> HIDE DEF b, c
<1>6. Shape(c, vmm_flush_mmu_update_queue(c)) /\ vmm_flush_mmu_update_queue(c).rc = c.rc
  BY <1>5, FlushShape
<1> QED
  BY <1>2, <1>3, <1>4, <1>5, <1>6, ShapeChain

\* A new table is in one place of one directory, and read-only to the kernel.
LEMMA NewTableIs ==
  ASSUME NEW x, NEW dir \in LowFrame, NEW page, IsMem(x), ~x.panicked, Good(x), UserPage(page),
         Role(x, dir) = "directory", TableOf(x, dir, page) = NULL, ~Full(x),
         ~NewTable(x, dir, page).panicked
  PROVE  LET y == NewTable(x, dir, page)
             tb == NextFrame(x)
         IN  /\ IsMem(y) /\ y.rc = x.rc /\ Good(y) /\ y.queue = <<>> /\ TableOf(y, dir, page) = tb
             /\ tb \in LowFrame /\ Role(x, tb) = "free" /\ Role(y, tb) = "table"
             /\ \A f \in LowFrame : f # tb => Role(y, f) = Role(x, f)
             /\ \A f \in LowFrame, s \in Slot, g \in LowFrame : Points(y, f, s, g) => Points(x, f, s, g)
<1> DEFINE tb == NextFrame(x)
           i == PdeOf(page)
           a == vmm_ppf_alloc(x, "table", EmptyTable)
           u1 == KernelUpdate(tb, FALSE)
           u2 == PdeUpdate(dir, i, tb)
           y == NewTable(x, dir, page)
<1>1. i \in Table
  BY PageIndices
<1>2. RamOK(x) /\ QueueOK(x) /\ PagesOK(x) /\ DirectoriesOK(x) /\ NamesOK(x) /\ RightsOK(x)
  BY DEF Good, EntriesOK, TablesOK
<1>3. tb \in LowFrame /\ Role(x, tb) = "free"
  BY NextIsFree
<1>4. /\ IsMem(a) /\ Keeps(x, a) /\ a.panicked = x.panicked /\ a.rc = x.rc
      /\ a.readonly = x.readonly /\ a.queue = x.queue
      /\ RamOK(a) /\ QueueOK(a) /\ PagesOK(a)
      /\ a.ram[tb] = [role |-> "table", word |-> EmptyTable]
      /\ \A g \in LowFrame : g # tb => a.ram[g] = x.ram[g]
      /\ \A f \in LowFrame, s \in Slot, g \in LowFrame : Points(a, f, s, g) => Points(x, f, s, g)
      /\ \A f \in LowFrame, s \in Slot : ~Points(x, f, s, tb)
  BY <1>2, AllocIs
<1>5. y = vmm_flush_mmu_update_queue(vmm_queue_mmu_update(vmm_queue_mmu_update(a, u1), u2))
  BY DEF NewTable
<1> HIDE DEF a, y
<1>6. PICK z, w : /\ Moved(a, z)
                  /\ \A f \in LowFrame, s \in Slot, g \in LowFrame : Holds(z, f, s, g) => Points(a, f, s, g)
                  /\ Alike(Apply(z, u1), w) /\ IsMem(w)
                  /\ Alike(Apply(w, u2), y) /\ y.queue = <<>>
  BY <1>4, <1>5, TwoFlushed, ZenonT(40)
<1>7. ~y.panicked
  BY DEF y
<1>8. IsMem(Apply(w, u2)) /\ ~w.panicked /\ ~Apply(w, u2).panicked
  BY <1>6, <1>7, NotPanicked
<1>9. IsMem(z) /\ IsMem(Apply(z, u1)) /\ ~z.panicked /\ ~Apply(z, u1).panicked
  BY <1>6, <1>8, NotPanicked DEF Moved
<1>10. /\ Keeps(z, Apply(z, u1)) /\ Apply(z, u1).rc = z.rc /\ Apply(z, u1).ram = z.ram
       /\ Apply(z, u1).readonly = z.readonly \cup {tb}
  BY <1>9, ApplyReadOnly
<1> HIDE DEF u1, tb, i
<1>11. /\ Keeps(a, w) /\ w.rc = a.rc /\ w.ram = z.ram /\ w.readonly = x.readonly \cup {tb}
       /\ RamOK(w) /\ Role(w, dir) = "directory"
  BY <1>2, <1>3, <1>4, <1>6, <1>10 DEF Alike, Moved, Keeps, RamOK, Role
<1>12. /\ Keeps(w, Apply(w, u2)) /\ Apply(w, u2).rc = w.rc /\ Apply(w, u2).readonly = w.readonly
       /\ RamOK(Apply(w, u2))
       /\ \A g \in LowFrame : /\ Role(Apply(w, u2), g) = Role(w, g)
                              /\ g # dir => Apply(w, u2).ram[g] = w.ram[g]
       /\ \A j \in Table : Word(Apply(w, u2), dir, j) = IF j = i THEN tb ELSE Word(w, dir, j)
  <2>1. i \in Table /\ tb \in LowFrame \cup {NULL} /\ IsMem(w) /\ ~w.panicked
    BY <1>1, <1>3, <1>6, <1>8
  <2> QED
    BY <1>8, <1>11, <2>1, ApplyDirectory
<1> HIDE DEF u2
<1>13. /\ IsMem(y) /\ Keeps(x, y) /\ y.rc = x.rc /\ RamOK(y) /\ y.readonly = x.readonly \cup {tb}
       /\ \A g \in LowFrame : /\ Role(y, g) = Role(w, g)
                              /\ g # dir => y.ram[g] = z.ram[g]
       /\ \A j \in Table : Word(y, dir, j) = IF j = i THEN tb ELSE Word(w, dir, j)
  BY <1>4, <1>6, <1>8, <1>11, <1>12 DEF Alike, Keeps, RamOK, Role, Word
<1>14. /\ Role(y, tb) = "table"
       /\ \A f \in LowFrame : f # tb => Role(y, f) = Role(x, f)
  BY <1>3, <1>4, <1>6, <1>11, <1>13 DEF Moved, Role
<1>15. \A d \in LowFrame, j \in Table :
         Role(x, d) = "directory" =>
           Word(y, d, j) = IF d = dir /\ j = i THEN tb ELSE Word(x, d, j)
  BY <1>3, <1>4, <1>6, <1>11, <1>13 DEF Moved, Role, Word
<1>16. ASSUME NEW f \in LowFrame, NEW s \in Slot, NEW g \in LowFrame, Holds(y, f, s, g)
       PROVE  Points(a, f, s, g)
  <2>1. f # dir
    BY <1>3, <1>14, <1>16 DEF Holds
  <2>2. Holds(z, f, s, g)
    BY <1>13, <1>16, <2>1 DEF Holds, Role, Word
  <2> QED
    BY <1>6, <2>2
<1>17. ASSUME NEW f \in LowFrame, NEW s \in Slot, NEW g \in LowFrame, Holds(y, f, s, g)
       PROVE  Points(x, f, s, g) /\ Role(y, g) = "data"
  BY <1>2, <1>3, <1>4, <1>14, <1>16, <1>17 DEF PagesOK
<1>18. EntriesOK(y) /\ \A f, s, g : Points(y, f, s, g) => Holds(y, f, s, g)
  BY <1>2, <1>6, <1>13, <1>17, FlushedEntries
<1>19. DirectoriesOK(y)
  BY <1>2, <1>3, <1>13, <1>14 DEF DirectoriesOK, Keeps
<1>20. \A d \in LowFrame, j \in Table, f \in LowFrame :
         Names(y, d, j, f) <=> IF d = dir /\ j = i THEN f = tb ELSE Names(x, d, j, f)
  BY <1>3, <1>14, <1>15 DEF Names
<1>21. \A d \in LowFrame, j \in Table : ~Names(x, d, j, tb)
  BY <1>2, <1>3 DEF NamesOK
<1>22. \A f : f \in LowFrame => ~Names(x, dir, i, f)
  BY PageTablesAssumption DEF Names, TableOf, Word, i, NULL
<1>23. NamesOK(y)
  <2>1. \A d \in LowFrame, j \in Table, f \in LowFrame : Names(y, d, j, f) => Role(y, f) = "table"
    BY <1>2, <1>14, <1>20 DEF NamesOK
  <2>2. \A d1, d2 \in LowFrame, i1, i2 \in Table, f \in LowFrame :
          Names(y, d1, i1, f) /\ Names(y, d2, i2, f) => d1 = d2 /\ i1 = i2
    BY <1>2, <1>20, <1>21 DEF NamesOK
  <2>3. ASSUME NEW f \in LowFrame, Role(y, f) = "table"
        PROVE  \E d \in LowFrame, j \in Table : Names(y, d, j, f)
    <3>1. CASE f = tb
      BY <1>1, <1>20, <3>1
    <3>2. CASE f # tb
      <4>1. PICK d \in LowFrame, j \in Table : Names(x, d, j, f)
        BY <1>2, <1>14, <2>3, <3>2 DEF NamesOK
      <4> QED
        BY <1>20, <1>22, <4>1
    <3> QED
      BY <3>1, <3>2
  <2> QED
    BY <2>1, <2>2, <2>3 DEF NamesOK
<1>24. RightsOK(y)
  BY <1>2, <1>3, <1>13, <1>14 DEF RightsOK
<1>25. TableOf(y, dir, page) = tb
  BY <1>1, <1>15 DEF TableOf, Word, i
<1> QED
  BY <1>3, <1>13, <1>14, <1>17, <1>18, <1>19, <1>23, <1>24, <1>25, <1>6 DEF Good, TablesOK, y, tb

-----------------------------------------------------------------------------
(* Mappings *)

\* What vmm_get_mapping finds: nothing, or a page of data that no other entry names.
LEMMA MappingIs ==
  ASSUME NEW x, NEW dir \in LowFrame, NEW page, Good(x), UserPage(page), Role(x, dir) = "directory"
  PROVE  LET tb == TableOf(x, dir, page)
             pte == vmm_get_mapping(x, dir, page)
         IN  /\ pte \in Pte
             /\ tb # NULL => tb \in LowFrame /\ Role(x, tb) = "table"
             /\ pte.frame # NULL =>
                  /\ tb # NULL /\ pte.frame \in LowFrame /\ Role(x, pte.frame) = "data"
                  /\ \A f \in LowFrame, s \in Slot :
                       Points(x, f, s, pte.frame) => f = tb /\ s = PteOf(page)
<1> DEFINE tb == TableOf(x, dir, page)
           pte == vmm_get_mapping(x, dir, page)
           s == PteOf(page)
<1>1. PdeOf(page) \in Table /\ s \in Slot
  BY PageIndices
<1>2. RamOK(x) /\ PagesOK(x) /\ NamesOK(x)
  BY DEF Good, EntriesOK, TablesOK
<1>3. tb \in LowFrame \cup {NULL}
  BY <1>1, <1>2 DEF TableOf, RamOK
<1>4. tb # NULL => tb \in LowFrame /\ Role(x, tb) = "table"
  BY <1>1, <1>2, <1>3 DEF NamesOK, Names, TableOf, Word
<1>5. tb # NULL => pte = Word(x, tb, s)
  BY DEF vmm_get_mapping, Word
<1>6. tb = NULL => pte = NoPte
  BY DEF vmm_get_mapping
<1> HIDE DEF tb, pte, s
<1>7. tb # NULL => Word(x, tb, s) \in Pte
  BY <1>1, <1>2, <1>4 DEF RamOK, Word
<1>8. pte \in Pte
  BY <1>5, <1>6, <1>7 DEF Pte
<1>9. ASSUME pte.frame # NULL
      PROVE  /\ tb # NULL /\ pte.frame \in LowFrame /\ Role(x, pte.frame) = "data"
             /\ \A f \in LowFrame, r \in Slot : Points(x, f, r, pte.frame) => f = tb /\ r = s
  <2>1. tb # NULL
    BY <1>6, <1>9 DEF NoPte
  <2>2. pte.frame \in LowFrame
    BY <1>8, <1>9 DEF Pte, NoPte
  <2>3. Points(x, tb, s, pte.frame)
    BY <1>4, <1>5, <2>1 DEF Points, Holds
  <2> QED
    BY <1>1, <1>2, <1>4, <2>1, <2>2, <2>3 DEF PagesOK
<1> QED
  BY <1>4, <1>8, <1>9 DEF tb, pte, s

\* vmm_map_page leaves memory in shape.
LEMMA MapShape ==
  ASSUME NEW x, NEW dir, NEW page, NEW frame, NEW wr, IsMem(x)
  PROVE  Shape(x, vmm_map_page(x, dir, page, frame, wr))
<1> DEFINE k == IF TableOf(x, dir, page) = NULL THEN NewTable(x, dir, page) ELSE x
           pte == IF frame = NULL THEN NoPte ELSE [frame |-> frame, wr |-> wr]
           n == Ok(k)
           y == vmm_map_page(x, dir, page, frame, wr)
<1>1. y = Fail(x) \/ y = SetEntry(n, dir, page, pte)
  BY DEF vmm_map_page
<1>2. Shape(x, k) /\ IsMem(k)
  BY NewTableShape DEF Shape, Keeps
<1> HIDE DEF k, pte
<1>3. Shape(k, n) /\ IsMem(n)
  BY <1>2, OkIs DEF Does, Shape
<1>4. Shape(x, n)
  BY <1>2, <1>3, ShapeChain
<1> HIDE DEF n
<1>5. \/ SetEntry(n, dir, page, pte) = n
      \/ SetEntry(n, dir, page, pte)
           = vmm_queue_mmu_update(n, PteUpdate(TableOf(n, dir, page), PteOf(page), pte))
  BY DEF SetEntry
<1>6. Shape(n, SetEntry(n, dir, page, pte))
  BY <1>3, <1>5, QueueShape DEF Shape, Keeps
<1>7. Shape(x, Fail(x))
  BY FailIs DEF Does
<1> QED
  BY <1>1, <1>4, <1>6, <1>7, ShapeChain

\* A page may be put at a place where none is or that has it already.
Placeable(x, dir, page, frame) ==
  \/ frame = NULL
  \/ /\ frame \in LowFrame /\ Role(x, frame) = "data"
     /\ \A f \in LowFrame, s \in Slot :
          Points(x, f, s, frame) => f = TableOf(x, dir, page) /\ s = PteOf(page)

\* vmm_map_page keeps the tables good where the frame may be placed.
LEMMA MapIs ==
  ASSUME NEW x, NEW dir \in LowFrame, NEW page, NEW frame, NEW wr \in BOOLEAN,
         IsMem(x), Good(x), UserPage(page), Role(x, dir) = "directory",
         Placeable(x, dir, page, frame), ~vmm_map_page(x, dir, page, frame, wr).panicked
  PROVE  Good(vmm_map_page(x, dir, page, frame, wr))
<1> DEFINE k == IF TableOf(x, dir, page) = NULL THEN NewTable(x, dir, page) ELSE x
           pte == IF frame = NULL THEN NoPte ELSE [frame |-> frame, wr |-> wr]
           n == Ok(k)
           tb == TableOf(n, dir, page)
           u == PteUpdate(tb, PteOf(page), pte)
           y == vmm_map_page(x, dir, page, frame, wr)
<1>1. ~x.panicked
  BY MapShape DEF Shape, IsMem
<1>2. CASE TableOf(x, dir, page) = NULL /\ Full(x)
  <2>1. y = Fail(x)
    BY <1>2 DEF vmm_map_page
  <2>2. Does(x, Fail(x), {})
    BY FailIs
  <2>3. ~Fail(x).panicked
    BY <2>1
  <2> QED
    BY <2>1, <2>2, <2>3 DEF Does
<1>3. CASE ~(TableOf(x, dir, page) = NULL /\ Full(x))
  <2>1. y = SetEntry(n, dir, page, pte)
    BY <1>3 DEF vmm_map_page
  <2>2. IsMem(k)
    BY NewTableShape DEF Shape
  <2>3. IsMem(n) /\ Same(k, n) /\ n.panicked = k.panicked
    BY <2>2, OkIs DEF Does, Shape
  <2>4. ~n.panicked
    BY <2>1 DEF SetEntry
  <2>5. /\ Good(k) /\ Role(k, dir) = "directory" /\ TableOf(k, dir, page) # NULL
        /\ frame # NULL =>
             /\ frame \in LowFrame /\ Role(k, frame) = "data"
             /\ \A f \in LowFrame, s \in Slot :
                  Points(k, f, s, frame) => f = TableOf(k, dir, page) /\ s = PteOf(page)
    <3>1. CASE TableOf(x, dir, page) = NULL
      <4>1. k = NewTable(x, dir, page) /\ ~Full(x) /\ ~NewTable(x, dir, page).panicked
        BY <1>3, <2>3, <2>4, <3>1
      <4> HIDE DEF k
      <4>2. /\ Good(k) /\ TableOf(k, dir, page) = NextFrame(x)
            /\ NextFrame(x) \in LowFrame /\ Role(x, NextFrame(x)) = "free"
            /\ \A f \in LowFrame : f # NextFrame(x) => Role(k, f) = Role(x, f)
            /\ \A f \in LowFrame, s \in Slot, g \in LowFrame : Points(k, f, s, g) => Points(x, f, s, g)
        BY <1>1, <3>1, <4>1, NewTableIs
      <4>3. NULL \notin LowFrame
        BY PageTablesAssumption DEF NULL
      <4> QED
        BY <3>1, <4>2, <4>3 DEF Placeable
    <3>2. CASE TableOf(x, dir, page) # NULL
      BY <3>2 DEF Placeable
    <3> QED
      BY <3>1, <3>2
  <2> HIDE DEF k, n
  <2>6. /\ Good(n) /\ Role(n, dir) = "directory" /\ tb # NULL /\ tb = TableOf(k, dir, page)
    BY <2>3, <2>5, SameIsGood DEF Good, Same, Role, TableOf
  <2>7. \A f, s, g : Points(n, f, s, g) <=> Points(k, f, s, g)
    BY <2>3 DEF Same, Points, Waits, Holds, Role, Word
  <2>8. frame # NULL => Role(n, frame) = "data"
    BY <2>3, <2>5 DEF Same, Role
  <2>9. tb \in LowFrame /\ Role(n, tb) = "table"
    BY <2>6, MappingIs
  <2>10. PteOf(page) \in Slot
    BY PageIndices
  <2>11. pte \in Pte /\ pte.frame = frame
    BY <2>5 DEF Pte, NoPte
  <2>12. /\ u.of = "table" /\ u.frame = tb /\ u.slot = PteOf(page) /\ u.val = pte
    BY DEF PteUpdate
  <2>13. y = n \/ y = vmm_queue_mmu_update(n, u)
    BY <2>1 DEF SetEntry
  <2> HIDE DEF tb, pte, u, y
  <2>14. Fits(n, u)
    <3>1. IsUpdate(n, u)
      BY <2>9, <2>10, <2>11, <2>12 DEF IsUpdate
    <3> QED
      BY <2>5, <2>6, <2>7, <2>8, <2>11, <2>12, <3>1 DEF Fits
  <2>15. Good(vmm_queue_mmu_update(n, u))
    BY <2>3, <2>4, <2>6, <2>14, EntryGood
  <2> QED
    BY <2>6, <2>13, <2>15 DEF y
<1> QED
  BY <1>2, <1>3

\* A frame that is no table is changed.
LEMMA LeafTables ==
  ASSUME NEW x, NEW y, NEW e \in LowFrame, TablesOK(x),
         Role(x, e) \in {"data", "free"}, Role(y, e) \in {"data", "free"},
         \A f \in LowFrame : f # e => y.ram[f] = x.ram[f],
         y.pgdir = x.pgdir, y.readonly = x.readonly
  PROVE  TablesOK(y)
<1>1. \A f \in LowFrame : /\ Role(y, f) = "directory" <=> Role(x, f) = "directory"
                          /\ Role(y, f) = "table" <=> Role(x, f) = "table"
  BY DEF Role
<1>2. \A d \in LowFrame : \A i, f : Names(y, d, i, f) <=> Names(x, d, i, f)
  BY <1>1 DEF Names, Role, Word
<1>3. DirectoriesOK(y)
  BY <1>1 DEF TablesOK, DirectoriesOK
<1>4. NamesOK(y)
  BY <1>1, <1>2 DEF TablesOK, NamesOK
<1>5. RightsOK(y)
  BY <1>1 DEF TablesOK, RightsOK
<1> QED
  BY <1>3, <1>4, <1>5 DEF TablesOK

\* The words of a page change.
LEMMA WriteIs ==
  ASSUME NEW x, NEW e \in LowFrame, NEW w, IsMem(x)
  PROVE  LET y == [x EXCEPT !.ram[e].word = w]
         IN  Shape(x, y) /\ (Good(x) /\ Role(x, e) = "data" => Good(y))
<1> DEFINE y == [x EXCEPT !.ram[e].word = w]
<1>1. Shape(x, y) /\ IsMem(y) /\ y.queue = x.queue /\ y.readonly = x.readonly /\ y.pgdir = x.pgdir
  BY DEF Shape, IsMem, Keeps, Fields
<1>2. ASSUME Good(x), Role(x, e) = "data"
      PROVE  Good(y)
  <2>1. RamOK(x) /\ QueueOK(x) /\ PagesOK(x) /\ TablesOK(x) /\ DOMAIN x.ram = LowFrame
        /\ DOMAIN x.ram[e] = {"role", "word"}
    BY <1>2 DEF Good, EntriesOK, RamOK
  <2>2. /\ DOMAIN y.ram = LowFrame
        /\ \A f \in LowFrame : f # e => y.ram[f] = x.ram[f]
        /\ y.ram[e] = [x.ram[e] EXCEPT !.word = w]
    BY <2>1 DEF IsMem, Fields
  <2> HIDE DEF y
  <2>3. Role(y, e) = "data" /\ DOMAIN y.ram[e] = {"role", "word"}
    BY <1>2, <2>1, <2>2 DEF Role
  <2>4. \A f \in LowFrame : Role(y, f) = Role(x, f)
    BY <1>2, <2>2, <2>3 DEF Role
  <2>5. RamOK(y)
    BY <2>1, <2>2, <2>3 DEF RamOK, Role
  <2>6. QueueOK(y)
    BY <1>1, <2>1, <2>4 DEF QueueOK, IsUpdate
  <2>7. \A f \in LowFrame : \A s, g : Points(y, f, s, g) <=> Points(x, f, s, g)
    BY <1>1, <1>2, <2>2, <2>3 DEF Points, Waits, Holds, Role, Word
  <2>8. PagesOK(y)
    BY <2>1, <2>4, <2>7 DEF PagesOK
  <2>9. TablesOK(y)
    BY <1>1, <1>2, <2>1, <2>2, <2>3, LeafTables
  <2> QED
    BY <2>5, <2>6, <2>8, <2>9 DEF Good, EntriesOK
<1> QED
  BY <1>1, <1>2

\* A task's directory is one.
LEMMA DirectoryOf ==
  ASSUME NEW x, NEW t \in Task, Good(x), x.pgdir[t] # NULL
  PROVE  x.pgdir[t] \in LowFrame /\ Role(x, x.pgdir[t]) = "directory"
BY DEF Good, TablesOK, DirectoriesOK

\* vmm_ppf_free leaves memory in shape.
LEMMA FreeShape ==
  ASSUME NEW x, NEW e, IsMem(x)
  PROVE  LET y == vmm_ppf_free(x, e)
         IN  Shape(x, y) /\ y.queue = x.queue /\ y.readonly = x.readonly /\ y.panicked = x.panicked
BY DEF vmm_ppf_free, Shape, IsMem, Keeps, Fields

\* A page that no entry names any more is freed.
LEMMA FreePageIs ==
  ASSUME NEW x, NEW e \in LowFrame, IsMem(x), Good(x), Role(x, e) = "data",
         \A f \in LowFrame, s \in Slot : ~Points(x, f, s, e)
  PROVE  Good(vmm_ppf_free(x, e))
<1> DEFINE y == vmm_ppf_free(x, e)
<1>1. IsMem(y) /\ y.queue = x.queue /\ y.readonly = x.readonly /\ y.pgdir = x.pgdir
  BY FreeShape DEF Shape, Keeps
<1>2. RamOK(x) /\ QueueOK(x) /\ PagesOK(x) /\ TablesOK(x) /\ DOMAIN x.ram = LowFrame
  BY DEF Good, EntriesOK, RamOK
<1>3. y = [x EXCEPT !.ram[e] = FreeFrame]
  BY DEF vmm_ppf_free
<1>4. /\ DOMAIN y.ram = LowFrame /\ y.ram[e] = FreeFrame
      /\ \A f \in LowFrame : f # e => y.ram[f] = x.ram[f]
  BY <1>2, <1>3 DEF IsMem, Fields
<1> HIDE DEF y
<1>5. Role(y, e) = "free" /\ DOMAIN y.ram[e] = {"role", "word"}
  BY <1>4 DEF Role, FreeFrame
<1>6. RamOK(y)
  BY <1>2, <1>4, <1>5 DEF RamOK, Role
<1>7. QueueOK(y)
  BY <1>1, <1>2, <1>4, <1>5 DEF QueueOK, IsUpdate, Role
<1>8. \A f \in LowFrame : \A s, g : Points(y, f, s, g) <=> Points(x, f, s, g)
  BY <1>1, <1>4, <1>5 DEF Points, Waits, Holds, Role, Word
<1>9. PagesOK(y)
  <2>1. ASSUME NEW f \in LowFrame, NEW s \in Slot, NEW g \in LowFrame, Points(y, f, s, g)
        PROVE  Role(y, g) = "data"
    <3>1. Points(x, f, s, g) /\ g # e
      BY <1>8, <2>1
    <3> QED
      BY <1>2, <1>4, <3>1 DEF PagesOK, Role
  <2> QED
    BY <1>2, <1>8, <2>1 DEF PagesOK
<1>10. TablesOK(y)
  BY <1>1, <1>2, <1>4, <1>5, LeafTables
<1> QED
  BY <1>6, <1>7, <1>9, <1>10 DEF Good, EntriesOK, y

\* A page of a task is taken away, and its frame freed after the flush
\* (vm_area_unmap).
LEMMA UnmapDoes ==
  ASSUME NEW x, NEW t \in Task, NEW page, UserPage(page)
  PROVE  Does(x, UnmapPage(x, t, page), {t})
<1> DEFINE dir == x.pgdir[t]
           frame == vmm_get_mapping(x, dir, page).frame
           n == vmm_map_page(x, dir, page, NULL, FALSE)
           z == vmm_flush_mmu_update_queue(n)
           y == UnmapPage(x, t, page)
<1>1. \/ frame = NULL /\ y = x
      \/ frame # NULL /\ y = vmm_ppf_free(z, frame)
  BY DEF UnmapPage
<1> HIDE DEF y
<1>2. Shape(x, y)
  <2>1. IsMem(x) => Shape(x, n)
    BY MapShape
  <2>2. IsMem(n) => Shape(n, z)
    BY FlushShape
  <2>3. IsMem(z) => Shape(z, vmm_ppf_free(z, frame))
    BY FreeShape
  <2> HIDE DEF n, z
  <2> QED
    BY <1>1, <2>1, <2>2, <2>3, ShapeChain DEF Shape, Keeps
<1>3. ASSUME IsMem(x), ~y.panicked, Good(x), dir # NULL, frame # NULL
      PROVE  Good(y)
  <2> DEFINE tb == TableOf(x, dir, page)
             s0 == PteOf(page)
             o == Ok(x)
             u == PteUpdate(tb, s0, NoPte)
  <2>1. dir \in LowFrame /\ Role(x, dir) = "directory"
    BY <1>3, DirectoryOf
  <2>2. /\ tb # NULL => tb \in LowFrame /\ Role(x, tb) = "table"
        /\ tb # NULL /\ frame \in LowFrame /\ Role(x, frame) = "data"
        /\ \A f \in LowFrame, s \in Slot : Points(x, f, s, frame) => f = tb /\ s = s0
    BY <1>3, <2>1, MappingIs
  <2>3. IsMem(o) /\ Same(x, o) /\ o.panicked = x.panicked
    BY <1>3, OkIs DEF Does, Shape
  <2>4. vmm_get_mapping(o, dir, page).frame = frame /\ TableOf(o, dir, page) = tb
    BY <2>3 DEF Same, vmm_get_mapping, TableOf
  <2>5. ~x.panicked
    BY <1>2, <1>3 DEF Shape, IsMem
  <2>6. n = vmm_queue_mmu_update(o, u)
    <3>1. NoPte.frame = NULL
      BY DEF NoPte
    <3>2. n = SetEntry(o, dir, page, NoPte)
      BY <2>2 DEF vmm_map_page
    <3> HIDE DEF n, o, tb, frame
    <3> QED
      BY <1>3, <2>3, <2>4, <2>5, <3>1, <3>2 DEF SetEntry
  <2>7. u.of = "table" /\ u.frame = tb /\ u.slot = s0 /\ u.val = NoPte
    BY DEF PteUpdate
  <2>8. s0 \in Slot /\ NoPte \in Pte
    BY PageIndices DEF Pte
  <2>9. Good(o) /\ RamOK(o) /\ QueueOK(o) /\ PagesOK(o) /\ TablesOK(o)
    BY <1>3, <2>3, SameIsGood DEF Good, EntriesOK
  <2> HIDE DEF u, n, o
  <2>10. IsUpdate(o, u)
    BY <2>2, <2>3, <2>7, <2>8 DEF IsUpdate, Same, Role
  <2>11. /\ Moved(o, z) /\ z.queue = <<>> /\ Word(z, u.frame, u.slot) = u.val
         /\ \A f \in LowFrame, s \in Slot, g \in LowFrame :
              Holds(z, f, s, g) /\ ~(f = u.frame /\ s = u.slot) => Points(o, f, s, g)
    BY <2>3, <2>5, <2>6, <2>9, <2>10, EntryFlushed
  <2> HIDE DEF z, tb, s0, frame
  <2>12. \A f, s, g : Points(o, f, s, g) <=> Points(x, f, s, g)
    BY <2>3 DEF Same, Points, Waits, Holds, Role, Word
  <2>13. ASSUME NEW f \in LowFrame, NEW s \in Slot, NEW g \in LowFrame, Holds(z, f, s, g)
         PROVE  Points(o, f, s, g) /\ g # frame
    <3>1. ~(f = u.frame /\ s = u.slot)
      <4>1. NULL \notin LowFrame
        BY PageTablesAssumption DEF NULL
      <4> QED
        BY <2>7, <2>11, <2>13, <4>1 DEF Holds, NoPte
    <3>2. Points(x, f, s, g)
      BY <2>11, <2>12, <2>13, <3>1
    <3> QED
      BY <2>2, <2>7, <2>12, <3>1, <3>2
  <2>14. /\ RamOK(z) /\ \A g \in LowFrame : Role(z, g) = Role(o, g)
    BY <2>11 DEF Moved
  <2>15. /\ EntriesOK(z) /\ \A f, s, g : Points(z, f, s, g) => Holds(z, f, s, g)
    <3>1. \A f \in LowFrame, s \in Slot, g \in LowFrame :
            Holds(z, f, s, g) => Points(o, f, s, g) /\ Role(z, g) = "data"
      BY <2>9, <2>13, <2>14 DEF PagesOK
    <3> QED
      BY <2>9, <2>11, <2>14, <3>1, FlushedEntries
  <2>16. Good(z)
    BY <2>9, <2>11, <2>15, MovedTables DEF Good
  <2>17. Role(z, frame) = "data" /\ \A f \in LowFrame, s \in Slot : ~Points(z, f, s, frame)
    BY <2>2, <2>3, <2>13, <2>14, <2>15 DEF Same, Role
  <2>18. y = vmm_ppf_free(z, frame) /\ IsMem(z)
    BY <1>1, <1>3, <2>11 DEF Moved
  <2> QED
    BY <2>2, <2>16, <2>17, <2>18, FreePageIs
<1> HIDE DEF frame
<1>4. IsMem(x) /\ ~y.panicked /\ Good(x) /\ dir # NULL => Good(y)
  BY <1>1, <1>3
<1> QED
  BY <1>2, <1>4 DEF Does, y

\* The entry of a page is made absent.
LEMMA NothingDoes ==
  ASSUME NEW x, NEW t \in Task, NEW page, UserPage(page)
  PROVE  Does(x, MapNothing(x, t, page), {t})
<1>1. Shape(x, MapNothing(x, t, page))
  BY MapShape DEF MapNothing, Shape
<1>2. ASSUME IsMem(x), Good(x), x.pgdir[t] # NULL, ~MapNothing(x, t, page).panicked
      PROVE  Good(MapNothing(x, t, page))
  BY <1>2, DirectoryOf, MapIs DEF MapNothing, Placeable
<1> QED
  BY <1>1, <1>2 DEF Does

-----------------------------------------------------------------------------
(* Areas *)

\* To do nothing is harmless.
LEMMA DoesNothing ==
  ASSUME NEW x, NEW T
  PROVE  Does(x, x, T)
BY DEF Does, Shape, Keeps

\* It does the same for more tasks.
LEMMA DoesMore ==
  ASSUME NEW x, NEW y, NEW t, NEW s, Does(x, y, {t})
  PROVE  Does(x, y, {t, s}) /\ Does(x, y, {s, t})
BY DEF Does

\* A loop over an area visits pages of programs.
LEMMA AreaPages ==
  ASSUME NEW v \in UserArea
  PROVE  LET s == PagesInTurn(v)
         IN  Len(s) \in Nat /\ \A n \in 1 .. Len(s) : UserPage(s[n])
<1> DEFINE a == PageOf(v.start)
           b == PageOf(v.start + v.size - 1)
<1>1. a \in Nat /\ b \in Nat /\ \A page \in a .. b : UserPage(page)
  BY PagesOfArea
<1> HIDE DEF a, b
<1> DEFINE s == Ascending(a, b)
<1>2. Len(s) \in Nat /\ \A n \in 1 .. Len(s) : s[n] = a + n - 1 /\ a + n - 1 \in a .. b
  BY <1>1, AscendingIs
<1> HIDE DEF s
<1>3. \A n \in 1 .. Len(s) : UserPage(s[n])
  BY <1>1, <1>2
<1> QED
  BY <1>2, <1>3 DEF a, b, s, PagesInTurn

\* All the pages of an area are taken away (vm_area_unmap).
LEMMA UnmapAreaDoes ==
  ASSUME NEW x, NEW t \in Task, NEW v \in UserArea
  PROVE  Does(x, vm_area_unmap(x, t, v), {t})
<1> DEFINE s == PagesInTurn(v)
           N == Len(s)
<1>1. N \in Nat /\ \A n \in 1 .. N : UserPage(s[n])
  BY AreaPages
<1>2. PICK f : /\ f[0] = Ok(x) /\ vm_area_unmap(x, t, v) = f[N]
               /\ \A n \in 1 .. N :
                    f[n] = IF Failed(f[n - 1]) THEN f[n - 1] ELSE UnmapPage(f[n - 1], t, s[n])
  BY <1>1, UnmapLoop
<1> HIDE DEF N, s
<1>3. \A n \in 1 .. N : Does(f[n - 1], f[n], {t})
  BY <1>1, <1>2, UnmapDoes, DoesNothing
<1>4. Does(f[0], f[N], {t})
  BY <1>1, <1>3, DoesLoop
<1> QED
  BY <1>2, <1>4, OkIs, DoesChain

\* The tables for an area are made (vm_area_create_null).
LEMMA CreateNullDoes ==
  ASSUME NEW x, NEW t \in Task, NEW v \in UserArea
  PROVE  Does(x, vm_area_create_null(x, t, v), {t})
<1> DEFINE s == PagesInTurn(v)
           N == Len(s)
           n1 == MapNothings(x, t, v)
<1>1. N \in Nat /\ \A n \in 1 .. N : UserPage(s[n])
  BY AreaPages
<1>2. PICK f : /\ f[0] = Ok(x) /\ MapNothings(x, t, v) = f[N]
               /\ \A n \in 1 .. N :
                    f[n] = IF Failed(f[n - 1]) THEN f[n - 1] ELSE MapNothing(f[n - 1], t, s[n])
  BY <1>1, NothingLoop
<1>3. vm_area_create_null(x, t, v) = IF Failed(n1) THEN n1 ELSE vmm_flush_mmu_update_queue(n1)
  BY DEF vm_area_create_null, AndThen
<1> HIDE DEF N, s, n1
<1>4. \A n \in 1 .. N : Does(f[n - 1], f[n], {t})
  BY <1>1, <1>2, NothingDoes, DoesNothing
<1>5. Does(f[0], f[N], {t})
  BY <1>1, <1>4, DoesLoop
<1>6. Does(x, n1, {t})
  BY <1>2, <1>5, OkIs, DoesChain DEF n1
<1>7. Does(n1, vmm_flush_mmu_update_queue(n1), {t})
  BY FlushDoes
<1> QED
  BY <1>3, <1>6, <1>7, DoesChain

\* A frame for data.
LEMMA AllocDataIs ==
  ASSUME NEW x, NEW words, IsMem(x), ~Full(x)
  PROVE  LET y == vmm_ppf_alloc(x, "data", words)
             e == NextFrame(x)
         IN  /\ Shape(x, y) /\ y.panicked = x.panicked
             /\ Good(x) => /\ Good(y) /\ e \in LowFrame /\ Role(y, e) = "data"
                           /\ \A f \in LowFrame, s \in Slot : ~Points(y, f, s, e)
                           /\ \A d \in LowFrame : Role(x, d) = "directory" =>
                                Role(y, d) = "directory" /\ y.ram[d] = x.ram[d]
<1> DEFINE y == vmm_ppf_alloc(x, "data", words)
           e == NextFrame(x)
<1>1. Shape(x, y) /\ y.panicked = x.panicked
  BY DEF vmm_ppf_alloc, Shape, IsMem, Keeps, Fields
<1>2. ASSUME Good(x)
      PROVE  /\ Good(y) /\ e \in LowFrame /\ Role(y, e) = "data"
             /\ \A f \in LowFrame, s \in Slot : ~Points(y, f, s, e)
             /\ \A d \in LowFrame : Role(x, d) = "directory" =>
                  Role(y, d) = "directory" /\ y.ram[d] = x.ram[d]
  <2>1. RamOK(x) /\ QueueOK(x) /\ PagesOK(x) /\ TablesOK(x)
    BY <1>2 DEF Good, EntriesOK
  <2>2. e \in LowFrame /\ Role(x, e) = "free"
    BY NextIsFree
  <2>3. /\ IsMem(y) /\ Keeps(x, y) /\ y.readonly = x.readonly
        /\ RamOK(y) /\ QueueOK(y) /\ PagesOK(y)
        /\ y.ram[e] = [role |-> "data", word |-> words]
        /\ \A g \in LowFrame : g # e => y.ram[g] = x.ram[g]
        /\ \A f \in LowFrame, s \in Slot, g \in LowFrame : Points(y, f, s, g) => Points(x, f, s, g)
        /\ \A f \in LowFrame, s \in Slot : ~Points(x, f, s, e)
    BY <2>1, AllocIs
  <2> HIDE DEF e, y
  <2>4. Role(y, e) = "data"
    BY <2>3 DEF Role
  <2>5. TablesOK(y)
    BY <2>1, <2>2, <2>3, <2>4, LeafTables DEF Keeps
  <2>6. \A d \in LowFrame : Role(x, d) = "directory" => Role(y, d) = "directory" /\ y.ram[d] = x.ram[d]
    BY <2>2, <2>3 DEF Role
  <2> QED
    BY <2>2, <2>3, <2>4, <2>5, <2>6 DEF Good, EntriesOK
<1> QED
  BY <1>1, <1>2

\* A copy of a page, or nothing.
LEMMA CopyPageDoes ==
  ASSUME NEW x, NEW t \in Task, NEW src \in Task, NEW page, UserPage(page)
  PROVE  Does(x, CopyPage(x, t, src, page), {t, src})
<1> DEFINE pte == vmm_get_mapping(x, x.pgdir[src], page)
           words == x.ram[pte.frame].word
           y == CopyPage(x, t, src, page)
<1>1. CASE pte.frame = NULL
  <2>1. y = MapNothing(x, t, page)
    BY <1>1 DEF CopyPage
  <2>2. Does(x, MapNothing(x, t, page), {t})
    BY NothingDoes
  <2> HIDE DEF y
  <2>3. Does(x, y, {t, src})
    BY <2>1, <2>2, DoesMore
  <2> QED
    BY <2>3 DEF y
<1>2. CASE pte.frame # NULL /\ Full(x)
  <2> DEFINE n == [x EXCEPT !.spoiled = @ \cup {t}]
  <2>1. y = vmm_map_page(n, n.pgdir[t], page, NULL, pte.wr)
    BY <1>2 DEF CopyPage
  <2>2. ASSUME IsMem(x)
        PROVE  IsMem(n) /\ Shape(x, n) /\ Same(x, n)
    BY <2>2 DEF Shape, IsMem, Keeps, Same, Fields
  <2> HIDE DEF n
  <2>3. y = vmm_map_page(n, n.pgdir[t], page, NULL, FALSE) \/ y = vmm_map_page(n, n.pgdir[t], page, NULL, TRUE)
    BY <2>1 DEF vmm_map_page
  <2> HIDE DEF y
  <2>4. Shape(x, y)
    BY <2>1, <2>2, MapShape, ShapeChain DEF Shape
  <2>5. ASSUME IsMem(x), Good(x), x.pgdir[t] # NULL, ~y.panicked
        PROVE  Good(y)
    <3>1. IsMem(n) /\ Good(n) /\ n.pgdir[t] # NULL
      BY <2>2, <2>5, SameIsGood DEF Good, Same
    <3>2. n.pgdir[t] \in LowFrame /\ Role(n, n.pgdir[t]) = "directory"
      BY <3>1, DirectoryOf
    <3> QED
      BY <2>3, <2>5, <3>1, <3>2, MapIs DEF Placeable
  <2>6. IsMem(x) /\ ~y.panicked /\ Good(x) /\ (\A s \in {t, src} : x.pgdir[s] # NULL) => Good(y)
    BY <2>5
  <2> QED
    BY <2>4, <2>6 DEF Does, y
<1>3. CASE pte.frame # NULL /\ ~Full(x)
  <2> DEFINE n == vmm_ppf_alloc(x, "data", words)
             e == NextFrame(x)
  <2>1. y = vmm_map_page(n, x.pgdir[t], page, e, pte.wr)
    BY <1>3 DEF CopyPage, Full
  <2>2. ASSUME IsMem(x)
        PROVE  /\ IsMem(n) /\ Shape(x, n) /\ Keeps(x, n)
               /\ Good(x) => /\ Good(n) /\ e \in LowFrame /\ Role(n, e) = "data"
                             /\ \A f \in LowFrame, s \in Slot : ~Points(n, f, s, e)
    BY <1>3, <2>2, AllocDataIs DEF Shape
  <2> HIDE DEF n, y, e
  <2>3. Shape(x, y)
    BY <2>1, <2>2, MapShape, ShapeChain DEF Shape
  <2>4. ASSUME IsMem(x), Good(x), x.pgdir[t] # NULL, x.pgdir[src] # NULL, ~y.panicked
        PROVE  Good(y)
    <3>1. IsMem(n) /\ Good(n) /\ n.pgdir[t] # NULL /\ n.pgdir = x.pgdir
      BY <2>2, <2>4 DEF Keeps
    <3>2. n.pgdir[t] \in LowFrame /\ Role(n, n.pgdir[t]) = "directory"
      BY <3>1, DirectoryOf
    <3>3. x.pgdir[src] \in LowFrame /\ Role(x, x.pgdir[src]) = "directory"
      BY <2>4, DirectoryOf
    <3>4. pte \in Pte
      BY <2>4, <3>3, MappingIs
    <3> HIDE DEF pte
    <3>5. pte.wr \in BOOLEAN
      <4>1. pte = NoPte \/ pte \in [frame : LowFrame, wr : BOOLEAN]
        BY <3>4 DEF Pte
      <4>2. CASE pte = NoPte
        BY <4>2 DEF NoPte
      <4>3. CASE pte \in [frame : LowFrame, wr : BOOLEAN]
        BY <4>3
      <4> QED
        BY <4>1, <4>2, <4>3
    <3>6. Placeable(n, n.pgdir[t], page, e)
      BY <2>2, <2>4 DEF Placeable
    <3> QED
      BY <2>1, <2>4, <3>1, <3>2, <3>5, <3>6, MapIs
  <2> QED
    BY <2>3, <2>4 DEF Does, y
<1> QED
  BY <1>1, <1>2, <1>3

\* An area is copied page by page (vm_area_copy).
LEMMA CopyAreaDoes ==
  ASSUME NEW x, NEW t \in Task, NEW src \in Task, NEW v \in UserArea
  PROVE  Does(x, vm_area_copy(x, t, src, v), {t, src})
<1> DEFINE s == PagesInTurn(v)
           N == Len(s)
           n1 == CopyPages(x, t, src, v)
<1>1. N \in Nat /\ \A n \in 1 .. N : UserPage(s[n])
  BY AreaPages
<1>2. PICK f : /\ f[0] = Ok(x) /\ n1 = f[N]
               /\ \A n \in 1 .. N :
                    f[n] = IF Failed(f[n - 1]) THEN f[n - 1] ELSE CopyPage(f[n - 1], t, src, s[n])
  BY <1>1, CopyLoop
<1>3. vm_area_copy(x, t, src, v) = IF Failed(n1) THEN n1 ELSE vmm_flush_mmu_update_queue(n1)
  BY DEF vm_area_copy, AndThen
<1> HIDE DEF N, s, n1
<1>4. \A n \in 1 .. N : Does(f[n - 1], f[n], {t, src})
  BY <1>1, <1>2, CopyPageDoes, DoesNothing
<1>5. Does(f[0], f[N], {t, src})
  BY <1>1, <1>4, DoesLoop
<1>6. Does(x, n1, {t, src})
  BY <1>2, <1>5, OkIs, DoesChain
<1>7. Does(n1, vmm_flush_mmu_update_queue(n1), {t, src})
  BY FlushDoes
<1> QED
  BY <1>3, <1>6, <1>7, DoesChain

\* A list with an area added or removed is a list of areas.
LEMMA AddedIs ==
  ASSUME NEW list \in Seq(UserArea), NEW v \in UserArea
  PROVE  vm_area_add(list, v) \in Seq(UserArea)
<1> DEFINE later == {i \in DOMAIN list : list[i].start > v.start} \cup {Len(list) + 1}
           i == Min(later)
<1>1. Len(list) \in Nat /\ DOMAIN list = 1 .. Len(list)
  OBVIOUS
<1>2. later \in SUBSET Nat /\ later # {} /\ \A j \in later : j \in 1 .. Len(list) + 1
  BY <1>1
<1> HIDE DEF later
<1>3. i \in 1 .. Len(list) + 1
  BY <1>2, LeastNumber
<1>4. vm_area_add(list, v) = SubSeq(list, 1, i - 1) \o <<v>> \o SubSeq(list, i, Len(list))
  BY DEF vm_area_add, InsertAt, later
<1> HIDE DEF i
<1>5. i \in Int /\ i - 1 \in Int /\ Len(list) \in Int /\ 1 \in Int
      /\ (\A j \in 1 .. i - 1 : j \in 1 .. Len(list)) /\ (\A j \in i .. Len(list) : j \in 1 .. Len(list))
  BY <1>1, <1>3
<1>6. \A j \in 1 .. Len(list) : list[j] \in UserArea
  OBVIOUS
<1>7. SubSeq(list, 1, i - 1) \in Seq(UserArea) /\ SubSeq(list, i, Len(list)) \in Seq(UserArea)
  BY <1>5, <1>6, SubSeqProperties
<1>8. <<v>> \in Seq(UserArea)
  OBVIOUS
<1>9. SubSeq(list, 1, i - 1) \o <<v>> \in Seq(UserArea)
  BY <1>7, <1>8, ConcatProperties
<1> QED
  BY <1>4, <1>7, <1>9, ConcatProperties

\* A list of areas with one taken out.
LEMMA RemovedIs ==
  ASSUME NEW list \in Seq(UserArea), NEW v
  PROVE  RemoveFirst(list, v) \in Seq(UserArea)
<1> DEFINE same == {j \in 1 .. Len(list) : list[j] = v}
           i == Min(same)
<1>1. Len(list) \in Nat
  OBVIOUS
<1>2. CASE same = {}
  <2>1. RemoveFirst(list, v) = list
    BY <1>2 DEF RemoveFirst
  <2> QED
    BY <2>1
<1>3. CASE same # {}
  <2>1. same \in SUBSET Nat
    OBVIOUS
  <2>2. i \in 1 .. Len(list)
    <3>1. i \in same
      BY <1>3, <2>1, LeastNumber
    <3> QED
      BY <3>1
  <2>3. RemoveFirst(list, v) = SubSeq(list, 1, i - 1) \o SubSeq(list, i + 1, Len(list))
    <3>1. \E j \in 1 .. Len(list) : list[j] = v
      BY <1>3
    <3> QED
      BY <1>3, <3>1 DEF RemoveFirst, RemoveAt, SelectInSeq
  <2> HIDE DEF i, same
  <2>4. i - 1 \in Int /\ i + 1 \in Int /\ Len(list) \in Int /\ 1 \in Int
        /\ (\A j \in 1 .. i - 1 : j \in 1 .. Len(list)) /\ (\A j \in i + 1 .. Len(list) : j \in 1 .. Len(list))
    BY <1>1, <2>2
  <2>5. \A j \in 1 .. Len(list) : list[j] \in UserArea
    OBVIOUS
  <2>6. SubSeq(list, 1, i - 1) \in Seq(UserArea) /\ SubSeq(list, i + 1, Len(list)) \in Seq(UserArea)
    BY <2>4, <2>5, SubSeqProperties
  <2> QED
    BY <2>3, <2>6, ConcatProperties
<1> QED
  BY <1>2, <1>3

\* A page for an area, with its rights.
LEMMA CreatePageDoes ==
  ASSUME NEW x, NEW t \in Task, NEW v \in UserArea, NEW page, UserPage(page)
  PROVE  Does(x, vm_area_create(x, t, v, page), {t})
<1> DEFINE dir == x.pgdir[t]
           old == vmm_get_mapping(x, dir, page).frame
           n == vmm_ppf_alloc(x, "data", JunkPage)
           e == NextFrame(x)
           y == vm_area_create(x, t, v, page)
           a == vmm_map_page(x, dir, page, old, v.wr)
           b == vmm_map_page(n, n.pgdir[t], page, e, v.wr)
<1>0. v.wr \in BOOLEAN
  BY DEF UserArea
<1>1. CASE old = NULL /\ Full(x)
  <2>1. y = Fail(x)
    BY <1>1 DEF vm_area_create
  <2> HIDE DEF y
  <2>2. Does(x, y, {t})
    BY <2>1, FailIs
  <2> QED
    BY <2>2 DEF y
<1>2. CASE old # NULL
  <2>1. y = Ok(vmm_flush_mmu_update_queue(a))
    BY <1>2 DEF vm_area_create
  <2>2. Shape(x, a)
    BY MapShape DEF Shape
  <2>3. ASSUME IsMem(x), ~a.panicked, Good(x), dir # NULL
        PROVE  Good(a)
    <3>1. dir \in LowFrame /\ Role(x, dir) = "directory"
      BY <2>3, DirectoryOf
    <3>2. Placeable(x, dir, page, old)
      BY <1>2, <2>3, <3>1, MappingIs DEF Placeable
    <3> HIDE DEF dir, old
    <3> QED
      BY <1>0, <2>3, <3>1, <3>2, MapIs
  <2> HIDE DEF a, y
  <2>4. Does(x, a, {t})
    BY <2>2, <2>3 DEF Does
  <2>5. Does(a, vmm_flush_mmu_update_queue(a), {t})
    BY FlushDoes
  <2>6. Does(vmm_flush_mmu_update_queue(a), y, {t})
    BY <2>1, OkIs
  <2>7. Does(x, y, {t})
    BY <2>4, <2>5, <2>6, DoesChain
  <2> QED
    BY <2>7 DEF y
<1>3. CASE old = NULL /\ ~Full(x)
  <2>1. y = Ok(vmm_flush_mmu_update_queue(vmm_map_page(n, dir, page, e, v.wr)))
    BY <1>3 DEF vm_area_create, Full
  <2>2. ASSUME IsMem(x)
        PROVE  /\ IsMem(n) /\ Shape(x, n) /\ Keeps(x, n) /\ n.pgdir = x.pgdir
               /\ Good(x) => /\ Good(n) /\ e \in LowFrame /\ Role(n, e) = "data"
                             /\ \A f \in LowFrame, s \in Slot : ~Points(n, f, s, e)
    BY <1>3, <2>2, AllocDataIs DEF Shape, Keeps
  <2> DEFINE c == vmm_map_page(n, dir, page, e, v.wr)
  <2> HIDE DEF n, y, e
  <2>3. Shape(x, c)
    BY <2>2, MapShape, ShapeChain DEF Shape
  <2>4. ASSUME IsMem(x), Good(x), dir # NULL, ~c.panicked
        PROVE  Good(c)
    <3>1. IsMem(n) /\ Good(n) /\ n.pgdir[t] # NULL /\ n.pgdir = x.pgdir
      BY <2>2, <2>4
    <3>2. n.pgdir[t] \in LowFrame /\ Role(n, n.pgdir[t]) = "directory"
      BY <3>1, DirectoryOf
    <3>3. Placeable(n, n.pgdir[t], page, e)
      BY <2>2, <2>4 DEF Placeable
    <3> QED
      BY <1>0, <2>4, <3>1, <3>2, <3>3, MapIs
  <2> HIDE DEF c
  <2>5. IsMem(x) /\ Good(x) /\ dir # NULL /\ ~c.panicked => Good(c)
    BY <2>4
  <2>6. Does(x, c, {t})
    BY <2>3, <2>5 DEF Does
  <2>7. Does(c, vmm_flush_mmu_update_queue(c), {t})
    BY FlushDoes
  <2>8. Does(vmm_flush_mmu_update_queue(c), y, {t})
    BY <2>1, OkIs DEF c
  <2>9. Does(x, y, {t})
    BY <2>6, <2>7, <2>8, DoesChain
  <2> QED
    BY <2>9 DEF y
<1> QED
  BY <1>1, <1>2, <1>3

\* What a page holds is none of the tables' business.
LEMMA FillDoes ==
  ASSUME NEW x, NEW t \in Task, NEW v, NEW page, NEW content, UserPage(page)
  PROVE  Does(x, Fill(x, t, v, page, content), {t})
<1> DEFINE dir == x.pgdir[t]
           e == vmm_get_mapping(x, dir, page).frame
           cells == {Cell(a) : a \in {b \in Addresses(v) : PageOf(b) = page}}
           w == [c \in cells |-> content[page * CellsPerPage + c]] @@ x.ram[e].word
           y == Fill(x, t, v, page, content)
<1>1. (e = NULL /\ y = x) \/ (e # NULL /\ y = [x EXCEPT !.ram[e].word = w])
  BY DEF Fill
<1> HIDE DEF w, y, cells, e
<1>2. Shape(x, y)
  BY <1>1 DEF Shape, IsMem, Keeps, Fields
<1>3. ASSUME IsMem(x), Good(x), dir # NULL, e # NULL
      PROVE  Good(y)
  <2>1. dir \in LowFrame /\ Role(x, dir) = "directory"
    BY <1>3, DirectoryOf
  <2>2. e \in LowFrame /\ Role(x, e) = "data"
    BY <1>3, <2>1, MappingIs DEF e
  <2> HIDE DEF dir
  <2> QED
    BY <1>1, <1>3, <2>2, WriteIs
<1>4. IsMem(x) /\ Good(x) /\ dir # NULL => Good(y)
  BY <1>1, <1>3
<1> QED
  BY <1>2, <1>4, ZenonT(40) DEF Does, y

\* A page that is absent is made and filled (vma_nopage_zeropage,
\* vma_nopage_file).
LEMMA NoPageDoes ==
  ASSUME NEW x, NEW t \in Task, NEW v \in UserArea, NEW page, UserPage(page)
  PROVE  Does(x, nopage(x, t, v, page), {t})
<1> DEFINE n == vm_area_create(x, t, v, page)
           y == nopage(x, t, v, page)
<1>1. \/ y = n
      \/ y = Fill(n, t, v, page, ZeroContent(v))
      \/ y = Fill(n, t, v, page, FileContent(v))
  BY DEF nopage, vma_nopage_file, vma_nopage_zeropage, AndThen
<1>2. Does(x, n, {t})
  BY CreatePageDoes
<1> HIDE DEF n, y
<1>3. Does(n, y, {t})
  BY <1>1, FillDoes, DoesNothing
<1>4. Does(x, y, {t})
  BY <1>2, <1>3, DoesChain
<1> QED
  BY <1>4 DEF y

\* A page gets its area's rights (vma_pagewrite_write).
LEMMA PageWriteDoes ==
  ASSUME NEW x, NEW t \in Task, NEW v, NEW page, UserPage(page)
  PROVE  Does(x, pagewrite(x, t, v, page), {t})
<1> DEFINE dir == x.pgdir[t]
           frame == vmm_get_mapping(x, dir, page).frame
           a == vmm_map_page(x, dir, page, frame, TRUE)
           y == pagewrite(x, t, v, page)
<1>1. y = Fail(x) \/ y = vmm_flush_mmu_update_queue(a)
  BY DEF pagewrite
<1>2. Shape(x, a)
  BY MapShape DEF Shape
<1>3. ASSUME IsMem(x), ~a.panicked, Good(x), dir # NULL
      PROVE  Good(a)
  <2>1. dir \in LowFrame /\ Role(x, dir) = "directory"
    BY <1>3, DirectoryOf
  <2>2. Placeable(x, dir, page, frame)
    BY <1>3, <2>1, MappingIs DEF Placeable
  <2> HIDE DEF dir, frame
  <2> QED
    BY <1>3, <2>1, <2>2, MapIs
<1> HIDE DEF a, y
<1>4. Does(x, a, {t})
  BY <1>2, <1>3 DEF Does
<1>5. Does(a, vmm_flush_mmu_update_queue(a), {t}) /\ Does(x, Fail(x), {t})
  BY FlushDoes, FailIs
<1>6. Does(x, y, {t})
  BY <1>1, <1>4, <1>5, DoesChain
<1> QED
  BY <1>6 DEF y

\* The page fault handler changes the memory of the task, in whatever areas.
LEMMA HandleFaultDoes ==
  ASSUME NEW x, NEW t \in Task, NEW page, NEW present \in BOOLEAN, UserPage(page), IsMem(x)
  PROVE  Does(x, HandleFault(x, t, page, present), {t})
<1> DEFINE y == HandleFault(x, t, page, present)
           N == Len(x.vmas[t])
<1>1. N \in Nat /\ \A n \in 1 .. N : x.vmas[t][n] \in UserArea
  BY DEF IsMem
<1>2. CASE Visited(x, t, page) = {}
  <2>1. y = Fail(x)
    BY <1>2 DEF HandleFault
  <2> HIDE DEF y
  <2>2. Does(x, y, {t})
    BY <2>1, FailIs
  <2> QED
    BY <2>2 DEF y
<1>3. CASE Visited(x, t, page) # {}
  <2>1. PICK f : /\ f[0] = Ok(x) /\ y = f[N]
                 /\ \A n \in 1 .. N :
                      f[n] = IF Failed(f[n - 1]) THEN f[n - 1]
                             ELSE Visit(f[n - 1], t, x.vmas[t][n], page, present)
    BY <1>1, <1>3, FaultLoop
  <2> HIDE DEF y, N
  <2>2. ASSUME NEW z, NEW v \in UserArea
        PROVE  Does(z, Visit(z, t, v, page, present), {t})
    <3>1. \/ Visit(z, t, v, page, present) = z
          \/ Visit(z, t, v, page, present) = pagewrite(z, t, v, page)
          \/ Visit(z, t, v, page, present) = nopage(z, t, v, page)
      BY DEF Visit
    <3> QED
      BY <3>1, DoesNothing, PageWriteDoes, NoPageDoes
  <2>3. \A n \in 1 .. N : Does(f[n - 1], f[n], {t})
    BY <1>1, <2>1, <2>2, DoesNothing
  <2>4. Does(f[0], f[N], {t})
    BY <1>1, <2>3, DoesLoop
  <2>5. Does(x, y, {t})
    BY <2>1, <2>4, OkIs, DoesChain
  <2> QED
    BY <2>5 DEF y
<1> QED
  BY <1>2, <1>3

\* The list of areas gets the new one, or the task is stuck with its failure.
LEMMA AllocDoes ==
  ASSUME NEW x, NEW t \in Task, NEW v \in UserArea
  PROVE  Does(x, Alloc(x, t, v), {t})
<1> DEFINE y == Alloc(x, t, v)
           a == vm_area_unmap(x, t, v)
           b == [a EXCEPT !.stuck = @ \cup {t}]
           c == [x EXCEPT !.vmas[t] = vm_area_add(@, v)]
<1>1. y = Fail(b) \/ y = c
  BY DEF Alloc
<1>2. Does(x, a, {t})
  BY UnmapAreaDoes
<1> HIDE DEF a
<1>3. IsMem(a) => Shape(a, b) /\ Same(a, b)
  BY DEF Shape, IsMem, Keeps, Same, Fields
<1>4. Does(a, b, {t})
  BY <1>3, SameIsGood DEF Does, Good, Shape
<1>5. IsMem(x) => Shape(x, c) /\ Same(x, c)
  <2> SUFFICES ASSUME IsMem(x) PROVE Shape(x, c) /\ Same(x, c)
    OBVIOUS
  <2>1. vm_area_add(x.vmas[t], v) \in Seq(UserArea)
    BY AddedIs DEF IsMem
  <2>2. c.vmas = [x.vmas EXCEPT ![t] = vm_area_add(x.vmas[t], v)]
    BY DEF IsMem, Fields
  <2>3. c.vmas \in [Task -> Seq(UserArea)]
    BY <2>1, <2>2 DEF IsMem
  <2> QED
    BY <2>3 DEF Shape, IsMem, Keeps, Same, Fields
<1> HIDE DEF b, c
<1>6. Does(x, c, {t})
  BY <1>5, SameIsGood DEF Does, Good, Shape
<1>7. Does(b, Fail(b), {t})
  BY FailIs
<1> HIDE DEF y
<1>8. Does(x, y, {t})
  BY <1>1, <1>2, <1>4, <1>6, <1>7, DoesChain
<1> QED
  BY <1>8 DEF y

\* An area comes, or what has been made of it goes again (vm_area_alloc).
LEMMA NewAreaDoes ==
  ASSUME NEW x, NEW t \in Task, NEW v \in UserArea
  PROVE  Does(x, vm_area_alloc(x, t, v), {t})
<1> DEFINE n == vm_area_create_null(x, t, v)
<1>1. Does(x, n, {t})
  BY CreateNullDoes
<1> HIDE DEF n
<1>2. Does(n, Alloc(n, t, v), {t})
  BY AllocDoes
<1>3. Does(x, Alloc(n, t, v), {t})
  BY <1>1, <1>2, DoesChain
<1> QED
  BY <1>3 DEF n, vm_area_alloc

\* A copy of an area comes, or what has been made of it goes again
\* (vm_area_init_copy).
LEMMA AreaCopyDoes ==
  ASSUME NEW x, NEW t \in Task, NEW src \in Task, NEW v \in UserArea
  PROVE  Does(x, vm_area_init_copy(x, t, src, v), {t, src})
<1> DEFINE n == vm_area_copy(x, t, src, v)
           w == [v EXCEPT !.off = 0]
           y == Alloc(n, t, w)
<1>1. Does(x, n, {t, src})
  BY CopyAreaDoes
<1>2. w \in UserArea
  BY DEF UserArea, PagesOf
<1> HIDE DEF n, w
<1>3. Does(n, y, {t})
  BY <1>2, AllocDoes
<1> HIDE DEF y
<1>4. Does(n, y, {t, src})
  BY <1>3, DoesMore
<1>5. Does(x, y, {t, src})
  BY <1>1, <1>4, DoesChain
<1> QED
  BY <1>5 DEF n, w, y, vm_area_init_copy

\* An area goes with its pages (vm_area_remove).
LEMMA RemoveAreaDoes ==
  ASSUME NEW x, NEW t \in Task, NEW v \in UserArea
  PROVE  Does(x, vm_area_remove(x, t, v), {t})
<1> DEFINE c == [x EXCEPT !.vmas[t] = RemoveFirst(@, v)]
           y == vm_area_unmap(c, t, v)
<1>1. IsMem(x) => Shape(x, c) /\ Same(x, c)
  <2> SUFFICES ASSUME IsMem(x) PROVE Shape(x, c) /\ Same(x, c)
    OBVIOUS
  <2>1. RemoveFirst(x.vmas[t], v) \in Seq(UserArea)
    BY RemovedIs DEF IsMem
  <2>2. c.vmas = [x.vmas EXCEPT ![t] = RemoveFirst(x.vmas[t], v)]
    BY DEF IsMem, Fields
  <2>3. c.vmas \in [Task -> Seq(UserArea)]
    BY <2>1, <2>2 DEF IsMem
  <2> QED
    BY <2>3 DEF Shape, IsMem, Keeps, Same, Fields
<1> HIDE DEF c
<1>2. Does(x, c, {t})
  BY <1>1, SameIsGood DEF Does, Good, Shape
<1>3. Does(c, y, {t})
  BY UnmapAreaDoes
<1>4. Does(x, y, {t})
  BY <1>2, <1>3, DoesChain
<1> QED
  BY <1>4 DEF c, vm_area_remove

\* All areas of a task go (vm_area_remove_all).
LEMMA RemoveAllDoes ==
  ASSUME NEW x, NEW t \in Task, IsMem(x)
  PROVE  Does(x, vm_area_remove_all(x, t), {t})
<1> DEFINE N == Len(x.vmas[t])
<1>1. N \in Nat /\ \A n \in 1 .. N : x.vmas[t][n] \in UserArea
  BY DEF IsMem
<1>2. PICK f : /\ f[0] = x /\ vm_area_remove_all(x, t) = f[N]
               /\ \A n \in 1 .. N : f[n] = vm_area_remove(f[n - 1], t, x.vmas[t][n])
  BY <1>1, RemoveLoop
<1> HIDE DEF N
<1>3. \A n \in 1 .. N : Does(f[n - 1], f[n], {t})
  BY <1>1, <1>2, RemoveAreaDoes
<1>4. Does(f[0], f[N], {t})
  BY <1>1, <1>3, DoesLoop
<1> QED
  BY <1>2, <1>4

\* All areas but the stack go (vm_area_remove_taskvm).
LEMMA RemoveTaskvmDoes ==
  ASSUME NEW x, NEW t \in Task, IsMem(x)
  PROVE  Does(x, vm_area_remove_taskvm(x, t), {t})
<1> DEFINE N == Len(x.vmas[t])
<1>1. N \in Nat /\ \A n \in 1 .. N : x.vmas[t][n] \in UserArea
  BY DEF IsMem
<1>2. PICK f : /\ f[0] = x /\ vm_area_remove_taskvm(x, t) = f[N]
               /\ \A n \in 1 .. N : f[n] = RemoveUnlessStack(f[n - 1], t, x.vmas[t][n])
  BY <1>1, ExecLoop
<1> HIDE DEF N
<1>3. ASSUME NEW z, NEW v \in UserArea
      PROVE  Does(z, RemoveUnlessStack(z, t, v), {t})
  <2>1. RemoveUnlessStack(z, t, v) = z \/ RemoveUnlessStack(z, t, v) = vm_area_remove(z, t, v)
    BY DEF RemoveUnlessStack
  <2> QED
    BY <2>1, DoesNothing, RemoveAreaDoes
<1>4. \A n \in 1 .. N : Does(f[n - 1], f[n], {t})
  BY <1>1, <1>2, <1>3
<1>5. Does(f[0], f[N], {t})
  BY <1>1, <1>4, DoesLoop
<1> QED
  BY <1>2, <1>5

\* The stack is zeroed (task_reload).
LEMMA ZeroStackDoes ==
  ASSUME NEW x, NEW t \in Task
  PROVE  Does(x, ZeroStack(x, t), {t})
<1> DEFINE s == PagesInTurn(UserStack)
           N == Len(s)
<1>1. N \in Nat /\ \A n \in 1 .. N : UserPage(s[n])
  BY AddressSpacesAssumption, AreaPages
<1>2. PICK f : /\ f[0] = Ok(x) /\ ZeroStack(x, t) = f[N]
               /\ \A n \in 1 .. N :
                    f[n] = IF Failed(f[n - 1]) THEN f[n - 1] ELSE ZeroStackPage(f[n - 1], t, s[n])
  BY <1>1, ZeroLoop
<1> HIDE DEF N, s
<1>3. \A n \in 1 .. N : Does(f[n - 1], f[n], {t})
  BY <1>1, <1>2, FillDoes, DoesNothing DEF ZeroStackPage
<1>4. Does(f[0], f[N], {t})
  BY <1>1, <1>3, DoesLoop
<1> QED
  BY <1>2, <1>4, OkIs, DoesChain

\* The first k of a task's or the executable's areas.
LEMMA FirstAreas ==
  ASSUME NEW s \in Seq(UserArea), NEW k \in 0 .. Len(s)
  PROVE  LET p == SubSeq(s, 1, k)
         IN  Len(p) = k /\ Len(p) \in Nat /\ \A n \in 1 .. Len(p) : p[n] \in UserArea
<1>1. k \in Nat /\ \A n \in 1 .. k : n \in 1 .. Len(s) /\ s[n] \in UserArea
  OBVIOUS
<1>2. Len(SubSeq(s, 1, k)) = k /\ \A n \in 1 .. k : SubSeq(s, 1, k)[n] = s[n]
  BY <1>1
<1> QED
  BY <1>1, <1>2

\* Without a vm_area_t for the next area, the call fails.
LEMMA StructsDoes ==
  ASSUME NEW x, NEW y, NEW k, NEW s, NEW T, Does(x, y, T)
  PROVE  Does(x, StructsFor(y, k, s), T)
BY FailIs, DoesChain DEF StructsFor

\* The areas of the executable come, up to the first that fails (task_load).
LEMMA LoadDoes ==
  ASSUME NEW x, NEW t \in Task, NEW k \in 0 .. Len(Sections)
  PROVE  Does(x, task_load(x, t, k), {t})
<1> DEFINE s == SubSeq(Sections, 1, k)
           N == Len(s)
<1>1. N \in Nat /\ \A n \in 1 .. N : s[n] \in UserArea
  BY FirstAreas, AddressSpacesAssumption
<1>5. task_load(x, t, k) = StructsFor(AllocAreas(x, t, s), k, Sections)
  BY DEF task_load
<1> HIDE DEF s
<1>0. PICK f : LoadRun(f, x, t, s, N)
  BY <1>1, LoadLoop
<1> HIDE DEF N
<1>2. /\ f[0] = Ok(x) /\ AllocAreas(x, t, s) = f[N]
      /\ \A n \in 1 .. N : f[n] = IF Failed(f[n - 1]) THEN f[n - 1]
                                 ELSE vm_area_alloc(f[n - 1], t, s[n])
  BY <1>0 DEF LoadRun
<1>3. \A n \in 1 .. N : Does(f[n - 1], f[n], {t})
  BY <1>1, <1>2, NewAreaDoes, DoesNothing
<1>4. Does(f[0], f[N], {t})
  BY <1>1, <1>3, DoesLoop
<1>6. Does(x, AllocAreas(x, t, s), {t})
  BY <1>2, <1>4, OkIs, DoesChain
<1> QED
  BY <1>5, <1>6, StructsDoes

\* A child gets copies of its parent's areas (vmm_task_copy).
LEMMA TaskCopyDoes ==
  ASSUME NEW x, NEW t \in Task, NEW src \in Task, IsMem(x), NEW k \in 0 .. Len(x.vmas[src])
  PROVE  Does(x, vmm_task_copy(x, t, src, k), {t, src})
<1> DEFINE s == SubSeq(x.vmas[src], 1, k)
           N == Len(s)
<1>1. N \in Nat /\ \A n \in 1 .. N : s[n] \in UserArea
  <2>1. x.vmas[src] \in Seq(UserArea)
    BY DEF IsMem
  <2> QED
    BY <2>1, FirstAreas
<1>5. vmm_task_copy(x, t, src, k) = StructsFor(CopyAreas(x, t, src, s), k, x.vmas[src])
  BY DEF vmm_task_copy
<1> HIDE DEF s
<1>2. PICK f : /\ f[0] = Ok(x) /\ CopyAreas(x, t, src, s) = f[N]
               /\ \A n \in 1 .. N :
                    f[n] = IF Failed(f[n - 1]) THEN f[n - 1]
                           ELSE vm_area_init_copy(f[n - 1], t, src, s[n])
  BY <1>1, ForkLoop
<1> HIDE DEF N
<1>3. \A n \in 1 .. N : Does(f[n - 1], f[n], {t, src})
  BY <1>1, <1>2, AreaCopyDoes, DoesNothing
<1>4. Does(f[0], f[N], {t, src})
  BY <1>1, <1>3, DoesLoop
<1>6. Does(x, CopyAreas(x, t, src, s), {t, src})
  BY <1>2, <1>4, OkIs, DoesChain
<1> QED
  BY <1>5, <1>6, StructsDoes

-----------------------------------------------------------------------------
(* Directories *)

\* An update queued and made, after those that wait.
LEMMA OneFlushed ==
  ASSUME NEW x, NEW u, IsMem(x), ~x.panicked, RamOK(x), QueueOK(x)
  PROVE  LET y == vmm_flush_mmu_update_queue(vmm_queue_mmu_update(x, u))
         IN  \E z : /\ Moved(x, z)
                    /\ \A f \in LowFrame, s \in Slot, g \in LowFrame : Holds(z, f, s, g) => Points(x, f, s, g)
                    /\ Alike(Apply(z, u), y) /\ y.queue = <<>>
<1> DEFINE a == [x EXCEPT !.queue = Append(@, u)]
           y == vmm_flush_mmu_update_queue(vmm_queue_mmu_update(x, u))
<1>1. PICK z : /\ Moved(x, z)
               /\ \A f \in LowFrame, s \in Slot, g \in LowFrame : Holds(z, f, s, g) => Points(x, f, s, g)
               /\ Alike(Apply(z, u), vmm_flush_mmu_update_queue(a))
  BY QueuedIs
<1>2. Alike(vmm_flush_mmu_update_queue(a), y) /\ y.queue = <<>>
  BY FlushQueued
<1> HIDE DEF a, y
<1>3. Alike(Apply(z, u), y)
  BY <1>1, <1>2, AlikeChain
<1> QED
  BY <1>1, <1>2, <1>3 DEF y

\* A task's directory comes or goes; no other's does.
Gets(x, y, t, d) ==
  /\ IsMem(y) /\ (x.panicked => y.panicked)
  /\ y.state = x.state /\ y.cr3 = x.cr3 /\ y.high = x.high
  /\ y.pgdir = [x.pgdir EXCEPT ![t] = d]

\* A new directory is empty, that of its task and read-only to the kernel.
LEMMA CreateDirectoryIs ==
  ASSUME NEW x, NEW t \in Task, IsMem(x), ~Full(x)
  PROVE  LET y == vmm_create_pgdir(x, t)
         IN  /\ Gets(x, y, t, NextFrame(x)) /\ ~Failed(y) /\ NextFrame(x) # NULL
             /\ ~y.panicked /\ Good(x) /\ x.pgdir[t] = NULL => Good(y)
<1> DEFINE d == NextFrame(x)
           a == vmm_ppf_alloc(x, "directory", EmptyDirectory)
           b == [a EXCEPT !.pgdir[t] = d]
           u == KernelUpdate(d, FALSE)
           c == vmm_flush_mmu_update_queue(vmm_queue_mmu_update(b, u))
           y == vmm_create_pgdir(x, t)
<1>1. y = Ok(c)
  BY DEF vmm_create_pgdir, Full
<1>2. d \in LowFrame /\ Role(x, d) = "free"
  BY NextIsFree
<1>3. d # NULL
  BY <1>2, PageTablesAssumption DEF NULL
<1> HIDE DEF d, y
<1>4. /\ IsMem(b) /\ b.panicked = x.panicked /\ b.state = x.state /\ b.cr3 = x.cr3 /\ b.high = x.high
      /\ b.pgdir = [x.pgdir EXCEPT ![t] = d]
  BY DEF vmm_ppf_alloc, IsMem, Fields
<1>5. b.ram = a.ram /\ b.queue = a.queue /\ b.readonly = a.readonly
  BY DEF vmm_ppf_alloc, IsMem, Fields
<1> HIDE DEF a, b
<1>6. Shape(b, c) /\ IsMem(c)
  <2>1. Shape(b, vmm_queue_mmu_update(b, u)) /\ IsMem(vmm_queue_mmu_update(b, u))
    BY <1>4, QueueShape DEF Shape
  <2>2. Shape(vmm_queue_mmu_update(b, u), c)
    BY <2>1, FlushShape
  <2> HIDE DEF c
  <2> QED
    BY <1>4, <2>1, <2>2, ShapeChain DEF Shape
<1> HIDE DEF c
<1>7. IsMem(y) /\ Same(c, y) /\ Keeps(c, y) /\ y.panicked = c.panicked /\ ~Failed(y)
  <2>1. Does(c, Ok(c), {}) /\ Same(c, Ok(c)) /\ Ok(c).panicked = c.panicked
    BY <1>6, OkIs
  <2>2. ~Failed(Ok(c))
    BY <1>6 DEF Failed, Ok, IsMem, Fields
  <2> QED
    BY <1>1, <1>6, <2>1, <2>2 DEF Does, Shape
<1>8. Gets(x, y, t, d)
  BY <1>4, <1>6, <1>7 DEF Gets, Shape, Keeps
<1>9. ASSUME ~y.panicked, Good(x), x.pgdir[t] = NULL
      PROVE  Good(y)
  <2>1. RamOK(x) /\ QueueOK(x) /\ PagesOK(x) /\ DirectoriesOK(x) /\ NamesOK(x) /\ RightsOK(x)
    BY <1>9 DEF Good, EntriesOK, TablesOK
  <2>2. ~c.panicked /\ ~b.panicked
    BY <1>4, <1>6, <1>7, <1>9 DEF Shape, IsMem
  <2>3. /\ a.readonly = x.readonly /\ a.queue = x.queue
        /\ RamOK(a) /\ QueueOK(a) /\ PagesOK(a)
        /\ a.ram[d] = [role |-> "directory", word |-> EmptyDirectory]
        /\ \A g \in LowFrame : g # d => a.ram[g] = x.ram[g]
        /\ \A f \in LowFrame, s \in Slot, g \in LowFrame : Points(a, f, s, g) => Points(x, f, s, g)
    BY <2>1, AllocIs DEF d, a
  <2>4. RamOK(b) /\ QueueOK(b) /\ PagesOK(b) /\ \A f, s, g : Points(b, f, s, g) <=> Points(a, f, s, g)
    BY <1>5, <2>3 DEF RamOK, QueueOK, IsUpdate, PagesOK, Points, Waits, Holds, Role, Word
  <2>5. PICK z : /\ Moved(b, z)
                 /\ \A f \in LowFrame, s \in Slot, g \in LowFrame : Holds(z, f, s, g) => Points(b, f, s, g)
                 /\ Alike(Apply(z, u), c) /\ c.queue = <<>>
    BY <1>4, <2>2, <2>4, OneFlushed DEF c
  <2>6. IsMem(z) /\ ~z.panicked /\ ~Apply(z, u).panicked
    BY <2>2, <2>5, NotPanicked DEF Moved
  <2>7. Apply(z, u).ram = z.ram /\ Apply(z, u).readonly = z.readonly \cup {d}
    BY <2>6, ApplyReadOnly
  <2> HIDE DEF u
  <2>8. c.ram = z.ram /\ c.readonly = x.readonly \cup {d} /\ RamOK(c)
    BY <1>5, <2>3, <2>5, <2>7 DEF Alike, Moved, RamOK, Role
  <2>9. /\ \A f \in LowFrame : Role(c, f) = IF f = d THEN "directory" ELSE Role(x, f)
        /\ \A f \in LowFrame : f # d /\ Role(x, f) = "directory" => c.ram[f] = x.ram[f]
        /\ c.ram[d].word = EmptyDirectory
    BY <1>2, <1>5, <2>3, <2>5, <2>8 DEF Moved, Role
  <2>10. ASSUME NEW f \in LowFrame, NEW s \in Slot, NEW g \in LowFrame, Holds(c, f, s, g)
         PROVE  Points(x, f, s, g) /\ Role(c, g) = "data"
    <3>1. Holds(z, f, s, g)
      BY <2>8, <2>10 DEF Holds, Role, Word
    <3>2. Points(x, f, s, g)
      BY <2>3, <2>4, <2>5, <3>1
    <3> QED
      BY <1>2, <2>1, <2>9, <3>2 DEF PagesOK
  <2>11. EntriesOK(c)
    BY <2>1, <2>5, <2>8, <2>10, FlushedEntries
  <2>12. c.pgdir = [x.pgdir EXCEPT ![t] = d] /\ DOMAIN x.pgdir = Task
    BY <1>4, <1>6 DEF Shape, Keeps, IsMem
  <2>13. \A s \in Task : c.pgdir[s] = IF s = t THEN d ELSE x.pgdir[s]
    BY <2>12
  <2>14. DirectoriesOK(c)
    <3>1. \A s \in Task : c.pgdir[s] # NULL => c.pgdir[s] \in LowFrame /\ Role(c, c.pgdir[s]) = "directory"
      BY <1>2, <2>1, <2>9, <2>13 DEF DirectoriesOK
    <3>2. \A s \in Task : x.pgdir[s] # d
      BY <1>2, <1>3, <2>1 DEF DirectoriesOK
    <3>3. \A s, r \in Task : c.pgdir[s] = c.pgdir[r] /\ c.pgdir[s] # NULL => s = r
      BY <2>1, <2>13, <3>2 DEF DirectoriesOK
    <3>4. \A f \in LowFrame : Role(c, f) = "directory" => \E s \in Task : c.pgdir[s] = f
      <4> SUFFICES ASSUME NEW f \in LowFrame, Role(c, f) = "directory", f # d
                   PROVE  \E s \in Task : c.pgdir[s] = f
        BY <2>13
      <4>1. PICK s \in Task : x.pgdir[s] = f
        BY <2>1, <2>9 DEF DirectoriesOK
      <4>2. s # t
        BY <1>9, <4>1, PageTablesAssumption DEF NULL
      <4> QED
        BY <2>13, <4>1, <4>2
    <3> QED
      BY <3>1, <3>3, <3>4 DEF DirectoriesOK
  <2>15. \A i \in Table, f \in LowFrame : ~Names(c, d, i, f)
    BY <2>9, PageTablesAssumption DEF Names, Word, EmptyDirectory, NULL
  <2>16. \A e \in LowFrame : e # d => \A i, f : Names(c, e, i, f) <=> Names(x, e, i, f)
    BY <2>9 DEF Names, Word, Role
  <2>17. \A i, f : ~Names(x, d, i, f)
    BY <1>2 DEF Names
  <2>18. NamesOK(c)
    <3>1. \A e \in LowFrame, i \in Table, f \in LowFrame : Names(c, e, i, f) <=> Names(x, e, i, f)
      BY <2>15, <2>16, <2>17
    <3>2. \A f \in LowFrame : Role(c, f) = "table" <=> Role(x, f) = "table"
      BY <1>2, <2>9
    <3> QED
      BY <2>1, <3>1, <3>2 DEF NamesOK
  <2>19. RightsOK(c)
    BY <1>2, <2>1, <2>8, <2>9 DEF RightsOK
  <2>20. Good(c)
    BY <2>11, <2>14, <2>18, <2>19 DEF Good, TablesOK
  <2> QED
    BY <1>7, <2>20, SameIsGood DEF Good
<1> QED
  BY <1>3, <1>7, <1>8, <1>9 DEF y, d

\* To free a table leaves memory in shape.
LEMMA FreeTableShape ==
  ASSUME NEW x, NEW dir, NEW i
  PROVE  Shape(x, FreeTable(x, dir, i))
<1> DEFINE tb == x.ram[dir].word[i]
           a == vmm_queue_mmu_update(x, PdeUpdate(dir, i, NULL))
           b == vmm_queue_mmu_update(a, KernelUpdate(tb, TRUE))
           c == vmm_flush_mmu_update_queue(b)
           y == FreeTable(x, dir, i)
<1>1. y = x \/ y = vmm_ppf_free(c, tb)
  BY DEF FreeTable
<1>2. IsMem(x) => Shape(x, a)
  BY QueueShape
<1>3. IsMem(a) => Shape(a, b)
  BY QueueShape
<1>4. IsMem(b) => Shape(b, c)
  BY FlushShape
<1>5. IsMem(c) => Shape(c, vmm_ppf_free(c, tb))
  BY FreeShape
<1> HIDE DEF a, b, c, y
<1>6. Shape(x, y)
  BY <1>1, <1>2, <1>3, <1>4, <1>5, ShapeChain DEF Shape, Keeps
<1> QED
  BY <1>6 DEF y

\* A table goes out of its directory and is freed.
LEMMA FreeTableIs ==
  ASSUME NEW x, NEW dir \in LowFrame, NEW i \in Table, IsMem(x), Good(x),
         Role(x, dir) = "directory", ~FreeTable(x, dir, i).panicked
  PROVE  LET y == FreeTable(x, dir, i)
         IN  /\ Good(y) /\ Role(y, dir) = "directory"
             /\ \A j \in Table : Word(y, dir, j) = IF j = i THEN NULL ELSE Word(x, dir, j)
<1> DEFINE tb == Word(x, dir, i)
           u1 == PdeUpdate(dir, i, NULL)
           u2 == KernelUpdate(tb, TRUE)
           c == vmm_flush_mmu_update_queue(vmm_queue_mmu_update(vmm_queue_mmu_update(x, u1), u2))
           y == FreeTable(x, dir, i)
<1>0. ~y.panicked
  OBVIOUS
<1>1. (tb = NULL /\ y = x) \/ (tb # NULL /\ y = vmm_ppf_free(c, tb))
  BY DEF FreeTable, Word
<1>2. ~x.panicked
  BY FreeTableShape DEF Shape, IsMem
<1> HIDE DEF y
<1>3. CASE tb = NULL
  <2>1. y = x
    BY <1>1, <1>3
  <2> QED
    BY <1>3, <2>1 DEF y
<1>4. CASE tb # NULL
  <2>1. RamOK(x) /\ QueueOK(x) /\ PagesOK(x) /\ DirectoriesOK(x) /\ NamesOK(x) /\ RightsOK(x)
    BY DEF Good, EntriesOK, TablesOK
  <2>2. tb \in LowFrame /\ Names(x, dir, i, tb)
    BY <1>4, <2>1 DEF RamOK, Word, Role, Names
  <2>3. Role(x, tb) = "table" /\ tb # dir
    BY <2>1, <2>2 DEF NamesOK
  <2>4. PICK z, w : /\ Moved(x, z)
                    /\ \A f \in LowFrame, s \in Slot, g \in LowFrame : Holds(z, f, s, g) => Points(x, f, s, g)
                    /\ Alike(Apply(z, u1), w) /\ IsMem(w)
                    /\ Alike(Apply(w, u2), c) /\ c.queue = <<>>
    BY <1>2, <2>1, TwoFlushed
  <2> HIDE DEF c
  <2>5. y = [c EXCEPT !.ram[tb] = FreeFrame]
    BY <1>1, <1>4 DEF vmm_ppf_free
  <2>6. IsMem(Apply(w, u2))
    BY <2>4, ApplyShape DEF Shape
  <2>7. IsMem(c)
    BY <2>4, <2>6 DEF Alike
  <2>8. ~c.panicked
    BY <1>0, <2>5, <2>7 DEF IsMem, Fields
  <2>9. ~w.panicked /\ ~Apply(w, u2).panicked
    BY <2>4, <2>8, NotPanicked
  <2>10. IsMem(z) /\ IsMem(Apply(z, u1)) /\ ~z.panicked /\ ~Apply(z, u1).panicked
    BY <2>4, <2>9, NotPanicked DEF Moved
  <2> HIDE DEF tb
  <2>11. Apply(w, u2).ram = w.ram /\ Apply(w, u2).readonly = w.readonly \ {tb} /\ Keeps(w, Apply(w, u2))
    BY <2>4, <2>9, ApplyWritable
  <2>12. RamOK(z) /\ Role(z, dir) = "directory"
    BY <2>4 DEF Moved
  <2>13. NULL \in LowFrame \cup {NULL}
    OBVIOUS
  <2> HIDE DEF u2
  <2>14. /\ Keeps(z, Apply(z, u1)) /\ Apply(z, u1).readonly = z.readonly /\ RamOK(Apply(z, u1))
         /\ \A g \in LowFrame : /\ Role(Apply(z, u1), g) = Role(z, g)
                                /\ g # dir => Apply(z, u1).ram[g] = z.ram[g]
         /\ \A j \in Table : Word(Apply(z, u1), dir, j) = IF j = i THEN NULL ELSE Word(z, dir, j)
    BY <2>10, <2>12, <2>13, ApplyDirectory
  <2> HIDE DEF u1
  <2>15. /\ Keeps(x, c) /\ c.readonly = x.readonly \ {tb} /\ RamOK(c)
         /\ \A g \in LowFrame : /\ Role(c, g) = Role(z, g)
                                /\ g # dir => c.ram[g] = z.ram[g]
         /\ \A j \in Table : Word(c, dir, j) = IF j = i THEN NULL ELSE Word(z, dir, j)
    <3>1. /\ w.ram = Apply(z, u1).ram /\ c.ram = w.ram /\ c.readonly = x.readonly \ {tb}
      BY <2>4, <2>11, <2>14 DEF Alike, Moved
    <3>2. Keeps(x, c)
      BY <2>4, <2>11, <2>14 DEF Alike, Moved, Keeps
    <3> QED
      BY <2>14, <3>1, <3>2 DEF RamOK, Role, Word
  <2>16. /\ DOMAIN y.ram = LowFrame /\ y.ram[tb] = FreeFrame
         /\ \A g \in LowFrame : g # tb => y.ram[g] = c.ram[g]
         /\ y.pgdir = x.pgdir /\ y.readonly = x.readonly \ {tb} /\ y.queue = <<>>
    <3>1. DOMAIN c.ram = LowFrame
      BY <2>15 DEF RamOK
    <3> QED
      BY <2>2, <2>4, <2>5, <2>7, <2>15, <3>1 DEF IsMem, Fields, Keeps
  <2>17. RamOK(y)
    BY <2>15, <2>16 DEF RamOK, Role, FreeFrame
  <2>18. \A g \in LowFrame : Role(y, g) = IF g = tb THEN "free" ELSE Role(x, g)
    BY <2>4, <2>15, <2>16 DEF Role, FreeFrame, Moved
  <2>19. \A d \in LowFrame, j \in Table :
           Role(x, d) = "directory" => Word(y, d, j) = IF d = dir /\ j = i THEN NULL ELSE Word(x, d, j)
    BY <2>3, <2>4, <2>15, <2>16 DEF Moved, Role, Word
  <2>20. ASSUME NEW f \in LowFrame, NEW s \in Slot, NEW g \in LowFrame, Holds(y, f, s, g)
         PROVE  Points(x, f, s, g) /\ Role(y, g) = "data"
    <3>1. f # tb /\ f # dir
      BY <2>3, <2>18, <2>20 DEF Holds
    <3>2. Holds(z, f, s, g)
      BY <2>15, <2>16, <2>20, <3>1 DEF Holds, Role, Word
    <3>3. Points(x, f, s, g)
      BY <2>4, <3>2
    <3>4. Role(x, g) = "data"
      BY <2>1, <3>3 DEF PagesOK
    <3> QED
      BY <2>3, <2>18, <3>3, <3>4
  <2>21. EntriesOK(y)
    BY <2>1, <2>16, <2>17, <2>20, FlushedEntries
  <2>22. DirectoriesOK(y)
    BY <2>1, <2>3, <2>16, <2>18 DEF DirectoriesOK
  <2>23. \A d \in LowFrame, j \in Table, f \in LowFrame :
           Names(y, d, j, f) <=> Names(x, d, j, f) /\ f # tb
    <3>1. \A d \in LowFrame, j \in Table : Names(x, d, j, tb) => d = dir /\ j = i
      BY <2>1, <2>2 DEF NamesOK
    <3>2. NULL \notin LowFrame
      BY PageTablesAssumption DEF NULL
    <3>3. \A d \in LowFrame : Role(y, d) = "directory" <=> Role(x, d) = "directory"
      BY <2>3, <2>18
    <3>4. \A f : Names(x, dir, i, f) => f = tb
      BY DEF Names, tb
    <3> QED
      BY <2>19, <3>1, <3>2, <3>3, <3>4 DEF Names
  <2>24. NamesOK(y)
    BY <2>1, <2>18, <2>23 DEF NamesOK
  <2>25. RightsOK(y)
    BY <2>1, <2>16, <2>18 DEF RightsOK
  <2>26. \A j \in Table : Word(y, dir, j) = IF j = i THEN NULL ELSE Word(x, dir, j)
    BY <2>19
  <2>27. Role(y, dir) = "directory"
    BY <2>3, <2>18
  <2> QED
    BY <2>21, <2>22, <2>24, <2>25, <2>26, <2>27 DEF Good, TablesOK, y
<1> QED
  BY <1>3, <1>4

\* All the tables of a directory go.
LEMMA FreeTablesIs ==
  ASSUME NEW x, NEW dir, IsMem(x)
  PROVE  LET y == FreeTables(x, dir)
         IN  /\ Shape(x, y)
             /\ ~y.panicked /\ Good(x) /\ dir \in LowFrame /\ Role(x, dir) = "directory"
                  => /\ Good(y) /\ Role(y, dir) = "directory"
                     /\ \A j \in Table : Word(y, dir, j) = NULL
<1> DEFINE s == Ascending(FirstTable, LastTable)
           N == Len(s)
           y == FreeTables(x, dir)
<1>1. FirstTable \in Nat /\ LastTable \in Nat
  BY PageTablesAssumption
<1>2. /\ N \in Nat /\ N = IF FirstTable <= LastTable THEN LastTable - FirstTable + 1 ELSE 0
      /\ \A n \in 1 .. N : s[n] = FirstTable + n - 1 /\ FirstTable + n - 1 \in FirstTable .. LastTable
  BY <1>1, AscendingIs
<1>3. PICK f : /\ f[0] = x /\ y = f[N]
               /\ \A n \in 1 .. N : f[n] = FreeTable(f[n - 1], dir, s[n])
  BY <1>2, FreeLoop
<1> HIDE DEF N, s, y
<1>4. \A n \in 1 .. N : Shape(f[n - 1], f[n])
  BY <1>3, FreeTableShape
<1>5. Shape(x, y)
  BY <1>2, <1>3, <1>4, ShapeLoop
<1>6. ASSUME ~y.panicked, Good(x), dir \in LowFrame, Role(x, dir) = "directory"
      PROVE  Good(y) /\ Role(y, dir) = "directory" /\ \A j \in Table : Word(y, dir, j) = NULL
  <2> DEFINE Is(n) == /\ IsMem(f[n])
                      /\ ~f[n].panicked =>
                           /\ Good(f[n]) /\ Role(f[n], dir) = "directory"
                           /\ \A j \in Table : j < FirstTable + n => Word(f[n], dir, j) = NULL
             S == {n \in Nat : n <= N => Is(n)}
  <2>1. 0 \in S
    <3>1. ~(\E j \in Table : j < FirstTable + 0)
      BY <1>1 DEF Table
    <3> QED
      BY <1>3, <1>6, <3>1
  <2>2. ASSUME NEW n \in Nat, n \in S
        PROVE  n + 1 \in S
    <3> SUFFICES ASSUME n + 1 <= N PROVE Is(n + 1)
      OBVIOUS
    <3>1. n <= N /\ n + 1 \in 1 .. N /\ (n + 1) - 1 = n
      BY <1>2
    <3>2. Is(n)
      BY <2>2, <3>1
    <3> DEFINE i == FirstTable + (n + 1) - 1
    <3>3. f[n + 1] = FreeTable(f[n], dir, i) /\ i \in Table
      BY <1>2, <1>3, <3>1 DEF Table
    <3>4. IsMem(f[n + 1]) /\ (~f[n + 1].panicked => ~f[n].panicked)
      BY <1>4, <3>1, <3>2 DEF Shape, IsMem
    <3>5. i = FirstTable + n
      BY <1>1
    <3> HIDE DEF i
    <3>6. ASSUME ~f[n + 1].panicked
          PROVE  /\ Good(f[n + 1]) /\ Role(f[n + 1], dir) = "directory"
                 /\ \A j \in Table : j < FirstTable + (n + 1) => Word(f[n + 1], dir, j) = NULL
      <4>1. IsMem(f[n]) /\ Good(f[n]) /\ Role(f[n], dir) = "directory" /\ ~FreeTable(f[n], dir, i).panicked
        BY <3>2, <3>3, <3>4, <3>6
      <4>2. /\ Good(f[n + 1]) /\ Role(f[n + 1], dir) = "directory"
            /\ \A j \in Table : Word(f[n + 1], dir, j) = IF j = i THEN NULL ELSE Word(f[n], dir, j)
        BY <1>6, <3>3, <4>1, FreeTableIs
      <4>3. \A j \in Table : j < FirstTable + (n + 1) => j = i \/ j < FirstTable + n
        BY <1>1, <3>5 DEF Table
      <4> QED
        BY <3>2, <3>4, <3>6, <4>2, <4>3
    <3> QED
      BY <3>4, <3>6
  <2> HIDE DEF S
  <2>3. \A n \in Nat : n \in S
    BY <2>1, <2>2, AllNumbers
  <2>4. N \in S
    BY <1>2, <2>3
  <2>5. Is(N)
    BY <1>2, <2>4 DEF S
  <2>6. \A j \in Table : j < FirstTable + N
    BY <1>1, <1>2 DEF Table
  <2> QED
    BY <1>3, <1>6, <2>5, <2>6
<1> QED
  BY <1>5, <1>6 DEF y

\* A directory whose tables are gone is freed: not the one in use.
LEMMA FreeDirectoryIs ==
  ASSUME NEW x, NEW t \in Task, IsMem(x)
  PROVE  LET y == vmm_free_pgdir(x, t)
         IN  /\ Gets(x, y, t, NULL)
             /\ ~y.panicked /\ Good(x) /\ x.pgdir[t] # NULL => Good(y) /\ x.cr3 # x.pgdir[t]
<1> DEFINE dir == x.pgdir[t]
           n == FreeTables(x, dir)
           u == KernelUpdate(dir, TRUE)
           c == vmm_flush_mmu_update_queue(vmm_queue_mmu_update(n, u))
           e == vmm_ppf_free(c, dir)
           y == vmm_free_pgdir(x, t)
<1>1. y = [e EXCEPT !.pgdir[t] = NULL]
  BY DEF vmm_free_pgdir
<1> HIDE DEF y, dir
<1>2. /\ Shape(x, n)
      /\ ~n.panicked /\ Good(x) /\ dir \in LowFrame /\ Role(x, dir) = "directory"
           => /\ Good(n) /\ Role(n, dir) = "directory"
              /\ \A j \in Table : Word(n, dir, j) = NULL
  BY FreeTablesIs
<1> HIDE DEF n
<1>3. IsMem(n)
  BY <1>2 DEF Shape
<1>4. Shape(n, c) /\ IsMem(c)
  <2>1. Shape(n, vmm_queue_mmu_update(n, u)) /\ IsMem(vmm_queue_mmu_update(n, u))
    BY <1>3, QueueShape DEF Shape
  <2>2. Shape(vmm_queue_mmu_update(n, u), c)
    BY <2>1, FlushShape
  <2> HIDE DEF c
  <2> QED
    BY <1>3, <2>1, <2>2, ShapeChain DEF Shape
<1>5. Shape(x, c)
  BY <1>2, <1>4, ShapeChain
<1> HIDE DEF c
<1>6. Shape(c, e) /\ e.queue = c.queue /\ e.readonly = c.readonly /\ e.panicked = c.panicked /\ IsMem(e)
  BY <1>4, FreeShape DEF Shape
<1>7. e = [c EXCEPT !.ram[dir] = FreeFrame]
  BY DEF vmm_ppf_free
<1> HIDE DEF e
<1>8. /\ IsMem(y) /\ y.panicked = e.panicked /\ y.state = e.state /\ y.cr3 = e.cr3 /\ y.high = e.high
      /\ y.pgdir = [e.pgdir EXCEPT ![t] = NULL] /\ y.ram = e.ram /\ y.queue = e.queue /\ y.readonly = e.readonly
  BY <1>1, <1>6 DEF IsMem, Fields
<1>9. Gets(x, y, t, NULL)
  BY <1>5, <1>6, <1>8 DEF Gets, Shape, Keeps
<1>10. ASSUME ~y.panicked, Good(x), x.pgdir[t] # NULL
       PROVE  Good(y) /\ x.cr3 # x.pgdir[t]
  <2>1. dir \in LowFrame /\ Role(x, dir) = "directory" /\ dir # NULL
    BY <1>10, DirectoryOf DEF dir
  <2>2. ~c.panicked /\ ~n.panicked /\ ~x.panicked
    BY <1>2, <1>3, <1>4, <1>6, <1>8, <1>10 DEF Shape, IsMem
  <2>3. Good(n) /\ Role(n, dir) = "directory" /\ \A j \in Table : Word(n, dir, j) = NULL
    BY <1>2, <1>10, <2>1, <2>2
  <2>4. RamOK(n) /\ QueueOK(n) /\ PagesOK(n) /\ DirectoriesOK(n) /\ NamesOK(n) /\ RightsOK(n)
    BY <2>3 DEF Good, EntriesOK, TablesOK
  <2>5. PICK z : /\ Moved(n, z)
                 /\ \A f \in LowFrame, s \in Slot, g \in LowFrame : Holds(z, f, s, g) => Points(n, f, s, g)
                 /\ Alike(Apply(z, u), c) /\ c.queue = <<>>
    BY <1>3, <2>2, <2>4, OneFlushed DEF c
  <2>6. IsMem(z) /\ ~z.panicked /\ ~Apply(z, u).panicked
    BY <2>2, <2>5, NotPanicked DEF Moved
  <2>7. /\ Apply(z, u).ram = z.ram /\ Apply(z, u).readonly = z.readonly \ {dir} /\ Keeps(z, Apply(z, u))
        /\ ~(z.cr3 # NULL /\ dir = z.cr3)
    BY <2>6, ApplyWritable
  <2> HIDE DEF u
  <2>8. x.cr3 # dir
    BY <1>2, <2>1, <2>5, <2>7 DEF Moved, Keeps, Shape
  <2>9. c.ram = z.ram /\ c.readonly = n.readonly \ {dir}
    BY <2>5, <2>7 DEF Alike, Moved
  <2>10. /\ DOMAIN y.ram = LowFrame /\ y.ram[dir] = FreeFrame
         /\ \A g \in LowFrame : g # dir => y.ram[g] = z.ram[g]
         /\ y.readonly = n.readonly \ {dir} /\ y.queue = <<>>
    <3>1. DOMAIN c.ram = LowFrame
      BY <2>5, <2>9 DEF Moved, RamOK
    <3> QED
      BY <1>4, <1>6, <1>7, <1>8, <2>1, <2>5, <2>9, <3>1 DEF IsMem, Fields
  <2>11. RamOK(y)
    BY <2>5, <2>10 DEF Moved, RamOK, Role, FreeFrame
  <2>12. \A g \in LowFrame : Role(y, g) = IF g = dir THEN "free" ELSE Role(n, g)
    BY <2>5, <2>10 DEF Role, FreeFrame, Moved
  <2>13. \A d \in LowFrame : d # dir /\ Role(n, d) = "directory" => y.ram[d] = n.ram[d]
    BY <2>5, <2>10 DEF Moved
  <2>14. ASSUME NEW f \in LowFrame, NEW s \in Slot, NEW g \in LowFrame, Holds(y, f, s, g)
         PROVE  Points(n, f, s, g) /\ Role(y, g) = "data"
    <3>1. f # dir
      BY <2>12, <2>14 DEF Holds
    <3>2. Holds(z, f, s, g)
      BY <2>10, <2>14, <3>1 DEF Holds, Role, Word
    <3>3. Points(n, f, s, g)
      BY <2>5, <3>2
    <3>4. Role(n, g) = "data"
      BY <2>4, <3>3 DEF PagesOK
    <3> QED
      BY <2>3, <2>12, <3>3, <3>4
  <2>15. EntriesOK(y)
    BY <2>4, <2>10, <2>11, <2>14, FlushedEntries
  <2>16. y.pgdir = [n.pgdir EXCEPT ![t] = NULL] /\ DOMAIN n.pgdir = Task /\ n.pgdir[t] = dir
    <3>1. n.pgdir = x.pgdir /\ e.pgdir = n.pgdir
      BY <1>2, <1>4, <1>6, <1>3 DEF Shape, Keeps
    <3> QED
      BY <1>8, <3>1 DEF IsMem, dir
  <2>17. \A s \in Task : y.pgdir[s] = IF s = t THEN NULL ELSE n.pgdir[s]
    BY <2>16
  <2>18. DirectoriesOK(y)
    <3>1. \A s \in Task : y.pgdir[s] # NULL => y.pgdir[s] \in LowFrame /\ Role(y, y.pgdir[s]) = "directory"
      <4> SUFFICES ASSUME NEW s \in Task, y.pgdir[s] # NULL
                   PROVE  y.pgdir[s] \in LowFrame /\ Role(y, y.pgdir[s]) = "directory"
        OBVIOUS
      <4>1. s # t /\ y.pgdir[s] = n.pgdir[s]
        BY <2>17
      <4>2. n.pgdir[s] # dir
        BY <2>4, <2>1, <2>16, <4>1 DEF DirectoriesOK
      <4> QED
        BY <2>4, <2>12, <4>1, <4>2 DEF DirectoriesOK
    <3>2. \A s, r \in Task : y.pgdir[s] = y.pgdir[r] /\ y.pgdir[s] # NULL => s = r
      BY <2>4, <2>17 DEF DirectoriesOK
    <3>3. \A f \in LowFrame : Role(y, f) = "directory" => \E s \in Task : y.pgdir[s] = f
      <4> SUFFICES ASSUME NEW f \in LowFrame, Role(y, f) = "directory"
                   PROVE  \E s \in Task : y.pgdir[s] = f
        OBVIOUS
      <4>1. f # dir /\ Role(n, f) = "directory"
        BY <2>12
      <4>2. PICK s \in Task : n.pgdir[s] = f
        BY <2>4, <4>1 DEF DirectoriesOK
      <4> QED
        BY <2>16, <2>17, <4>1, <4>2
    <3> QED
      BY <3>1, <3>2, <3>3 DEF DirectoriesOK
  <2>19. \A i \in Table, f \in LowFrame : ~Names(n, dir, i, f)
    BY <2>3, PageTablesAssumption DEF Names, NULL
  <2>20. \A d \in LowFrame, i \in Table, f \in LowFrame : Names(y, d, i, f) <=> Names(n, d, i, f)
    BY <2>12, <2>13, <2>19 DEF Names, Word
  <2>21. \A f \in LowFrame : Role(y, f) = "table" <=> Role(n, f) = "table"
    BY <2>3, <2>12
  <2>22. NamesOK(y)
    BY <2>4, <2>20, <2>21 DEF NamesOK
  <2>23. RightsOK(y)
    BY <2>4, <2>10, <2>12 DEF RightsOK
  <2>24. Good(y)
    BY <2>15, <2>18, <2>22, <2>23 DEF Good, TablesOK
  <2> QED
    BY <2>8, <2>24 DEF dir
<1> QED
  BY <1>9, <1>10 DEF y

-----------------------------------------------------------------------------
(* The steps of the system *)

\* What a handler leaves, unless it has stopped the machine.
Usable(x) == IsMem(x) /\ (~x.panicked => Good(x))

\* What is harmless to tasks that have a directory leaves memory usable.
LEMMA DoesUsable ==
  ASSUME NEW x, NEW y, NEW T, Usable(x), Does(x, y, T), \A t \in T : x.pgdir[t] # NULL
  PROVE  Usable(y) /\ Keeps(x, y) /\ (x.panicked => y.panicked)
BY DEF Usable, Does, Shape, IsMem

\* Usable says nothing of other parts of memory.
LEMMA SameUsable ==
  ASSUME NEW x, NEW y, Usable(x), IsMem(y), Same(x, y), y.panicked = x.panicked
  PROVE  Usable(y)
BY SameIsGood DEF Usable, Good

\* The return value 0 changes nothing else.
LEMMA OkUsable ==
  ASSUME NEW x, Usable(x)
  PROVE  Usable(Ok(x)) /\ Keeps(x, Ok(x)) /\ Ok(x).panicked = x.panicked
<1>1. IsMem(Ok(x)) /\ Same(x, Ok(x)) /\ Keeps(x, Ok(x)) /\ Ok(x).panicked = x.panicked
  BY DEF Usable, Ok, IsMem, Fields, Same, Keeps
<1> QED
  BY <1>1, SameUsable

\* A negative return value changes nothing else.
LEMMA FailUsable ==
  ASSUME NEW x, Usable(x)
  PROVE  Usable(Fail(x)) /\ Keeps(x, Fail(x)) /\ Fail(x).panicked = x.panicked /\ Failed(Fail(x))
<1>1. /\ IsMem(Fail(x)) /\ Same(x, Fail(x)) /\ Keeps(x, Fail(x)) /\ Fail(x).panicked = x.panicked
      /\ Failed(Fail(x))
  BY DEF Usable, Fail, Failed, IsMem, Fields, Same, Keeps
<1> QED
  BY <1>1, SameUsable

\* A task's state changes.
LEMMA StateIs ==
  ASSUME NEW x, NEW t, NEW s, Usable(x)
  PROVE  LET y == [x EXCEPT !.state[t] = s]
         IN  /\ Usable(y) /\ y.state = [x.state EXCEPT ![t] = s] /\ y.panicked = x.panicked
             /\ y.pgdir = x.pgdir /\ y.cr3 = x.cr3 /\ y.high = x.high
<1> DEFINE y == [x EXCEPT !.state[t] = s]
<1>1. /\ IsMem(y) /\ Same(x, y) /\ y.state = [x.state EXCEPT ![t] = s] /\ y.panicked = x.panicked
      /\ y.pgdir = x.pgdir /\ y.cr3 = x.cr3 /\ y.high = x.high
  BY DEF Usable, IsMem, Fields, Same
<1> HIDE DEF y
<1>2. Usable(y)
  BY <1>1, SameUsable
<1> QED
  BY <1>1, <1>2 DEF y

\* The record of spoiled tasks is nothing the tables depend on.
LEMMA SpoiledIs ==
  ASSUME NEW x, NEW S, Usable(x)
  PROVE  LET y == [x EXCEPT !.spoiled = S]
         IN  Usable(y) /\ Keeps(x, y) /\ y.panicked = x.panicked
<1> DEFINE y == [x EXCEPT !.spoiled = S]
<1>1. IsMem(y) /\ Same(x, y) /\ Keeps(x, y) /\ y.panicked = x.panicked
  BY DEF Usable, IsMem, Fields, Same, Keeps
<1> HIDE DEF y
<1>2. Usable(y)
  BY <1>1, SameUsable
<1> QED
  BY <1>1, <1>2 DEF y

\* A task's kernel stack comes, unless there is none, or goes.
LEMMA StackIs ==
  ASSUME NEW x, NEW t, Usable(x)
  PROVE  LET y == vmm_kernel_stack_init(x, t)
         IN  /\ Usable(y) /\ y.state = x.state /\ y.panicked = x.panicked
             /\ y.pgdir = x.pgdir /\ y.cr3 = x.cr3
             /\ Failed(y) => x.high = {}
<1> DEFINE y == vmm_kernel_stack_init(x, t)
<1>1. CASE x.high = {}
  <2>1. IsMem(y) /\ Same(x, y) /\ Keeps(x, y) /\ y.panicked = x.panicked
    BY <1>1 DEF vmm_kernel_stack_init, Fail, Usable, IsMem, Fields, Same, Keeps
  <2> HIDE DEF y
  <2>2. Usable(y)
    BY <2>1, SameUsable
  <2> QED
    BY <1>1, <2>1, <2>2 DEF y, Keeps
<1>2. CASE x.high # {}
  <2>1. /\ IsMem(y) /\ Same(x, y) /\ y.state = x.state /\ y.panicked = x.panicked
        /\ y.pgdir = x.pgdir /\ y.cr3 = x.cr3 /\ ~Failed(y)
    BY <1>2 DEF vmm_kernel_stack_init, Ok, Failed, Usable, IsMem, Fields, Same
  <2> HIDE DEF y
  <2>2. Usable(y)
    BY <2>1, SameUsable
  <2> QED
    BY <1>2, <2>1, <2>2 DEF y
<1> QED
  BY <1>1, <1>2

\* A kernel stack goes (vm_area_free_resources).
LEMMA FreeStackIs ==
  ASSUME NEW x, NEW t, Usable(x)
  PROVE  LET y == FreeKernelStack(x, t)
         IN  Usable(y) /\ Keeps(x, y) /\ y.panicked = x.panicked
<1> DEFINE y == FreeKernelStack(x, t)
<1>1. IsMem(y) /\ Same(x, y) /\ Keeps(x, y) /\ y.panicked = x.panicked
  BY DEF FreeKernelStack, Usable, IsMem, Fields, Same, Keeps
<1> HIDE DEF y
<1>2. Usable(y)
  BY <1>1, SameUsable
<1> QED
  BY <1>1, <1>2 DEF y

\* A new directory, or none.
LEMMA CreatedIs ==
  ASSUME NEW x, NEW t \in Task, Usable(x), x.pgdir[t] = NULL
  PROVE  LET y == vmm_create_pgdir(x, t)
         IN  /\ Usable(y) /\ (x.panicked => y.panicked)
             /\ Failed(y) => Keeps(x, y) /\ y.panicked = x.panicked
             /\ ~Failed(y) => \E d : Gets(x, y, t, d) /\ d # NULL
<1> DEFINE y == vmm_create_pgdir(x, t)
<1>1. CASE Full(x)
  <2>1. y = Fail(x)
    BY <1>1 DEF vmm_create_pgdir
  <2> HIDE DEF y
  <2>2. Usable(y) /\ Keeps(x, y) /\ y.panicked = x.panicked /\ Failed(y)
    BY <2>1, FailUsable
  <2> QED
    BY <2>2 DEF y
<1>2. CASE ~Full(x)
  <2>1. /\ Gets(x, y, t, NextFrame(x)) /\ ~Failed(y) /\ NextFrame(x) # NULL
        /\ ~y.panicked /\ Good(x) /\ x.pgdir[t] = NULL => Good(y)
    BY <1>2, CreateDirectoryIs DEF Usable
  <2> HIDE DEF y
  <2>2. Usable(y)
    BY <2>1 DEF Usable, Gets, IsMem
  <2> QED
    BY <2>1, <2>2 DEF y, Gets
<1> QED
  BY <1>1, <1>2

\* Another directory is in use.
LEMMA SwitchIs ==
  ASSUME NEW x, NEW d, Usable(x)
  PROVE  LET y == vmm_set_user_pgdir(x, d)
         IN  /\ Usable(y) /\ (x.panicked => y.panicked)
             /\ y.state = x.state /\ y.pgdir = x.pgdir /\ y.high = x.high /\ y.cr3 = d
             /\ y.rc = x.rc
<1> DEFINE n == vmm_flush_mmu_update_queue(x)
           y == vmm_set_user_pgdir(x, d)
<1>1. y = [n EXCEPT !.cr3 = d, !.panicked = @ \/ d \notin n.readonly]
  BY DEF vmm_set_user_pgdir, UseDirectory
<1>2. Usable(n) /\ Keeps(x, n) /\ (x.panicked => n.panicked) /\ n.rc = x.rc
  <2>1. Does(x, n, {})
    BY FlushDoes
  <2>2. n.rc = x.rc
    BY FlushShape DEF Usable
  <2> HIDE DEF n
  <2> QED
    BY <2>1, <2>2, DoesUsable
<1> HIDE DEF n, y
<1>3. /\ IsMem(y) /\ Same(n, y) /\ (n.panicked => y.panicked)
      /\ y.state = n.state /\ y.pgdir = n.pgdir /\ y.high = n.high /\ y.cr3 = d /\ y.rc = n.rc
  BY <1>1, <1>2 DEF Usable, IsMem, Fields, Same
<1>4. Usable(y)
  <2>1. Good(n) => Good(y)
    BY <1>3, SameIsGood DEF Good
  <2>2. ~y.panicked => ~n.panicked
    BY <1>2, <1>3 DEF Usable, IsMem
  <2> QED
    BY <1>2, <1>3, <2>1, <2>2 DEF Usable
<1> QED
  BY <1>2, <1>3, <1>4 DEF y, Keeps

\* What every step keeps.
Inv == Fine(m) /\ cur \in Task /\ (~OutOfStacks => RunsOnOwnDirectory)

\* Which tasks have a directory follows from states and directories.
LEMMA LivesKept ==
  ASSUME NEW x, NEW y, Lives(x), y.state = x.state, y.pgdir = x.pgdir
  PROVE  Lives(y)
BY DEF Lives

\* A machine that stops stays as it was.
LEMMA SettledIs ==
  ASSUME Fine(m), NEW x, Usable(x), ~x.panicked => Lives(x) /\ InUseOK(x)
  PROVE  Fine(Settled(x)) /\ (~Settled(x).panicked => Settled(x) = x)
<1>1. CASE x.panicked
  <2> DEFINE y == [m EXCEPT !.panicked = TRUE]
  <2>1. Settled(x) = y
    BY <1>1 DEF Settled
  <2>2. /\ IsMem(y) /\ Same(m, y) /\ y.state = m.state /\ y.pgdir = m.pgdir /\ y.cr3 = m.cr3 /\ y.ram = m.ram
        /\ y.panicked
    BY DEF Fine, IsMem, Fields, Same
  <2> HIDE DEF y
  <2>3. Good(y)
    BY <2>2, SameIsGood DEF Fine, Good
  <2>4. Fine(y)
    BY <2>2, <2>3 DEF Fine, Lives, InUseOK, Role
  <2> QED
    BY <2>1, <2>2, <2>4
<1>2. CASE ~x.panicked
  BY <1>2 DEF Settled, Usable, Fine
<1> QED
  BY <1>1, <1>2

\* A directory of a task is one the processor can use.
LEMMA InUseIs ==
  ASSUME NEW x, NEW t \in Task, Good(x), x.cr3 = x.pgdir[t], x.pgdir[t] # NULL
  PROVE  InUseOK(x)
BY DirectoryOf DEF InUseOK

\* Between two handlers memory is usable.
LEMMA FineUsable ==
  ASSUME NEW x, Fine(x)
  PROVE  Usable(x) /\ Lives(x)
BY DEF Fine, Usable

\* A switch to a task that has a directory.
LEMMA SwitchToStep ==
  ASSUME Fine(m), NEW x, Usable(x), Lives(x), NEW t \in Task, x.state[t] # "none", SwitchTo(x, t)
  PROVE  Inv'
<1> DEFINE y == vmm_set_user_pgdir(x, x.pgdir[t])
<1>1. /\ Usable(y) /\ y.state = x.state /\ y.pgdir = x.pgdir /\ y.cr3 = x.pgdir[t]
  BY SwitchIs
<1>2. m' = Settled(y) /\ cur' = t
  BY DEF SwitchTo
<1> HIDE DEF y
<1>3. Lives(y) /\ y.pgdir[t] # NULL
  BY <1>1 DEF Lives
<1>4. ~y.panicked => InUseOK(y)
  BY <1>1, <1>3, InUseIs DEF Usable
<1>5. Fine(m') /\ (~m'.panicked => m' = y)
  BY <1>1, <1>2, <1>3, <1>4, SettledIs
<1>6. ~m'.panicked => m'.cr3 = m'.pgdir[cur']
  BY <1>1, <1>2, <1>5
<1> QED
  BY <1>2, <1>5, <1>6 DEF Inv, RunsOnOwnDirectory

\* A switch to any live task (sched_yield).
LEMMA YieldStep ==
  ASSUME Fine(m), NEW x, Usable(x), Lives(x), Yield(x)
  PROVE  Inv'
<1>1. PICK t \in Task : x.state[t] = "live" /\ SwitchTo(x, t)
  BY DEF Yield
<1>2. x.state[t] # "none"
  BY <1>1
<1> QED
  BY <1>1, <1>2, SwitchToStep

\* The end of a task that was live, after what is done to its memory.
LEMMA ZombieStep ==
  ASSUME Fine(m), NEW x, Usable(x), Lives(x), NEW t \in Task, x.state[t] = "live",
         Yield([x EXCEPT !.state[t] = "zombie"])
  PROVE  Inv'
<1> DEFINE y == [x EXCEPT !.state[t] = "zombie"]
<1>1. Usable(y) /\ y.state = [x.state EXCEPT ![t] = "zombie"] /\ y.pgdir = x.pgdir
  BY StateIs
<1>2. Yield(y)
  OBVIOUS
<1> HIDE DEF y
<1>3. Lives(y)
  BY <1>1 DEF Lives
<1> QED
  BY <1>1, <1>2, <1>3, YieldStep

\* What a handler does to a live task's memory.
LEMMA TaskDoes ==
  ASSUME NEW x, NEW y, NEW t \in Task, Usable(x), Lives(x), x.state[t] = "live", Does(x, y, {t})
  PROVE  Usable(y) /\ Lives(y) /\ y.state[t] = "live" /\ Keeps(x, y)
<1>1. \A s \in {t} : x.pgdir[s] # NULL
  BY DEF Lives
<1>2. Usable(y) /\ Keeps(x, y)
  BY <1>1, DoesUsable
<1> QED
  BY <1>2 DEF Lives, Keeps

\* A task that ends loses its areas, and another runs (sys_vanish).
LEMMA VanishStep ==
  ASSUME Inv, NEW t \in Task, m.state[t] = "live", task_vanish(t)
  PROVE  Inv'
<1> DEFINE y == vm_area_remove_all(m, t)
<1>1. Does(m, y, {t})
  BY RemoveAllDoes DEF Inv, Fine
<1>2. Yield([y EXCEPT !.state[t] = "zombie"])
  BY DEF task_vanish
<1> HIDE DEF y
<1>3. Usable(m) /\ Lives(m) /\ Fine(m)
  BY FineUsable DEF Inv
<1>4. Usable(y) /\ Lives(y) /\ y.state[t] = "live"
  BY <1>1, <1>3, TaskDoes
<1> QED
  BY <1>2, <1>3, <1>4, ZombieStep

\* A failure ends the task; otherwise it goes on.
LEMMA HandledStep ==
  ASSUME Inv, NEW x, Usable(x), Lives(x), NEW t \in Task, x.state[t] = "live",
         \/ Yield([Ok(vm_area_remove_all(x, t)) EXCEPT !.state[t] = "zombie"])
         \/ SwitchTo(x, t)
  PROVE  Inv'
<1>1. Fine(m)
  BY DEF Inv
<1>2. CASE SwitchTo(x, t)
  BY <1>1, <1>2, SwitchToStep
<1>3. CASE Yield([Ok(vm_area_remove_all(x, t)) EXCEPT !.state[t] = "zombie"])
  <2> DEFINE n == vm_area_remove_all(x, t)
             y == Ok(n)
  <2>1. Does(x, n, {t})
    BY RemoveAllDoes DEF Usable
  <2>2. Yield([y EXCEPT !.state[t] = "zombie"])
    BY <1>3
  <2> HIDE DEF n
  <2>3. Does(n, y, {t})
    BY OkIs
  <2> HIDE DEF y
  <2>4. Does(x, y, {t})
    BY <2>1, <2>3, DoesChain
  <2>5. Usable(y) /\ Lives(y) /\ y.state[t] = "live"
    BY <2>4, TaskDoes
  <2> QED
    BY <1>1, <2>2, <2>5, ZombieStep
<1> QED
  BY <1>2, <1>3

\* exec, with every failure of its parts (sys_exec).
LEMMA ExecStep ==
  ASSUME Inv, NEW t \in Task, m.state[t] = "live", sys_exec(t)
  PROVE  Inv'
<1>0. PICK k \in 0 .. Len(Sections) :
        Reloaded(task_load(vm_area_remove_taskvm(ZeroStack(m, t), t), t, k), t)
  BY DEF sys_exec
<1> DEFINE a == ZeroStack(m, t)
           b == vm_area_remove_taskvm(a, t)
           n == task_load(b, t, k)
<1>1. Usable(m) /\ Lives(m)
  BY FineUsable DEF Inv
<1>2. Does(m, a, {t})
  BY ZeroStackDoes
<1>3. \/ Yield([Ok(vm_area_remove_all(n, t)) EXCEPT !.state[t] = "zombie"])
      \/ SwitchTo(n, t)
  BY <1>0 DEF Reloaded
<1> HIDE DEF a
<1>4. IsMem(a)
  BY <1>1, <1>2 DEF Does, Shape, Usable
<1>5. Does(a, b, {t})
  BY <1>4, RemoveTaskvmDoes
<1> HIDE DEF b
<1>6. Does(b, n, {t})
  BY LoadDoes
<1> HIDE DEF n
<1>7. Does(m, n, {t})
  BY <1>2, <1>5, <1>6, DoesChain
<1>8. Usable(n) /\ Lives(n) /\ n.state[t] = "live"
  BY <1>1, <1>7, TaskDoes
<1> QED
  BY <1>3, <1>8, HandledStep

\* A page fault, handled or not (pgf_exception_handler).
LEMMA FaultStep ==
  ASSUME Inv, NEW t \in Task, m.state[t] = "live", NEW page, UserPage(page), NEW write,
         pgf_exception_handler(t, page, write)
  PROVE  Inv'
<1> DEFINE present == (Entry(page).frame # NULL)
           n == HandleFault(m, t, page, present)
<1>1. Usable(m) /\ Lives(m) /\ IsMem(m)
  BY FineUsable DEF Inv, Fine
<1>2. Handled(n, t) /\ present \in BOOLEAN
  BY DEF pgf_exception_handler
<1> HIDE DEF present
<1>3. Does(m, n, {t})
  BY <1>1, <1>2, HandleFaultDoes
<1>4. \/ Yield([Ok(vm_area_remove_all(n, t)) EXCEPT !.state[t] = "zombie"])
      \/ SwitchTo(n, t)
  BY <1>2 DEF Handled
<1> HIDE DEF n
<1>5. Usable(n) /\ Lives(n) /\ n.state[t] = "live"
  BY <1>1, <1>3, TaskDoes
<1> QED
  BY <1>4, <1>5, HandledStep

\* The directory in use stays one.
LEMMA InUseKept ==
  ASSUME NEW w, NEW x, Fine(w), Good(x), x.cr3 = w.cr3,
         \A s \in Task : w.pgdir[s] = w.cr3 => x.pgdir[s] = w.cr3
  PROVE  InUseOK(x)
<1>1. w.cr3 \in LowFrame /\ Role(w, w.cr3) = "directory" /\ DirectoriesOK(w)
  BY DEF Fine, Good, TablesOK, InUseOK
<1>2. PICK s \in Task : w.pgdir[s] = w.cr3
  BY <1>1 DEF DirectoriesOK
<1>3. x.pgdir[s] # NULL /\ x.cr3 = x.pgdir[s]
  BY <1>1, <1>2, PageTablesAssumption DEF NULL
<1> QED
  BY <1>3, InUseIs

\* A handler that returns to the task it was called by.
LEMMA ReturnStep ==
  ASSUME Inv, NEW x, Usable(x), ~x.panicked => Lives(x) /\ InUseOK(x), m' = Settled(x), cur' = cur,
         ~OutOfStacks /\ ~x.panicked => x.cr3 = x.pgdir[cur]
  PROVE  Inv'
<1>1. Fine(m') /\ (~m'.panicked => m' = x)
  BY SettledIs DEF Inv
<1>2. ~m'.panicked => m'.panicked = x.panicked
  BY <1>1
<1> QED
  BY <1>1, <1>2 DEF Inv, RunsOnOwnDirectory

\* new_pages, if memory suffices or not (sys_new_pages).
LEMMA NewPagesStep ==
  ASSUME Inv, NEW t \in Task, m.state[t] = "live", NEW v \in UserArea, sys_new_pages(t, v)
  PROVE  Inv'
<1> DEFINE a == vm_area_alloc(m, t, v)
           b == vmm_set_user_pgdir(a, a.pgdir[t])
           n == IF Failed(a) THEN a ELSE b
           x == Ok(n)
<1>1. Usable(m) /\ Lives(m) /\ Fine(m)
  BY FineUsable DEF Inv
<1>2. m' = Settled(x) /\ cur' = cur /\ cur = t /\ ~m.panicked
  BY DEF sys_new_pages, AndThen, Enter
<1>3. Does(m, a, {t})
  BY NewAreaDoes
<1> HIDE DEF a
<1>4. Usable(a) /\ Lives(a) /\ a.state[t] = "live" /\ Keeps(m, a)
  BY <1>1, <1>3, TaskDoes
<1>5. /\ Usable(b) /\ b.state = a.state /\ b.pgdir = a.pgdir /\ b.cr3 = a.pgdir[t]
  BY <1>4, SwitchIs
<1> HIDE DEF b
<1>6. Usable(n) /\ n.state = m.state /\ n.pgdir = m.pgdir /\ n.cr3 \in {m.cr3, m.pgdir[t]}
  BY <1>4, <1>5 DEF Keeps
<1>7. ~OutOfStacks => n.cr3 = m.pgdir[t]
  BY <1>2, <1>4, <1>5 DEF Inv, RunsOnOwnDirectory, Keeps
<1> HIDE DEF n
<1>8. Usable(x) /\ Keeps(n, x)
  BY <1>6, OkUsable
<1> HIDE DEF x
<1>9. Lives(x) /\ x.pgdir[t] # NULL
  BY <1>1, <1>6, <1>8 DEF Lives, Keeps
<1>10. ~x.panicked => InUseOK(x)
  BY <1>1, <1>6, <1>8, <1>9, InUseIs, InUseKept DEF Keeps, Usable
<1> QED
  BY <1>2, <1>6, <1>7, <1>8, <1>9, <1>10, ReturnStep DEF Keeps

\* remove_pages (sys_remove_pages).
LEMMA RemovePagesStep ==
  ASSUME Inv, NEW t \in Task, m.state[t] = "live", NEW v \in UserArea, sys_remove_pages(t, v)
  PROVE  Inv'
<1> DEFINE a == vm_area_remove(m, t, v)
           x == vmm_set_user_pgdir(a, m.pgdir[t])
<1>1. Usable(m) /\ Lives(m) /\ Fine(m)
  BY FineUsable DEF Inv
<1>2. m' = Settled(x) /\ cur' = cur /\ cur = t
  BY DEF sys_remove_pages, Enter
<1>3. Does(m, a, {t})
  BY RemoveAreaDoes
<1> HIDE DEF a
<1>4. Usable(a) /\ Lives(a) /\ a.state[t] = "live" /\ Keeps(m, a)
  BY <1>1, <1>3, TaskDoes
<1>5. /\ Usable(x) /\ x.state = a.state /\ x.pgdir = a.pgdir /\ x.cr3 = m.pgdir[t]
  BY <1>4, SwitchIs
<1> HIDE DEF x
<1>6. Lives(x) /\ x.pgdir[t] # NULL /\ x.cr3 = x.pgdir[t]
  BY <1>4, <1>5 DEF Lives, Keeps
<1>7. ~x.panicked => InUseOK(x)
  BY <1>5, <1>6, InUseIs DEF Usable
<1> QED
  BY <1>2, <1>5, <1>6, <1>7, ReturnStep

\* A program writes into a page of its own: never a table.
LEMMA StoreStep ==
  ASSUME Inv, NEW t \in Task, NEW a, UserPage(PageOf(a)), NEW val, Store(t, a, val)
  PROVE  Inv'
<1> DEFINE pte == Entry(PageOf(a))
           e == pte.frame
           w == [m.ram[e].word EXCEPT ![Cell(a)] = val]
           x == [m EXCEPT !.ram[e].word = w]
<1>1. Usable(m) /\ Lives(m) /\ Fine(m)
  BY FineUsable DEF Inv
<1>2. pte.wr /\ cur' = cur /\ cur = t /\ ~m.panicked
  BY DEF Store, Enter
<1>3. m' = x
  BY DEF Store
<1>4. m.cr3 \in LowFrame /\ Role(m, m.cr3) = "directory" /\ Good(m) /\ IsMem(m)
  BY <1>1 DEF Fine, InUseOK
<1>5. pte \in Pte /\ (pte.frame # NULL => pte.frame \in LowFrame /\ Role(m, pte.frame) = "data")
  BY <1>4, MappingIs DEF Entry
<1> HIDE DEF pte
<1>6. e \in LowFrame /\ Role(m, e) = "data"
  BY <1>2, <1>5, PageTablesAssumption DEF Pte, NoPte, NULL
<1> HIDE DEF w, e
<1>7. Shape(m, x) /\ Good(x)
  BY <1>4, <1>6, WriteIs
<1>8. x.panicked = m.panicked
  BY <1>4 DEF IsMem, Fields
<1> HIDE DEF x
<1>9. Usable(x) /\ Keeps(m, x)
  BY <1>4, <1>7 DEF Shape, Usable
<1>10. Lives(x) /\ InUseOK(x)
  BY <1>1, <1>7, <1>9, LivesKept, InUseKept DEF Keeps
<1>11. ~OutOfStacks => x.cr3 = x.pgdir[cur]
  BY <1>2, <1>9 DEF Inv, RunsOnOwnDirectory, Keeps
<1>12. m' = Settled(x)
  BY <1>2, <1>3, <1>8 DEF Settled
<1> QED
  BY <1>2, <1>9, <1>10, <1>11, <1>12, ReturnStep

\* The last reference to a zombie's thread: the directory in use is another's.
LEMMA ReapStep ==
  ASSUME Inv, NEW t \in Task, m.state[t] = "live", NEW z \in Task, Reap(t, z)
  PROVE  Inv'
<1> DEFINE n == FreeKernelStack(m, z)
<1>1. Usable(m) /\ Lives(m) /\ Fine(m)
  BY FineUsable DEF Inv
<1>2. /\ m.state[z] = "zombie" /\ cur' = cur /\ cur = t /\ ~m.panicked
      /\ m' = IF z \in m.stuck THEN [n EXCEPT !.state[z] = "lost"]
              ELSE Settled([vmm_free_pgdir(n, z) EXCEPT !.state[z] = "none", !.spoiled = @ \ {z}])
  BY DEF Reap, Enter
<1>3. z # t
  BY <1>2
<1>4. Usable(n) /\ Keeps(m, n) /\ n.panicked = m.panicked
  BY <1>1, FreeStackIs
<1> HIDE DEF n
<1>5. m.pgdir[t] # NULL /\ m.pgdir[z] # NULL
  BY <1>1, <1>2 DEF Lives
<1>6. CASE z \in m.stuck
  <2> DEFINE x == [n EXCEPT !.state[z] = "lost"]
  <2>1. m' = x
    BY <1>2, <1>6
  <2>2. /\ Usable(x) /\ x.state = [n.state EXCEPT ![z] = "lost"] /\ x.panicked = n.panicked
        /\ x.pgdir = n.pgdir /\ x.cr3 = n.cr3
    BY <1>4, StateIs
  <2> HIDE DEF x
  <2>3. Good(x) /\ m' = Settled(x)
    BY <1>2, <1>4, <2>1, <2>2 DEF Usable, Settled
  <2>4. Lives(x)
    BY <1>1, <1>2, <1>4, <2>2 DEF Lives, Keeps
  <2>5. InUseOK(x)
    BY <1>1, <1>4, <2>2, <2>3, InUseKept DEF Keeps
  <2>6. ~OutOfStacks => x.cr3 = x.pgdir[cur]
    BY <1>2, <1>4, <2>2 DEF Inv, RunsOnOwnDirectory, Keeps
  <2> QED
    BY <1>2, <2>2, <2>3, <2>4, <2>5, <2>6, ReturnStep
<1>7. CASE z \notin m.stuck
  <2> DEFINE y == vmm_free_pgdir(n, z)
             w == [y EXCEPT !.state[z] = "none"]
             x == [w EXCEPT !.spoiled = @ \ {z}]
  <2>1. m' = Settled(x)
    BY <1>2, <1>7
  <2>2. /\ Gets(n, y, z, NULL)
        /\ ~y.panicked /\ Good(n) /\ n.pgdir[z] # NULL => Good(y) /\ n.cr3 # n.pgdir[z]
    BY <1>4, FreeDirectoryIs DEF Usable
  <2> HIDE DEF y
  <2>3. ~y.panicked => ~n.panicked /\ Good(y) /\ m.cr3 # m.pgdir[z]
    BY <1>4, <1>5, <2>2 DEF Gets, Usable, IsMem, Keeps
  <2>4. Usable(y)
    BY <2>2, <2>3 DEF Usable, Gets
  <2>5. /\ Usable(w) /\ w.state = [y.state EXCEPT ![z] = "none"] /\ w.panicked = y.panicked
        /\ w.pgdir = y.pgdir /\ w.cr3 = y.cr3
    BY <2>4, StateIs
  <2> HIDE DEF w
  <2>6. Usable(x) /\ Keeps(w, x) /\ x.panicked = w.panicked
    BY <2>5, SpoiledIs
  <2> HIDE DEF x
  <2>7. DOMAIN m.pgdir = Task
    BY <1>1 DEF Usable, IsMem
  <2>8. /\ x.state = [m.state EXCEPT ![z] = "none"] /\ x.pgdir = [m.pgdir EXCEPT ![z] = NULL]
        /\ x.cr3 = m.cr3
    BY <1>4, <2>2, <2>5, <2>6 DEF Keeps, Gets
  <2>9. Lives(x)
    <3>1. /\ \A s \in Task : x.pgdir[s] = IF s = z THEN NULL ELSE m.pgdir[s]
          /\ \A s \in Task : x.state[s] = IF s = z THEN "none" ELSE m.state[s]
          /\ x.state \in [Task -> {"none", "live", "zombie", "lost"}]
      BY <1>1, <2>7, <2>8 DEF Lives
    <3> QED
      BY <1>1, <3>1 DEF Lives
  <2>10. \A s \in Task : s # z => x.pgdir[s] = m.pgdir[s]
    BY <2>7, <2>8
  <2>11. ASSUME ~x.panicked
         PROVE  InUseOK(x)
    <3>1. Good(x) /\ m.cr3 # m.pgdir[z]
      BY <2>3, <2>5, <2>6, <2>11 DEF Usable
    <3>2. \A s \in Task : m.pgdir[s] = m.cr3 => x.pgdir[s] = m.cr3
      BY <2>10, <3>1
    <3> QED
      BY <1>1, <2>8, <3>1, <3>2, InUseKept
  <2>12. ~OutOfStacks => x.cr3 = x.pgdir[cur]
    BY <1>2, <1>3, <2>8, <2>10 DEF Inv, RunsOnOwnDirectory
  <2> QED
    BY <1>2, <2>1, <2>6, <2>9, <2>11, <2>12, ReturnStep
<1> QED
  BY <1>6, <1>7

\* A child that is made, and does not live yet: its directory is in use.
Born(x, c, d) ==
  /\ Usable(x) /\ x.state = m.state /\ x.pgdir = [m.pgdir EXCEPT ![c] = d] /\ x.cr3 = d /\ d # NULL
  /\ m.state[c] = "none"

\* A child becomes live or is lost.
LEMMA BornState ==
  ASSUME Inv, NEW x, NEW c \in Task, NEW d, Born(x, c, d), NEW s \in {"live", "lost"}
  PROVE  LET y == [x EXCEPT !.state[c] = s]
         IN  Usable(y) /\ Lives(y) /\ y.cr3 = d /\ y.pgdir[c] = d
<1> DEFINE y == [x EXCEPT !.state[c] = s]
<1>1. Usable(y) /\ y.state = [x.state EXCEPT ![c] = s] /\ y.pgdir = x.pgdir /\ y.cr3 = x.cr3
  BY StateIs DEF Born
<1> HIDE DEF y
<1>2. IsMem(m) /\ Lives(m)
  BY DEF Inv, Fine
<1>3. /\ \A u \in Task : y.pgdir[u] = IF u = c THEN d ELSE m.pgdir[u]
      /\ \A u \in Task : y.state[u] = IF u = c THEN s ELSE m.state[u]
      /\ y.state \in [Task -> {"none", "live", "zombie", "lost"}]
  BY <1>1, <1>2 DEF Born, IsMem, Lives
<1>4. Lives(y)
  BY <1>2, <1>3 DEF Lives, Born
<1> QED
  BY <1>1, <1>3, <1>4 DEF y, Born

\* A child with a kernel stack runs on; without one the parent does
\* (sys_fork).
LEMMA ThreadCopiedStep ==
  ASSUME Inv, NEW x, NEW c \in Task, NEW d, Born(x, c, d), ThreadCopied(x, c),
         Failed(x) => OutOfStacks
  PROVE  Inv'
<1>1. CASE Failed(x)
  <2> DEFINE y == [x EXCEPT !.state[c] = "lost"]
             z == Ok(y)
  <2>1. Usable(y) /\ Lives(y) /\ y.cr3 = d /\ y.pgdir[c] = d
    BY BornState
  <2>2. m' = Settled(z) /\ cur' = cur
    BY <1>1 DEF ThreadCopied
  <2> HIDE DEF y
  <2>3. Usable(z) /\ Keeps(y, z)
    BY <2>1, OkUsable
  <2> HIDE DEF z
  <2>4. Lives(z)
    BY <2>1, <2>3, LivesKept DEF Keeps
  <2>5. ~z.panicked => InUseOK(z)
    BY <2>1, <2>3, InUseIs DEF Keeps, Usable, Born
  <2> QED
    BY <1>1, <2>2, <2>3, <2>4, <2>5, ReturnStep
<1>2. CASE ~Failed(x)
  <2> DEFINE y == [x EXCEPT !.state[c] = "live"]
  <2>1. Usable(y) /\ Lives(y)
    BY BornState
  <2>2. Yield(y)
    BY <1>2 DEF ThreadCopied
  <2> HIDE DEF y
  <2> QED
    BY <2>1, <2>2, YieldStep DEF Inv
<1> QED
  BY <1>1, <1>2

\* A copy that fails: the directory in use is not freed, the machine stops.
LEMMA TaskCopiedStep ==
  ASSUME Inv, NEW x, NEW c \in Task, NEW d, Born(x, c, d), TaskCopied(x, c),
         x.high = {} => OutOfStacks
  PROVE  Inv'
<1>0. x.pgdir[c] = d /\ d # NULL
  BY DEF Inv, Fine, IsMem, Born
<1>1. CASE Failed(x)
  <2> DEFINE a == vm_area_remove_all(x, c)
             y == vmm_free_pgdir(a, c)
  <2>1. m' = Settled(y) /\ cur' = cur
    BY <1>1 DEF TaskCopied
  <2>2. Does(x, a, {c})
    BY RemoveAllDoes DEF Born, Usable
  <2> HIDE DEF a
  <2>3. \A s \in {c} : x.pgdir[s] # NULL
    BY <1>0
  <2>4. Usable(a) /\ Keeps(x, a)
    <3>1. Usable(x)
      BY DEF Born
    <3> QED
      BY <2>2, <2>3, <3>1, DoesUsable
  <2>5. a.pgdir[c] = d /\ a.cr3 = d
    BY <1>0, <2>4 DEF Keeps, Born
  <2>6. Gets(a, y, c, NULL) /\ (~y.panicked /\ Good(a) /\ a.pgdir[c] # NULL => a.cr3 # a.pgdir[c])
    BY <2>4, FreeDirectoryIs DEF Usable
  <2> HIDE DEF y
  <2>7. y.panicked
    BY <1>0, <2>4, <2>5, <2>6 DEF Gets, Usable
  <2>8. Usable(y)
    BY <2>6, <2>7 DEF Gets, Usable
  <2> QED
    BY <2>1, <2>7, <2>8, ReturnStep
<1>2. CASE ~Failed(x)
  <2>1. PICK y \in Stacked(x, c) : ThreadCopied(y, c)
    BY <1>2 DEF TaskCopied
  <2>2. /\ Usable(y) /\ y.state = x.state /\ y.pgdir = x.pgdir /\ y.cr3 = x.cr3
        /\ Failed(y) => OutOfStacks
    <3> DEFINE k == vmm_kernel_stack_init(x, c)
               z == Fail(x)
    <3>1. /\ Usable(k) /\ k.state = x.state /\ k.pgdir = x.pgdir /\ k.cr3 = x.cr3
          /\ Failed(k) => x.high = {}
      BY StackIs DEF Born
    <3>2. Usable(z) /\ z.state = x.state /\ z.pgdir = x.pgdir /\ z.cr3 = x.cr3
      <4>1. Does(x, z, {}) /\ Usable(x)
        BY FailIs DEF Born
      <4>2. Usable(z) /\ Keeps(x, z)
        BY <4>1, DoesUsable
      <4> QED
        BY <4>2 DEF Keeps
    <3>3. y = k \/ (OutOfStacks /\ y = z)
      BY DEF Stacked
    <3> HIDE DEF k, z
    <3> QED
      BY <3>1, <3>2, <3>3
  <2>3. Born(y, c, d) /\ (Failed(y) => OutOfStacks)
    BY <2>2 DEF Born
  <2> QED
    BY <2>1, <2>3, ThreadCopiedStep
<1> QED
  BY <1>1, <1>2

\* fork, with every failure of its parts (sys_fork).
LEMMA ForkStep ==
  ASSUME Inv, NEW t \in Task, m.state[t] = "live", NEW c \in Task, sys_fork(t, c)
  PROVE  Inv'
<1> DEFINE n == vmm_create_pgdir(m, c)
<1>1. Usable(m) /\ Lives(m) /\ Fine(m)
  BY FineUsable DEF Inv
<1>2. /\ m.state[c] = "none" /\ (m.high = {} => OutOfStacks) /\ cur = t /\ ~m.panicked
      /\ TaskCreated(n, t, c)
  BY DEF sys_fork, Enter, Unused
<1>3. m.pgdir[c] = NULL /\ m.pgdir[t] # NULL /\ t # c
  BY <1>1, <1>2 DEF Lives
<1>4. /\ Usable(n) /\ (m.panicked => n.panicked)
      /\ Failed(n) => Keeps(m, n) /\ n.panicked = m.panicked
      /\ ~Failed(n) => \E d : Gets(m, n, c, d) /\ d # NULL
  BY <1>1, <1>3, CreatedIs, ZenonT(40)
<1> HIDE DEF n
<1>5. CASE Failed(n)
  <2> DEFINE x == Ok(n)
  <2>1. m' = x /\ cur' = cur
    BY <1>2, <1>5 DEF TaskCreated
  <2>2. Usable(x) /\ Keeps(n, x) /\ x.panicked = n.panicked
    BY <1>4, OkUsable
  <2> HIDE DEF x
  <2>3. Good(x) /\ m' = Settled(x) /\ Keeps(m, x)
    BY <1>2, <1>4, <1>5, <2>1, <2>2 DEF Usable, Settled, Keeps
  <2>4. Lives(x) /\ InUseOK(x)
    BY <1>1, <2>3, LivesKept, InUseKept DEF Keeps
  <2>5. ~OutOfStacks => x.cr3 = x.pgdir[cur]
    BY <1>2, <2>3 DEF Inv, RunsOnOwnDirectory, Keeps
  <2> QED
    BY <2>1, <2>2, <2>3, <2>4, <2>5, ReturnStep, ZenonT(40)
<1>6. CASE ~Failed(n)
  <2>1. PICK d : Gets(m, n, c, d) /\ d # NULL
    BY <1>4, <1>6
  <2> DEFINE a == [n EXCEPT !.spoiled = IF t \in @ THEN @ \cup {c} ELSE @]
             b == vmm_set_user_pgdir(a, a.pgdir[c])
  <2>2. n.pgdir = [m.pgdir EXCEPT ![c] = d] /\ n.pgdir[c] = d /\ n.state = m.state /\ n.high = m.high
    BY <1>1, <2>1 DEF Gets, Usable, IsMem
  <2>3. Usable(a) /\ Keeps(n, a)
    BY <1>4, SpoiledIs
  <2>4. \E k \in 0 .. Len(b.vmas[t]) : TaskCopied(vmm_task_copy(b, c, t, k), c)
    <3>1. n.pgdir[c] = a.pgdir[c]
      BY <2>3 DEF Keeps
    <3>2. LET y == vmm_set_user_pgdir(a, n.pgdir[c])
          IN  \E k \in 0 .. Len(y.vmas[t]) : TaskCopied(vmm_task_copy(y, c, t, k), c)
      BY <1>2, <1>6 DEF TaskCreated
    <3> QED
      BY <3>1, <3>2
  <2> HIDE DEF a
  <2>5. Usable(b) /\ b.state = a.state /\ b.pgdir = a.pgdir /\ b.high = a.high /\ b.cr3 = a.pgdir[c]
    BY <2>3, SwitchIs
  <2> HIDE DEF b
  <2>11. PICK k \in 0 .. Len(b.vmas[t]) : TaskCopied(vmm_task_copy(b, c, t, k), c)
    BY <2>4
  <2> DEFINE x == vmm_task_copy(b, c, t, k)
  <2>6. Does(b, x, {c, t})
    BY <2>5, TaskCopyDoes DEF Usable
  <2>12. TaskCopied(x, c)
    BY <2>11
  <2> HIDE DEF x
  <2>7. b.pgdir = [m.pgdir EXCEPT ![c] = d] /\ b.state = m.state /\ b.high = m.high /\ b.cr3 = d
    BY <2>2, <2>3, <2>5 DEF Keeps
  <2>8. \A s \in {c, t} : b.pgdir[s] # NULL
    BY <1>1, <1>3, <2>1, <2>7 DEF Usable, IsMem
  <2>9. Usable(x) /\ Keeps(b, x)
    BY <2>5, <2>6, <2>8, DoesUsable
  <2>10. Born(x, c, d) /\ x.high = m.high
    BY <1>2, <2>1, <2>7, <2>9 DEF Born, Keeps
  <2> QED
    BY <1>2, <2>10, <2>12, TaskCopiedStep
<1> QED
  BY <1>5, <1>6

\* Before the boot every frame is free.
LEMMA NoMemoryIs ==
  /\ Usable(NoMemory) /\ ~NoMemory.panicked
  /\ NoMemory.pgdir = [t \in Task |-> NULL] /\ NoMemory.state = [t \in Task |-> "none"]
<1> DEFINE x == NoMemory
<1>1. /\ DOMAIN x = Fields /\ x.panicked = FALSE /\ x.queue = <<>> /\ x.readonly = {}
      /\ x.pgdir = [t \in Task |-> NULL] /\ x.state = [t \in Task |-> "none"]
      /\ x.vmas = [t \in Task |-> <<>>] /\ x.ram = [f \in LowFrame |-> FreeFrame]
  BY DEF NoMemory, Fields
<1> HIDE DEF x
<1>2. x.queue \in Seq({}) /\ <<>> \in Seq(UserArea) /\ DOMAIN x.queue = {}
  BY <1>1
<1>3. IsMem(x)
  BY <1>1, <1>2 DEF IsMem
<1>4. \A f \in LowFrame : x.ram[f] = FreeFrame /\ Role(x, f) = "free"
  BY <1>1 DEF Role, FreeFrame
<1>5. RamOK(x)
  BY <1>1, <1>4 DEF RamOK, FreeFrame
<1>6. QueueOK(x)
  BY <1>2 DEF QueueOK
<1>7. PagesOK(x)
  <2>1. \A f \in LowFrame : \A s, g : ~Points(x, f, s, g)
    BY <1>2, <1>4 DEF Points, Waits, Holds
  <2> QED
    BY <2>1 DEF PagesOK
<1>8. DirectoriesOK(x) /\ NamesOK(x) /\ RightsOK(x)
  BY <1>1, <1>4 DEF DirectoriesOK, NamesOK, RightsOK, Names
<1>9. Good(x)
  BY <1>5, <1>6, <1>7, <1>8 DEF Good, EntriesOK, TablesOK
<1> QED
  BY <1>1, <1>3, <1>9 DEF Usable, x

LEMMA AllSections == Len(Sections) \in 0 .. Len(Sections)
BY AddressSpacesAssumption

\* At boot, if nothing fails, idle and init have a directory.
LEMMA StartedIs ==
  ASSUME ~Failed(Started)
  PROVE  /\ Usable(Started) /\ Started.state = [t \in Task |-> "none"]
         /\ DOMAIN Started.pgdir = Task
         /\ \A t \in Task : Started.pgdir[t] # NULL <=> t \in {idle, init}
<1> DEFINE a == vmm_create_pgdir(NoMemory, idle)
           b == IF Failed(a) THEN a ELSE vmm_kernel_stack_init(a, idle)
           c == IF Failed(b) THEN b ELSE vmm_create_pgdir(b, init)
           d == IF Failed(c) THEN c ELSE task_load(c, init, Len(Sections))
           e == vm_area_alloc(d, init, UserStack)
           k == IF Failed(e) THEN e ELSE vmm_kernel_stack_init(e, init)
           z == IF Failed(d) THEN d ELSE k
<1>1. Started = z
  BY DEF Started, AndThen, vmm_thread_create
<1>2. idle \in Task /\ init \in Task /\ idle # init /\ UserStack \in UserArea
  BY AddressSpacesAssumption
<1>3. ~Failed(z)
  BY <1>1, ZenonT(40)
<1>4. ~Failed(d) /\ z = k /\ ~Failed(k)
  BY <1>3, ZenonT(40)
<1>5. ~Failed(e) /\ k = vmm_kernel_stack_init(e, init)
  BY <1>4, ZenonT(40)
<1>6. ~Failed(c) /\ d = task_load(c, init, Len(Sections))
  BY <1>4
<1>7. ~Failed(b) /\ c = vmm_create_pgdir(b, init)
  BY <1>6
<1>8. ~Failed(a) /\ b = vmm_kernel_stack_init(a, idle)
  BY <1>7
<1> HIDE DEF z, k, d, c, b, e
<1>9. Usable(NoMemory) /\ NoMemory.pgdir = [t \in Task |-> NULL] /\ NoMemory.state = [t \in Task |-> "none"]
  BY NoMemoryIs
<1>10. PICK f : Usable(a) /\ Gets(NoMemory, a, idle, f) /\ f # NULL
  BY <1>2, <1>8, <1>9, CreatedIs
<1> HIDE DEF a
<1>11. /\ Usable(b) /\ b.state = [t \in Task |-> "none"]
       /\ b.pgdir = [t \in Task |-> IF t = idle THEN f ELSE NULL]
  BY <1>8, <1>9, <1>10, StackIs DEF Gets
<1>12. b.pgdir[init] = NULL
  BY <1>2, <1>11
<1>13. PICK g : Usable(c) /\ Gets(b, c, init, g) /\ g # NULL
  <2> DEFINE y == vmm_create_pgdir(b, init)
  <2>1. Usable(y) /\ (~Failed(y) => \E g : Gets(b, y, init, g) /\ g # NULL)
    BY <1>2, <1>11, <1>12, CreatedIs
  <2>2. c = y
    BY <1>7
  <2> HIDE DEF y
  <2> QED
    BY <1>6, <2>1, <2>2
<1>14. /\ c.state = [t \in Task |-> "none"]
       /\ c.pgdir = [t \in Task |-> IF t = init THEN g ELSE IF t = idle THEN f ELSE NULL]
  BY <1>11, <1>13 DEF Gets
<1>15. Does(c, d, {init})
  BY <1>2, <1>6, AllSections, LoadDoes
<1>16. Does(d, e, {init})
  BY <1>2, NewAreaDoes DEF e
<1>17. Does(c, e, {init})
  BY <1>15, <1>16, DoesChain
<1>18. \A t \in {init} : c.pgdir[t] # NULL
  BY <1>2, <1>13, <1>14
<1>19. Usable(e) /\ Keeps(c, e)
  BY <1>13, <1>17, <1>18, DoesUsable
<1>20. Usable(k) /\ k.state = c.state /\ k.pgdir = c.pgdir
  BY <1>5, <1>19, StackIs DEF Keeps
<1>21. /\ DOMAIN c.pgdir = Task
       /\ \A t \in Task : c.pgdir[t] # NULL <=> t \in {idle, init}
  BY <1>2, <1>10, <1>13, <1>14
<1> QED
  BY <1>1, <1>4, <1>14, <1>20, <1>21, ZenonT(40)

\* Whether it fails or not.
LEMMA StartedIsMem == IsMem(Started)
<1> DEFINE a == vmm_create_pgdir(NoMemory, idle)
           b == IF Failed(a) THEN a ELSE vmm_kernel_stack_init(a, idle)
           c == IF Failed(b) THEN b ELSE vmm_create_pgdir(b, init)
           d == IF Failed(c) THEN c ELSE task_load(c, init, Len(Sections))
           e == vm_area_alloc(d, init, UserStack)
           k == IF Failed(e) THEN e ELSE vmm_kernel_stack_init(e, init)
           z == IF Failed(d) THEN d ELSE k
<1>1. Started = z
  BY DEF Started, AndThen, vmm_thread_create
<1>2. idle \in Task /\ init \in Task /\ UserStack \in UserArea
  BY AddressSpacesAssumption
<1>3. ASSUME NEW x, IsMem(x), NEW t \in Task
      PROVE  IsMem(vmm_create_pgdir(x, t))
  <2>1. CASE Full(x)
    <3>1. vmm_create_pgdir(x, t) = Fail(x)
      BY <2>1 DEF vmm_create_pgdir
    <3> QED
      BY <1>3, <3>1, FailIs DEF Does, Shape
  <2>2. CASE ~Full(x)
    BY <1>3, <2>2, CreateDirectoryIs DEF Gets
  <2> QED
    BY <2>1, <2>2
<1>4. ASSUME NEW x, IsMem(x), NEW t
      PROVE  IsMem(vmm_kernel_stack_init(x, t))
  BY <1>4 DEF vmm_kernel_stack_init, Fail, Ok, IsMem, Fields
<1>5. IsMem(a)
  BY <1>2, <1>3, NoMemoryIs DEF Usable
<1> HIDE DEF a
<1>6. IsMem(b)
  BY <1>4, <1>5
<1> HIDE DEF b
<1>7. IsMem(c)
  BY <1>2, <1>3, <1>6
<1> HIDE DEF c
<1>8. IsMem(d)
  <2>1. Does(c, task_load(c, init, Len(Sections)), {init})
    BY <1>2, AllSections, LoadDoes
  <2> QED
    BY <1>7, <2>1 DEF Does, Shape
<1> HIDE DEF d
<1>9. IsMem(e)
  <2>1. Does(d, e, {init})
    BY <1>2, NewAreaDoes
  <2> QED
    BY <1>8, <2>1 DEF Does, Shape
<1> HIDE DEF e
<1>10. IsMem(k)
  BY <1>4, <1>9
<1> QED
  BY <1>1, <1>8, <1>10

\* The machine comes up in order.
LEMMA InitInv ==
  ASSUME Init
  PROVE  Inv
<1> DEFINE x == Started
           y == [x EXCEPT !.state[idle] = "live"]
           z == [y EXCEPT !.state[init] = "live"]
           w == vmm_set_user_pgdir(z, x.pgdir[init])
<1>1. ~Failed(m) /\ ~m.panicked /\ cur = init /\ m = Booted
  BY DEF Init
<1>2. idle \in Task /\ init \in Task /\ idle # init
  BY AddressSpacesAssumption
<1>3. IsMem(x)
  BY StartedIsMem
<1>4. Booted = w
  <2>1. IsMem(x) /\ x = Started
    BY <1>3
  <2> HIDE DEF x
  <2>2. z = [x EXCEPT !.state[idle] = "live", !.state[init] = "live"]
    BY <2>1 DEF IsMem, Fields
  <2> HIDE DEF z
  <2> QED
    BY <2>1, <2>2 DEF Booted
<1> HIDE DEF x
<1>5. IsMem(y) /\ y.rc = x.rc
  BY <1>3 DEF IsMem, Fields
<1> HIDE DEF y
<1>6. IsMem(z) /\ z.rc = y.rc
  BY <1>5 DEF IsMem, Fields
<1> HIDE DEF z
<1>7. w.rc = z.rc
  <2> DEFINE n == vmm_flush_mmu_update_queue(z)
  <2>1. IsMem(n) /\ n.rc = z.rc
    BY <1>6, FlushShape DEF Shape
  <2>2. w = UseDirectory(n, x.pgdir[init])
    BY DEF vmm_set_user_pgdir
  <2> HIDE DEF n, w
  <2> QED
    BY <2>1, <2>2 DEF UseDirectory, IsMem, Fields
<1> HIDE DEF w
<1>8. ~Failed(x)
  BY <1>1, <1>4, <1>5, <1>6, <1>7 DEF Failed
<1>9. /\ Usable(x) /\ x.state = [t \in Task |-> "none"] /\ DOMAIN x.pgdir = Task
      /\ \A t \in Task : x.pgdir[t] # NULL <=> t \in {idle, init}
  BY <1>8, StartedIs DEF x
<1>10. Usable(y) /\ y.state = [x.state EXCEPT ![idle] = "live"] /\ y.pgdir = x.pgdir
  BY <1>9, StateIs DEF y
<1>11. Usable(z) /\ z.state = [y.state EXCEPT ![init] = "live"] /\ z.pgdir = y.pgdir
  BY <1>10, StateIs DEF z
<1>12. Usable(w) /\ w.state = z.state /\ w.pgdir = z.pgdir /\ w.cr3 = x.pgdir[init]
  BY <1>11, SwitchIs DEF w
<1>13. w.state = [t \in Task |-> IF t \in {idle, init} THEN "live" ELSE "none"] /\ w.pgdir = x.pgdir
  <2>1. y.state = [t \in Task |-> IF t = idle THEN "live" ELSE "none"]
    BY <1>9, <1>10
  <2>2. z.state = [t \in Task |-> IF t = init THEN "live" ELSE y.state[t]]
    BY <1>11, <2>1
  <2> QED
    BY <1>10, <1>11, <1>12, <2>1, <2>2
<1>14. Lives(w)
  BY <1>9, <1>13 DEF Lives
<1>15. m = w /\ Good(w)
  BY <1>1, <1>4, <1>12 DEF Usable
<1>16. w.cr3 = w.pgdir[init] /\ w.pgdir[init] # NULL
  BY <1>2, <1>9, <1>12, <1>13
<1>17. InUseOK(w)
  BY <1>2, <1>15, <1>16, InUseIs
<1>18. Fine(m)
  BY <1>12, <1>14, <1>15, <1>17 DEF Fine, Usable
<1> QED
  BY <1>1, <1>2, <1>15, <1>16, <1>18 DEF Inv, RunsOnOwnDirectory

\* The pages faults are about are those of areas.
LEMMA PagesAreOfUsers ==
  ASSUME NEW page \in Pages
  PROVE  UserPage(page)
<1>1. PICK v \in NewAreas \cup Range(Sections) \cup {UserStack} : page \in PagesOf(v)
  BY DEF Pages
<1>2. v \in UserArea
  BY AddressSpacesAssumption DEF Range
<1> QED
  BY <1>1, <1>2 DEF UserArea

\* Every step keeps the invariant.
LEMMA NextInv ==
  ASSUME Inv, [Next]_vars
  PROVE  Inv'
<1>1. Fine(m) /\ Usable(m) /\ Lives(m)
  BY FineUsable DEF Inv
<1>2. CASE UNCHANGED vars
  BY <1>2 DEF Inv, vars, RunsOnOwnDirectory
<1>3. CASE Switch
  BY <1>1, <1>3, YieldStep DEF Switch
<1>4. ASSUME NEW t \in Live, NEW c \in Task, sys_fork(t, c)
      PROVE  Inv'
  BY <1>4, ForkStep DEF Live
<1>5. ASSUME NEW t \in Live, sys_exec(t)
      PROVE  Inv'
  BY <1>5, ExecStep DEF Live
<1>6. ASSUME NEW t \in Live, sys_vanish(t)
      PROVE  Inv'
  BY <1>6, VanishStep DEF Live, sys_vanish
<1>7. ASSUME NEW t \in Live, NEW z \in Task, Reap(t, z)
      PROVE  Inv'
  BY <1>7, ReapStep DEF Live
<1>8. ASSUME NEW t \in Live, NEW v \in NewAreas, sys_new_pages(t, v) \/ sys_remove_pages(t, v)
      PROVE  Inv'
  BY <1>8, NewPagesStep, RemovePagesStep, AddressSpacesAssumption DEF Live
<1>9. ASSUME NEW t \in Live, NEW a \in Writable, NEW x \in Value, Store(t, a, x)
      PROVE  Inv'
  BY <1>9, StoreStep, AddressSpacesAssumption DEF Live
<1>10. ASSUME NEW t \in Live, NEW page \in Pages, NEW write \in BOOLEAN,
              pgf_exception_handler(t, page, write)
       PROVE  Inv'
  <2>1. UserPage(page)
    BY PagesAreOfUsers
  <2> QED
    BY <1>10, <2>1, FaultStep DEF Live
<1> QED
  BY <1>2, <1>3, <1>4, <1>5, <1>6, <1>7, <1>8, <1>9, <1>10 DEF Next

\* The invariant holds always.
LEMMA SpecInv == Spec => []Inv
BY InitInv, NextInv, PTL DEF Spec

-----------------------------------------------------------------------------
(* What the frames are used for *)

\* The directory of a task that has one.
LEMMA DirectoriesAre ==
  ASSUME Fine(m), NEW t \in Directories
  PROVE  t \in Task /\ m.pgdir[t] \in LowFrame /\ Role(m, m.pgdir[t]) = "directory"
BY DEF Directories, Fine, Good, TablesOK, DirectoriesOK

\* A directory, a table or nothing else.
LEMMA TableUsesAre ==
  ASSUME Fine(m), NEW u \in TableUses
  PROVE  /\ u[1] \in LowFrame
         /\ \/ /\ u[2] = "directory" /\ Role(m, u[1]) = "directory"
               /\ \E t \in Task : m.pgdir[t] # NULL /\ u = <<m.pgdir[t], "directory", t>>
            \/ /\ u[2] = "table" /\ Role(m, u[1]) = "table"
               /\ \E t \in Task, i \in Table :
                    /\ m.pgdir[t] \in LowFrame /\ Names(m, m.pgdir[t], i, u[1])
                    /\ u = <<u[1], "table", <<t, i>>>>
<1>1. RamOK(m) /\ NamesOK(m)
  BY DEF Fine, Good, EntriesOK, TablesOK
<1>2. CASE u \in {<<m.pgdir[t], "directory", t>> : t \in Directories}
  <2>1. PICK t \in Directories : u = <<m.pgdir[t], "directory", t>>
    BY <1>2
  <2>2. t \in Task /\ m.pgdir[t] \in LowFrame /\ Role(m, m.pgdir[t]) = "directory" /\ m.pgdir[t] # NULL
    BY DirectoriesAre DEF Directories
  <2>3. u[1] = m.pgdir[t] /\ u[2] = "directory"
    BY <2>1
  <2> QED
    BY <2>1, <2>2, <2>3
<1>3. CASE u \notin {<<m.pgdir[t], "directory", t>> : t \in Directories}
  <2>1. PICK d \in Directories \X Table : u = <<m.ram[m.pgdir[d[1]]].word[d[2]], "table", d>> /\ u[1] # NULL
    BY <1>3, ZenonT(40) DEF TableUses
  <2>2. PICK t \in Directories, i \in Table : d = <<t, i>>
    BY <2>1
  <2>3. t \in Task /\ m.pgdir[t] \in LowFrame /\ Role(m, m.pgdir[t]) = "directory"
    BY DirectoriesAre
  <2>4. u[1] = Word(m, m.pgdir[t], i) /\ u[2] = "table" /\ u = <<u[1], "table", <<t, i>>>>
    BY <2>1, <2>2 DEF Word
  <2>5. u[1] \in LowFrame
    BY <1>1, <2>1, <2>3, <2>4 DEF RamOK, Word
  <2>6. Names(m, m.pgdir[t], i, u[1])
    BY <2>3, <2>4 DEF Names
  <2>7. Role(m, u[1]) = "table"
    BY <1>1, <2>3, <2>5, <2>6 DEF NamesOK
  <2> QED
    BY <2>3, <2>4, <2>5, <2>6, <2>7, ZenonT(40)
<1> QED
  BY <1>2, <1>3

\* A page that is mapped is data, at its place in the tables of its task.
LEMMA PageUsesAre ==
  ASSUME Fine(m), NEW u \in PageUses
  PROVE  /\ u[1] \in LowFrame /\ u[2] = "page" /\ Role(m, u[1]) = "data"
         /\ \E t \in Task, page \in Nat :
              /\ u = <<u[1], "page", <<t, page>>>>
              /\ PdeOf(page) \in Table /\ PteOf(page) \in Slot
              /\ m.pgdir[t] \in LowFrame
              /\ \E tb \in LowFrame : /\ Names(m, m.pgdir[t], PdeOf(page), tb)
                                      /\ Points(m, tb, PteOf(page), u[1])
<1>1. PICK d \in Directories \X Pages :
        u = <<vmm_get_mapping(m, m.pgdir[d[1]], d[2]).frame, "page", d>> /\ u[1] # NULL
  BY DEF PageUses
<1>2. PICK t \in Directories, page \in Pages : d = <<t, page>>
  BY <1>1
<1>3. t \in Task /\ m.pgdir[t] \in LowFrame /\ Role(m, m.pgdir[t]) = "directory" /\ Good(m)
  BY DirectoriesAre DEF Fine
<1>4. UserPage(page) /\ page \in Nat
  BY PagesAreOfUsers DEF UserPage
<1> DEFINE dir == m.pgdir[t]
           tb == TableOf(m, dir, page)
           pte == vmm_get_mapping(m, dir, page)
<1>5. PdeOf(page) \in Table /\ PteOf(page) \in Slot
  BY <1>4, PageIndices
<1>6. u[1] = pte.frame /\ u[2] = "page" /\ u = <<u[1], "page", <<t, page>>>> /\ pte.frame # NULL
  BY <1>1, <1>2
<1>7. /\ tb # NULL => tb \in LowFrame /\ Role(m, tb) = "table"
      /\ pte.frame # NULL => tb # NULL /\ pte.frame \in LowFrame /\ Role(m, pte.frame) = "data"
  BY <1>3, <1>4, MappingIs
<1>8. pte = IF tb = NULL THEN NoPte ELSE Word(m, tb, PteOf(page))
  BY DEF vmm_get_mapping, Word
<1>9. Names(m, dir, PdeOf(page), tb)
  BY <1>3 DEF Names, TableOf, Word
<1> HIDE DEF pte, tb
<1>10. Points(m, tb, PteOf(page), u[1])
  BY <1>6, <1>7, <1>8 DEF Points, Holds
<1> QED
  BY <1>3, <1>4, <1>5, <1>6, <1>7, <1>9, <1>10

\* A frame has one use.
LEMMA OneUse ==
  ASSUME Fine(m), NEW u \in Uses, NEW w \in Uses, u[1] = w[1]
  PROVE  u = w /\ u[1] \in LowFrame
<1> DEFINE FreeUses == {<<f, "free">> : f \in Free(m)}
<1>1. /\ u \in FreeUses \/ u \in TableUses \/ u \in PageUses
      /\ w \in FreeUses \/ w \in TableUses \/ w \in PageUses
  BY DEF Uses
<1>2. ASSUME NEW v \in FreeUses
      PROVE  v = <<v[1], "free">> /\ v[1] \in LowFrame /\ Role(m, v[1]) = "free"
  BY <1>2 DEF Free, Role
<1> HIDE DEF FreeUses
<1>3. DirectoriesOK(m) /\ NamesOK(m) /\ PagesOK(m)
  BY DEF Fine, Good, EntriesOK, TablesOK
<1>4. u[1] \in LowFrame
  BY <1>1, <1>2, TableUsesAre, PageUsesAre
<1>5. CASE u \in FreeUses
  <2>1. w \in FreeUses
    BY <1>1, <1>2, <1>5, TableUsesAre, PageUsesAre
  <2> QED
    BY <1>2, <1>4, <1>5, <2>1
<1>6. CASE u \in TableUses
  <2>1. w \in TableUses
    BY <1>1, <1>2, <1>6, TableUsesAre, PageUsesAre
  <2>2. CASE Role(m, u[1]) = "directory"
    <3>1. PICK t \in Task : m.pgdir[t] # NULL /\ u = <<m.pgdir[t], "directory", t>>
      BY <1>6, <2>2, TableUsesAre
    <3>2. PICK s \in Task : m.pgdir[s] # NULL /\ w = <<m.pgdir[s], "directory", s>>
      BY <2>1, <2>2, TableUsesAre
    <3>3. m.pgdir[t] = m.pgdir[s]
      BY <3>1, <3>2
    <3>4. t = s
      BY <1>3, <3>1, <3>3 DEF DirectoriesOK
    <3> QED
      BY <1>4, <3>1, <3>2, <3>4
  <2>3. CASE Role(m, u[1]) # "directory"
    <3>1. PICK t \in Task, i \in Table : /\ m.pgdir[t] \in LowFrame /\ Names(m, m.pgdir[t], i, u[1])
                                         /\ u = <<u[1], "table", <<t, i>>>>
      BY <1>6, <2>3, TableUsesAre
    <3>2. PICK s \in Task, j \in Table : /\ m.pgdir[s] \in LowFrame /\ Names(m, m.pgdir[s], j, w[1])
                                         /\ w = <<w[1], "table", <<s, j>>>>
      BY <2>1, <2>3, TableUsesAre
    <3>3. m.pgdir[t] = m.pgdir[s] /\ i = j
      BY <1>3, <1>4, <3>1, <3>2 DEF NamesOK
    <3>4. t = s
      BY <1>3, <3>1, <3>3, PageTablesAssumption DEF DirectoriesOK, NULL
    <3> QED
      BY <1>4, <3>1, <3>2, <3>3, <3>4
  <2> QED
    BY <2>2, <2>3
<1>7. CASE u \in PageUses
  <2>1. w \in PageUses
    BY <1>1, <1>2, <1>7, TableUsesAre, PageUsesAre
  <2>2. PICK t \in Task, p \in Nat :
          /\ u = <<u[1], "page", <<t, p>>>>
          /\ PdeOf(p) \in Table /\ PteOf(p) \in Slot /\ m.pgdir[t] \in LowFrame
          /\ \E tb \in LowFrame : Names(m, m.pgdir[t], PdeOf(p), tb) /\ Points(m, tb, PteOf(p), u[1])
    BY <1>7, PageUsesAre
  <2>3. PICK s \in Task, q \in Nat :
          /\ w = <<w[1], "page", <<s, q>>>>
          /\ PdeOf(q) \in Table /\ PteOf(q) \in Slot /\ m.pgdir[s] \in LowFrame
          /\ \E tb \in LowFrame : Names(m, m.pgdir[s], PdeOf(q), tb) /\ Points(m, tb, PteOf(q), w[1])
    BY <2>1, PageUsesAre
  <2>4. PICK a \in LowFrame : Names(m, m.pgdir[t], PdeOf(p), a) /\ Points(m, a, PteOf(p), u[1])
    BY <2>2
  <2>5. PICK b \in LowFrame : Names(m, m.pgdir[s], PdeOf(q), b) /\ Points(m, b, PteOf(q), u[1])
    BY <2>3
  <2>6. a = b /\ PteOf(p) = PteOf(q)
    BY <1>3, <1>4, <2>2, <2>3, <2>4, <2>5 DEF PagesOK
  <2>7. m.pgdir[t] = m.pgdir[s] /\ PdeOf(p) = PdeOf(q)
    BY <1>3, <2>2, <2>3, <2>4, <2>5, <2>6 DEF NamesOK
  <2>8. t = s
    BY <1>3, <2>2, <2>7, PageTablesAssumption DEF DirectoriesOK, NULL
  <2>9. p = q
    BY <2>6, <2>7, PagesDiffer
  <2> QED
    BY <1>4, <2>2, <2>3, <2>8, <2>9
<1> QED
  BY <1>1, <1>5, <1>6, <1>7

-----------------------------------------------------------------------------
(* No frame is used for two things (vm_area_unmap, vm_area_copy,           *)
(* vmm_map_page, vmm_free_pgdir), however far memory runs out.             *)
THEOREM FramesUsedOnce == Spec => []NoFrameTwice
<1>1. ASSUME Inv
      PROVE  NoFrameTwice
  <2> DEFINE S == {u[1] : u \in Uses}
             g == [f \in S |-> CHOOSE u \in Uses : u[1] = f]
  <2>1. Fine(m)
    BY <1>1 DEF Inv
  <2>2. \A u, w \in Uses : u[1] = w[1] => u = w
    BY <2>1, OneUse
  <2>3. IsFiniteSet(S)
    <3>1. S \subseteq LowFrame
      BY <2>1, OneUse
    <3> QED
      BY <3>1, PageTablesAssumption, FS_Subset
  <2>4. \A f \in S : g[f] \in Uses /\ g[f][1] = f
    OBVIOUS
  <2>5. \A u \in Uses : u[1] \in S /\ g[u[1]] = u
    BY <2>2, <2>4
  <2>6. g \in [S -> Uses]
    BY <2>4
  <2> HIDE DEF S, g
  <2>7. g \in Bijection(S, Uses)
    <3>1. \A a, b \in S : g[a] = g[b] => a = b
      BY <2>4
    <3>2. \A u \in Uses : \E f \in S : g[f] = u
      BY <2>5
    <3> QED
      BY <2>6, <3>1, <3>2 DEF Bijection, Injection, Surjection, IsInjective
  <2>8. ExistsBijection(S, Uses)
    BY <2>7 DEF ExistsBijection
  <2>9. Cardinality(S) = Cardinality(Uses)
    BY <2>3, <2>8, FS_Bijection
  <2> QED
    BY <2>9 DEF NoFrameTwice, S
<1> QED
  BY <1>1, SpecInv, PTL

(* The directories and tables, and no other frame, are what the kernel     *)
(* cannot write (vmm_map_page, vmm_create_pgdir, vmm_free_pgdir).          *)
THEOREM TablesAreReadOnly == Spec => []ReadOnlyTables
<1>1. ASSUME Inv
      PROVE  ReadOnlyTables
  <2>1. Fine(m) /\ DirectoriesOK(m) /\ NamesOK(m) /\ RightsOK(m)
    BY <1>1 DEF Inv, Fine, Good, TablesOK
  <2>2. ASSUME NEW f \in LowFrame, Role(m, f) \in {"directory", "table"}
        PROVE  \E u \in TableUses : f = u[1]
    <3>1. f # NULL
      BY PageTablesAssumption DEF NULL
    <3>2. CASE Role(m, f) = "directory"
      <4>1. PICK t \in Task : m.pgdir[t] = f
        BY <2>1, <3>2 DEF DirectoriesOK
      <4>2. <<f, "directory", t>> \in TableUses
        BY <3>1, <4>1 DEF TableUses, Directories
      <4> QED
        BY <4>2
    <3>3. CASE Role(m, f) = "table"
      <4>1. PICK d \in LowFrame, i \in Table : Names(m, d, i, f)
        BY <2>1, <3>3 DEF NamesOK
      <4>2. PICK t \in Task : m.pgdir[t] = d
        BY <2>1, <4>1 DEF DirectoriesOK, Names
      <4>3. d # NULL
        BY PageTablesAssumption DEF NULL
      <4> DEFINE p == <<t, i>>
                 u == <<f, "table", p>>
      <4>4. p \in Directories \X Table
        BY <4>2, <4>3 DEF Directories
      <4>5. u = <<m.ram[m.pgdir[p[1]]].word[p[2]], "table", p>> /\ u[1] # NULL
        BY <3>1, <4>1, <4>2, ZenonT(40) DEF Names, Word
      <4>6. u \in TableUses
        BY <4>4, <4>5 DEF TableUses
      <4> QED
        BY <4>6
    <3> QED
      BY <2>2, <3>2, <3>3
  <2>3. \A u \in TableUses : u[1] \in LowFrame /\ Role(m, u[1]) \in {"directory", "table"}
    BY <2>1, TableUsesAre
  <2> QED
    BY <2>1, <2>2, <2>3 DEF RightsOK, ReadOnlyTables
<1> QED
  BY <1>1, SpecInv, PTL

(* Where fork is not called when high memory is used up, the directory in  *)
(* use is that of the task that runs: a fork that fails in any other way   *)
(* leaves the parent's in use or stops the machine (sys_fork).             *)
THEOREM OwnDirectory ==
  ASSUME ~OutOfStacks
  PROVE  Spec => []RunsOnOwnDirectory
<1>1. Inv => RunsOnOwnDirectory
  BY DEF Inv
<1> QED
  BY <1>1, SpecInv, PTL
=============================================================================
