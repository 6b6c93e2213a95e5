--------------------------- MODULE ServicesProofs ---------------------------
(***************************************************************************)
(* Two services of the kernel, for any values of their constants.          *)
(*                                                                         *)
(* The page allocator: the buddy zones keep every page in exactly one      *)
(* block and implement the pool of pages, for any number of zones of any   *)
(* size.  The blocks of a state, free, lent and in the hands of the call,  *)
(* tile the zones: each lies in its zone, no two overlap, and they cover   *)
(* every page.  A step takes some blocks away and puts others over the     *)
(* same pages (Replaced), which is all that a split, a merge or a change   *)
(* of hands does; that the step does so follows from what an insertion and *)
(* a removal do to the free lists.                                         *)
(*                                                                         *)
(* The time page: the version protocol keeps the copy of the time whole,   *)
(* for any fields, any number of updates and any order of the loads.  The  *)
(* hypervisor's side (SourceInv): which of its fields are new follows from *)
(* its version and from what it has still to write.  The handler's side    *)
(* (CopyInv): as long as the version it has loaded is the shared page's    *)
(* and even, what it has loaded is of that update.                         *)
(***************************************************************************)
EXTENDS BuddyZone, XenTime, SequenceTheorems, FiniteSetTheorems, WellFoundedInduction, TLAPS

-----------------------------------------------------------------------------
(* The page allocator *)

Size(o) == 2^o

\* The arithmetic of block sizes.
LEMMA Sizes ==
  /\ Size(0) = 1
  /\ \A o \in 0 .. 20 : Size(o) \in Nat /\ Size(o) >= 1 /\ Size(o + 1) = Size(o) + Size(o)
BY PowersOfTwo DEF Size

\* The pages of a block, by its bounds.
LEMMA PagesAre ==
  ASSUME NEW p \in Nat, NEW o \in 0 .. 20, NEW x
  PROVE  x \in Pages(p, o) <=> x \in Nat /\ p <= x /\ x < p + Size(o)
<1>1. Size(o) \in Nat
  BY Sizes
<1>2. Pages(p, o) = p .. (p + Size(o) - 1)
  BY DEF Pages, Size
<1> QED
  BY <1>1, <1>2

\* A set of numbers that is not empty has a least one.
LEMMA Least ==
  ASSUME NEW S \in SUBSET Nat, S # {}
  PROVE  Min(S) \in S /\ \A y \in S : Min(S) <= y
<1> DEFINE R == {pair \in Nat \X Nat : pair[1] < pair[2]}
<1>1. IsWellFoundedOn(R, Nat)
  BY NatLessThanWellFounded DEF OpToRel
<1>2. \A x, y \in Nat : <<x, y>> \in R <=> x < y
  OBVIOUS
<1> HIDE DEF R
<1>3. PICK x \in S : \A y \in S : ~(<<y, x>> \in R)
  BY <1>1, WFMin
<1>4. \A y \in S : x <= y
  <2>1. x \in Nat /\ \A y \in S : y \in Nat
    OBVIOUS
  <2>2. \A y \in S : ~(y < x)
    BY <1>2, <1>3, <2>1
  <2> QED
    BY <2>1, <2>2
<1> QED
  BY <1>4 DEF Min

\* A block holds its first page.
LEMMA FirstOfBlock ==
  ASSUME NEW p \in Nat, NEW o \in 0 .. 20
  PROVE  p \in Pages(p, o)
<1>1. Size(o) \in Nat /\ Size(o) >= 1
  BY Sizes
<1> QED
  BY <1>1, PagesAre

\* The block of the largest order fits the zone.
LEMMA MaxOrder ==
  ASSUME NEW z \in Zone
  PROVE  /\ max_order[z] \in 0 .. 19
         /\ FirstPage(z) \in Nat /\ FirstPage(z) = StartPage[z] + 1
         /\ Size(max_order[z]) < NumPages[z]
<1> DEFINE n == NumPages[z] - 1
           S == {o \in 0 .. 20 : n < Size(o + 1)}
<1>1. StartPage[z] \in Nat /\ NumPages[z] \in Nat /\ 2 <= NumPages[z] /\ NumPages[z] <= Size(20)
  BY ZoneAssumption, Sizes DEF Size
<1>0. 20 \in 0 .. 20 /\ Size(20) \in Nat /\ Size(20) >= 1 /\ Size(20 + 1) = Size(20) + Size(20)
  BY Sizes
<1>2. n \in Nat /\ 1 <= n /\ n < Size(20)
  BY <1>0, <1>1
<1> HIDE DEF n
<1>3. S \in SUBSET Nat /\ 20 \in S
  BY <1>0, <1>2
<1>4. Min(S) \in S /\ \A y \in S : Min(S) <= y
  BY <1>3, Least
<1>5. Size(Min(S)) <= n
  <2> DEFINE o == Min(S)
  <2>1. CASE o = 0
    BY <1>2, <2>1, Sizes
  <2>2. CASE o # 0
    <3>1. o - 1 \in 0 .. 20 /\ (o - 1) + 1 = o /\ ~(o <= o - 1)
      BY <1>4, <2>2
    <3> HIDE DEF o
    <3>2. ~(n < Size((o - 1) + 1))
      BY <1>4, <3>1 DEF o
    <3>3. o \in 0 .. 20
      BY <1>4 DEF o
    <3>4. Size(o) \in Nat /\ ~(n < Size(o))
      BY <3>1, <3>2, <3>3, Sizes
    <3>5. Size(o) <= n
      BY <1>2, <3>4
    <3> QED
      BY <3>5 DEF o
  <2> QED
    BY <2>1, <2>2
<1>6. \E o \in 0 .. 20 : 2^o <= n /\ n < 2^(o + 1)
  BY <1>4, <1>5 DEF Size
<1>7. vmm_floor_log2(n) = CHOOSE o \in 0 .. 20 : 2^o <= n /\ n < 2^(o + 1)
  <2>1. n # 0
    BY <1>2
  <2> QED
    BY <2>1 DEF vmm_floor_log2
<1>8. vmm_floor_log2(n) \in 0 .. 20 /\ Size(vmm_floor_log2(n)) <= n
  BY <1>6, <1>7 DEF Size
<1>9. max_order[z] = vmm_floor_log2(n)
  BY DEF max_order, n
<1>10. max_order[z] # 20
  BY <1>0, <1>2, <1>8, <1>9
<1>11. max_order[z] \in 0 .. 19 /\ Size(max_order[z]) <= n
  BY <1>8, <1>9, <1>10
<1>12. Size(max_order[z]) \in Nat
  BY <1>8, <1>9, Sizes
<1> QED
  BY <1>1, <1>11, <1>12 DEF FirstPage, n

\* The pages of a zone, by their bounds.
LEMMA ZonePagesAre ==
  ASSUME NEW z \in Zone, NEW x
  PROVE  x \in ZonePages(z) <=> /\ x \in Nat /\ FirstPage(z) <= x
                                /\ x < FirstPage(z) + Size(max_order[z])
BY MaxOrder, PagesAre DEF ZonePages

\* The zones have no page in common.
LEMMA ZonesApart ==
  ASSUME NEW y \in Zone, NEW z \in Zone, NEW x, x \in ZonePages(y), x \in ZonePages(z)
  PROVE  y = z
<1>1. /\ x \in Nat /\ StartPage[y] + 1 <= x /\ x < StartPage[y] + 1 + Size(max_order[y])
      /\ StartPage[z] + 1 <= x /\ x < StartPage[z] + 1 + Size(max_order[z])
      /\ Size(max_order[y]) < NumPages[y] /\ Size(max_order[z]) < NumPages[z]
  BY ZonePagesAre, MaxOrder
<1>2. Size(max_order[y]) \in Nat /\ Size(max_order[z]) \in Nat
  <2>1. max_order[y] \in 0 .. 20 /\ max_order[z] \in 0 .. 20
    BY MaxOrder
  <2> QED
    BY <2>1, Sizes
<1>3. /\ StartPage[y] \in Nat /\ StartPage[z] \in Nat /\ NumPages[y] \in Nat /\ NumPages[z] \in Nat
      /\ \/ y = z \/ StartPage[y] + NumPages[y] <= StartPage[z]
         \/ StartPage[z] + NumPages[z] <= StartPage[y]
  BY ZoneAssumption
<1> QED
  BY <1>1, <1>2, <1>3

-----------------------------------------------------------------------------
Distinct(s) == \A i, j \in 1 .. Len(s) : s[i] = s[j] => i = j
Has(s, q) == \E i \in 1 .. Len(s) : s[i] = q

\* Page q is the first of a free block of order o of zone z.
Listed(fl, z, o, q) == Has(fl[z][o], q)

\* The free lists fl, with every block once, and their lengths nf.
FreeLists == UNION {[Lists(z) -> Seq(Nat)] : z \in Zone}
Lengths == UNION {[Lists(z) -> Nat] : z \in Zone}

ListsOk(fl, nf) ==
  /\ fl \in [Zone -> FreeLists] /\ nf \in [Zone -> Lengths]
  /\ \A z \in Zone : fl[z] \in [Lists(z) -> Seq(Nat)] /\ nf[z] \in [Lists(z) -> Nat]
  /\ \A z \in Zone : \A o \in Lists(z) : nf[z][o] = Len(fl[z][o]) /\ Distinct(fl[z][o])

\* A page in front of a list of others.
LEMMA Inserted ==
  ASSUME NEW s \in Seq(Nat), NEW p \in Nat, ~Has(s, p), Distinct(s), NEW t, t = <<p>> \o s
  PROVE  /\ t \in Seq(Nat) /\ Len(s) \in Nat /\ Len(t) = Len(s) + 1
         /\ Distinct(t) /\ \A q : Has(t, q) <=> Has(s, q) \/ q = p
<1>1. Len(s) \in Nat
  BY LenProperties
<1>2. <<p>> \in Seq(Nat) /\ Len(<<p>>) = 1 /\ <<p>>[1] = p
  OBVIOUS
<1>3. /\ t \in Seq(Nat) /\ Len(t) = Len(<<p>>) + Len(s)
      /\ \A i \in 1 .. Len(<<p>>) + Len(s) :
           t[i] = IF i <= Len(<<p>>) THEN <<p>>[i] ELSE s[i - Len(<<p>>)]
  BY <1>2, ConcatProperties
<1>4. /\ Len(t) = Len(s) + 1 /\ t[1] = p
      /\ \A i \in 1 .. Len(s) + 1 : i # 1 => i - 1 \in 1 .. Len(s) /\ t[i] = s[i-1]
  BY <1>1, <1>2, <1>3
<1>5. \A i \in 1 .. Len(s) : i + 1 \in 1 .. Len(s) + 1 /\ t[i+1] = s[i]
  <2> TAKE i \in 1 .. Len(s)
  <2>1. i + 1 \in 1 .. Len(s) + 1 /\ i + 1 # 1 /\ (i + 1) - 1 = i
    BY <1>1
  <2> QED
    BY <1>4, <2>1
<1>0. (\A i \in 1 .. Len(s) : s[i] # p) /\ \A i, j \in 1 .. Len(s) : s[i] = s[j] => i = j
  BY DEF Has, Distinct
<1>6. \A i, j \in 1 .. Len(t) : t[i] = t[j] => i = j
  <2> SUFFICES ASSUME NEW i \in 1 .. Len(s) + 1, NEW j \in 1 .. Len(s) + 1, t[i] = t[j]
               PROVE  i = j
    BY <1>4
  <2>1. CASE i = 1 \/ j = 1
    BY <1>0, <1>4, <2>1
  <2>2. CASE i # 1 /\ j # 1
    <3>1. i - 1 = j - 1
      BY <1>0, <1>4, <2>2, ZenonT(40)
    <3> QED
      BY <1>1, <3>1
  <2> QED
    BY <2>1, <2>2
<1>7. ASSUME NEW q
      PROVE  (\E i \in 1 .. Len(t) : t[i] = q) <=> q = p \/ \E i \in 1 .. Len(s) : s[i] = q
  <2>1. 1 \in 1 .. Len(t)
    BY <1>1, <1>4, SMTT(40)
  <2> QED
    BY <1>4, <1>5, <2>1
<1> QED
  BY <1>1, <1>3, <1>4, <1>6, <1>7 DEF Has, Distinct

\* The list without its place k.
LEMMA Removed ==
  ASSUME NEW s \in Seq(Nat), NEW k \in 1 .. Len(s), Distinct(s), NEW t, t = RemoveAt(s, k)
  PROVE  /\ t \in Seq(Nat) /\ Len(s) \in Nat /\ Len(t) = Len(s) - 1
         /\ Distinct(t) /\ \A q : Has(t, q) <=> Has(s, q) /\ q # s[k]
<1> DEFINE n == Len(s)
           a == SubSeq(s, 1, k - 1)
           b == SubSeq(s, k + 1, n)
<1>1. n \in Nat /\ s \in [1 .. n -> Nat] /\ k \in 1 .. n
  BY LenProperties
<1> HIDE DEF n
<1>2. /\ 1 \in Int /\ k - 1 \in Int /\ k + 1 \in Int /\ n \in Int
      /\ \A i \in 1 .. k - 1 : s[i] \in Nat
      /\ \A i \in k + 1 .. n : s[i] \in Nat
  BY <1>1
<1>3. /\ a \in Seq(Nat) /\ Len(a) = IF 1 <= k - 1 THEN k - 1 - 1 + 1 ELSE 0
      /\ \A i \in 1 .. k - 1 - 1 + 1 : a[i] = s[1 + i - 1]
  BY <1>2, SubSeqProperties
<1>4. /\ b \in Seq(Nat) /\ Len(b) = IF k + 1 <= n THEN n - (k + 1) + 1 ELSE 0
      /\ \A i \in 1 .. n - (k + 1) + 1 : b[i] = s[k + 1 + i - 1]
  BY <1>2, SubSeqProperties
<1>5. Len(a) = k - 1 /\ Len(b) = n - k
  BY <1>1, <1>3, <1>4
<1>6. t = a \o b
  BY DEF RemoveAt, n
<1> HIDE DEF a, b
<1>7. /\ t \in Seq(Nat) /\ Len(t) = Len(a) + Len(b)
      /\ \A i \in 1 .. Len(a) + Len(b) : t[i] = IF i <= Len(a) THEN a[i] ELSE b[i - Len(a)]
  <2>1. a \in Seq(Nat) /\ b \in Seq(Nat)
    BY <1>3, <1>4
  <2> QED
    BY <1>6, <2>1, ConcatProperties
<1>8. ASSUME NEW i \in 1 .. n - 1
      PROVE  t[i] = IF i < k THEN s[i] ELSE s[i+1]
  <2>1. i \in 1 .. Len(a) + Len(b) /\ (i <= Len(a) <=> i < k)
    BY <1>1, <1>5
  <2>2. CASE i < k
    <3>1. i \in 1 .. k - 1 - 1 + 1 /\ 1 + i - 1 = i
      BY <1>1, <2>2
    <3> QED
      BY <1>3, <1>7, <2>1, <2>2, <3>1
  <2>3. CASE ~(i < k)
    <3>1. i - Len(a) \in 1 .. n - (k + 1) + 1 /\ k + 1 + (i - Len(a)) - 1 = i + 1
      BY <1>1, <1>5, <2>3
    <3> QED
      BY <1>4, <1>7, <2>1, <2>3, <3>1
  <2> QED
    BY <2>2, <2>3
<1>9. Len(t) = n - 1
  BY <1>1, <1>5, <1>7
<1>10. \A i, j \in 1 .. n : s[i] = s[j] => i = j
  BY DEF n, Distinct
<1>11. \A i, j \in 1 .. n - 1 : t[i] = t[j] => i = j
  <2> SUFFICES ASSUME NEW i \in 1 .. n - 1, NEW j \in 1 .. n - 1, t[i] = t[j]
               PROVE  i = j
    OBVIOUS
  <2> DEFINE u == IF i < k THEN i ELSE i + 1
             v == IF j < k THEN j ELSE j + 1
  <2>1. u \in 1 .. n /\ v \in 1 .. n /\ (u = v => i = j)
    BY <1>1
  <2>2. s[u] = s[v]
    BY <1>8
  <2> HIDE DEF u, v
  <2> QED
    BY <1>10, <2>1, <2>2
<1>12. ASSUME NEW q
       PROVE  (\E i \in 1 .. n - 1 : t[i] = q) <=> q # s[k] /\ \E i \in 1 .. n : s[i] = q
  <2>1. ASSUME NEW i \in 1 .. n - 1, t[i] = q
        PROVE  q # s[k] /\ \E j \in 1 .. n : s[j] = q
    <3> DEFINE u == IF i < k THEN i ELSE i + 1
    <3>1. u \in 1 .. n /\ u # k
      BY <1>1
    <3>2. s[u] = q
      BY <1>8, <2>1
    <3> HIDE DEF u
    <3> QED
      BY <1>1, <1>10, <3>1, <3>2
  <2>2. ASSUME NEW j \in 1 .. n, s[j] = q, q # s[k]
        PROVE  \E i \in 1 .. n - 1 : t[i] = q
    <3>1. j # k
      BY <2>2
    <3>2. CASE j < k
      <4>1. j \in 1 .. n - 1
        BY <1>1, <3>2
      <4> QED
        BY <1>8, <2>2, <3>2, <4>1
    <3>3. CASE j > k
      <4>1. j - 1 \in 1 .. n - 1 /\ ~(j - 1 < k) /\ (j - 1) + 1 = j
        BY <1>1, <3>3
      <4> QED
        BY <1>8, <2>2, <4>1
    <3> QED
      BY <1>1, <3>1, <3>2, <3>3
  <2> QED
    BY <2>1, <2>2
<1> QED
  BY <1>1, <1>7, <1>9, <1>11, <1>12, ZenonT(40) DEF n, Has, Distinct

\* The family f with t at order o of zone z.
Stored(f, z, o, t) == [f EXCEPT ![z] = [f[z] EXCEPT ![o] = t]]

\* A free list replaced by the list t.
LEMMA ListReplaced ==
  ASSUME NEW fl, NEW nf, ListsOk(fl, nf), NEW z \in Zone, NEW o \in Lists(z),
         NEW t \in Seq(Nat), Distinct(t), NEW gl, gl = Stored(fl, z, o, t),
         NEW ng, ng = Stored(nf, z, o, Len(t))
  PROVE  /\ ListsOk(gl, ng)
         /\ \A q : Listed(gl, z, o, q) <=> Has(t, q)
         /\ \A y \in Zone : \A j \in Lists(y) : \A q :
              ~(y = z /\ j = o) => (Listed(gl, y, j, q) <=> Listed(fl, y, j, q))
<1> DEFINE u == [fl[z] EXCEPT ![o] = t]
           v == [nf[z] EXCEPT ![o] = Len(t)]
<1>1. /\ fl \in [Zone -> FreeLists] /\ nf \in [Zone -> Lengths]
      /\ \A y \in Zone : fl[y] \in [Lists(y) -> Seq(Nat)] /\ nf[y] \in [Lists(y) -> Nat]
      /\ \A y \in Zone : \A j \in Lists(y) : nf[y][j] = Len(fl[y][j]) /\ Distinct(fl[y][j])
  BY DEF ListsOk
<1>2. Len(t) \in Nat
  BY LenProperties
<1>3. u \in [Lists(z) -> Seq(Nat)] /\ v \in [Lists(z) -> Nat]
  BY <1>1, <1>2
<1>4. u \in FreeLists /\ v \in Lengths
  BY <1>3 DEF FreeLists, Lengths
<1>5. /\ u[o] = t /\ v[o] = Len(t)
      /\ \A j \in Lists(z) : j # o => u[j] = fl[z][j] /\ v[j] = nf[z][j]
  BY <1>1
<1>6. gl = [fl EXCEPT ![z] = u] /\ ng = [nf EXCEPT ![z] = v]
  BY DEF Stored
<1> HIDE DEF u, v
<1>7. gl \in [Zone -> FreeLists] /\ ng \in [Zone -> Lengths]
  BY <1>1, <1>4, <1>6
<1>8. /\ gl[z] = u /\ ng[z] = v
      /\ \A y \in Zone : y # z => gl[y] = fl[y] /\ ng[y] = nf[y]
  BY <1>1, <1>6
<1>9. \A y \in Zone : gl[y] \in [Lists(y) -> Seq(Nat)] /\ ng[y] \in [Lists(y) -> Nat]
  BY <1>1, <1>3, <1>8
<1>10. /\ gl[z][o] = t /\ ng[z][o] = Len(t)
       /\ \A y \in Zone : \A j \in Lists(y) :
            ~(y = z /\ j = o) => gl[y][j] = fl[y][j] /\ ng[y][j] = nf[y][j]
  BY <1>5, <1>8
<1>11. ASSUME NEW y \in Zone, NEW j \in Lists(y)
       PROVE  ng[y][j] = Len(gl[y][j]) /\ Distinct(gl[y][j])
  <2>1. CASE y = z /\ j = o
    BY <1>10, <2>1
  <2>2. CASE ~(y = z /\ j = o)
    <3>1. gl[y][j] = fl[y][j] /\ ng[y][j] = nf[y][j]
      BY <1>10, <2>2
    <3> QED
      BY <1>1, <3>1
  <2> QED
    BY <2>1, <2>2
<1>12. ListsOk(gl, ng)
  BY <1>7, <1>9, <1>11 DEF ListsOk
<1> QED
  BY <1>10, <1>12 DEF Listed

\* What Insert does to the free lists of a zone.
LEMMA InsertLists ==
  ASSUME NEW fl, NEW nf, ListsOk(fl, nf), NEW z \in Zone, NEW o \in Lists(z), NEW p \in Nat,
         ~Listed(fl, z, o, p),
         NEW gl, gl = Stored(fl, z, o, <<p>> \o fl[z][o]),
         NEW ng, ng = Stored(nf, z, o, nf[z][o] + 1)
  PROVE  /\ ListsOk(gl, ng)
         /\ \A y \in Zone : \A j \in Lists(y) : \A q :
              Listed(gl, y, j, q) <=> Listed(fl, y, j, q) \/ (y = z /\ j = o /\ q = p)
<1> DEFINE s == fl[z][o]
           t == <<p>> \o s
<1>1. /\ s \in Seq(Nat) /\ nf[z][o] = Len(s) /\ Distinct(s)
      /\ \A q : Listed(fl, z, o, q) <=> Has(s, q)
  BY DEF ListsOk, Listed
<1>2. t = <<p>> \o s /\ ~Has(s, p)
  BY <1>1
<1>3. gl = Stored(fl, z, o, t)
  OBVIOUS
<1>4. ng = Stored(nf, z, o, Len(s) + 1)
  BY <1>1
<1> HIDE DEF s, t
<1>5. /\ t \in Seq(Nat) /\ Len(t) = Len(s) + 1 /\ Distinct(t)
      /\ \A q : Has(t, q) <=> Has(s, q) \/ q = p
  BY <1>1, <1>2, Inserted
<1>6. /\ ListsOk(gl, ng)
      /\ \A q : Listed(gl, z, o, q) <=> Has(t, q)
      /\ \A y \in Zone : \A j \in Lists(y) : \A q :
           ~(y = z /\ j = o) => (Listed(gl, y, j, q) <=> Listed(fl, y, j, q))
  BY <1>3, <1>4, <1>5, ListReplaced
<1> QED
  BY <1>1, <1>5, <1>6

\* What Delete does to the free lists of a zone.
LEMMA DeleteLists ==
  ASSUME NEW fl, NEW nf, ListsOk(fl, nf), NEW z \in Zone, NEW o \in Lists(z),
         NEW k \in 1 .. Len(fl[z][o]),
         NEW gl, gl = Stored(fl, z, o, RemoveAt(fl[z][o], k)),
         NEW ng, ng = Stored(nf, z, o, nf[z][o] - 1)
  PROVE  /\ ListsOk(gl, ng)
         /\ \A y \in Zone : \A j \in Lists(y) : \A q :
              Listed(gl, y, j, q)
              <=> Listed(fl, y, j, q) /\ ~(y = z /\ j = o /\ q = fl[z][o][k])
<1> DEFINE s == fl[z][o]
           t == RemoveAt(s, k)
<1>1. /\ s \in Seq(Nat) /\ nf[z][o] = Len(s) /\ k \in 1 .. Len(s) /\ Distinct(s)
      /\ \A q : Listed(fl, z, o, q) <=> Has(s, q)
  BY DEF ListsOk, Listed
<1>2. t = RemoveAt(s, k) /\ fl[z][o][k] = s[k]
  OBVIOUS
<1>3. gl = Stored(fl, z, o, t)
  OBVIOUS
<1>4. ng = Stored(nf, z, o, Len(s) - 1)
  BY <1>1
<1> HIDE DEF s, t
<1>5. /\ t \in Seq(Nat) /\ Len(t) = Len(s) - 1 /\ Distinct(t)
      /\ \A q : Has(t, q) <=> Has(s, q) /\ q # s[k]
  BY <1>1, <1>2, Removed, ZenonT(40)
<1>6. /\ ListsOk(gl, ng)
      /\ \A q : Listed(gl, z, o, q) <=> Has(t, q)
      /\ \A y \in Zone : \A j \in Lists(y) : \A q :
           ~(y = z /\ j = o) => (Listed(gl, y, j, q) <=> Listed(fl, y, j, q))
  BY <1>3, <1>4, <1>5, ListReplaced, SMTT(40)
<1> QED
  BY <1>1, <1>2, <1>5, <1>6

-----------------------------------------------------------------------------
\* A block: in whose hands it is, its zone, its order and its first page.
Block == {"free", "lent", "call"} \X Zone \X (0 .. 20) \X Nat

BlockPages(a) == Pages(a[4], a[3])

IsLent(ln, z, o, p) == [zone |-> z, page |-> p, order |-> o] \in ln
IsCall(c, z, o, p) == c.pc # "idle" /\ c.zone = z /\ c.order = o /\ c.page = p

\* The blocks of the free lists fl, the lent blocks ln and the call c.
Blocks(fl, ln, c) ==
  {a \in Block : \/ a[1] = "free" /\ a[3] <= max_order[a[2]] /\ Listed(fl, a[2], a[3], a[4])
                 \/ a[1] = "lent" /\ IsLent(ln, a[2], a[3], a[4])
                 \/ a[1] = "call" /\ IsCall(c, a[2], a[3], a[4])}

\* The blocks B lie in their zones, no two overlap, and they cover the pages.
Within(B) == \A a \in B : \A x \in BlockPages(a) : x \in ZonePages(a[2])
Apart(B) == \A a, b \in B : \A x : x \in BlockPages(a) /\ x \in BlockPages(b) => a = b
Covers(B, x) == \E a \in B : x \in BlockPages(a)

Tiling(B) == Within(B) /\ Apart(B) /\ \A x \in Page : Covers(B, x)

\* Blocks Y over the pages of the blocks X may take their place.
LEMMA Replaced ==
  ASSUME NEW B, Tiling(B), NEW X \in SUBSET B, NEW Y, NEW C, C = (B \ X) \cup Y,
         \A x : Covers(X, x) <=> Covers(Y, x), Within(Y), Apart(Y)
  PROVE  Tiling(C)
<1> USE DEF Within, Apart, Covers
<1>1. Within(C)
  BY DEF Tiling
<1>2. ASSUME NEW a \in C, NEW b \in C, NEW x, x \in BlockPages(a), x \in BlockPages(b)
      PROVE  a = b
  <2>1. CASE a \in Y /\ b \in Y
    BY <1>2, <2>1
  <2>2. CASE a \in B \ X /\ b \in B \ X
    BY <1>2, <2>2 DEF Tiling
  <2>3. CASE a \in B \ X /\ b \in Y
    <3>1. PICK d \in X : x \in BlockPages(d)
      BY <1>2, <2>3
    <3> QED
      BY <1>2, <2>3, <3>1 DEF Tiling
  <2>4. CASE b \in B \ X /\ a \in Y
    <3>1. PICK d \in X : x \in BlockPages(d)
      BY <1>2, <2>4
    <3> QED
      BY <1>2, <2>4, <3>1 DEF Tiling
  <2> QED
    BY <2>1, <2>2, <2>3, <2>4
<1>3. ASSUME NEW x \in Page
      PROVE  \E a \in C : x \in BlockPages(a)
  <2>1. PICK a \in B : x \in BlockPages(a)
    BY DEF Tiling
  <2> QED
    BY <2>1
<1> QED
  BY <1>1, <1>2, <1>3 DEF Tiling

\* The pages of a block, by its bounds.
LEMMA BlockIs ==
  ASSUME NEW a \in Block
  PROVE  /\ a[2] \in Zone /\ a[3] \in 0 .. 20 /\ a[4] \in Nat
         /\ \A x : x \in BlockPages(a) <=> x \in Nat /\ a[4] <= x /\ x < a[4] + Size(a[3])
         /\ a[4] \in BlockPages(a)
<1>1. a[2] \in Zone /\ a[3] \in 0 .. 20 /\ a[4] \in Nat
  BY DEF Block
<1>2. \A x : x \in BlockPages(a) <=> x \in Nat /\ a[4] <= x /\ x < a[4] + Size(a[3])
  BY <1>1, PagesAre DEF BlockPages
<1>3. Size(a[3]) \in Nat /\ Size(a[3]) >= 1
  BY <1>1, Sizes
<1>4. a[4] \in BlockPages(a)
  BY <1>1, <1>2, <1>3
<1> QED
  BY <1>1, <1>2, <1>4

\* A block that changes hands.
LEMMA Handed ==
  ASSUME NEW B, Tiling(B), NEW a \in B, NEW b, b[2] = a[2], b[3] = a[3], b[4] = a[4],
         NEW C, C = (B \ {a}) \cup {b}
  PROVE  Tiling(C)
<1>1. BlockPages(b) = BlockPages(a)
  BY DEF BlockPages
<1> DEFINE X == {a}
           Y == {b}
<1>2. X \in SUBSET B /\ C = (B \ X) \cup Y /\ \A x : Covers(X, x) <=> Covers(Y, x)
  BY <1>1 DEF Covers
<1>3. Within(Y) /\ Apart(Y)
  BY <1>1 DEF Tiling, Within, Apart
<1> HIDE DEF X, Y
<1> QED
  BY <1>2, <1>3, Replaced

\* A block split into its halves, or put together from them.
LEMMA Halved ==
  ASSUME NEW p \in Nat, NEW o \in 0 .. 19, NEW z \in Zone, NEW x
  PROVE  /\ p + Size(o) \in Nat /\ o \in 0 .. 20 /\ o + 1 \in 0 .. 20
         /\ x \in Pages(p, o + 1) <=> x \in Pages(p, o) \/ x \in Pages(p + Size(o), o)
         /\ ~(x \in Pages(p, o) /\ x \in Pages(p + Size(o), o))
<1>1. /\ o \in 0 .. 20 /\ o + 1 \in 0 .. 20
  OBVIOUS
<1>2. /\ Size(o) \in Nat /\ Size(o) >= 1 /\ Size(o + 1) = Size(o) + Size(o)
  BY <1>1, Sizes
<1>3. p + Size(o) \in Nat
  BY <1>2
<1>4. /\ x \in Pages(p, o) <=> x \in Nat /\ p <= x /\ x < p + Size(o)
      /\ x \in Pages(p, o + 1) <=> x \in Nat /\ p <= x /\ x < p + Size(o + 1)
  BY <1>1, PagesAre
<1>5. x \in Pages(p + Size(o), o)
      <=> x \in Nat /\ p + Size(o) <= x /\ x < p + Size(o) + Size(o)
  BY <1>1, <1>3, PagesAre
<1> QED
  BY <1>1, <1>2, <1>3, <1>4, <1>5

-----------------------------------------------------------------------------
LentOk(ln) == \A b \in ln : /\ b \in [zone : Zone, page : Nat, order : 0 .. 20]
                            /\ b.order <= max_order[b.zone]

Splitting(z, p, o, g) == [pc |-> "split", zone |-> z, page |-> p, order |-> o, goal |-> g]
Merging(z, p, o) == [pc |-> "merge", zone |-> z, page |-> p, order |-> o]

CallOk(c) ==
  \/ c = [pc |-> "idle"]
  \/ \E z \in Zone, p \in Nat : \E o \in 0 .. max_order[z] :
       \/ \E g \in 0 .. o : c = Splitting(z, p, o, g)
       \/ c = Merging(z, p, o)

(* The free lists are in order, and the blocks tile the zones. *)
Inv == /\ ListsOk(free_list, num_free) /\ LentOk(lent) /\ CallOk(call)
       /\ Tiling(Blocks(free_list, lent, call))

\* The orders of a zone are orders of a block.
LEMMA Orders ==
  ASSUME NEW z \in Zone, NEW o \in 0 .. max_order[z]
  PROVE  /\ o \in 0 .. 20 /\ o \in Lists(z) /\ o \in 0 .. 19 /\ o <= max_order[z]
         /\ o < max_order[z] => o + 1 \in 0 .. max_order[z]
BY MaxOrder DEF Lists

\* A block of less than the largest order has one of the next order.
LEMMA NextOrder ==
  ASSUME NEW z \in Zone, NEW o \in 0 .. max_order[z], o # max_order[z]
  PROVE  o + 1 \in 0 .. max_order[z]
<1>1. o \in Nat /\ max_order[z] \in Nat /\ o <= max_order[z]
  BY MaxOrder
<1> QED
  BY <1>1

\* Which blocks there are.
LEMMA BlocksAre ==
  ASSUME NEW fl, NEW ln, NEW c, NEW z \in Zone, NEW o \in 0 .. max_order[z], NEW p \in Nat
  PROVE  /\ <<"free", z, o, p>> \in Blocks(fl, ln, c) <=> Listed(fl, z, o, p)
         /\ <<"lent", z, o, p>> \in Blocks(fl, ln, c) <=> IsLent(ln, z, o, p)
         /\ <<"call", z, o, p>> \in Blocks(fl, ln, c) <=> IsCall(c, z, o, p)
<1>1. o \in 0 .. 20 /\ o <= max_order[z]
  BY Orders
<1>2. \A k \in {"free", "lent", "call"} : <<k, z, o, p>> \in Block
  BY <1>1 DEF Block
<1> QED
  BY <1>1, <1>2 DEF Blocks

\* The pages of a free list are numbers.
LEMMA ListedPages ==
  ASSUME NEW fl, NEW nf, ListsOk(fl, nf), NEW z \in Zone, NEW o \in Lists(z)
  PROVE  /\ fl[z][o] \in Seq(Nat) /\ Len(fl[z][o]) \in Nat /\ nf[z][o] = Len(fl[z][o])
         /\ DOMAIN fl[z][o] = 1 .. Len(fl[z][o])
         /\ \A i \in 1 .. Len(fl[z][o]) : fl[z][o][i] \in Nat /\ Listed(fl, z, o, fl[z][o][i])
<1>1. fl[z][o] \in Seq(Nat) /\ nf[z][o] = Len(fl[z][o])
  BY DEF ListsOk
<1>2. Len(fl[z][o]) \in Nat /\ fl[z][o] \in [1 .. Len(fl[z][o]) -> Nat]
      /\ DOMAIN fl[z][o] = 1 .. Len(fl[z][o])
  BY <1>1, LenProperties
<1>3. \A i \in 1 .. Len(fl[z][o]) : fl[z][o][i] \in Nat
  BY <1>2
<1> QED
  BY <1>1, <1>2, <1>3 DEF Listed, Has

-----------------------------------------------------------------------------
\* Free lists, lent blocks and call lose the blocks X and gain the blocks Y.
Moved(fl, ln, c, gl, kn, d, X, Y) ==
  \A z \in Zone : \A o \in 0 .. max_order[z] : \A p \in Nat :
    /\ Listed(gl, z, o, p) <=> \/ Listed(fl, z, o, p) /\ <<"free", z, o, p>> \notin X
                               \/ <<"free", z, o, p>> \in Y
    /\ IsLent(kn, z, o, p) <=> \/ IsLent(ln, z, o, p) /\ <<"lent", z, o, p>> \notin X
                               \/ <<"lent", z, o, p>> \in Y
    /\ IsCall(d, z, o, p) <=> <<"call", z, o, p>> \in Y
    /\ IsCall(c, z, o, p) => <<"call", z, o, p>> \in X

\* Blocks that are no larger than their zones.
Sized(X) == \A a \in X : a \in Block /\ a[3] <= max_order[a[2]]

\* A single block.
LEMMA SizedOne ==
  ASSUME NEW k \in {"free", "lent", "call"}, NEW z \in Zone, NEW o \in 0 .. max_order[z],
         NEW p \in Nat
  PROVE  <<k, z, o, p>> \in Block /\ Sized({<<k, z, o, p>>})
BY Orders DEF Block, Sized

\* What a step that moves blocks leaves.
LEMMA BlocksAfter ==
  ASSUME NEW fl, NEW ln, NEW c, LentOk(ln), CallOk(c),
         NEW gl, NEW kn, NEW d, LentOk(kn), CallOk(d),
         NEW X, NEW Y, Sized(Y), Moved(fl, ln, c, gl, kn, d, X, Y)
  PROVE  Blocks(gl, kn, d) = (Blocks(fl, ln, c) \ X) \cup Y
<1>1. ASSUME NEW a \in Block
      PROVE  a \in Blocks(gl, kn, d) <=> a \in (Blocks(fl, ln, c) \ X) \cup Y
  <2>1. PICK k \in {"free", "lent", "call"}, z \in Zone, o \in 0 .. 20, p \in Nat :
             a = <<k, z, o, p>>
    BY DEF Block
  <2>2. CASE o \in 0 .. max_order[z]
    <3>1. CASE k = "free"
      BY <2>1, <2>2, <3>1, BlocksAre DEF Moved
    <3>2. CASE k = "lent"
      BY <2>1, <2>2, <3>2, BlocksAre DEF Moved
    <3>3. CASE k = "call"
      BY <2>1, <2>2, <3>3, BlocksAre DEF Moved
    <3> QED
      BY <3>1, <3>2, <3>3
  <2>3. CASE ~(o \in 0 .. max_order[z])
    <3>1. ~(o <= max_order[z])
      BY <2>3, MaxOrder
    <3>2. a \notin Blocks(gl, kn, d) /\ a \notin Blocks(fl, ln, c) /\ a \notin Y
      BY <2>1, <2>3, <3>1 DEF Sized, Blocks, LentOk, IsLent, CallOk, IsCall, Splitting, Merging
    <3> QED
      BY <3>2
  <2> QED
    BY <2>2, <2>3
<1>2. \A a \in Blocks(gl, kn, d) : a \in Block
  BY DEF Blocks
<1>3. /\ \A a \in Blocks(fl, ln, c) : a \in Block
      /\ \A a \in Y : a \in Block
  BY DEF Blocks, Sized
<1> QED
  BY <1>1, <1>2, <1>3

\* Insert and Delete, as the steps use them.
LEMMA Inserts ==
  ASSUME ListsOk(free_list, num_free), NEW z \in Zone, NEW o \in 0 .. max_order[z], NEW p \in Nat,
         ~Listed(free_list, z, o, p), Insert(z, o, p)
  PROVE  /\ ListsOk(free_list', num_free')
         /\ \A y \in Zone : \A j \in 0 .. max_order[y] : \A q :
              Listed(free_list', y, j, q)
              <=> Listed(free_list, y, j, q) \/ (y = z /\ j = o /\ q = p)
<1>1. \A y \in Zone : \A j \in 0 .. max_order[y] : j \in Lists(y)
  BY Orders
<1>2. /\ free_list' = Stored(free_list, z, o, <<p>> \o free_list[z][o])
      /\ num_free' = Stored(num_free, z, o, num_free[z][o] + 1)
  BY DEF Insert, Stored
<1>3. /\ ListsOk(free_list', num_free')
      /\ \A y \in Zone : \A j \in Lists(y) : \A q :
           Listed(free_list', y, j, q)
           <=> Listed(free_list, y, j, q) \/ (y = z /\ j = o /\ q = p)
  BY <1>1, <1>2, InsertLists
<1> QED
  BY <1>1, <1>3

\* The same of Delete.
LEMMA Deletes ==
  ASSUME ListsOk(free_list, num_free), NEW z \in Zone, NEW o \in 0 .. max_order[z],
         NEW k \in 1 .. Len(free_list[z][o]), Delete(z, o, k)
  PROVE  /\ ListsOk(free_list', num_free')
         /\ \A y \in Zone : \A j \in 0 .. max_order[y] : \A q :
              Listed(free_list', y, j, q)
              <=> Listed(free_list, y, j, q) /\ ~(y = z /\ j = o /\ q = free_list[z][o][k])
<1>1. \A y \in Zone : \A j \in 0 .. max_order[y] : j \in Lists(y)
  BY Orders
<1>2. /\ free_list' = Stored(free_list, z, o, RemoveAt(free_list[z][o], k))
      /\ num_free' = Stored(num_free, z, o, num_free[z][o] - 1)
  BY DEF Delete, Stored
<1>3. /\ ListsOk(free_list', num_free')
      /\ \A y \in Zone : \A j \in Lists(y) : \A q :
           Listed(free_list', y, j, q)
           <=> Listed(free_list, y, j, q) /\ ~(y = z /\ j = o /\ q = free_list[z][o][k])
  BY <1>1, <1>2, DeleteLists
<1> QED
  BY <1>1, <1>3

\* vmm_buddy_get_free_pages: a free block goes to the call.
LEMMA GetStep ==
  ASSUME Inv, NEW z \in Zone, NEW o \in 0 .. max_order[z], vmm_buddy_get_free_pages(z, o)
  PROVE  Inv' /\ UNCHANGED lent
<1> DEFINE i == Min(Fitting(z, o))
           p == free_list[z][i][1]
           X == {<<"free", z, i, p>>}
           Y == {<<"call", z, i, p>>}
<1>1. /\ call.pc = "idle" /\ Fitting(z, o) # {} /\ UNCHANGED lent
      /\ Delete(z, i, 1) /\ call' = Splitting(z, p, i, o)
  BY DEF vmm_buddy_get_free_pages, Splitting
<1>2. /\ ListsOk(free_list, num_free) /\ LentOk(lent) /\ CallOk(call)
      /\ Tiling(Blocks(free_list, lent, call))
  BY DEF Inv
<1>3. i \in 0 .. max_order[z] /\ o <= i /\ num_free[z][i] # 0
  <2>1. Fitting(z, o) \in SUBSET Nat
    BY MaxOrder DEF Fitting
  <2>2. i \in Fitting(z, o)
    BY <1>1, <2>1, Least
  <2> HIDE DEF i
  <2> QED
    BY <2>2, MaxOrder DEF Fitting
<1> HIDE DEF i
<1>4. /\ 1 \in 1 .. Len(free_list[z][i]) /\ p \in Nat /\ Listed(free_list, z, i, p)
  BY <1>2, <1>3, Orders, ListedPages
<1>5. /\ ListsOk(free_list', num_free')
      /\ \A y \in Zone : \A j \in 0 .. max_order[y] : \A q :
           Listed(free_list', y, j, q)
           <=> Listed(free_list, y, j, q) /\ ~(y = z /\ j = i /\ q = p)
  BY <1>1, <1>2, <1>3, <1>4, Deletes
<1> HIDE DEF p
<1>6. CallOk(call') /\ LentOk(lent')
  BY <1>1, <1>2, <1>3, <1>4, MaxOrder DEF CallOk
<1>7. Sized(Y)
  BY <1>3, <1>4, SizedOne
<1>8. Moved(free_list, lent, call, free_list', lent', call', X, Y)
  BY <1>1, <1>5 DEF Moved, IsCall, Splitting
<1>9. <<"free", z, i, p>> \in Blocks(free_list, lent, call)
  BY <1>3, <1>4, BlocksAre
<1> HIDE DEF X, Y
<1>10. Blocks(free_list', lent', call') = (Blocks(free_list, lent, call) \ X) \cup Y
  BY <1>2, <1>6, <1>7, <1>8, BlocksAfter
<1>11. Tiling(Blocks(free_list', lent', call'))
  BY <1>2, <1>9, <1>10, Handed DEF X, Y
<1> QED
  BY <1>1, <1>5, <1>6, <1>11 DEF Inv

\* The call's block, where it is in the tiling.
LEMMA CallBlock ==
  ASSUME Inv, NEW z \in Zone, NEW p \in Nat, NEW o \in 0 .. max_order[z],
         call.pc # "idle", call.zone = z, call.page = p, call.order = o
  PROVE  /\ <<"call", z, o, p>> \in Blocks(free_list, lent, call)
         /\ \A x \in Pages(p, o) : x \in ZonePages(z)
         /\ \A j \in 0 .. max_order[z], q \in Nat : \A x :
              Listed(free_list, z, j, q) /\ x \in Pages(q, j) => x \notin Pages(p, o)
<1> DEFINE B == Blocks(free_list, lent, call)
           a == <<"call", z, o, p>>
<1>1. a \in B
  BY BlocksAre DEF IsCall
<1>2. /\ \A b \in B : \A x \in BlockPages(b) : x \in ZonePages(b[2])
      /\ \A b, d \in B : \A x : x \in BlockPages(b) /\ x \in BlockPages(d) => b = d
  BY DEF Inv, Tiling, Within, Apart
<1>3. BlockPages(a) = Pages(p, o)
  BY DEF BlockPages
<1>4. \A x \in Pages(p, o) : x \in ZonePages(z)
  BY <1>1, <1>2, <1>3
<1>5. ASSUME NEW j \in 0 .. max_order[z], NEW q \in Nat, NEW x,
             Listed(free_list, z, j, q), x \in Pages(q, j), x \in Pages(p, o)
      PROVE  FALSE
  <2>1. <<"free", z, j, q>> \in B
    BY <1>5, BlocksAre
  <2>2. BlockPages(<<"free", z, j, q>>) = Pages(q, j)
    BY DEF BlockPages
  <2> HIDE DEF B
  <2> QED
    BY <1>1, <1>2, <1>3, <1>5, <2>1, <2>2
<1> QED
  BY <1>1, <1>4, <1>5

\* A round of buddy_split_node: the upper half of the call's block becomes free.
LEMMA SplitStep ==
  ASSUME Inv, buddy_split_node, call.order > call.goal
  PROVE  Inv' /\ UNCHANGED lent
<1>1. /\ ListsOk(free_list, num_free) /\ LentOk(lent) /\ CallOk(call)
      /\ Tiling(Blocks(free_list, lent, call))
  BY DEF Inv
<1>2. PICK z \in Zone, p \in Nat : \E i \in 0 .. max_order[z] : \E g \in 0 .. i :
             call = Splitting(z, p, i, g)
  BY <1>1 DEF CallOk, Merging, buddy_split_node
<1>3a. PICK i \in 0 .. max_order[z] : \E g \in 0 .. i : call = Splitting(z, p, i, g)
  BY <1>2
<1>3. PICK g \in 0 .. i : call = Splitting(z, p, i, g)
  BY <1>3a
<1>4. call.pc = "split" /\ call.zone = z /\ call.page = p /\ call.order = i /\ call.goal = g
  BY <1>3 DEF Splitting
<1> DEFINE o == i - 1
           r == p + Size(o)
           X == {<<"call", z, i, p>>}
           Y == {<<"call", z, o, p>>, <<"free", z, o, r>>}
<1>5. /\ o \in 0 .. max_order[z] /\ o \in 0 .. 19 /\ o + 1 = i /\ g \in 0 .. o
  BY <1>4, MaxOrder
<1>6. /\ UNCHANGED lent /\ Insert(z, o, r) /\ call' = Splitting(z, p, o, g)
  BY <1>3, <1>4, <1>5 DEF buddy_split_node, Splitting, Size
<1> HIDE DEF o
<1>7. /\ r \in Nat
      /\ \A x : x \in Pages(p, i) <=> x \in Pages(p, o) \/ x \in Pages(r, o)
      /\ \A x : ~(x \in Pages(p, o) /\ x \in Pages(r, o))
  BY <1>5, Halved
<1> HIDE DEF r
<1>8. r \in Pages(r, o)
  <2>1. o \in 0 .. 20
    BY <1>5
  <2>2. Size(o) \in Nat /\ Size(o) >= 1
    BY <2>1, Sizes
  <2> QED
    BY <1>7, <2>1, <2>2, PagesAre, SMTT(40)
<1>9. /\ <<"call", z, i, p>> \in Blocks(free_list, lent, call)
      /\ \A x \in Pages(p, i) : x \in ZonePages(z)
      /\ ~Listed(free_list, z, o, r)
  BY <1>4, <1>5, <1>7, <1>8, CallBlock
<1>10. /\ ListsOk(free_list', num_free')
       /\ \A y \in Zone : \A j \in 0 .. max_order[y] : \A q :
            Listed(free_list', y, j, q)
            <=> Listed(free_list, y, j, q) \/ (y = z /\ j = o /\ q = r)
  BY <1>1, <1>5, <1>6, <1>7, <1>9, Inserts
<1>11. CallOk(call') /\ LentOk(lent')
  BY <1>1, <1>5, <1>6 DEF CallOk
<1>12. Sized(Y)
  BY <1>5, <1>7, SizedOne DEF Sized
<1>13. Moved(free_list, lent, call, free_list', lent', call', X, Y)
  BY <1>4, <1>6, <1>10 DEF Moved, IsCall, Splitting
<1>14. /\ X \in SUBSET Blocks(free_list, lent, call)
       /\ \A x : Covers(X, x) <=> Covers(Y, x)
       /\ Within(Y) /\ Apart(Y)
  BY <1>7, <1>9 DEF Covers, Within, Apart, BlockPages
<1> HIDE DEF X, Y
<1>15. Blocks(free_list', lent', call') = (Blocks(free_list, lent, call) \ X) \cup Y
  BY <1>1, <1>11, <1>12, <1>13, BlocksAfter
<1>16. Tiling(Blocks(free_list', lent', call'))
  BY <1>1, <1>14, <1>15, Replaced
<1> QED
  BY <1>6, <1>10, <1>11, <1>16 DEF Inv

\* Its end: the call's block is lent.
LEMMA LendStep ==
  ASSUME Inv, buddy_split_node, ~(call.order > call.goal)
  PROVE  /\ Inv' /\ call.zone \in Zone /\ call.order \in 0 .. max_order[call.zone] /\ call.page \in Nat
         /\ lent' = lent \cup {[zone |-> call.zone, page |-> call.page, order |-> call.order]}
         /\ <<"call", call.zone, call.order, call.page>> \in Blocks(free_list, lent, call)
         /\ \A x \in Pages(call.page, call.order) : x \in ZonePages(call.zone)
<1>1. /\ ListsOk(free_list, num_free) /\ LentOk(lent) /\ CallOk(call)
      /\ Tiling(Blocks(free_list, lent, call))
  BY DEF Inv
<1>2. PICK z \in Zone, p \in Nat : \E i \in 0 .. max_order[z] : \E g \in 0 .. i :
             call = Splitting(z, p, i, g)
  BY <1>1 DEF CallOk, Merging, buddy_split_node
<1>3a. PICK o \in 0 .. max_order[z] : \E g \in 0 .. o : call = Splitting(z, p, o, g)
  BY <1>2
<1>3. PICK g \in 0 .. o : call = Splitting(z, p, o, g)
  BY <1>3a
<1>4. call.pc = "split" /\ call.zone = z /\ call.page = p /\ call.order = o /\ call.goal = g
  BY <1>3 DEF Splitting
<1> DEFINE b == [zone |-> z, page |-> p, order |-> o]
           X == {<<"call", z, o, p>>}
           Y == {<<"lent", z, o, p>>}
<1>5. /\ lent' = lent \cup {b} /\ call' = [pc |-> "idle"] /\ UNCHANGED <<free_list, num_free>>
  BY <1>4 DEF buddy_split_node
<1>6. /\ <<"call", z, o, p>> \in Blocks(free_list, lent, call)
      /\ \A x \in Pages(p, o) : x \in ZonePages(z)
  BY <1>4, CallBlock
<1>7. CallOk(call') /\ LentOk(lent')
  BY <1>1, <1>5, Orders DEF CallOk, LentOk
<1>8. Sized(Y)
  BY SizedOne
<1>9. Moved(free_list, lent, call, free_list', lent', call', X, Y)
  BY <1>4, <1>5 DEF Moved, IsCall, IsLent
<1> HIDE DEF X, Y
<1>10. Blocks(free_list', lent', call') = (Blocks(free_list, lent, call) \ X) \cup Y
  BY <1>1, <1>7, <1>8, <1>9, BlocksAfter
<1>11. Tiling(Blocks(free_list', lent', call'))
  BY <1>1, <1>6, <1>10, Handed DEF X, Y
<1>12. ListsOk(free_list', num_free')
  BY <1>1, <1>5
<1> QED
  BY <1>4, <1>5, <1>6, <1>7, <1>11, <1>12 DEF Inv

\* vmm_buddy_free_pages: a lent block goes to the call.
LEMMA FreeStep ==
  ASSUME Inv, NEW b \in lent, vmm_buddy_free_pages(b.zone, b)
  PROVE  /\ Inv' /\ b.zone \in Zone /\ b.order \in 0 .. max_order[b.zone] /\ b.page \in Nat
         /\ lent' = lent \ {b} /\ b = [zone |-> b.zone, page |-> b.page, order |-> b.order]
<1> DEFINE z == b.zone
           p == b.page
           o == b.order
           X == {<<"lent", z, o, p>>}
           Y == {<<"call", z, o, p>>}
<1>1. /\ ListsOk(free_list, num_free) /\ LentOk(lent) /\ CallOk(call)
      /\ Tiling(Blocks(free_list, lent, call))
  BY DEF Inv
<1>2. /\ call.pc = "idle" /\ lent' = lent \ {b} /\ UNCHANGED <<free_list, num_free>>
      /\ call' = Merging(z, p, o)
  BY DEF vmm_buddy_free_pages, Merging
<1>3. /\ z \in Zone /\ o \in 0 .. max_order[z] /\ p \in Nat
      /\ b = [zone |-> z, page |-> p, order |-> o]
  <2>1. b \in [zone : Zone, page : Nat, order : 0 .. 20] /\ o <= max_order[z]
    BY <1>1 DEF LentOk
  <2> QED
    BY <2>1, MaxOrder
<1> HIDE DEF z, p, o
<1>4. CallOk(call') /\ LentOk(lent')
  BY <1>1, <1>2, <1>3 DEF CallOk, LentOk
<1>5. Sized(Y)
  BY <1>3, SizedOne
<1>6. ASSUME NEW y \in Zone, NEW j \in 0 .. max_order[y], NEW q \in Nat
      PROVE  IsLent(lent', y, j, q) <=> IsLent(lent, y, j, q) /\ <<"lent", y, j, q>> \notin X
  BY <1>2, <1>3 DEF IsLent
<1>7. Moved(free_list, lent, call, free_list', lent', call', X, Y)
  BY <1>2, <1>6 DEF Moved, IsCall, Merging
<1>8. <<"lent", z, o, p>> \in Blocks(free_list, lent, call)
  BY <1>3, BlocksAre DEF IsLent
<1> HIDE DEF X, Y
<1>9. Blocks(free_list', lent', call') = (Blocks(free_list, lent, call) \ X) \cup Y
  BY <1>1, <1>4, <1>5, <1>7, BlocksAfter
<1>10. Tiling(Blocks(free_list', lent', call'))
  BY <1>1, <1>8, <1>9, Handed DEF X, Y
<1>11. ListsOk(free_list', num_free')
  BY <1>1, <1>2
<1> QED
  BY <1>2, <1>3, <1>4, <1>10, <1>11 DEF Inv, z, p, o

\* The end of vmm_buddy_free_pages: the call's block becomes free.
LEMMA PutStep ==
  ASSUME Inv, NEW z \in Zone, NEW p \in Nat, NEW o \in 0 .. max_order[z],
         call = Merging(z, p, o), ~Listed(free_list, z, o, p), Insert(z, o, p),
         call' = [pc |-> "idle"], UNCHANGED lent
  PROVE  Inv'
<1> DEFINE X == {<<"call", z, o, p>>}
           Y == {<<"free", z, o, p>>}
<1>1. /\ ListsOk(free_list, num_free) /\ LentOk(lent) /\ CallOk(call)
      /\ Tiling(Blocks(free_list, lent, call))
  BY DEF Inv
<1>2. call.pc = "merge" /\ call.zone = z /\ call.page = p /\ call.order = o
  BY DEF Merging
<1>3. <<"call", z, o, p>> \in Blocks(free_list, lent, call)
  BY <1>2, CallBlock
<1>4. /\ ListsOk(free_list', num_free')
      /\ \A y \in Zone : \A j \in 0 .. max_order[y] : \A q :
           Listed(free_list', y, j, q)
           <=> Listed(free_list, y, j, q) \/ (y = z /\ j = o /\ q = p)
  BY <1>1, Inserts
<1>5. CallOk(call') /\ LentOk(lent')
  BY <1>1 DEF CallOk
<1>6. Sized(Y)
  BY SizedOne
<1>7. Moved(free_list, lent, call, free_list', lent', call', X, Y)
  BY <1>2, <1>4 DEF Moved, IsCall
<1> HIDE DEF X, Y
<1>8. Blocks(free_list', lent', call') = (Blocks(free_list, lent, call) \ X) \cup Y
  BY <1>1, <1>5, <1>6, <1>7, BlocksAfter
<1>9. Tiling(Blocks(free_list', lent', call'))
  BY <1>1, <1>3, <1>8, Handed DEF X, Y
<1> QED
  BY <1>4, <1>5, <1>9 DEF Inv

\* A merge: the call's block takes in a free neighbour.
LEMMA JoinStep ==
  ASSUME Inv, NEW z \in Zone, NEW p \in Nat, NEW o \in 0 .. max_order[z],
         call = Merging(z, p, o),
         NEW k \in 1 .. Len(free_list[z][o]), NEW q \in Nat, q = free_list[z][o][k],
         Listed(free_list, z, o, q), q = p + Size(o) \/ q + Size(o) = p,
         Delete(z, o, k), call' = Merging(z, IF q < p THEN q ELSE p, o + 1), UNCHANGED lent
  PROVE  Inv'
<1> DEFINE lo == IF q < p THEN q ELSE p
           X == {<<"call", z, o, p>>, <<"free", z, o, q>>}
           Y == {<<"call", z, o + 1, lo>>}
<1>1. /\ ListsOk(free_list, num_free) /\ LentOk(lent) /\ CallOk(call)
      /\ Tiling(Blocks(free_list, lent, call))
  BY DEF Inv
<1>2. call.pc = "merge" /\ call.zone = z /\ call.page = p /\ call.order = o
  BY DEF Merging
<1>3. o \in 0 .. 20 /\ o \in 0 .. 19
  BY Orders
<1>4. Size(o) \in Nat /\ Size(o) >= 1
  BY <1>3, Sizes
<1>5. lo \in Nat /\ {lo, lo + Size(o)} = {p, q} /\ p # q
  <2>1. p # q
    BY <1>4
  <2>2. CASE q = p + Size(o)
    <3>1. lo = p
      BY <1>4, <2>2
    <3> QED
      BY <2>1, <2>2, <3>1
  <2>3. CASE q + Size(o) = p
    <3>1. lo = q
      BY <1>4, <2>3
    <3> QED
      BY <2>1, <2>3, <3>1
  <2> QED
    BY <2>2, <2>3
<1> HIDE DEF lo
<1>6. \A x : x \in Pages(lo, o + 1) <=> x \in Pages(p, o) \/ x \in Pages(q, o)
  <2>1. \A x : x \in Pages(lo, o + 1) <=> x \in Pages(lo, o) \/ x \in Pages(lo + Size(o), o)
    BY <1>3, <1>5, Halved
  <2> QED
    BY <1>5, <2>1
<1>7. /\ <<"call", z, o, p>> \in Blocks(free_list, lent, call)
      /\ <<"free", z, o, q>> \in Blocks(free_list, lent, call)
  BY <1>2, CallBlock, BlocksAre
<1>8. \A x : x \in Pages(p, o) \/ x \in Pages(q, o) => x \in ZonePages(z)
  BY <1>1, <1>7 DEF Tiling, Within, BlockPages
<1>9. o + 1 \in 0 .. max_order[z]
  <2>0. lo \in Nat /\ lo + Size(o) \in Nat
    BY <1>4, <1>5
  <2>1. lo \in Pages(lo, o) /\ lo + Size(o) \in Pages(lo + Size(o), o)
    BY <1>3, <2>0, FirstOfBlock
  <2>2. lo \in ZonePages(z) /\ lo + Size(o) \in ZonePages(z)
    BY <1>5, <1>8, <2>1
  <2>3. FirstPage(z) \in Nat /\ FirstPage(z) <= lo /\ lo + Size(o) < FirstPage(z) + Size(max_order[z])
    BY <2>2, ZonePagesAre, MaxOrder
  <2>4. o # max_order[z]
    BY <1>4, <1>5, <2>3
  <2> QED
    BY <2>4, NextOrder
<1>10. /\ ListsOk(free_list', num_free')
       /\ \A y \in Zone : \A j \in 0 .. max_order[y] : \A r :
            Listed(free_list', y, j, r)
            <=> Listed(free_list, y, j, r) /\ ~(y = z /\ j = o /\ r = q)
  BY <1>1, Deletes
<1>11. CallOk(call') /\ LentOk(lent')
  BY <1>1, <1>5, <1>9 DEF CallOk, lo
<1>12. Sized(Y)
  BY <1>5, <1>9, SizedOne
<1>13. call' = Merging(z, lo, o + 1)
  BY DEF lo
<1>14. Moved(free_list, lent, call, free_list', lent', call', X, Y)
  BY <1>2, <1>10, <1>13 DEF Moved, IsCall, Merging
<1>15. /\ X \in SUBSET Blocks(free_list, lent, call)
       /\ \A x : Covers(X, x) <=> Covers(Y, x)
       /\ Within(Y) /\ Apart(Y)
  BY <1>6, <1>7, <1>8 DEF Covers, Within, Apart, BlockPages
<1> HIDE DEF X, Y
<1>16. Blocks(free_list', lent', call') = (Blocks(free_list, lent, call) \ X) \cup Y
  BY <1>1, <1>11, <1>12, <1>14, BlocksAfter
<1>17. Tiling(Blocks(free_list', lent', call'))
  BY <1>1, <1>15, <1>16, Replaced
<1> QED
  BY <1>10, <1>11, <1>17 DEF Inv

\* A round of the loop of vmm_buddy_free_pages.
LEMMA MergeStep ==
  ASSUME Inv, Merge
  PROVE  Inv' /\ UNCHANGED lent
<1>1. /\ ListsOk(free_list, num_free) /\ CallOk(call)
      /\ call.pc = "merge" /\ UNCHANGED lent
  BY DEF Inv, Merge
<1>2. PICK z \in Zone, p \in Nat : \E i \in 0 .. max_order[z] : call = Merging(z, p, i)
  BY <1>1 DEF CallOk, Splitting
<1>3. PICK o \in 0 .. max_order[z] : call = Merging(z, p, o)
  BY <1>2
<1>4. call.pc = "merge" /\ call.zone = z /\ call.page = p /\ call.order = o
  BY <1>3 DEF Merging
<1> DEFINE list == free_list[z][o]
           k == Min(Stops)
           q == list[k]
<1>5. /\ Stops = {} => Insert(z, o, p) /\ call' = [pc |-> "idle"]
      /\ Stops # {} /\ q # p =>
           /\ Delete(z, o, k)
           /\ call' = Merging(z, IF q < p THEN q ELSE p, o + 1)
  BY <1>3, <1>4 DEF Merge, Merging
<1>6. /\ Len(list) \in Nat /\ DOMAIN list = 1 .. Len(list)
      /\ \A i \in 1 .. Len(list) : list[i] \in Nat /\ Listed(free_list, z, o, list[i])
  BY <1>1, Orders, ListedPages
<1>7. Stops = {i \in 1 .. Len(list) : StopsAt(list[i], p, o)}
  <2>1. ~(o > max_order[z])
    BY MaxOrder
  <2> QED
    BY <1>4, <1>6, <2>1 DEF Stops
<1>8. CASE Stops = {}
  <2>1. ~Listed(free_list, z, o, p)
    BY <1>7, <1>8 DEF Listed, Has, StopsAt
  <2> QED
    BY <1>1, <1>3, <1>5, <1>8, <2>1, PutStep
<1>9. CASE Stops # {}
  <2>1. Stops \in SUBSET Nat
    BY <1>6, <1>7
  <2>2. k \in Stops
    BY <1>9, <2>1, Least
  <2> HIDE DEF k
  <2>3. /\ k \in 1 .. Len(list) /\ q \in Nat /\ Listed(free_list, z, o, q)
        /\ StopsAt(q, p, o)
    BY <1>6, <1>7, <2>2
  <2>4. q # p
    <3>1. \A r \in Nat : r \in Pages(r, o)
      BY Orders, FirstOfBlock
    <3> QED
      BY <1>4, <2>3, <3>1, CallBlock
  <2>5. q = p + Size(o) \/ q + Size(o) = p
    BY <2>3, <2>4 DEF StopsAt, Size
  <2>6. Delete(z, o, k) /\ call' = Merging(z, IF q < p THEN q ELSE p, o + 1)
    BY <1>5, <1>9, <2>4 DEF k
  <2>7. k \in 1 .. Len(free_list[z][o]) /\ q = free_list[z][o][k]
    BY <2>3
  <2> HIDE DEF q, list
  <2> QED
    BY <1>1, <1>3, <2>3, <2>5, <2>6, <2>7, JoinStep
<1> QED
  BY <1>1, <1>8, <1>9

-----------------------------------------------------------------------------
\* vmm_buddy_init: one block in every zone.
LEMMA InitInv == Init => Inv
<1> SUFFICES ASSUME Init
             PROVE  Inv
  OBVIOUS
<1>1. /\ free_list = [z \in Zone |-> [o \in Lists(z) |->
                        IF o = max_order[z] THEN <<FirstPage(z)>> ELSE <<>>]]
      /\ num_free = [z \in Zone |-> [o \in Lists(z) |-> IF o = max_order[z] THEN 1 ELSE 0]]
      /\ lent = {} /\ call = [pc |-> "idle"]
  BY DEF Init
<1>2. ASSUME NEW z \in Zone
      PROVE  /\ free_list[z] \in [Lists(z) -> Seq(Nat)] /\ num_free[z] \in [Lists(z) -> Nat]
             /\ \A o \in Lists(z) :
                  /\ num_free[z][o] = Len(free_list[z][o]) /\ Distinct(free_list[z][o])
                  /\ \A q : Listed(free_list, z, o, q) <=> o = max_order[z] /\ q = FirstPage(z)
  <2>1. /\ <<FirstPage(z)>> \in Seq(Nat) /\ Len(<<FirstPage(z)>>) = 1
        /\ <<FirstPage(z)>>[1] = FirstPage(z) /\ <<>> \in Seq(Nat) /\ Len(<<>>) = 0
    BY MaxOrder
  <2>2. /\ free_list[z] = [o \in Lists(z) |-> IF o = max_order[z] THEN <<FirstPage(z)>> ELSE <<>>]
        /\ num_free[z] = [o \in Lists(z) |-> IF o = max_order[z] THEN 1 ELSE 0]
    BY <1>1
  <2>3. free_list[z] \in [Lists(z) -> Seq(Nat)] /\ num_free[z] \in [Lists(z) -> Nat]
    BY <2>1, <2>2
  <2>4. ASSUME NEW o \in Lists(z)
        PROVE  /\ num_free[z][o] = Len(free_list[z][o]) /\ Distinct(free_list[z][o])
               /\ \A q : Listed(free_list, z, o, q) <=> o = max_order[z] /\ q = FirstPage(z)
    <3>1. CASE o = max_order[z]
      <4>1. free_list[z][o] = <<FirstPage(z)>> /\ num_free[z][o] = 1
        BY <2>2, <3>1
      <4>2. \A i \in 1 .. 1 : i = 1
        OBVIOUS
      <4> QED
        BY <2>1, <3>1, <4>1, <4>2 DEF Distinct, Listed, Has
    <3>2. CASE o # max_order[z]
      <4>1. free_list[z][o] = <<>> /\ num_free[z][o] = 0
        BY <2>2, <3>2
      <4> QED
        BY <2>1, <3>2, <4>1 DEF Distinct, Listed, Has
    <3> QED
      BY <3>1, <3>2
  <2> QED
    BY <2>3, <2>4
<1>3. ListsOk(free_list, num_free)
  <2>1. free_list \in [Zone -> FreeLists] /\ num_free \in [Zone -> Lengths]
    <3>1. \A z \in Zone : free_list[z] \in FreeLists /\ num_free[z] \in Lengths
      BY <1>2 DEF FreeLists, Lengths
    <3> QED
      BY <1>1, <3>1
  <2> QED
    BY <1>2, <2>1 DEF ListsOk
<1>4. CallOk(call) /\ LentOk(lent)
  BY <1>1 DEF CallOk, LentOk
<1> DEFINE B == Blocks(free_list, lent, call)
           Whole(z) == <<"free", z, max_order[z], FirstPage(z)>>
<1>5. ASSUME NEW z \in Zone
      PROVE  /\ Whole(z) \in B /\ BlockPages(Whole(z)) = ZonePages(z)
  <2>1. max_order[z] \in 0 .. max_order[z] /\ max_order[z] \in Lists(z) /\ FirstPage(z) \in Nat
    BY MaxOrder DEF Lists
  <2>2. Listed(free_list, z, max_order[z], FirstPage(z))
    BY <1>2, <2>1
  <2>3. Whole(z) \in B
    BY <2>1, <2>2, BlocksAre
  <2> QED
    BY <2>3 DEF BlockPages, ZonePages
<1>6. ASSUME NEW a \in B
      PROVE  a[2] \in Zone /\ a = Whole(a[2])
  <2>1. PICK k \in {"free", "lent", "call"}, z \in Zone, o \in 0 .. 20, p \in Nat :
             a = <<k, z, o, p>>
    BY DEF Blocks, Block
  <2>2. k = "free" /\ o <= max_order[z] /\ Listed(free_list, z, o, p)
    BY <1>1, <2>1 DEF Blocks, IsLent, IsCall
  <2>3. o \in Lists(z)
    BY <2>2, MaxOrder DEF Lists
  <2> QED
    BY <1>2, <2>1, <2>2, <2>3
<1>7. Within(B)
  <2> SUFFICES ASSUME NEW a \in B, NEW x \in BlockPages(a)
               PROVE  x \in ZonePages(a[2])
    BY DEF Within
  <2>1. a[2] \in Zone /\ a = Whole(a[2])
    BY <1>6
  <2> HIDE DEF B, Whole
  <2> QED
    BY <1>5, <2>1
<1>8. Apart(B)
  <2> SUFFICES ASSUME NEW a \in B, NEW b \in B, NEW x, x \in BlockPages(a), x \in BlockPages(b)
               PROVE  a = b
    BY DEF Apart
  <2>1. a[2] \in Zone /\ a = Whole(a[2]) /\ b[2] \in Zone /\ b = Whole(b[2])
    BY <1>6
  <2> HIDE DEF B, Whole
  <2>2. x \in ZonePages(a[2]) /\ x \in ZonePages(b[2])
    BY <1>5, <2>1
  <2>3. a[2] = b[2]
    BY <2>1, <2>2, ZonesApart
  <2> QED
    BY <2>1, <2>3
<1>9. \A x \in Page : Covers(B, x)
  <2> SUFFICES ASSUME NEW x \in Page
               PROVE  Covers(B, x)
    OBVIOUS
  <2>1. PICK z \in Zone : x \in ZonePages(z)
    BY DEF Page
  <2> HIDE DEF B, Whole
  <2> QED
    BY <1>5, <2>1 DEF Covers
<1> QED
  BY <1>3, <1>4, <1>7, <1>8, <1>9 DEF Inv, Tiling

\* Every step keeps the tiling, and changes what is lent in one way or not.
LEMMA StepInv ==
  ASSUME Inv, [Next]_vars
  PROVE  /\ Inv'
         /\ \/ UNCHANGED lent
            \/ buddy_split_node /\ ~(call.order > call.goal)
            \/ \E b \in lent : vmm_buddy_free_pages(b.zone, b)
<1>1. ASSUME NEW z \in Zone, NEW o \in 0 .. max_order[z], vmm_buddy_get_free_pages(z, o)
      PROVE  Inv' /\ UNCHANGED lent
  BY <1>1, GetStep
<1>2. ASSUME NEW b \in lent, vmm_buddy_free_pages(b.zone, b)
      PROVE  Inv'
  BY <1>2, FreeStep
<1>3. ASSUME buddy_split_node, call.order > call.goal
      PROVE  Inv' /\ UNCHANGED lent
  BY <1>3, SplitStep
<1>4. ASSUME buddy_split_node, ~(call.order > call.goal)
      PROVE  Inv'
  BY <1>4, LendStep
<1>5. ASSUME Merge
      PROVE  Inv' /\ UNCHANGED lent
  BY <1>5, MergeStep
<1>6. ASSUME UNCHANGED vars
      PROVE  Inv' /\ UNCHANGED lent
  BY <1>6 DEF vars, Inv
<1> QED
  BY <1>1, <1>2, <1>3, <1>4, <1>5, <1>6 DEF Next, Step

-----------------------------------------------------------------------------
\* The claim c on a page stands for the block a.
ClaimIs(c, a) ==
  \/ /\ a[1] = "free"
     /\ \E i \in 1 .. Len(free_list[a[2]][a[3]]) :
          c = <<a[2], a[3], i>> /\ free_list[a[2]][a[3]][i] = a[4]
  \/ a[1] = "lent" /\ c = [zone |-> a[2], page |-> a[4], order |-> a[3]]
  \/ a[1] = "call" /\ c = call

\* The three kinds of claims.
LEMMA ClaimsAre ==
  ASSUME NEW x, NEW c
  PROVE  c \in Claims(x)
         <=> \/ \E z \in Zone : \E o \in 0 .. max_order[z] : c \in FreeClaims(x, z, o)
             \/ c \in lent /\ x \in Pages(c.page, c.order)
             \/ call.pc # "idle" /\ x \in Pages(call.page, call.order) /\ c = call
<1> DEFINE Free == UNION {UNION {FreeClaims(x, z, o) : o \in 0 .. max_order[z]} : z \in Zone}
           Held == {b \in lent : x \in Pages(b.page, b.order)}
           Own == IF call.pc # "idle" /\ x \in Pages(call.page, call.order) THEN {call} ELSE {}
<1>1. c \in Free <=> \E z \in Zone : \E o \in 0 .. max_order[z] : c \in FreeClaims(x, z, o)
  <2> DEFINE OfZone(z) == UNION {FreeClaims(x, z, o) : o \in 0 .. max_order[z]}
  <2>1. ASSUME NEW z \in Zone
        PROVE  c \in OfZone(z) <=> \E o \in 0 .. max_order[z] : c \in FreeClaims(x, z, o)
    <3> HIDE DEF FreeClaims
    <3>1. c \in OfZone(z) <=> \E S \in {FreeClaims(x, z, o) : o \in 0 .. max_order[z]} : c \in S
      BY Zenon
    <3>2. \A S : S \in {FreeClaims(x, z, o) : o \in 0 .. max_order[z]}
                <=> \E o \in 0 .. max_order[z] : S = FreeClaims(x, z, o)
      BY Zenon
    <3> HIDE DEF OfZone
    <3> QED
      BY <3>1, <3>2, Zenon
  <2>2. Free = UNION {OfZone(z) : z \in Zone}
    OBVIOUS
  <2> HIDE DEF OfZone
  <2>3. c \in UNION {OfZone(z) : z \in Zone} <=> \E z \in Zone : c \in OfZone(z)
    BY Zenon
  <2> QED
    BY <2>1, <2>2, <2>3
<1>2. c \in Held <=> c \in lent /\ x \in Pages(c.page, c.order)
  OBVIOUS
<1>3. c \in Own <=> call.pc # "idle" /\ x \in Pages(call.page, call.order) /\ c = call
  OBVIOUS
<1>4. Claims(x) = Free \cup Held \cup Own
  BY DEF Claims
<1> HIDE DEF Free, Held, Own
<1> QED
  BY <1>1, <1>2, <1>3, <1>4

\* Every claim on a page stands for a block over it.
LEMMA ClaimsAreBlocks ==
  ASSUME Inv, NEW x, NEW c \in Claims(x)
  PROVE  \E a \in Blocks(free_list, lent, call) : x \in BlockPages(a) /\ ClaimIs(c, a)
<1> DEFINE B == Blocks(free_list, lent, call)
<1>1. ListsOk(free_list, num_free) /\ LentOk(lent) /\ CallOk(call)
  BY DEF Inv
<1>2. ASSUME NEW z \in Zone, NEW o \in 0 .. max_order[z], c \in FreeClaims(x, z, o)
      PROVE  \E a \in B : x \in BlockPages(a) /\ ClaimIs(c, a)
  <2> DEFINE list == free_list[z][o]
  <2>1. /\ Len(list) \in Nat /\ DOMAIN list = 1 .. Len(list)
        /\ \A i \in 1 .. Len(list) : list[i] \in Nat /\ Listed(free_list, z, o, list[i])
    BY <1>1, Orders, ListedPages
  <2>2. PICK i \in 1 .. Len(list) : c = <<z, o, i>> /\ x \in Pages(list[i], o)
    BY <1>2, <2>1 DEF FreeClaims
  <2> DEFINE a == <<"free", z, o, list[i]>>
  <2>3. a \in B
    BY <2>1, BlocksAre
  <2>4. x \in BlockPages(a) /\ ClaimIs(c, a)
    BY <2>2 DEF BlockPages, ClaimIs
  <2> QED
    BY <2>3, <2>4
<1>3. ASSUME c \in lent, x \in Pages(c.page, c.order)
      PROVE  \E a \in B : x \in BlockPages(a) /\ ClaimIs(c, a)
  <2> DEFINE a == <<"lent", c.zone, c.order, c.page>>
  <2>1. /\ c \in [zone : Zone, page : Nat, order : 0 .. 20] /\ c.order <= max_order[c.zone]
    BY <1>1, <1>3 DEF LentOk
  <2>2. /\ c.zone \in Zone /\ c.page \in Nat /\ c.order \in 0 .. max_order[c.zone]
        /\ c = [zone |-> c.zone, page |-> c.page, order |-> c.order]
    BY <2>1, MaxOrder
  <2>3. a \in B
    BY <1>3, <2>2, BlocksAre DEF IsLent
  <2>4. x \in BlockPages(a) /\ ClaimIs(c, a)
    BY <1>3, <2>2 DEF BlockPages, ClaimIs
  <2> QED
    BY <2>3, <2>4
<1>4. ASSUME call.pc # "idle", x \in Pages(call.page, call.order), c = call
      PROVE  \E a \in B : x \in BlockPages(a) /\ ClaimIs(c, a)
  <2>1. PICK z \in Zone, p \in Nat : \E o \in 0 .. max_order[z] :
               \/ \E g \in 0 .. o : call = Splitting(z, p, o, g)
               \/ call = Merging(z, p, o)
    BY <1>1, <1>4 DEF CallOk
  <2>2. PICK o \in 0 .. max_order[z] : \/ \E g \in 0 .. o : call = Splitting(z, p, o, g)
                                      \/ call = Merging(z, p, o)
    BY <2>1
  <2>3. call.zone = z /\ call.page = p /\ call.order = o
    BY <2>2 DEF Splitting, Merging
  <2>4. <<"call", z, o, p>> \in B
    BY <1>4, <2>3, CallBlock
  <2>5. x \in BlockPages(<<"call", z, o, p>>) /\ ClaimIs(c, <<"call", z, o, p>>)
    BY <1>4, <2>3 DEF BlockPages, ClaimIs
  <2> QED
    BY <2>4, <2>5
<1> QED
  BY <1>2, <1>3, <1>4, ClaimsAre

\* Every block over a page is claimed.
LEMMA BlocksAreClaims ==
  ASSUME Inv, NEW x, NEW a \in Blocks(free_list, lent, call), x \in BlockPages(a)
  PROVE  \E c \in Claims(x) : ClaimIs(c, a)
<1>1. ListsOk(free_list, num_free) /\ LentOk(lent)
  BY DEF Inv
<1>2. PICK k \in {"free", "lent", "call"}, z \in Zone, o \in 0 .. 20, p \in Nat :
           a = <<k, z, o, p>>
  BY DEF Blocks, Block
<1>3. x \in Pages(p, o)
  BY <1>2 DEF BlockPages
<1>4. CASE k = "free"
  <2>1. o <= max_order[z] /\ Listed(free_list, z, o, p)
    BY <1>2, <1>4 DEF Blocks
  <2>2. o \in 0 .. max_order[z]
    BY <2>1, MaxOrder
  <2> DEFINE list == free_list[z][o]
  <2>3. Len(list) \in Nat /\ DOMAIN list = 1 .. Len(list) /\ num_free[z][o] = Len(list)
    BY <1>1, <2>2, Orders, ListedPages
  <2>4. PICK i \in 1 .. Len(list) : list[i] = p
    BY <2>1 DEF Listed, Has
  <2>5. <<z, o, i>> \in FreeClaims(x, z, o)
    BY <1>3, <2>3, <2>4 DEF FreeClaims
  <2>6. <<z, o, i>> \in Claims(x)
    BY <2>2, <2>5, ClaimsAre
  <2>7. ClaimIs(<<z, o, i>>, a)
    BY <1>2, <1>4, <2>4 DEF ClaimIs
  <2> QED
    BY <2>6, <2>7
<1>5. CASE k = "lent"
  <2>1. [zone |-> z, page |-> p, order |-> o] \in lent
    BY <1>2, <1>5 DEF Blocks, IsLent
  <2>2. [zone |-> z, page |-> p, order |-> o] \in Claims(x)
    BY <1>3, <2>1, ClaimsAre
  <2> QED
    BY <1>2, <1>5, <2>2 DEF ClaimIs
<1>6. CASE k = "call"
  <2>1. call.pc # "idle" /\ call.zone = z /\ call.order = o /\ call.page = p
    BY <1>2, <1>6 DEF Blocks, IsCall
  <2>2. call \in Claims(x)
    BY <1>3, <2>1, ClaimsAre
  <2> QED
    BY <1>2, <1>6, <2>2 DEF ClaimIs
<1> QED
  BY <1>4, <1>5, <1>6

\* A tiling has one block over every page, and a block one claim.
LEMMA InvOnce == Inv => EveryPageOnce
<1> SUFFICES ASSUME Inv, NEW x \in Page
             PROVE  Cardinality(Claims(x)) = 1
  BY DEF EveryPageOnce
<1> DEFINE B == Blocks(free_list, lent, call)
<1>1. PICK a \in B : x \in BlockPages(a)
  BY DEF Inv, Tiling, Covers
<1>2. \A b \in B : x \in BlockPages(b) => b = a
  BY <1>1 DEF Inv, Tiling, Apart
<1>3. PICK c \in Claims(x) : ClaimIs(c, a)
  BY <1>1, BlocksAreClaims
<1>4. \A d \in Claims(x) : ClaimIs(d, a)
  BY <1>2, ClaimsAreBlocks
<1>5. \A d \in Claims(x) : d = c
  <2>1. CASE a[1] = "free"
    <3>1. a[2] \in Zone /\ a[3] \in Lists(a[2])
      <4>1. a \in Block /\ a[3] <= max_order[a[2]]
        BY <2>1 DEF Blocks
      <4>2. a[2] \in Zone /\ a[3] \in 0 .. max_order[a[2]]
        BY <4>1, BlockIs, MaxOrder
      <4> QED
        BY <4>2, Orders
    <3>2. Distinct(free_list[a[2]][a[3]])
      BY <3>1 DEF Inv, ListsOk
    <3> QED
      BY <1>3, <1>4, <2>1, <3>2 DEF ClaimIs, Distinct
  <2>2. CASE a[1] # "free"
    BY <1>3, <1>4, <2>2 DEF ClaimIs
  <2> QED
    BY <2>1, <2>2
<1>6. Claims(x) = {c}
  BY <1>5
<1> QED
  BY <1>6, FS_Singleton

(* Every page of the allocator is in exactly one block, whatever the sizes *)
(* of the zones and however blocks are split, merged and freed             *)
(* (vmm_buddy_get_free_pages, vmm_buddy_free_pages): no page is lent       *)
(* twice, free while lent, or lost.                                        *)
THEOREM EachPageOnce == Spec => []EveryPageOnce
<1>1. Inv /\ [Next]_vars => Inv'
  BY StepInv
<1> QED
  BY InitInv, InvOnce, <1>1, PTL DEF Spec

-----------------------------------------------------------------------------
\* The runs of pages of the lent blocks.
Runs(ln) == {Pages(b.page, b.order) : b \in ln}

\* A lent block, as one of the tiling.
LEMMA LentBlock ==
  ASSUME Inv, NEW b \in lent
  PROVE  /\ <<"lent", b.zone, b.order, b.page>> \in Blocks(free_list, lent, call)
         /\ BlockPages(<<"lent", b.zone, b.order, b.page>>) = Pages(b.page, b.order)
         /\ b.page \in Pages(b.page, b.order)
         /\ b = [zone |-> b.zone, page |-> b.page, order |-> b.order]
<1>1. b \in [zone : Zone, page : Nat, order : 0 .. 20] /\ b.order <= max_order[b.zone]
  BY DEF Inv, LentOk
<1>2. /\ b.zone \in Zone /\ b.page \in Nat /\ b.order \in 0 .. 20
      /\ b = [zone |-> b.zone, page |-> b.page, order |-> b.order]
  BY <1>1
<1>3. b.order \in 0 .. max_order[b.zone]
  BY <1>1, MaxOrder
<1>4. <<"lent", b.zone, b.order, b.page>> \in Blocks(free_list, lent, call)
  BY <1>2, <1>3, BlocksAre DEF IsLent
<1>5. b.page \in Pages(b.page, b.order)
  BY <1>2, FirstOfBlock
<1> QED
  BY <1>2, <1>4, <1>5 DEF BlockPages

\* The end of vmm_buddy_get_free_pages lends a run nobody has.
LEMMA LendImplements ==
  ASSUME Inv, buddy_split_node, ~(call.order > call.goal)
  PROVE  \E p \in Page, o \in Order :
           /\ Pages(p, o) \subseteq Page
           /\ \A run \in Runs(lent) : Pages(p, o) \cap run = {}
           /\ Runs(lent') = Runs(lent) \cup {Pages(p, o)}
<1> DEFINE z == call.zone
           p == call.page
           o == call.order
           a == <<"call", z, o, p>>
<1>1. /\ z \in Zone /\ o \in 0 .. max_order[z] /\ p \in Nat
      /\ lent' = lent \cup {[zone |-> z, page |-> p, order |-> o]}
      /\ a \in Blocks(free_list, lent, call)
      /\ \A x \in Pages(p, o) : x \in ZonePages(z)
  BY LendStep
<1> HIDE DEF z, p, o
<1>2. Pages(p, o) \subseteq Page
  BY <1>1 DEF Page
<1>3. p \in Page
  <2>1. p \in Pages(p, o)
    BY <1>1, Orders, FirstOfBlock
  <2> QED
    BY <1>2, <2>1
<1>4. o \in Order
  BY <1>1 DEF Order
<1>5. ASSUME NEW run \in Runs(lent), NEW x \in Pages(p, o), x \in run
      PROVE  FALSE
  <2>1. PICK b \in lent : run = Pages(b.page, b.order)
    BY DEF Runs
  <2> DEFINE d == <<"lent", b.zone, b.order, b.page>>
  <2>2. d \in Blocks(free_list, lent, call) /\ x \in BlockPages(d)
    BY <1>5, <2>1, LentBlock
  <2>3. x \in BlockPages(a)
    BY DEF BlockPages
  <2>4. a = d
    BY <1>1, <2>2, <2>3 DEF Inv, Tiling, Apart
  <2> QED
    BY <2>4
<1>6. Runs(lent') = Runs(lent) \cup {Pages(p, o)}
  <2> DEFINE b == [zone |-> z, page |-> p, order |-> o]
  <2>1. lent' = lent \cup {b} /\ b.page = p /\ b.order = o
    BY <1>1
  <2>2. \A S : S \in Runs(lent) <=> \E d \in lent : S = Pages(d.page, d.order)
    BY DEF Runs
  <2>3. \A S : S \in Runs(lent') <=> \E d \in lent' : S = Pages(d.page, d.order)
    BY DEF Runs
  <2> HIDE DEF b
  <2> QED
    BY <2>1, <2>2, <2>3
<1> QED
  BY <1>2, <1>3, <1>4, <1>5, <1>6

\* vmm_buddy_free_pages takes back the run of its block and no other.
LEMMA ReturnImplements ==
  ASSUME Inv, NEW b \in lent, lent' = lent \ {b}
  PROVE  /\ Pages(b.page, b.order) \in Runs(lent)
         /\ Runs(lent') = Runs(lent) \ {Pages(b.page, b.order)}
<1>1. Pages(b.page, b.order) \in Runs(lent)
  BY DEF Runs
<1>2. ASSUME NEW d \in lent, Pages(d.page, d.order) = Pages(b.page, b.order)
      PROVE  d = b
  <2>1. <<"lent", d.zone, d.order, d.page>> = <<"lent", b.zone, b.order, b.page>>
    <3> DEFINE e == <<"lent", d.zone, d.order, d.page>>
               f == <<"lent", b.zone, b.order, b.page>>
    <3>1. /\ e \in Blocks(free_list, lent, call) /\ BlockPages(e) = Pages(d.page, d.order)
          /\ f \in Blocks(free_list, lent, call) /\ BlockPages(f) = Pages(b.page, b.order)
          /\ b.page \in Pages(b.page, b.order)
      BY LentBlock
    <3>2. b.page \in BlockPages(e) /\ b.page \in BlockPages(f)
      BY <1>2, <3>1
    <3> HIDE DEF e, f
    <3>3. e = f
      BY <3>1, <3>2 DEF Inv, Tiling, Apart
    <3> QED
      BY <3>3 DEF e, f
  <2>2. d.zone = b.zone /\ d.order = b.order /\ d.page = b.page
    BY <2>1
  <2> QED
    BY <2>2, LentBlock
<1>3. \A S : S \in Runs(lent) <=> \E d \in lent : S = Pages(d.page, d.order)
  BY DEF Runs
<1>4. \A S : S \in Runs(lent') <=> \E d \in lent \ {b} : S = Pages(d.page, d.order)
  BY DEF Runs
<1>5. \A S : S \in Runs(lent') <=> S \in Runs(lent) /\ S # Pages(b.page, b.order)
  BY <1>2, <1>3, <1>4
<1> QED
  BY <1>1, <1>5

\* Every step is a step of the pool of pages, or none.
LEMMA StepLends ==
  ASSUME Inv, [Next]_vars
  PROVE  [Pool!Next]_(Runs(lent))
<1>1. \A q, i : Pool!Run(q, i) = Pages(q, i)
  BY DEF Pool!Run, Pages
<1>2. CASE UNCHANGED lent
  BY <1>2 DEF Runs
<1>3. CASE buddy_split_node /\ ~(call.order > call.goal)
  <2>1. PICK p \in Page, o \in Order :
               /\ Pages(p, o) \subseteq Page
               /\ \A run \in Runs(lent) : Pages(p, o) \cap run = {}
               /\ Runs(lent') = Runs(lent) \cup {Pages(p, o)}
    BY <1>3, LendImplements
  <2>2. Pool!Lend(p, o)
    BY <1>1, <2>1 DEF Pool!Lend, Runs
  <2> QED
    BY <2>2 DEF Pool!Next
<1>4. ASSUME NEW b \in lent, vmm_buddy_free_pages(b.zone, b)
      PROVE  Pool!Next
  <2>1. lent' = lent \ {b}
    BY <1>4, FreeStep
  <2>2. /\ Pages(b.page, b.order) \in Runs(lent)
        /\ Runs(lent') = Runs(lent) \ {Pages(b.page, b.order)}
    BY <2>1, ReturnImplements
  <2>3. Pool!Return(Pages(b.page, b.order))
    BY <2>2 DEF Pool!Return, Runs
  <2> QED
    BY <2>2, <2>3 DEF Pool!Next, Runs
<1> QED
  BY <1>2, <1>3, <1>4, StepInv

(* The zones implement the pool of pages of vmm_zone.h: "Allocate 2^order  *)
(* pages" hands out pages nobody else has, and only "Release pages to the  *)
(* free pool" ends that.                                                   *)
THEOREM ZonesArePool == Spec => ImplementsPool
<1>1. Init => Pool!Init
  BY DEF Init, Pool!Init
<1>2. Inv /\ [Next]_vars => Inv'
  BY StepInv
<1>3. Inv /\ [Next]_vars => [Pool!Next]_({Pages(b.page, b.order) : b \in lent})
  BY StepLends DEF Runs
<1> QED
  BY InitInv, <1>1, <1>2, <1>3, PTL DEF Spec, ImplementsPool, Pool!Spec

-----------------------------------------------------------------------------
(* The time page *)

Clocks == [Clock -> [version : Nat, field : [Field -> Nat]]]

TimeTypeOK ==
  /\ src \in Clocks /\ shadow \in Clocks
  /\ reading \in Clock \cup {"none"} /\ toLoad \subseteq {"version"} \cup Field
  /\ toStore \in [Clock -> SUBSET Field] /\ last \in [Clock -> Nat]

\* The number of the last update that is complete.
Number(c) == src[c].version \div 2

SourceInv ==
  \A c \in Clock :
    /\ src[c].version <= 2 * MaxUpdates
    /\ ~Writing(c) => toStore[c] = {}
    /\ \A f \in Field : src[c].field[f] =
         IF Writing(c) /\ f \notin toStore[c] THEN Number(c) + 1 ELSE Number(c)

\* The copy of c is an update, and not older than the handler's call.
Whole(c) == \E n \in last[c] .. MaxUpdates : shadow[c] = Update(n)

CopyInv ==
  /\ \A c \in Clock : last[c] <= Number(c)
  /\ reading = "none" => toLoad = {} /\ \A c \in Clock : Whole(c)
  /\ reading = "wallclock" => Whole("time")
  /\ "version" \in toLoad => Field \subseteq toLoad
  /\ reading # "none" /\ "version" \notin toLoad =>
       /\ last[reading] <= shadow[reading].version \div 2
       /\ shadow[reading].version <= src[reading].version
       /\ ~Torn(reading) => \A f \in Field \ toLoad : shadow[reading].field[f] = Number(reading)

TimeInv == TimeTypeOK /\ SourceInv /\ CopyInv

\* A version and the number of its update.
LEMMA Halves ==
  ASSUME NEW v \in Nat
  PROVE  /\ v \div 2 \in Nat /\ v % 2 \in {0, 1} /\ v = 2 * (v \div 2) + (v % 2)
         /\ v % 2 = 0 => (v + 1) % 2 = 1 /\ (v + 1) \div 2 = v \div 2
         /\ v % 2 = 1 => (v + 1) % 2 = 0 /\ (v + 1) \div 2 = v \div 2 + 1
OBVIOUS

\* Numbers of updates are ordered as their versions.
LEMMA HalvesOrdered ==
  ASSUME NEW v \in Nat, NEW w \in Nat, v <= w
  PROVE  v \div 2 <= w \div 2
OBVIOUS

-----------------------------------------------------------------------------
\* At the start both clocks are the update of number 0.
LEMMA TimeInitInv == TimeInit => TimeInv
<1> SUFFICES ASSUME TimeInit PROVE TimeInv
  OBVIOUS
<1>1. /\ \A c \in Clock : src[c] = [version |-> 0, field |-> [f \in Field |-> 0]]
      /\ src = [c \in Clock |-> [version |-> 0, field |-> [f \in Field |-> 0]]] /\ shadow = src
      /\ reading = "none" /\ toLoad = {} /\ toStore = [c \in Clock |-> {}]
      /\ last = [c \in Clock |-> 0] /\ MaxUpdates \in Nat
  BY TimeAssumption DEF TimeInit, Update
<1>2. TimeTypeOK
  BY <1>1 DEF TimeTypeOK, Clocks, Clock
<1>3. \A c \in Clock : Number(c) = 0 /\ ~Writing(c)
  BY <1>1 DEF Number, Writing
<1>4. SourceInv
  BY <1>1, <1>3 DEF SourceInv
<1>5. \A c \in Clock : Whole(c)
  <2> TAKE c \in Clock
  <2>1. 0 \in last[c] .. MaxUpdates /\ shadow[c] = Update(0)
    BY <1>1 DEF Update
  <2> QED
    BY <2>1 DEF Whole
<1>6. CopyInv
  BY <1>1, <1>3, <1>5 DEF CopyInv
<1> QED
  BY <1>2, <1>4, <1>6 DEF TimeInv

\* What the types say of the clock c.
LEMMA SourceType ==
  ASSUME TimeTypeOK, NEW c \in Clock
  PROVE  /\ src[c].version \in Nat /\ src[c].field \in [Field -> Nat] /\ Number(c) \in Nat
         /\ shadow[c].version \in Nat /\ shadow[c].field \in [Field -> Nat]
         /\ last[c] \in Nat /\ toStore[c] \subseteq Field
         /\ Writing(c) => src[c].version = 2 * Number(c) + 1
         /\ ~Writing(c) => src[c].version = 2 * Number(c)
         /\ src[c] = [version |-> src[c].version, field |-> src[c].field]
         /\ shadow[c] = [version |-> shadow[c].version, field |-> shadow[c].field]
<1>1. /\ src[c] \in [version : Nat, field : [Field -> Nat]]
      /\ shadow[c] \in [version : Nat, field : [Field -> Nat]]
      /\ last[c] \in Nat /\ toStore[c] \subseteq Field
  BY DEF TimeTypeOK, Clocks
<1> DEFINE v == src[c].version
<1>2. v \in Nat
  BY <1>1
<1> HIDE DEF v
<1>3. v \div 2 \in Nat /\ v % 2 \in {0, 1} /\ v = 2 * (v \div 2) + (v % 2)
  BY <1>2, Halves
<1>4. /\ v \div 2 \in Nat /\ (v % 2 = 1 => v = 2 * (v \div 2) + 1)
      /\ (~(v % 2 = 1) => v = 2 * (v \div 2))
  BY <1>2, <1>3
<1> QED
  BY <1>1, <1>4 DEF v, Number, Writing

\* A clock's record is given a new version, or a new value for a field.
LEMMA ClockExcept ==
  ASSUME NEW r \in [version : Nat, field : [Field -> Nat]], NEW n \in Nat, NEW f \in Field
  PROVE  /\ [r EXCEPT !.version = n] = [version |-> n, field |-> r.field]
         /\ [r EXCEPT !.field[f] = n] = [version |-> r.version, field |-> [r.field EXCEPT ![f] = n]]
         /\ [version |-> n, field |-> r.field] \in [version : Nat, field : [Field -> Nat]]
         /\ [version |-> r.version, field |-> [r.field EXCEPT ![f] = n]]
              \in [version : Nat, field : [Field -> Nat]]
OBVIOUS

\* The hypervisor counts the version of clock c: it begins, or ends, an update.
LEMMA VersionStep ==
  ASSUME TimeTypeOK, NEW c \in Clock, src' = [src EXCEPT ![c].version = @ + 1]
  PROVE  /\ src' \in Clocks /\ src'[c].version = src[c].version + 1
         /\ src'[c].field = src[c].field /\ \A d \in Clock \ {c} : src'[d] = src[d]
         /\ ~Writing(c) => Writing(c)' /\ Number(c)' = Number(c)
         /\ Writing(c) => ~Writing(c)' /\ Number(c)' = Number(c) + 1
<1> DEFINE v == src[c].version
           r == src[c]
<1>1. /\ v \in Nat /\ r \in [version : Nat, field : [Field -> Nat]]
      /\ src \in [Clock -> [version : Nat, field : [Field -> Nat]]]
  BY DEF TimeTypeOK, Clocks
<1>2. src' = [src EXCEPT ![c] = [r EXCEPT !.version = v + 1]]
  OBVIOUS
<1>3. [r EXCEPT !.version = v + 1] = [version |-> v + 1, field |-> r.field]
  BY <1>1
<1>4. src' = [src EXCEPT ![c] = [version |-> v + 1, field |-> r.field]]
  BY <1>2, <1>3
<1>5. [version |-> v + 1, field |-> r.field] \in [version : Nat, field : [Field -> Nat]]
  BY <1>1
<1>6. /\ src'[c] = [version |-> v + 1, field |-> r.field]
      /\ \A d \in Clock \ {c} : src'[d] = src[d]
      /\ src' \in [Clock -> [version : Nat, field : [Field -> Nat]]]
  BY <1>1, <1>4, <1>5, Zenon
<1>7. src'[c].version = v + 1 /\ src'[c].field = r.field
  BY <1>6
<1>8. /\ v % 2 = 0 => (v + 1) % 2 = 1 /\ (v + 1) \div 2 = v \div 2
      /\ v % 2 = 1 => (v + 1) % 2 = 0 /\ (v + 1) \div 2 = v \div 2 + 1
      /\ v % 2 \in {0, 1}
  <2> HIDE DEF v
  <2> QED
    BY <1>1, Halves
<1>9. /\ Writing(c)' <=> (v + 1) % 2 = 1
      /\ Number(c)' = (v + 1) \div 2
      /\ Writing(c) <=> v % 2 = 1
      /\ Number(c) = v \div 2
  BY <1>7 DEF Writing, Number
<1>10. /\ ~Writing(c) => Writing(c)' /\ Number(c)' = Number(c)
       /\ Writing(c) => ~Writing(c)' /\ Number(c)' = Number(c) + 1
  <2> HIDE DEF v
  <2> QED
    BY <1>8, <1>9
<1> QED
  BY <1>6, <1>7, <1>10 DEF Clocks

\* The hypervisor writes the word f of clock c.
LEMMA FieldStep ==
  ASSUME TimeTypeOK, NEW c \in Clock, NEW f \in Field, Writing(c),
         src' = [src EXCEPT ![c].field[f] = (src[c].version + 1) \div 2]
  PROVE  /\ src' \in Clocks /\ src'[c].version = src[c].version
         /\ src'[c].field = [src[c].field EXCEPT ![f] = Number(c) + 1]
         /\ \A d \in Clock \ {c} : src'[d] = src[d]
         /\ Writing(c)' /\ Number(c)' = Number(c)
<1> DEFINE v == src[c].version
           r == src[c]
<1>1. /\ v \in Nat /\ r \in [version : Nat, field : [Field -> Nat]]
      /\ src \in [Clock -> [version : Nat, field : [Field -> Nat]]]
  BY DEF TimeTypeOK, Clocks
<1>2. (v + 1) \div 2 = Number(c) + 1 /\ Number(c) \in Nat
  <2>1. v % 2 = 1 /\ Number(c) = v \div 2
    BY DEF Writing, Number
  <2> HIDE DEF v
  <2> QED
    BY <1>1, <2>1, Halves
<1> DEFINE n == Number(c) + 1
<1>3. n \in Nat
  BY <1>2
<1>4. src' = [src EXCEPT ![c].field[f] = n]
  BY <1>2
<1> HIDE DEF n
<1>5. src' = [src EXCEPT ![c] = [r EXCEPT !.field[f] = n]]
  BY <1>4
<1>6. /\ [r EXCEPT !.field[f] = n] = [version |-> v, field |-> [r.field EXCEPT ![f] = n]]
      /\ [version |-> v, field |-> [r.field EXCEPT ![f] = n]] \in [version : Nat, field : [Field -> Nat]]
  BY <1>1, <1>3, ClockExcept
<1>7. src' = [src EXCEPT ![c] = [version |-> v, field |-> [r.field EXCEPT ![f] = n]]]
  BY <1>5, <1>6
<1>8. /\ src'[c] = [version |-> v, field |-> [r.field EXCEPT ![f] = n]]
      /\ \A d \in Clock \ {c} : src'[d] = src[d]
      /\ src' \in [Clock -> [version : Nat, field : [Field -> Nat]]]
  BY <1>1, <1>6, <1>7, ZenonT(40)
<1>9. src'[c].version = v /\ src'[c].field = [r.field EXCEPT ![f] = n]
  BY <1>8
<1>10. Writing(c)' /\ Number(c)' = Number(c)
  BY <1>9 DEF Writing, Number
<1> QED
  BY <1>8, <1>9, <1>10 DEF Clocks, n

\* The hypervisor's steps keep the types and what its fields say.
LEMMA SourceStep ==
  ASSUME TimeTypeOK, SourceInv, NEW c \in Clock,
         Begin(c) \/ End(c) \/ \E f \in Field : Store(c, f)
  PROVE  /\ TimeTypeOK' /\ SourceInv' /\ UNCHANGED <<shadow, reading, toLoad, last>>
         /\ \A d \in Clock : src[d].version <= src'[d].version /\ Number(d) <= Number(d)'
         /\ \A d \in Clock \ {c} : src'[d] = src[d]
         /\ Writing(c)' \/ src[c].version < src'[c].version
<1> DEFINE P == /\ src' \in Clocks /\ toStore' \in [Clock -> SUBSET Field]
                /\ UNCHANGED <<shadow, reading, toLoad, last>>
                /\ \A d \in Clock \ {c} : src'[d] = src[d] /\ toStore'[d] = toStore[d]
           Q == /\ src[c].version <= src'[c].version /\ Number(c) <= Number(c)'
                /\ Writing(c)' \/ src[c].version < src'[c].version
           R(d) == /\ src'[d].version <= 2 * MaxUpdates
                   /\ ~Writing(d)' => toStore'[d] = {}
                   /\ \A f \in Field : src'[d].field[f] =
                        IF Writing(d)' /\ f \notin toStore'[d] THEN Number(d)' + 1 ELSE Number(d)'
<1>0. /\ src[c].version \in Nat /\ Number(c) \in Nat /\ toStore[c] \subseteq Field
      /\ toStore \in [Clock -> SUBSET Field] /\ MaxUpdates \in Nat
      /\ Writing(c) => src[c].version = 2 * Number(c) + 1
      /\ src[c].field \in [Field -> Nat]
  BY SourceType, TimeAssumption DEF TimeTypeOK
<1>1. /\ src[c].version <= 2 * MaxUpdates
      /\ ~Writing(c) => toStore[c] = {}
      /\ \A f \in Field : src[c].field[f] =
           IF Writing(c) /\ f \notin toStore[c] THEN Number(c) + 1 ELSE Number(c)
  BY DEF SourceInv
<1>2. ASSUME Begin(c) PROVE P /\ Q /\ R(c)
  <2>1. /\ src' = [src EXCEPT ![c].version = @ + 1] /\ toStore' = [toStore EXCEPT ![c] = Field]
        /\ UNCHANGED <<shadow, reading, toLoad, last>>
        /\ ~Writing(c) /\ src[c].version < 2 * MaxUpdates
    BY <1>2 DEF Begin
  <2>2. /\ src' \in Clocks /\ src'[c].version = src[c].version + 1
        /\ src'[c].field = src[c].field /\ \A d \in Clock \ {c} : src'[d] = src[d]
        /\ Writing(c)' /\ Number(c)' = Number(c)
    BY <2>1, VersionStep
  <2>3. /\ toStore' \in [Clock -> SUBSET Field] /\ toStore'[c] = Field
        /\ \A d \in Clock \ {c} : toStore'[d] = toStore[d]
    BY <1>0, <2>1
  <2>4. P /\ Q
    BY <1>0, <2>1, <2>2, <2>3
  <2>5. R(c)
    BY <1>0, <1>1, <2>1, <2>2, <2>3
  <2> QED
    BY <2>4, <2>5
<1>3. ASSUME End(c) PROVE P /\ Q /\ R(c)
  <2>1. /\ src' = [src EXCEPT ![c].version = @ + 1]
        /\ UNCHANGED <<shadow, reading, toLoad, last, toStore>>
        /\ Writing(c) /\ toStore[c] = {}
    BY <1>3 DEF End
  <2>2. /\ src' \in Clocks /\ src'[c].version = src[c].version + 1
        /\ src'[c].field = src[c].field /\ \A d \in Clock \ {c} : src'[d] = src[d]
        /\ ~Writing(c)' /\ Number(c)' = Number(c) + 1
    BY <2>1, VersionStep
  <2>3. src[c].version = 2 * Number(c) + 1
    BY <1>0, <2>1
  <2>4. P /\ Q
    BY <1>0, <2>1, <2>2
  <2>5. R(c)
    <3>1. \A f \in Field : src'[c].field[f] = Number(c)'
      BY <1>1, <2>1, <2>2
    <3>2. src'[c].version <= 2 * MaxUpdates
      BY <1>0, <1>1, <2>2, <2>3
    <3> QED
      BY <2>1, <2>2, <3>1, <3>2
  <2> QED
    BY <2>4, <2>5
<1>4. ASSUME \E f \in Field : Store(c, f) PROVE P /\ Q /\ R(c)
  <2> PICK f \in Field : Store(c, f)
    BY <1>4
  <2>1. /\ src' = [src EXCEPT ![c].field[f] = (src[c].version + 1) \div 2]
        /\ toStore' = [toStore EXCEPT ![c] = @ \ {f}]
        /\ UNCHANGED <<shadow, reading, toLoad, last>> /\ f \in toStore[c]
    BY DEF Store
  <2>2. Writing(c)
    BY <1>1, <2>1
  <2>3. /\ src' \in Clocks /\ src'[c].version = src[c].version
        /\ src'[c].field = [src[c].field EXCEPT ![f] = Number(c) + 1]
        /\ \A d \in Clock \ {c} : src'[d] = src[d]
        /\ Writing(c)' /\ Number(c)' = Number(c)
    BY <2>1, <2>2, FieldStep
  <2>4. /\ toStore' \in [Clock -> SUBSET Field] /\ toStore'[c] = toStore[c] \ {f}
        /\ \A d \in Clock \ {c} : toStore'[d] = toStore[d]
    BY <1>0, <2>1
  <2>5. P /\ Q
    BY <1>0, <2>1, <2>3, <2>4
  <2>6. R(c)
    <3>1. ASSUME NEW g \in Field
          PROVE  src'[c].field[g] = IF g \notin toStore'[c] THEN Number(c) + 1 ELSE Number(c)
      BY <1>0, <1>1, <2>1, <2>2, <2>3, <2>4
    <3> QED
      BY <1>1, <2>3, <3>1
  <2> QED
    BY <2>5, <2>6
<1>5. P /\ Q /\ R(c)
  BY <1>2, <1>3, <1>4
<1>6. ASSUME NEW d \in Clock, d # c
      PROVE  /\ Number(d)' = Number(d) /\ (Writing(d)' <=> Writing(d)) /\ R(d)
             /\ src[d].version <= src'[d].version
  <2>1. src'[d] = src[d] /\ toStore'[d] = toStore[d]
    BY <1>5, <1>6
  <2>2. Number(d)' = Number(d) /\ (Writing(d)' <=> Writing(d))
    BY <2>1 DEF Number, Writing
  <2>3. src[d].version \in Nat
    BY SourceType
  <2> QED
    BY <2>1, <2>2, <2>3 DEF SourceInv
<1>7. ASSUME NEW d \in Clock
      PROVE  R(d) /\ src[d].version <= src'[d].version /\ Number(d) <= Number(d)'
  <2>1. CASE d = c
    BY <1>5, <2>1
  <2>2. CASE d # c
    <3> Number(d) \in Nat
      BY SourceType
    <3> QED
      BY <1>6, <2>2
  <2> QED
    BY <2>1, <2>2
<1>8. TimeTypeOK'
  BY <1>5 DEF TimeTypeOK
<1>9. SourceInv'
  BY <1>7 DEF SourceInv
<1> QED
  BY <1>5, <1>7, <1>8, <1>9

\* They keep the copy: what they change of the clock being copied is seen as torn.
LEMMA SourceKeepsCopy ==
  ASSUME TimeInv, NEW c \in Clock, Begin(c) \/ End(c) \/ \E f \in Field : Store(c, f)
  PROVE  TimeInv'
<1>1. TimeTypeOK /\ SourceInv /\ CopyInv
  BY DEF TimeInv
<1>2. /\ TimeTypeOK' /\ SourceInv' /\ UNCHANGED <<shadow, reading, toLoad, last>>
      /\ \A d \in Clock : src[d].version <= src'[d].version /\ Number(d) <= Number(d)'
      /\ \A d \in Clock \ {c} : src'[d] = src[d]
      /\ Writing(c)' \/ src[c].version < src'[c].version
  BY <1>1, SourceStep
<1>3. ASSUME NEW d \in Clock
      PROVE  (Whole(d)' <=> Whole(d)) /\ last'[d] <= Number(d)'
  <2>1. Whole(d)' <=> Whole(d)
    BY <1>2 DEF Whole
  <2>2. last[d] \in Nat /\ Number(d) \in Nat /\ Number(d)' \in Nat
    <3>1. src'[d].version \in Nat
      BY <1>2 DEF TimeTypeOK, Clocks
    <3>2. Number(d)' \in Nat
      BY <3>1, Halves DEF Number
    <3> QED
      BY <1>1, <3>2, SourceType
  <2> QED
    BY <1>1, <1>2, <2>1, <2>2 DEF CopyInv
<1>4. ASSUME NEW d \in Clock, reading = d, "version" \notin toLoad
      PROVE  /\ last[d] <= shadow[d].version \div 2
             /\ shadow[d].version <= src'[d].version
             /\ ~Torn(d)' => \A f \in Field \ toLoad : shadow[d].field[f] = Number(d)'
  <2>1. /\ last[d] <= shadow[d].version \div 2
        /\ shadow[d].version <= src[d].version
        /\ ~Torn(d) => \A f \in Field \ toLoad : shadow[d].field[f] = Number(d)
    <3> d # "none"
      BY DEF Clock
    <3> QED
      BY <1>1, <1>4 DEF CopyInv
  <2>2. /\ shadow[d].version \in Nat /\ src[d].version \in Nat /\ src'[d].version \in Nat
    BY <1>1, <1>2 DEF TimeTypeOK, Clocks
  <2>3. shadow[d].version <= src'[d].version
    BY <1>2, <2>1, <2>2
  <2>4. CASE d = c
    <3>1. Torn(d)'
      BY <1>2, <2>1, <2>2, <2>4 DEF Torn
    <3> QED
      BY <2>1, <2>3, <3>1
  <2>5. CASE d # c
    <3>1. src'[d] = src[d] /\ shadow' = shadow
      BY <1>2, <2>5
    <3>2. (Torn(d)' <=> Torn(d)) /\ Number(d)' = Number(d)
      BY <3>1 DEF Torn, Writing, Number
    <3> QED
      BY <2>1, <2>3, <3>2
  <2> QED
    BY <2>4, <2>5
<1>5. CopyInv'
  <2>1. reading' = reading /\ toLoad' = toLoad /\ shadow' = shadow /\ last' = last
    BY <1>2
  <2>2. \A d \in Clock : last'[d] <= Number(d)'
    BY <1>3
  <2>3. reading = "none" => toLoad = {} /\ \A d \in Clock : Whole(d)'
    BY <1>1, <1>3 DEF CopyInv
  <2>4. reading = "wallclock" => Whole("time")'
    BY <1>1, <1>3 DEF CopyInv, Clock
  <2>5. ASSUME reading # "none", "version" \notin toLoad
        PROVE  /\ last[reading] <= shadow[reading].version \div 2
               /\ shadow[reading].version <= src'[reading].version
               /\ ~Torn(reading)' =>
                    \A f \in Field \ toLoad : shadow[reading].field[f] = Number(reading)'
    <3>1. reading \in Clock
      BY <1>1, <2>5 DEF TimeTypeOK
    <3>2. PICK d \in Clock : d = reading
      BY <3>1
    <3>3. /\ last[d] <= shadow[d].version \div 2
          /\ shadow[d].version <= src'[d].version
          /\ ~Torn(d)' => \A f \in Field \ toLoad : shadow[d].field[f] = Number(d)'
      BY <1>4, <2>5, <3>2
    <3>4. (Torn(d)' <=> Torn(reading)') /\ Number(d)' = Number(reading)'
      BY <2>1, <3>2 DEF Torn, Writing, Number
    <3> QED
      BY <3>2, <3>3, <3>4
  <2>6. "version" \in toLoad => Field \subseteq toLoad
    BY <1>1 DEF CopyInv
  <2> QED
    BY <2>1, <2>2, <2>3, <2>4, <2>5, <2>6 DEF CopyInv
<1> QED
  BY <1>2, <1>5 DEF TimeInv


\* The handler's call.
LEMMA HandlerStep ==
  ASSUME TimeInv, timer_handler
  PROVE  TimeInv'
<1>1. TimeTypeOK /\ SourceInv /\ CopyInv
  BY DEF TimeInv
<1>2. /\ src' = src /\ shadow' = shadow /\ toStore' = toStore
      /\ reading' = "time" /\ toLoad' = {"version"} \cup Field
      /\ last' = [c \in Clock |-> Number(c)]
  BY DEF timer_handler, Number
<1>3. \A c \in Clock : Number(c) \in Nat /\ Number(c)' = Number(c) /\ (Writing(c)' <=> Writing(c))
  BY <1>1, <1>2, SourceType DEF Number, Writing
<1>4. TimeTypeOK'
  BY <1>1, <1>2, <1>3 DEF TimeTypeOK, Clock
<1>5. SourceInv'
  BY <1>1, <1>2, <1>3 DEF SourceInv
<1>6. CopyInv'
  BY <1>2, <1>3 DEF CopyInv
<1> QED
  BY <1>4, <1>5, <1>6 DEF TimeInv

\* The load of a word: of the version, with nothing else loaded, or of a field,
\* which is of the update of that version unless the clock is torn.
LEMMA LoadStep ==
  ASSUME TimeInv, NEW f \in {"version"} \cup Field, Load(f)
  PROVE  TimeInv'
<1>1. TimeTypeOK /\ SourceInv /\ CopyInv
  BY DEF TimeInv
<1>2. /\ src' = src /\ reading' = reading /\ toStore' = toStore /\ last' = last
      /\ f \in toLoad /\ toLoad' = toLoad \ {f} /\ ("version" \in toLoad => f = "version")
  BY DEF Load
<1>3. \A d \in Clock : Number(d)' = Number(d) /\ (Writing(d)' <=> Writing(d))
  BY <1>2 DEF Number, Writing
<1>4. reading \in Clock /\ reading # "none"
  BY <1>1, <1>2 DEF TimeTypeOK, CopyInv, Clock
<1>5. PICK c \in Clock : c = reading
  BY <1>4
<1> DEFINE r == shadow[c]
           s == src[c]
           rec == [version : Nat, field : [Field -> Nat]]
<1>6. /\ r \in rec /\ s \in rec /\ shadow \in [Clock -> rec]
      /\ last[c] \in Nat /\ Number(c) \in Nat
      /\ Writing(c) => s.version = 2 * Number(c) + 1
      /\ ~Writing(c) => s.version = 2 * Number(c)
  BY <1>1, SourceType DEF TimeTypeOK, Clocks
<1>7. /\ shadow' \in Clocks /\ \A d \in Clock \ {c} : shadow'[d] = shadow[d]
      /\ "version" \notin toLoad' =>
           /\ last[c] <= shadow'[c].version \div 2
           /\ shadow'[c].version <= s.version
           /\ ~Torn(c)' => \A g \in Field \ toLoad' : shadow'[c].field[g] = Number(c)
      /\ "version" \in toLoad' => Field \subseteq toLoad'
  <2>1. CASE f = "version"
    <3>1. shadow' = [shadow EXCEPT ![c] = [r EXCEPT !.version = s.version]]
      BY <1>5, <2>1 DEF Load
    <3>2. /\ [r EXCEPT !.version = s.version] = [version |-> s.version, field |-> r.field]
          /\ [version |-> s.version, field |-> r.field] \in rec
      BY <1>6
    <3>3. /\ shadow'[c] = [version |-> s.version, field |-> r.field]
          /\ \A d \in Clock \ {c} : shadow'[d] = shadow[d]
          /\ shadow' \in [Clock -> rec]
      <4>1. shadow' = [shadow EXCEPT ![c] = [version |-> s.version, field |-> r.field]]
        BY <3>1, <3>2
      <4> QED
        BY <1>6, <3>2, <4>1, Zenon
    <3>4. shadow'[c].version = s.version
      BY <3>3
    <3>5. last[c] <= shadow'[c].version \div 2 /\ shadow'[c].version <= s.version
      <4>1. last[c] <= Number(c) /\ s.version \in Nat
        BY <1>1, <1>6 DEF CopyInv
      <4> QED
        BY <3>4, <4>1 DEF Number
    <3>6. Field \subseteq toLoad /\ "version" \notin Field
      BY <1>1, <1>2, <2>1, TimeAssumption DEF CopyInv
    <3>7. Field \ toLoad' = {} /\ "version" \notin toLoad'
      BY <1>2, <2>1, <3>6
    <3> QED
      BY <3>3, <3>5, <3>7 DEF Clocks
  <2>2. CASE f # "version"
    <3>1. f \in Field /\ "version" \notin toLoad
      BY <1>2, <2>2
    <3> DEFINE n == s.field[f]
    <3>2. n \in Nat
      BY <1>6, <3>1
    <3>3. shadow' = [shadow EXCEPT ![c].field[f] = n]
      BY <1>5, <2>2 DEF Load
    <3> HIDE DEF n
    <3>4. shadow' = [shadow EXCEPT ![c] = [r EXCEPT !.field[f] = n]]
      BY <3>3
    <3>5. /\ [r EXCEPT !.field[f] = n] = [version |-> r.version, field |-> [r.field EXCEPT ![f] = n]]
          /\ [version |-> r.version, field |-> [r.field EXCEPT ![f] = n]] \in rec
      BY <1>6, <3>1, <3>2, ClockExcept
    <3>6. /\ shadow'[c] = [version |-> r.version, field |-> [r.field EXCEPT ![f] = n]]
          /\ \A d \in Clock \ {c} : shadow'[d] = shadow[d]
          /\ shadow' \in [Clock -> rec]
      <4>1. shadow' = [shadow EXCEPT ![c] =
                         [version |-> r.version, field |-> [r.field EXCEPT ![f] = n]]]
        BY <3>4, <3>5
      <4> QED
        BY <1>6, <3>5, <4>1, Zenon
    <3>7. shadow'[c].version = r.version /\ shadow'[c].field = [r.field EXCEPT ![f] = n]
      BY <3>6
    <3>8. /\ last[c] <= r.version \div 2 /\ r.version <= s.version
          /\ ~Torn(c) => \A g \in Field \ toLoad : r.field[g] = Number(c)
      BY <1>1, <1>4, <1>5, <3>1 DEF CopyInv
    <3>9. Torn(c)' <=> Torn(c)
      BY <1>2, <1>3, <3>7 DEF Torn
    <3>10. ~Torn(c) => n = Number(c)
      BY <1>1, <3>1 DEF Torn, SourceInv, n
    <3>11. ~Torn(c) => \A g \in Field \ toLoad' : [r.field EXCEPT ![f] = n][g] = Number(c)
      BY <1>2, <1>6, <3>1, <3>8, <3>10
    <3> QED
      BY <1>2, <3>1, <3>6, <3>7, <3>8, <3>9, <3>11 DEF Clocks
  <2> QED
    BY <2>1, <2>2
<1>8. TimeTypeOK'
  BY <1>1, <1>2, <1>7 DEF TimeTypeOK
<1>9. SourceInv'
  BY <1>1, <1>2, <1>3 DEF SourceInv
<1>10. CopyInv'
  <2>1. reading = "wallclock" => Whole("time")'
    <3> HAVE reading = "wallclock"
    <3>1. "time" \in Clock \ {c} /\ Whole("time")
      BY <1>1, <1>5 DEF CopyInv, Clock
    <3>2. shadow'["time"] = shadow["time"]
      BY <1>7, <3>1
    <3> QED
      BY <1>2, <3>1, <3>2 DEF Whole
  <2>2. \A d \in Clock : last'[d] <= Number(d)'
    BY <1>1, <1>2, <1>3 DEF CopyInv
  <2>3. (Torn(c)' <=> Torn(reading)') /\ Number(c) = Number(reading)'
    BY <1>2, <1>3, <1>5 DEF Torn, Writing, Number
  <2> QED
    BY <1>2, <1>4, <1>5, <1>7, <2>1, <2>2, <2>3 DEF CopyInv
<1> QED
  BY <1>8, <1>9, <1>10 DEF TimeInv

\* Looking at the version again: unless it is torn, the copy is one update.
LEMMA CheckStep ==
  ASSUME TimeInv, Check
  PROVE  TimeInv'
<1>1. TimeTypeOK /\ SourceInv /\ CopyInv
  BY DEF TimeInv
<1>2. /\ src' = src /\ shadow' = shadow /\ toStore' = toStore /\ last' = last
      /\ reading # "none" /\ toLoad = {}
  BY DEF Check
<1>3. \A d \in Clock : Number(d)' = Number(d) /\ (Writing(d)' <=> Writing(d)) /\ (Whole(d)' <=> Whole(d))
  BY <1>2 DEF Number, Writing, Whole
<1>4. SourceInv' /\ \A d \in Clock : last'[d] <= Number(d)'
  BY <1>1, <1>2, <1>3 DEF SourceInv, CopyInv
<1>5. CASE Torn(reading)
  <2>1. reading' = reading /\ toLoad' = {"version"} \cup Field
    BY <1>5 DEF Check
  <2>2. TimeTypeOK'
    BY <1>1, <1>2, <2>1 DEF TimeTypeOK
  <2>3. CopyInv'
    BY <1>1, <1>2, <1>3, <1>4, <2>1 DEF CopyInv, Clock
  <2> QED
    BY <1>4, <2>2, <2>3 DEF TimeInv
<1>6. CASE ~Torn(reading)
  <2>1. /\ reading' = IF reading = "time" THEN "wallclock" ELSE "none"
        /\ toLoad' = IF reading = "time" THEN {"version"} \cup Field ELSE {}
    BY <1>6 DEF Check
  <2>2. TimeTypeOK'
    BY <1>1, <1>2, <2>1 DEF TimeTypeOK, Clock
  <2>3. PICK c \in Clock : c = reading
    BY <1>1, <1>2 DEF TimeTypeOK
  <2>4. Whole(c)
    <3>1. /\ last[c] \in Nat /\ Number(c) \in Nat /\ last[c] <= Number(c)
          /\ ~Writing(c) /\ src[c].version = 2 * Number(c) /\ src[c].version <= 2 * MaxUpdates
          /\ shadow[c].version = src[c].version
          /\ shadow[c].field \in [Field -> Nat]
          /\ shadow[c] = [version |-> shadow[c].version, field |-> shadow[c].field]
      BY <1>1, <1>6, <2>3, SourceType DEF CopyInv, SourceInv, Torn
    <3>2. \A f \in Field : shadow[c].field[f] = Number(c)
      BY <1>1, <1>2, <1>6, <2>3 DEF CopyInv
    <3>3. shadow[c].field = [f \in Field |-> Number(c)]
      BY <3>1, <3>2
    <3>4. shadow[c] = Update(Number(c))
      BY <3>1, <3>3 DEF Update
    <3>5. Number(c) \in last[c] .. MaxUpdates
      BY <3>1, TimeAssumption
    <3> QED
      BY <3>4, <3>5 DEF Whole
  <2>5. CASE reading = "time"
    <3>1. reading' = "wallclock" /\ toLoad' = {"version"} \cup Field /\ Whole("time")'
      BY <1>3, <2>1, <2>3, <2>4, <2>5
    <3>2. CopyInv'
      BY <1>4, <3>1 DEF CopyInv
    <3> QED
      BY <1>4, <2>2, <3>2 DEF TimeInv
  <2>6. CASE reading # "time"
    <3>1. reading = "wallclock" /\ reading' = "none" /\ toLoad' = {}
      BY <2>1, <2>3, <2>6 DEF Clock
    <3>2. \A d \in Clock : Whole(d)'
      BY <1>1, <1>3, <2>3, <2>4, <3>1 DEF CopyInv, Clock
    <3>3. CopyInv'
      BY <1>4, <3>1, <3>2 DEF CopyInv
    <3> QED
      BY <1>4, <2>2, <3>3 DEF TimeInv
  <2> QED
    BY <2>5, <2>6
<1> QED
  BY <1>5, <1>6

-----------------------------------------------------------------------------
\* Every step keeps the invariant.
LEMMA TimeStepInv == TimeInv /\ [TimeNext]_timeVars => TimeInv'
<1> SUFFICES ASSUME TimeInv, [TimeNext]_timeVars PROVE TimeInv'
  OBVIOUS
<1>1. ASSUME NEW c \in Clock, Begin(c) \/ End(c) \/ \E f \in Field : Store(c, f)
      PROVE  TimeInv'
  BY <1>1, SourceKeepsCopy
<1>2. CASE timer_handler
  BY <1>2, HandlerStep
<1>3. CASE Check
  BY <1>3, CheckStep
<1>4. ASSUME NEW f \in {"version"} \cup Field, Load(f)
      PROVE  TimeInv'
  BY <1>4, LoadStep
<1>5. CASE UNCHANGED timeVars
  BY <1>5 DEF timeVars, TimeInv, TimeTypeOK, SourceInv, CopyInv, Number, Writing, Whole, Torn
<1> QED
  BY <1>1, <1>2, <1>3, <1>4, <1>5 DEF TimeNext

\* When the timer's handler is done its copy of each clock is one update of the
\* hypervisor, no older than its call: the loops of get_time_values_from_xen and
\* update_wallclock never leave a mixture of two.
THEOREM CopyIsWhole == TimeSpec => []TimeIsWhole
<1>1. TimeInit => TimeInv
  BY TimeInitInv
<1>2. TimeInv /\ [TimeNext]_timeVars => TimeInv'
  BY TimeStepInv
<1>3. TimeInv => TimeIsWhole
  BY DEF TimeInv, CopyInv, Whole, TimeIsWhole
<1> QED
  BY <1>1, <1>2, <1>3, PTL DEF TimeSpec
=============================================================================
