--------------------------- MODULE ConsoleIOProofs ---------------------------
(***************************************************************************)
(* The rings of the console, the keyboard's buffer and readline implement  *)
(* LineInput, for rings and buffers of any size.                           *)
(*                                                                         *)
(* A ring is an array with two indices that wrap; what it holds is the     *)
(* sequence Contents.  A store at one index appends to the sequence, an    *)
(* advance of the other takes its head: with that, the steps of the thread *)
(* and of the interrupt are operations on three sequences.                 *)
(***************************************************************************)
EXTENDS ConsoleIO, Integers, SequenceTheorems, WellFoundedInduction, TLAPS

-----------------------------------------------------------------------------
(* Numbers *)

\* A set of numbers with 0 that holds with a number the next one holds them all.
LEMMA AllNumbers ==
  ASSUME NEW S, 0 \in S, \A n \in Nat : n \in S => n + 1 \in S
  PROVE  \A n \in Nat : n \in S
<1> DEFINE R == {pair \in Nat \X Nat : pair[1] < pair[2]}
           T == Nat \ S
<1>1. IsWellFoundedOn(R, Nat)
  BY NatLessThanWellFounded DEF OpToRel
<1>2. \A x, y \in Nat : <<x, y>> \in R <=> x < y
  OBVIOUS
<1> HIDE DEF R
<1>3. SUFFICES ASSUME T # {} PROVE FALSE
  OBVIOUS
<1>4. PICK x \in T : \A y \in T : ~(<<y, x>> \in R)
  BY <1>1, <1>3, WFMin
<1>5. x \in Nat /\ x # 0 /\ x - 1 \in Nat /\ x - 1 < x
  BY <1>4
<1>6. x - 1 \in S
  BY <1>2, <1>4, <1>5
<1> QED
  BY <1>4, <1>5, <1>6

\* Quotient and rest.
LEMMA Divided ==
  ASSUME NEW S \in Nat \ {0}, NEW a \in Nat
  PROVE  a % S \in 0 .. S - 1 /\ a = S * (a \div S) + (a % S) /\ a \div S \in Nat
OBVIOUS

\* Different multiples are that far apart.
LEMMA Multiples ==
  ASSUME NEW S \in Nat \ {0}, NEW m \in Int, NEW n \in Int, m > n
  PROVE  S * m >= S * n + S
<1>1. S * (m - n) >= S
  OBVIOUS
<1> QED
  BY <1>1

\* a divided by S is q, and r is left.
IsQuotient(a, S, q, r) == q \in Int /\ r \in 0 .. S - 1 /\ a = S * q + r

\* There is one quotient only.
LEMMA OneQuotient ==
  ASSUME NEW S \in Nat \ {0}, NEW a, NEW q, NEW d, NEW e, NEW r,
         IsQuotient(a, S, q, r), IsQuotient(a, S, d, e)
  PROVE  q = d /\ r = e
<1> USE DEF IsQuotient
<1> DEFINE x == S * q
           y == S * d
<1>1. x \in Int /\ y \in Int /\ x + r = y + e
  OBVIOUS
<1>2. q > d => x >= y + S
  BY Multiples
<1>3. d > q => y >= x + S
  BY Multiples
<1>4. q = d => x = y
  OBVIOUS
<1> HIDE DEF x, y
<1>5. q = d
  BY <1>1, <1>2, <1>3
<1> QED
  BY <1>1, <1>4, <1>5

\* A number below 2 * M, modulo M.
LEMMA WrapOnce ==
  ASSUME NEW M \in Nat \ {0}, NEW a \in Nat, a < M + M
  PROVE  a % M = IF a < M THEN a ELSE a - M
OBVIOUS

\* A multiple of S more leaves the same rest.
LEMMA Around ==
  ASSUME NEW M \in Nat, NEW S \in Nat \ {0}, NEW a \in Nat, M % S = 0
  PROVE  (a + M) % S = a % S
<1> DEFINE b == a + M
           d == a \div S
           e == a % S
           m == M \div S
           g == b \div S
           h == b % S
<1>1. b \in Nat /\ b = a + M
  OBVIOUS
<1> HIDE DEF b
<1>2. d \in Nat /\ e \in 0 .. S - 1 /\ a = S * d + e
  BY Divided
<1>3. m \in Nat /\ M = S * m
  BY Divided
<1>4. g \in Nat /\ h \in 0 .. S - 1 /\ b = S * g + h
  BY <1>1, Divided
<1> HIDE DEF d, e, m, g, h
<1>5. IsQuotient(b, S, d + m, e) /\ IsQuotient(b, S, g, h)
  BY <1>1, <1>2, <1>3, <1>4 DEF IsQuotient
<1>6. h = e
  BY <1>5, OneQuotient
<1> QED
  BY <1>6 DEF e, h, b

\* Numbers less than S apart leave different rests.
LEMMA Apart ==
  ASSUME NEW S \in Nat \ {0}, NEW a \in Nat, NEW b \in Nat, a < b, b < a + S
  PROVE  a % S # b % S
<1> DEFINE d == a \div S
           e == a % S
           g == b \div S
           h == b % S
<1>1. /\ d \in Nat /\ e \in 0 .. S - 1 /\ a = S * d + e
      /\ g \in Nat /\ h \in 0 .. S - 1 /\ b = S * g + h
  BY Divided
<1> HIDE DEF d, e, g, h
<1> SUFFICES ASSUME e = h PROVE FALSE
  BY DEF e, h
<1> DEFINE x == S * g
           y == S * d
<1>2. x \in Int /\ y \in Int /\ a = y + e /\ b = x + e
  BY <1>1
<1>3. (g > d => x >= y + S) /\ (g < d => y >= x + S) /\ (g = d => x = y)
  BY <1>1, Multiples
<1> HIDE DEF x, y
<1> QED
  BY <1>1, <1>2, <1>3

\* A multiple of 2 * S is one of S.
LEMMA Half ==
  ASSUME NEW S \in Nat \ {0}, NEW M \in Nat, M % (2 * S) = 0
  PROVE  M % S = 0
<1> DEFINE T == 2 * S
           q == M \div T
           g == M \div S
           h == M % S
           z == 0
<1>1. T \in Nat \ {0} /\ M % T = 0
  OBVIOUS
<1>2. g \in Nat /\ h \in 0 .. S - 1 /\ M = S * g + h
  BY Divided
<1> HIDE DEF T, g, h
<1>3. q \in Nat /\ M = T * q
  BY <1>1, Divided
<1>4. z \in 0 .. S - 1
  OBVIOUS
<1> HIDE DEF q
<1> DEFINE w == 2 * q
<1>5. w \in Int /\ M = S * w + z
  BY <1>3 DEF T
<1> HIDE DEF w, z
<1>6. IsQuotient(M, S, w, z) /\ IsQuotient(M, S, g, h)
  BY <1>2, <1>4, <1>5 DEF IsQuotient
<1>7. h = z
  BY <1>6, OneQuotient
<1> QED
  BY <1>7 DEF h, z

-----------------------------------------------------------------------------
(***************************************************************************)
(* A ring of S places whose indices wrap at M: p is where it is filled, c  *)
(* where it is emptied.                                                    *)
(***************************************************************************)
IsRing(M, S) == S \in Nat \ {0} /\ M \in Nat /\ M % S = 0 /\ S <= M

Ahead(p, c, M) == (p + M - c) % M
Slot(c, k, M, S) == ((c + k - 1) % M) % S
Contents(r, p, c, M, S) == [k \in 1 .. Ahead(p, c, M) |-> r[Slot(c, k, M, S)]]

\* An index steps on, and begins again.
LEMMA NextIs ==
  ASSUME NEW M \in Nat \ {0}, NEW p \in 0 .. M - 1
  PROVE  (p + 1) % M = (IF p + 1 = M THEN 0 ELSE p + 1) /\ (p + 1) % M \in 0 .. M - 1
<1> DEFINE a == p + 1
<1>1. a \in Nat /\ a < M + M /\ a <= M
  OBVIOUS
<1>2. a % M = IF a < M THEN a ELSE a - M
  <2> HIDE DEF a
  <2> QED
    BY <1>1, WrapOnce
<1> DEFINE z == a % M
<1> HIDE DEF z
<1>3. z = IF a < M THEN a ELSE a - M
  BY <1>2 DEF z
<1>4. z = (IF p + 1 = M THEN 0 ELSE p + 1) /\ z \in 0 .. M - 1
  BY <1>1, <1>3
<1> QED
  BY <1>4 DEF z

\* How far one index is ahead of the other.
LEMMA AheadIs ==
  ASSUME NEW M \in Nat \ {0}, NEW p \in 0 .. M - 1, NEW c \in 0 .. M - 1
  PROVE  /\ Ahead(p, c, M) = IF c <= p THEN p - c ELSE p + M - c
         /\ Ahead(p, c, M) \in 0 .. M - 1
<1> DEFINE a == p + M - c
           z == a % M
<1>1. a \in Nat /\ a < M + M
  OBVIOUS
<1>2. z = IF a < M THEN a ELSE a - M
  <2> HIDE DEF a
  <2> QED
    BY <1>1, WrapOnce
<1>3. Ahead(p, c, M) = z
  BY DEF Ahead
<1> HIDE DEF z
<1>4. z = (IF c <= p THEN p - c ELSE p + M - c) /\ z \in 0 .. M - 1
  BY <1>2
<1> QED
  BY <1>3, <1>4

\* The distance grows with the one index, until all is full.
LEMMA AheadPut ==
  ASSUME NEW M \in Nat \ {0}, NEW p \in 0 .. M - 1, NEW c \in 0 .. M - 1,
         Ahead(p, c, M) + 1 < M
  PROVE  Ahead((p + 1) % M, c, M) = Ahead(p, c, M) + 1
<1> DEFINE z == (p + 1) % M
           n == Ahead(p, c, M)
           m == Ahead(z, c, M)
<1>1. z = (IF p + 1 = M THEN 0 ELSE p + 1) /\ z \in 0 .. M - 1
  BY NextIs
<1> HIDE DEF z
<1>2. n = (IF c <= p THEN p - c ELSE p + M - c) /\ m = (IF c <= z THEN z - c ELSE z + M - c)
  BY <1>1, AheadIs
<1>3. n + 1 < M
  OBVIOUS
<1> HIDE DEF n, m
<1>4. m = n + 1
  BY <1>1, <1>2, <1>3
<1> QED
  BY <1>4 DEF m, n, z

\* It shrinks with the other, until all is empty.
LEMMA AheadTake ==
  ASSUME NEW M \in Nat \ {0}, NEW p \in 0 .. M - 1, NEW c \in 0 .. M - 1,
         Ahead(p, c, M) # 0
  PROVE  Ahead(p, (c + 1) % M, M) = Ahead(p, c, M) - 1
<1> DEFINE z == (c + 1) % M
           n == Ahead(p, c, M)
           m == Ahead(p, z, M)
<1>1. z = (IF c + 1 = M THEN 0 ELSE c + 1) /\ z \in 0 .. M - 1
  BY NextIs
<1> HIDE DEF z
<1>2. n = (IF c <= p THEN p - c ELSE p + M - c) /\ m = (IF z <= p THEN p - z ELSE p + M - z)
  BY <1>1, AheadIs
<1>3. n # 0
  OBVIOUS
<1> HIDE DEF n, m
<1>4. m = n - 1
  BY <1>1, <1>2, <1>3
<1> QED
  BY <1>4 DEF m, n, z

\* The two indices are the same when the ring is empty.
LEMMA AheadNone ==
  ASSUME NEW M \in Nat \ {0}, NEW p \in 0 .. M - 1, NEW c \in 0 .. M - 1
  PROVE  Ahead(p, c, M) = 0 <=> p = c
<1> DEFINE n == Ahead(p, c, M)
<1>1. n = IF c <= p THEN p - c ELSE p + M - c
  BY AheadIs
<1> HIDE DEF n
<1>2. n = 0 <=> p = c
  BY <1>1
<1> QED
  BY <1>2 DEF n

\* The next step would make them the same when the ring is full.
LEMMA AheadAll ==
  ASSUME NEW M \in Nat \ {0}, NEW p \in 0 .. M - 1, NEW c \in 0 .. M - 1
  PROVE  Ahead(p, c, M) = M - 1 <=> (p + 1) % M = c
<1> DEFINE n == Ahead(p, c, M)
           z == (p + 1) % M
<1>1. n = IF c <= p THEN p - c ELSE p + M - c
  BY AheadIs
<1>2. z = IF p + 1 = M THEN 0 ELSE p + 1
  BY NextIs
<1> HIDE DEF n, z
<1>3. n = M - 1 <=> z = c
  BY <1>1, <1>2
<1> QED
  BY <1>3 DEF n, z

-----------------------------------------------------------------------------
\* A place of the ring, without the wrap of the index.
LEMMA SlotIs ==
  ASSUME NEW M, NEW S, IsRing(M, S), NEW c \in 0 .. M - 1, NEW k \in 1 .. M
  PROVE  Slot(c, k, M, S) = (c + k - 1) % S /\ Slot(c, k, M, S) \in 0 .. S - 1
<1> DEFINE a == c + k - 1
           w == a % M
           b == a - M
<1>1. M \in Nat \ {0} /\ S \in Nat \ {0} /\ M % S = 0
  BY DEF IsRing
<1>2. a \in Nat /\ a < M + M
  BY <1>1
<1>3. Slot(c, k, M, S) = w % S
  BY DEF Slot
<1> HIDE DEF a
<1>4. w = IF a < M THEN a ELSE b
  BY <1>1, <1>2, WrapOnce
<1>5. w % S = a % S
  <2>1. CASE a < M
    BY <1>4, <2>1
  <2>2. CASE ~(a < M)
    <3>1. b \in Nat /\ a = b + M /\ w = b
      BY <1>1, <1>2, <1>4, <2>2
    <3> HIDE DEF b, w
    <3>2. (b + M) % S = b % S
      BY <1>1, <3>1, Around
    <3> QED
      BY <3>1, <3>2
  <2> QED
    BY <2>1, <2>2
<1>6. a % S \in 0 .. S - 1
  BY <1>1, <1>2, Divided
<1> QED
  BY <1>3, <1>5, <1>6 DEF a

\* Where the next thing is put, and that nothing is there.
LEMMA SlotPut ==
  ASSUME NEW M, NEW S, IsRing(M, S), NEW p \in 0 .. M - 1, NEW c \in 0 .. M - 1,
         NEW n, n = Ahead(p, c, M), n < S
  PROVE  /\ Slot(c, n + 1, M, S) = p % S /\ p % S \in 0 .. S - 1
         /\ \A k \in 1 .. n : Slot(c, k, M, S) # p % S
<1>0. M \in Nat \ {0} /\ S \in Nat \ {0} /\ M % S = 0 /\ S <= M
  BY DEF IsRing
<1>1. /\ M \in Nat \ {0} /\ S \in Nat \ {0} /\ M % S = 0 /\ S <= M
      /\ n = (IF c <= p THEN p - c ELSE p + M - c) /\ n \in 0 .. M - 1
  <2>1. M \in Nat \ {0}
    BY <1>0
  <2>2. /\ Ahead(p, c, M) = IF c <= p THEN p - c ELSE p + M - c
        /\ Ahead(p, c, M) \in 0 .. M - 1
    BY <2>1, AheadIs
  <2> QED
    BY <1>0, <2>2
<1>2. Slot(c, n + 1, M, S) = (c + (n + 1) - 1) % S
  <2>1. n + 1 \in 1 .. M
    BY <1>1
  <2> QED
    BY <2>1, SlotIs
<1> DEFINE a == c + n
<1>3. a \in Nat /\ c + (n + 1) - 1 = a /\ a = IF c <= p THEN p ELSE p + M
  BY <1>1
<1>4. a % S = p % S
  <2> HIDE DEF a
  <2>1. p \in Nat
    BY <1>1
  <2>2. (p + M) % S = p % S
    BY <1>1, <2>1, Around
  <2> QED
    BY <1>3, <2>2
<1>5. ASSUME NEW k \in 1 .. n
      PROVE  Slot(c, k, M, S) # p % S
  <2> DEFINE b == c + k - 1
  <2>1. k \in 1 .. M /\ b \in Nat /\ b < a /\ a < b + S
    BY <1>1
  <2>2. Slot(c, k, M, S) = b % S
    BY <2>1, SlotIs
  <2> HIDE DEF a, b
  <2>3. b % S # a % S
    BY <1>1, <1>3, <2>1, Apart
  <2> QED
    BY <1>4, <2>2, <2>3
<1>6. p % S \in 0 .. S - 1
  BY <1>1, Divided
<1> QED
  BY <1>2, <1>3, <1>4, <1>5, <1>6

\* When the first is taken the others move up.
LEMMA SlotTake ==
  ASSUME NEW M, NEW S, IsRing(M, S), NEW c \in 0 .. M - 1, NEW k \in 1 .. M - 1
  PROVE  Slot((c + 1) % M, k, M, S) = Slot(c, k + 1, M, S)
<1> DEFINE z == (c + 1) % M
           a == z + k - 1
           b == c + (k + 1) - 1
<1>1. M \in Nat \ {0} /\ S \in Nat \ {0} /\ M % S = 0
  BY DEF IsRing
<1>2. z = (IF c + 1 = M THEN 0 ELSE c + 1) /\ z \in 0 .. M - 1
  BY <1>1, NextIs
<1>3. k \in 1 .. M /\ k + 1 \in 1 .. M
  BY <1>1
<1>4. Slot(c, k + 1, M, S) = b % S
  BY <1>3, SlotIs
<1> HIDE DEF z
<1>5. Slot(z, k, M, S) = a % S
  BY <1>2, <1>3, SlotIs
<1>6. a \in Nat /\ b = IF c + 1 = M THEN a + M ELSE a
  BY <1>1, <1>2
<1> HIDE DEF a, b
<1>7. (a + M) % S = a % S
  BY <1>1, <1>6, Around
<1>8. a % S = b % S
  BY <1>6, <1>7
<1> QED
  BY <1>4, <1>5, <1>8 DEF z

-----------------------------------------------------------------------------
(* Sequences *)

\* A function on the first n numbers is a sequence.
LEMMA IsSequence ==
  ASSUME NEW X, NEW n \in Nat, NEW s \in [1 .. n -> X]
  PROVE  s \in Seq(X) /\ Len(s) = n
<1>1. s \in Seq(X)
  BY SeqDef
<1>2. Len(s) \in Nat /\ DOMAIN s = 1 .. Len(s)
  BY <1>1, LenProperties
<1>3. 1 .. Len(s) = 1 .. n
  BY <1>2
<1> DEFINE l == Len(s)
<1>4. l \in Nat /\ 1 .. l = 1 .. n
  BY <1>2, <1>3
<1> HIDE DEF l
<1>5. l = n
  BY <1>4
<1> QED
  BY <1>1, <1>5 DEF l

\* A ring's array and its two indices, and the sequence it holds.
RingOf(r, p, c, M, S, X) ==
  IsRing(M, S) /\ p \in 0 .. M - 1 /\ c \in 0 .. M - 1 /\ r \in [0 .. S - 1 -> X]

Holds(s, n, r, c, M, S, X) ==
  s \in Seq(X) /\ Len(s) = n /\ \A k \in 1 .. n : s[k] = r[Slot(c, k, M, S)]

\* What a ring holds, and how much.
LEMMA ContentsIs ==
  ASSUME NEW X, NEW M, NEW S, NEW p, NEW c, NEW r, RingOf(r, p, c, M, S, X)
  PROVE  Holds(Contents(r, p, c, M, S), Ahead(p, c, M), r, c, M, S, X)
<1> DEFINE s == Contents(r, p, c, M, S)
           n == Ahead(p, c, M)
<1>1. /\ IsRing(M, S) /\ p \in 0 .. M - 1 /\ c \in 0 .. M - 1 /\ r \in [0 .. S - 1 -> X]
      /\ M \in Nat \ {0}
  BY DEF IsRing, RingOf
<1>2. n \in 0 .. M - 1
  BY <1>1, AheadIs
<1>3. s = [k \in 1 .. n |-> r[Slot(c, k, M, S)]]
  BY DEF Contents
<1> HIDE DEF s, n
<1>4. ASSUME NEW k \in 1 .. n
      PROVE  r[Slot(c, k, M, S)] \in X
  <2>1. k \in 1 .. M
    BY <1>1, <1>2
  <2>2. Slot(c, k, M, S) \in 0 .. S - 1
    BY <1>1, <2>1, SlotIs
  <2> QED
    BY <1>1, <2>2
<1>5. s \in [1 .. n -> X]
  BY <1>3, <1>4
<1>6. s \in Seq(X) /\ Len(s) = n
  BY <1>2, <1>5, IsSequence
<1> QED
  BY <1>2, <1>3, <1>6 DEF s, n, Holds

\* An index has stepped on; a place has been filled.
IsNext(z, a, M) == z = (a + 1) % M
IsPut(f, r, a, v, S) == f = [r EXCEPT ![a % S] = v]

\* To fill the next place is to append.
LEMMA ContentsPut ==
  ASSUME NEW X, NEW M, NEW S, NEW p, NEW c, NEW r, RingOf(r, p, c, M, S, X), NEW v \in X,
         Ahead(p, c, M) < S, Ahead(p, c, M) + 1 < M,
         NEW f, NEW z, IsPut(f, r, p, v, S), IsNext(z, p, M)
  PROVE  /\ RingOf(f, z, c, M, S, X)
         /\ Contents(f, z, c, M, S) = Append(Contents(r, p, c, M, S), v)
<1> USE DEF IsNext
<1> DEFINE n == Ahead(p, c, M)
           s == Contents(r, p, c, M, S)
           t == Contents(f, z, c, M, S)
           u == Append(s, v)
<1>1. /\ IsRing(M, S) /\ p \in 0 .. M - 1 /\ c \in 0 .. M - 1 /\ r \in [0 .. S - 1 -> X]
      /\ M \in Nat \ {0} /\ S \in Nat \ {0}
  BY DEF IsRing, RingOf
<1>2. z \in 0 .. M - 1 /\ n \in 0 .. M - 1
  BY <1>1, NextIs, AheadIs
<1>3. Ahead(z, c, M) = n + 1
  BY <1>1, AheadPut
<1>4. /\ Slot(c, n + 1, M, S) = p % S /\ p % S \in 0 .. S - 1
      /\ \A k \in 1 .. n : Slot(c, k, M, S) # p % S
  BY <1>1, SlotPut
<1>5. /\ f \in [0 .. S - 1 -> X] /\ f[p % S] = v
      /\ \A a \in 0 .. S - 1 : a # p % S => f[a] = r[a]
  BY <1>1, <1>4 DEF IsPut
<1>6. s \in Seq(X) /\ Len(s) = n /\ \A k \in 1 .. n : s[k] = r[Slot(c, k, M, S)]
  BY ContentsIs DEF Holds
<1> HIDE DEF s
<1>7. t \in Seq(X) /\ Len(t) = n + 1 /\ \A k \in 1 .. n + 1 : t[k] = f[Slot(c, k, M, S)]
  <2>1. RingOf(f, z, c, M, S, X)
    BY <1>1, <1>2, <1>5 DEF RingOf
  <2> QED
    BY <1>3, <2>1, ContentsIs DEF Holds
<1> HIDE DEF t, n
<1>8. /\ u \in Seq(X) /\ Len(u) = n + 1 /\ u[n + 1] = v
      /\ \A k \in 1 .. n : u[k] = s[k]
  BY <1>6, AppendProperties
<1> HIDE DEF u
<1>9. ASSUME NEW k \in 1 .. Len(t)
      PROVE  t[k] = u[k]
  <2>1. k \in 1 .. n + 1 /\ k \in 1 .. M
    BY <1>1, <1>2, <1>7
  <2>2. t[k] = f[Slot(c, k, M, S)] /\ Slot(c, k, M, S) \in 0 .. S - 1
    BY <1>1, <1>7, <2>1, SlotIs
  <2>3. CASE k = n + 1
    BY <1>4, <1>5, <1>8, <2>2, <2>3
  <2>4. CASE k # n + 1
    <3>1. k \in 1 .. n
      BY <1>2, <2>1, <2>4
    <3> QED
      BY <1>4, <1>5, <1>6, <1>8, <2>2, <3>1
  <2> QED
    BY <2>3, <2>4
<1>10. t = u
  BY <1>7, <1>8, <1>9, SeqEqual
<1> QED
  BY <1>1, <1>2, <1>5, <1>10 DEF t, u, s, RingOf

\* To empty the first place is to take the head.
LEMMA ContentsTake ==
  ASSUME NEW X, NEW M, NEW S, NEW p, NEW c, NEW r, RingOf(r, p, c, M, S, X), p # c,
         NEW z, IsNext(z, c, M)
  PROVE  /\ RingOf(r, p, z, M, S, X)
         /\ Contents(r, p, c, M, S) # <<>>
         /\ Head(Contents(r, p, c, M, S)) = r[c % S]
         /\ Contents(r, p, z, M, S) = Tail(Contents(r, p, c, M, S))
<1> USE DEF IsNext
<1> DEFINE n == Ahead(p, c, M)
           s == Contents(r, p, c, M, S)
           t == Contents(r, p, z, M, S)
           u == Tail(s)
<1>1. /\ IsRing(M, S) /\ p \in 0 .. M - 1 /\ c \in 0 .. M - 1 /\ r \in [0 .. S - 1 -> X]
      /\ M \in Nat \ {0} /\ S \in Nat \ {0}
  BY DEF IsRing, RingOf
<1>2. z \in 0 .. M - 1 /\ n \in 0 .. M - 1 /\ n # 0
  <2>1. z \in 0 .. M - 1
    BY <1>1, NextIs
  <2>2. n \in 0 .. M - 1
    BY <1>1, AheadIs
  <2>3. n # 0
    BY <1>1, AheadNone
  <2> QED
    BY <2>1, <2>2, <2>3
<1>3. Ahead(p, z, M) = n - 1
  BY <1>1, <1>2, AheadTake
<1>4. s \in Seq(X) /\ Len(s) = n /\ \A k \in 1 .. n : s[k] = r[Slot(c, k, M, S)]
  BY ContentsIs DEF Holds
<1> HIDE DEF s
<1>5. t \in Seq(X) /\ Len(t) = n - 1 /\ \A k \in 1 .. n - 1 : t[k] = r[Slot(z, k, M, S)]
  <2>1. RingOf(r, p, z, M, S, X)
    BY <1>1, <1>2 DEF RingOf
  <2> QED
    BY <1>3, <2>1, ContentsIs DEF Holds
<1>6. \A k \in 1 .. n - 1 : Slot(z, k, M, S) = Slot(c, k + 1, M, S)
  <2>1. \A k \in 1 .. M - 1 : Slot(z, k, M, S) = Slot(c, k + 1, M, S)
    BY <1>1, SlotTake
  <2> QED
    BY <1>1, <1>2, <2>1
<1> HIDE DEF t, n
<1>7. s # <<>> /\ Head(s) = s[1]
  BY <1>2, <1>4
<1>8. u \in Seq(X) /\ Len(u) = n - 1 /\ \A k \in 1 .. n - 1 : u[k] = s[k + 1]
  BY <1>4, <1>7, HeadTailProperties
<1> HIDE DEF u
<1>9. ASSUME NEW k \in 1 .. Len(t)
      PROVE  t[k] = u[k]
  <2>1. k \in 1 .. n - 1 /\ k + 1 \in 1 .. n
    BY <1>1, <1>2, <1>5
  <2> QED
    BY <1>4, <1>5, <1>6, <1>8, <2>1
<1>10. t = u
  BY <1>5, <1>8, <1>9, SeqEqual
<1>11. s[1] = r[c % S]
  <2>1. 1 \in 1 .. n /\ 1 \in 1 .. M
    BY <1>1, <1>2
  <2>2. Slot(c, 1, M, S) = (c + 1 - 1) % S /\ c + 1 - 1 = c
    BY <1>1, <2>1, SlotIs
  <2> QED
    BY <1>4, <2>1, <2>2
<1> QED
  BY <1>1, <1>2, <1>7, <1>10, <1>11 DEF t, u, s, RingOf

-----------------------------------------------------------------------------
(***************************************************************************)
(* The state.  The indices stay in their ranges; what the thread has taken *)
(* out of the keyboard's buffer is there until begin moves; a carriage     *)
(* return follows a new line only; what is stored is not a character that  *)
(* is skipped; and a line that is being read has room and no new line.     *)
(***************************************************************************)
Byte == Char \cup {"nl", "cr", "nul"}

\* xencons_rx gives the keyboard a new line for a carriage return.
Lined(c) == IF c = "cr" THEN "nl" ELSE c
Translated == [k \in 0 .. InSize - 1 |-> Lined(ring_in[k])]

\* What the three rings hold.
Kept == Contents(scancode_buffer, end, begin, KeySize, KeySize)
Arrived == Contents(Translated, in_prod, in_cons, InModulus, InSize)
Sent == Contents(ring_out, out_prod, out_cons, OutModulus, OutSize)

RingsOK ==
  /\ ring_in \in [0 .. InSize - 1 -> Byte]
  /\ RingOf(Translated, in_prod, in_cons, InModulus, InSize, Byte)
  /\ RingOf(ring_out, out_prod, out_cons, OutModulus, OutSize, Byte)
  /\ RingOf(scancode_buffer, end, begin, KeySize, KeySize, Byte)

ThreadOK ==
  /\ pc \in {"user", "empty", "took", "have", "return", "store", "getchar", "got"}
  /\ ch \in Byte /\ i \in 0 .. Size - 1 /\ buf \in [0 .. Size - 1 -> Byte]

TakesFirst == pc \in {"took", "got"} => begin # end /\ ch = scancode_buffer[begin]

StoresOnly ==
  /\ pc = "return" => ch = "nl"
  /\ pc = "store" => ch # "ff" /\ (ch = "bs" => i # 0)

ReadsOn == Reading => i < Size - 1 /\ \A k \in 0 .. i - 1 : buf[k] # "nl"

IInv == RingsOK /\ ThreadOK /\ TakesFirst /\ StoresOnly /\ ReadsOn

\* The sizes: a ring's indices wrap far beyond its end, the keyboard's at it.
LEMMA RingsAre ==
  /\ InSize \in Nat \ {0} /\ OutSize \in Nat \ {0} /\ KeySize \in Nat /\ Size \in Nat
  /\ InModulus \in Nat \ {0} /\ OutModulus \in Nat \ {0}
  /\ InSize < InModulus /\ OutSize < OutModulus /\ KeySize > 1 /\ Size > 1
  /\ IsRing(InModulus, InSize) /\ IsRing(OutModulus, OutSize) /\ IsRing(KeySize, KeySize)
<1>1. /\ InSize \in Nat \ {0} /\ OutSize \in Nat \ {0} /\ KeySize \in Nat \ {0} /\ Size \in Nat
      /\ InModulus \in Nat \ {0} /\ OutModulus \in Nat \ {0} /\ KeySize > 1 /\ Size > 1
      /\ InModulus % (2 * InSize) = 0 /\ OutModulus % (2 * OutSize) = 0
  BY ConsoleIOAssumption
<1>2. ASSUME NEW S \in Nat \ {0}, NEW M \in Nat \ {0}, M % (2 * S) = 0
      PROVE  M % S = 0 /\ S < M
  <2>1. M % S = 0
    BY <1>2, Half
  <2> DEFINE T == 2 * S
  <2>2. T \in Nat \ {0} /\ M % T = 0 /\ S < T
    BY <1>2
  <2> HIDE DEF T
  <2>3. T <= M
    BY <1>2, <2>2
  <2> QED
    BY <2>1, <2>2, <2>3
<1>3. InModulus % InSize = 0 /\ InSize < InModulus
  BY <1>1, <1>2
<1>4. OutModulus % OutSize = 0 /\ OutSize < OutModulus
  BY <1>1, <1>2
<1>5. KeySize % KeySize = 0
  BY <1>1
<1> QED
  BY <1>1, <1>3, <1>4, <1>5 DEF IsRing

\* An index of the keyboard's buffer is a place of it.
LEMMA SmallRest ==
  ASSUME NEW S \in Nat \ {0}, NEW a \in 0 .. S - 1
  PROVE  a % S = a
OBVIOUS

SequencesSame == Received = Arrived /\ Written = Sent /\ Typed = Kept \o Arrived

\* The sequences of the refinement are what the rings hold.
LEMMA SequencesAre == RingsOK => SequencesSame
<1> SUFFICES ASSUME RingsOK PROVE SequencesSame
  OBVIOUS
<1>1. /\ in_cons \in 0 .. InModulus - 1 /\ in_prod \in 0 .. InModulus - 1
      /\ out_cons \in 0 .. OutModulus - 1 /\ out_prod \in 0 .. OutModulus - 1
      /\ begin \in 0 .. KeySize - 1 /\ end \in 0 .. KeySize - 1 /\ KeySize \in Nat \ {0}
  BY RingsAre DEF RingsOK, RingOf
<1>2. Received = Arrived
  <2> DEFINE n == Ahead(in_prod, in_cons, InModulus)
  <2>1. n = InCount
    BY DEF InCount, Ahead
  <2>2. n \in 0 .. InModulus - 1
    BY <1>1, RingsAre, AheadIs
  <2> HIDE DEF n
  <2>3. ASSUME NEW k \in 1 .. n
        PROVE  /\ Slot(in_cons, k, InModulus, InSize) \in 0 .. InSize - 1
               /\ Translated[Slot(in_cons, k, InModulus, InSize)]
                    = Lined(ring_in[Slot(in_cons, k, InModulus, InSize)])
    <3>1. k \in 1 .. InModulus
      BY <2>2, RingsAre
    <3>2. Slot(in_cons, k, InModulus, InSize) \in 0 .. InSize - 1
      BY <1>1, <3>1, RingsAre, SlotIs
    <3> QED
      BY <3>2 DEF Translated
  <2>4. Received = [k \in 1 .. n |-> Lined(ring_in[Slot(in_cons, k, InModulus, InSize)])]
    BY <2>1 DEF Received, Lined, Slot
  <2>5. Arrived = [k \in 1 .. n |-> Translated[Slot(in_cons, k, InModulus, InSize)]]
    BY DEF Arrived, Contents, n
  <2> QED
    BY <2>3, <2>4, <2>5
<1>3. Written = Sent
  BY DEF Written, Sent, Contents, OutCount, Ahead, Slot
<1>4. Typed = Kept \o Arrived
  <2> DEFINE n == Ahead(end, begin, KeySize)
             s == [k \in 1 .. n |-> scancode_buffer[(begin + k - 1) % KeySize]]
  <2>1. n \in 0 .. KeySize - 1
    BY <1>1, AheadIs
  <2>2. Typed = s \o Received
    BY DEF Typed, Ahead
  <2>3. Kept = [k \in 1 .. n |-> scancode_buffer[Slot(begin, k, KeySize, KeySize)]]
    BY DEF Kept, Contents
  <2> HIDE DEF n
  <2>4. ASSUME NEW k \in 1 .. n
        PROVE  Slot(begin, k, KeySize, KeySize) = (begin + k - 1) % KeySize
    <3>1. k \in 1 .. KeySize
      BY <2>1, <1>1
    <3> QED
      BY <1>1, <3>1, RingsAre, SlotIs
  <2>5. Kept = s
    BY <2>3, <2>4
  <2> QED
    BY <1>2, <2>2, <2>5
<1> QED
  BY <1>2, <1>3, <1>4 DEF SequencesSame

\* The same after a step.
LEMMA SequencesPrimed == RingsOK' => SequencesSame'
BY SequencesAre, PTL

\* They are sequences of bytes.
LEMMA SequencesTyped ==
  ASSUME RingsOK
  PROVE  /\ Kept \in Seq(Byte) /\ Arrived \in Seq(Byte) /\ Sent \in Seq(Byte)
         /\ Len(Kept) = Ahead(end, begin, KeySize) /\ Len(Kept) \in 0 .. KeySize - 1
         /\ Len(Arrived) = InCount /\ InCount \in Nat
         /\ Len(Sent) = OutCount /\ OutCount \in Nat
<1>1. /\ RingOf(Translated, in_prod, in_cons, InModulus, InSize, Byte)
      /\ RingOf(ring_out, out_prod, out_cons, OutModulus, OutSize, Byte)
      /\ RingOf(scancode_buffer, end, begin, KeySize, KeySize, Byte)
  BY DEF RingsOK
<1>2. Arrived \in Seq(Byte) /\ Len(Arrived) = InCount
  BY <1>1, ContentsIs DEF Arrived, Holds, Ahead, InCount
<1>3. Sent \in Seq(Byte) /\ Len(Sent) = OutCount
  BY <1>1, ContentsIs DEF Sent, Holds, Ahead, OutCount
<1>4. Kept \in Seq(Byte) /\ Len(Kept) = Ahead(end, begin, KeySize)
  BY <1>1, ContentsIs DEF Kept, Holds
<1>5. Ahead(end, begin, KeySize) \in 0 .. KeySize - 1
  <2>1. KeySize \in Nat \ {0}
    BY RingsAre
  <2>2. begin \in 0 .. KeySize - 1 /\ end \in 0 .. KeySize - 1
    BY <1>1 DEF RingOf
  <2> QED
    BY <2>1, <2>2, AheadIs
<1>6. Len(Arrived) \in Nat /\ Len(Sent) \in Nat
  BY <1>2, <1>3, LenProperties
<1> QED
  BY <1>2, <1>3, <1>4, <1>5, <1>6

-----------------------------------------------------------------------------
(* What the steps do to the rings *)

\* A ring nothing is done to.
LEMMA SameIn ==
  ASSUME RingsOK, UNCHANGED <<ring_in, in_cons, in_prod>>
  PROVE  /\ ring_in' \in [0 .. InSize - 1 -> Byte] /\ Arrived' = Arrived
         /\ RingOf(Translated, in_prod, in_cons, InModulus, InSize, Byte)'
<1>1. Translated' = Translated
  BY DEF Translated
<1> QED
  BY <1>1 DEF RingsOK, RingOf, Arrived

\* The same for the ring of output.
LEMMA SameOut ==
  ASSUME RingsOK, UNCHANGED <<ring_out, out_cons, out_prod>>
  PROVE  RingOf(ring_out, out_prod, out_cons, OutModulus, OutSize, Byte)' /\ Sent' = Sent
BY DEF RingsOK, RingOf, Sent

\* The same for the keyboard's buffer.
LEMMA SameKeys ==
  ASSUME RingsOK, UNCHANGED keys
  PROVE  RingOf(scancode_buffer, end, begin, KeySize, KeySize, Byte)' /\ Kept' = Kept
BY DEF RingsOK, RingOf, Kept, keys

\* A step that leaves all three alone.
LEMMA SameRings ==
  ASSUME RingsOK, UNCHANGED rings, UNCHANGED keys
  PROVE  RingsOK' /\ Arrived' = Arrived /\ Sent' = Sent /\ Kept' = Kept
BY SameIn, SameOut, SameKeys DEF rings, RingsOK

\* The daemon appends to the ring of input.
LEMMA TypeEffect ==
  ASSUME RingsOK, NEW c \in Char, Type(c)
  PROVE  /\ RingsOK' /\ Kept' = Kept /\ Sent' = Sent
         /\ Arrived' = Arrived \/ Arrived' = Append(Arrived, Lined(c))
<1>1. UNCHANGED <<ring_out, out_cons, out_prod, keys, in_cons>>
  BY DEF Type
<1>2. /\ RingOf(ring_out, out_prod, out_cons, OutModulus, OutSize, Byte)' /\ Sent' = Sent
      /\ RingOf(scancode_buffer, end, begin, KeySize, KeySize, Byte)' /\ Kept' = Kept
  BY <1>1, SameOut, SameKeys
<1>3. CASE InCount < InSize
  <2> DEFINE f == [Translated EXCEPT ![in_prod % InSize] = Lined(c)]
             z == (in_prod + 1) % InModulus
  <2>1. ring_in' = [ring_in EXCEPT ![in_prod % InSize] = c] /\ in_prod' = z
    BY <1>3 DEF Type
  <2>2. RingOf(Translated, in_prod, in_cons, InModulus, InSize, Byte)
    BY DEF RingsOK
  <2>3. Ahead(in_prod, in_cons, InModulus) = InCount
    BY DEF InCount, Ahead
  <2>4. InCount + 1 < InModulus
    BY <1>3, RingsAre, SequencesTyped
  <2>5. Lined(c) \in Byte /\ c \in Byte
    BY DEF Lined, Byte
  <2>6. IsPut(f, Translated, in_prod, Lined(c), InSize) /\ IsNext(z, in_prod, InModulus)
    BY DEF IsPut, IsNext
  <2>7. Translated' = f
    BY <2>1 DEF Translated, RingsOK
  <2> HIDE DEF f, z
  <2>8. /\ RingOf(f, z, in_cons, InModulus, InSize, Byte)
        /\ Contents(f, z, in_cons, InModulus, InSize) = Append(Arrived, Lined(c))
    BY <1>3, <2>2, <2>3, <2>4, <2>5, <2>6, ContentsPut DEF Arrived
  <2>9. ring_in' \in [0 .. InSize - 1 -> Byte]
    BY <1>3, <2>5 DEF RingsOK, Type
  <2>10. /\ RingOf(Translated, in_prod, in_cons, InModulus, InSize, Byte)'
        /\ Arrived' = Append(Arrived, Lined(c))
    BY <1>1, <2>1, <2>8, <2>7 DEF RingOf, Arrived
  <2> QED
    BY <1>2, <2>9, <2>10 DEF RingsOK
<1>4. CASE ~(InCount < InSize)
  <2>1. UNCHANGED <<ring_in, in_cons, in_prod>>
    BY <1>4 DEF Type
  <2> QED
    BY <1>2, <2>1, SameIn DEF RingsOK
<1> QED
  BY <1>3, <1>4

\* The daemon takes from the ring of output.
LEMMA ShowEffect ==
  ASSUME RingsOK, Show
  PROVE  RingsOK' /\ Kept' = Kept /\ Arrived' = Arrived /\ Sent # <<>> /\ Sent' = Tail(Sent)
<1>1. /\ UNCHANGED <<ring_out, out_prod, ring_in, in_cons, in_prod, keys>>
      /\ out_prod # out_cons /\ out_cons' = (out_cons + 1) % OutModulus
  BY DEF Show
<1>2. RingOf(ring_out, out_prod, out_cons, OutModulus, OutSize, Byte)
  BY DEF RingsOK
<1> DEFINE z == (out_cons + 1) % OutModulus
<1>3. out_cons' = z /\ IsNext(z, out_cons, OutModulus)
  BY <1>1 DEF IsNext
<1> HIDE DEF z
<1>4. /\ RingOf(ring_out, out_prod, z, OutModulus, OutSize, Byte)
      /\ Sent # <<>> /\ Contents(ring_out, out_prod, z, OutModulus, OutSize) = Tail(Sent)
  BY <1>1, <1>2, <1>3, ContentsTake DEF Sent
<1>5. RingOf(ring_out, out_prod, out_cons, OutModulus, OutSize, Byte)' /\ Sent' = Tail(Sent)
  BY <1>1, <1>4, <1>3 DEF RingOf, Sent
<1> QED
  BY <1>1, <1>4, <1>5, SameIn, SameKeys DEF RingsOK

\* The thread appends to the ring of output, unless it is full.
LEMMA SendEffect ==
  ASSUME RingsOK, NEW c \in Byte, Send(c), UNCHANGED <<ring_in, in_cons, in_prod, out_cons, keys>>
  PROVE  /\ RingsOK' /\ Kept' = Kept /\ Arrived' = Arrived
         /\ Sent' = IF Len(Sent) < OutSize THEN Append(Sent, c) ELSE Sent
<1>1. Len(Sent) = OutCount
  BY SequencesTyped
<1>2. CASE OutCount < OutSize
  <2> DEFINE f == [ring_out EXCEPT ![out_prod % OutSize] = c]
             z == (out_prod + 1) % OutModulus
  <2>1. ring_out' = f /\ out_prod' = z
    BY <1>2 DEF Send
  <2>2. RingOf(ring_out, out_prod, out_cons, OutModulus, OutSize, Byte)
    BY DEF RingsOK
  <2>3. Ahead(out_prod, out_cons, OutModulus) = OutCount
    BY DEF OutCount, Ahead
  <2>4. OutCount + 1 < OutModulus
    BY <1>2, RingsAre, SequencesTyped
  <2>5. IsPut(f, ring_out, out_prod, c, OutSize) /\ IsNext(z, out_prod, OutModulus)
    BY DEF IsPut, IsNext
  <2> HIDE DEF f, z
  <2>6. /\ RingOf(f, z, out_cons, OutModulus, OutSize, Byte)
        /\ Contents(f, z, out_cons, OutModulus, OutSize) = Append(Sent, c)
    BY <1>2, <2>2, <2>3, <2>4, <2>5, ContentsPut DEF Sent
  <2>7. /\ RingOf(ring_out, out_prod, out_cons, OutModulus, OutSize, Byte)'
        /\ Sent' = Append(Sent, c)
    BY <2>1, <2>6 DEF RingOf, Sent
  <2> QED
    BY <1>1, <1>2, <2>7, SameIn, SameKeys DEF RingsOK
<1>3. CASE ~(OutCount < OutSize)
  <2>1. UNCHANGED <<ring_out, out_cons, out_prod>>
    BY <1>3 DEF Send
  <2> QED
    BY <1>1, <1>3, <2>1, SameIn, SameOut, SameKeys DEF RingsOK
<1> QED
  BY <1>2, <1>3

\* The thread takes from the keyboard's buffer.
LEMMA AdvanceEffect ==
  ASSUME RingsOK, NEW from, NEW to, Advance(from, to), begin # end
  PROVE  /\ RingsOK' /\ Arrived' = Arrived /\ Sent' = Sent
         /\ Kept # <<>> /\ Head(Kept) = scancode_buffer[begin] /\ Kept' = Tail(Kept)
<1>1. UNCHANGED <<rings, scancode_buffer, end>> /\ begin' = (begin + 1) % KeySize
  BY DEF Advance, NEXTLOC
<1>2. RingOf(scancode_buffer, end, begin, KeySize, KeySize, Byte)
  BY DEF RingsOK
<1>3. begin % KeySize = begin
  BY <1>2, RingsAre, SmallRest DEF RingOf
<1> DEFINE z == (begin + 1) % KeySize
<1>4. begin' = z /\ IsNext(z, begin, KeySize)
  BY <1>1 DEF IsNext
<1> HIDE DEF z
<1>5. /\ RingOf(scancode_buffer, end, z, KeySize, KeySize, Byte)
      /\ Kept # <<>> /\ Head(Kept) = scancode_buffer[begin % KeySize]
      /\ Contents(scancode_buffer, end, z, KeySize, KeySize) = Tail(Kept)
  BY <1>2, <1>4, ContentsTake DEF Kept
<1>6. /\ RingOf(scancode_buffer, end, begin, KeySize, KeySize, Byte)'
      /\ Kept' = Tail(Kept)
  BY <1>1, <1>5, <1>4 DEF RingOf, Kept
<1> QED
  BY <1>1, <1>3, <1>5, <1>6, SameIn, SameOut DEF RingsOK, rings

-----------------------------------------------------------------------------
(***************************************************************************)
(* handle_input.  After n characters the keyboard's buffer holds the first *)
(* KeySize - 1, at most, of what it has held and of what has arrived.      *)
(***************************************************************************)
Adds(f, n) ==
  f = [k \in 0 .. n |-> IF k = 0 THEN [buffer |-> scancode_buffer, end |-> end]
                        ELSE AddScancode(f[k - 1], Received[k])]

\* The recursion of AddReceived has a value.
LEMMA AddsExist ==
  ASSUME NEW z \in Nat
  PROVE  \E f : Adds(f, z)
<1> DEFINE S == {n \in Nat : \E f : Adds(f, n)}
           first == [buffer |-> scancode_buffer, end |-> end]
<1>1. 0 \in S
  <2> DEFINE f == [n \in 0 .. 0 |-> first]
  <2>1. Adds(f, 0)
    BY DEF Adds
  <2> HIDE DEF f
  <2> QED
    BY <2>1
<1>2. ASSUME NEW n \in Nat, n \in S
      PROVE  n + 1 \in S
  <2>1. PICK f : Adds(f, n)
    BY <1>2
  <2> DEFINE x == AddScancode(f[n], Received[n + 1])
             g == [k \in 0 .. n + 1 |-> IF k = n + 1 THEN x ELSE f[k]]
  <2>2. \A k \in 0 .. n : f[k] = IF k = 0 THEN first ELSE AddScancode(f[k - 1], Received[k])
    BY <2>1 DEF Adds
  <2>3. g[n + 1] = x /\ \A k \in 0 .. n : g[k] = f[k]
    BY <1>2
  <2> HIDE DEF g, first
  <2>4. ASSUME NEW k \in 0 .. n + 1
        PROVE  g[k] = IF k = 0 THEN first ELSE AddScancode(g[k - 1], Received[k])
    <3>1. CASE k = n + 1
      <4>1. k # 0 /\ k - 1 = n /\ n \in 0 .. n
        BY <1>2, <3>1
      <4>2. g[k] = x /\ g[k - 1] = f[n]
        BY <2>3, <3>1, <4>1
      <4> QED
        BY <3>1, <4>1, <4>2
    <3>2. CASE k # n + 1
      <4>1. k \in 0 .. n /\ (k # 0 => k - 1 \in 0 .. n)
        BY <1>2, <3>2
      <4> QED
        BY <2>2, <2>3, <4>1
    <3> QED
      BY <3>1, <3>2
  <2>5. g = [k \in 0 .. n + 1 |-> g[k]]
    BY DEF g
  <2>6. Adds(g, n + 1)
    BY <2>4, <2>5 DEF Adds, first
  <2> QED
    BY <1>2, <2>6
<1> HIDE DEF S
<1>3. \A n \in Nat : n \in S
  BY <1>1, <1>2, AllNumbers
<1>4. z \in S
  BY <1>3
<1> QED
  BY <1>4 DEF S

\* The first n elements of s, as far as the keyboard's buffer has room.
FirstOf(u, s, n) ==
  /\ u \in Seq(Byte) /\ Len(u) = IF n < KeySize THEN n ELSE KeySize - 1
  /\ \A k \in 1 .. Len(u) : u[k] = s[k]

KeybOK(keyb, n) ==
  /\ RingOf(keyb.buffer, keyb.end, begin, KeySize, KeySize, Byte)
  /\ FirstOf(Contents(keyb.buffer, keyb.end, begin, KeySize, KeySize), Kept \o Arrived,
             Len(Kept) + n)

\* One character more.
LEMMA AddOne ==
  ASSUME RingsOK, NEW n \in 1 .. InCount, NEW keyb, KeybOK(keyb, n - 1)
  PROVE  KeybOK(AddScancode(keyb, Received[n]), n)
<1> DEFINE b == keyb.buffer
           e == keyb.end
           d == begin
           v == Received[n]
           s == Kept \o Arrived
           u == Contents(b, e, d, KeySize, KeySize)
           z == (e + 1) % KeySize
           f == [b EXCEPT ![e] = v]
           l == Len(Kept)
           N == l + (n - 1)
<1>1. /\ RingOf(b, e, d, KeySize, KeySize, Byte)
      /\ u \in Seq(Byte) /\ Len(u) = IF N < KeySize THEN N ELSE KeySize - 1
      /\ \A k \in 1 .. Len(u) : u[k] = s[k]
  BY DEF KeybOK, FirstOf
<1>2. /\ KeySize \in Nat \ {0} /\ n \in Nat \ {0} /\ l \in Nat
      /\ e \in 0 .. KeySize - 1 /\ d \in 0 .. KeySize - 1
  <2>1. KeySize \in Nat \ {0} /\ e \in 0 .. KeySize - 1 /\ d \in 0 .. KeySize - 1
    BY <1>1, RingsAre DEF RingOf
  <2>2. l \in Nat
    BY SequencesTyped, LenProperties
  <2>3. n \in Nat \ {0}
    BY SequencesTyped
  <2> QED
    BY <2>1, <2>2, <2>3
<1>3. v = Arrived[n] /\ v \in Byte /\ s[l + n] = v
  <2>1. /\ Received = Arrived /\ Kept \in Seq(Byte) /\ Arrived \in Seq(Byte)
        /\ Len(Arrived) = InCount /\ InCount \in Nat
    BY SequencesAre, SequencesTyped DEF SequencesSame
  <2>2. v \in Byte
    BY <2>1, ElementOfSeq
  <2>3. l + n \in 1 .. l + Len(Arrived) /\ ~(l + n <= l) /\ (l + n) - l = n
    BY <1>2, <2>1
  <2>4. s[l + n] = Arrived[n]
    BY <2>1, <2>3, ConcatProperties
  <2> QED
    BY <2>1, <2>2, <2>4
<1>4. Ahead(e, d, KeySize) = Len(u)
  BY <1>1, ContentsIs DEF Holds
<1>5. z = d <=> Len(u) = KeySize - 1
  BY <1>2, <1>4, AheadAll
<1>6. e % KeySize = e
  BY <1>2, SmallRest
<1>7. KeybOK(keyb, n) <=> /\ RingOf(b, e, d, KeySize, KeySize, Byte)
                          /\ FirstOf(u, s, l + n)
  BY DEF KeybOK
<1>8. AddScancode(keyb, v) = IF z = d THEN keyb ELSE [buffer |-> f, end |-> z]
  BY DEF AddScancode, NEXTLOC
<1>9. CASE z = d
  <2>1. Len(u) = IF l + n < KeySize THEN l + n ELSE KeySize - 1
    BY <1>1, <1>2, <1>5, <1>9
  <2>2. FirstOf(u, s, l + n)
    BY <1>1, <2>1 DEF FirstOf
  <2> QED
    BY <1>1, <1>7, <1>8, <1>9, <2>2
<1>10. CASE z # d
  <2> DEFINE w == Contents(f, z, d, KeySize, KeySize)
  <2>1. N < KeySize - 1 /\ Len(u) = N
    BY <1>1, <1>2, <1>5, <1>10
  <2>2. IsPut(f, b, e, v, KeySize) /\ IsNext(z, e, KeySize)
    BY <1>6 DEF IsPut, IsNext
  <2>3. Ahead(e, d, KeySize) < KeySize /\ Ahead(e, d, KeySize) + 1 < KeySize
    BY <1>2, <1>4, <2>1
  <2>4. RingOf(f, z, d, KeySize, KeySize, Byte) /\ w = Append(u, v)
    <3> HIDE DEF f, z, b, e, v, d
    <3> QED
      BY <1>1, <1>3, <2>2, <2>3, ContentsPut
  <2>5. KeybOK([buffer |-> f, end |-> z], n) <=> /\ RingOf(f, z, d, KeySize, KeySize, Byte)
                                                 /\ FirstOf(w, s, l + n)
    BY DEF KeybOK
  <2> HIDE DEF w, u, s, f, z, v, l, d
  <2>6. /\ w \in Seq(Byte) /\ Len(w) = Len(u) + 1 /\ w[Len(u) + 1] = v
        /\ \A k \in 1 .. Len(u) : w[k] = u[k]
    BY <1>1, <1>3, <2>4, AppendProperties
  <2>7. Len(w) = l + n /\ l + n < KeySize /\ Len(u) + 1 = l + n
    BY <1>2, <2>1, <2>6
  <2>8. ASSUME NEW k \in 1 .. Len(w)
        PROVE  w[k] = s[k]
    <3>1. CASE k = l + n
      BY <1>3, <2>6, <2>7, <3>1
    <3>2. CASE k # l + n
      <4>1. k \in 1 .. Len(u)
        BY <1>2, <2>7, <3>2
      <4> QED
        BY <1>1, <2>6, <4>1
    <3> QED
      BY <3>1, <3>2
  <2>9. FirstOf(w, s, l + n)
    BY <2>6, <2>7, <2>8 DEF FirstOf
  <2> QED
    BY <1>8, <1>10, <2>4, <2>5, <2>9 DEF v
<1> QED
  BY <1>9, <1>10

\* All of them.
LEMMA AddAll ==
  ASSUME RingsOK
  PROVE  KeybOK(AddReceived, InCount)
<1> DEFINE f == CHOOSE g : Adds(g, InCount)
           first == [buffer |-> scancode_buffer, end |-> end]
           S == {n \in Nat : n <= InCount => KeybOK(f[n], n)}
<1>1. InCount \in Nat
  BY SequencesTyped
<1>2. Adds(f, InCount)
  BY <1>1, AddsExist
<1>3. AddReceived = f[InCount]
  BY DEF AddReceived, Adds
<1> HIDE DEF f
<1>4. \A n \in 0 .. InCount : f[n] = IF n = 0 THEN first ELSE AddScancode(f[n - 1], Received[n])
  BY <1>2 DEF Adds
<1>5. 0 \in S
  <2>1. f[0] = first
    BY <1>1, <1>4
  <2>2. first.buffer = scancode_buffer /\ first.end = end
    OBVIOUS
  <2> HIDE DEF first
  <2>3. /\ Kept \in Seq(Byte) /\ Arrived \in Seq(Byte)
        /\ Len(Kept) \in 0 .. KeySize - 1 /\ KeySize \in Nat
    BY SequencesTyped, RingsAre
  <2>4. Len(Kept) + 0 = Len(Kept) /\ Len(Kept) < KeySize
    BY <2>3
  <2>5. ASSUME NEW k \in 1 .. Len(Kept)
        PROVE  Kept[k] = (Kept \o Arrived)[k]
    <3>1. Len(Arrived) \in Nat
      BY <2>3, LenProperties
    <3>2. k \in 1 .. Len(Kept) + Len(Arrived) /\ k <= Len(Kept)
      BY <2>3, <3>1
    <3> QED
      BY <2>3, <3>2, ConcatProperties
  <2>6. FirstOf(Kept, Kept \o Arrived, Len(Kept) + 0)
    BY <2>3, <2>4, <2>5 DEF FirstOf
  <2>7. KeybOK(first, 0)
    BY <2>2, <2>6 DEF KeybOK, Kept, RingsOK
  <2> QED
    BY <2>1, <2>7
<1>6. ASSUME NEW n \in Nat, n \in S
      PROVE  n + 1 \in S
  <2> SUFFICES ASSUME n + 1 <= InCount PROVE KeybOK(f[n + 1], n + 1)
    OBVIOUS
  <2> DEFINE m == n + 1
  <2>1. m \in 1 .. InCount /\ m \in 0 .. InCount /\ m # 0 /\ m - 1 = n /\ n <= InCount
    BY <1>1, <1>6
  <2>2. KeybOK(f[n], n)
    BY <1>6, <2>1
  <2> HIDE DEF m, first
  <2>3. f[m] = AddScancode(f[m - 1], Received[m])
    BY <1>4, <2>1
  <2>4. KeybOK(f[m - 1], m - 1)
    BY <2>1, <2>2
  <2>5. KeybOK(f[m], m)
    BY <2>1, <2>3, <2>4, AddOne
  <2> QED
    BY <2>5 DEF m
<1> HIDE DEF S
<1>7. \A n \in Nat : n \in S
  BY <1>5, <1>6, AllNumbers
<1>8. InCount \in S
  BY <1>1, <1>7
<1> QED
  BY <1>1, <1>3, <1>8 DEF S

\* The interrupt empties the ring of input into the keyboard's buffer.
LEMMA HandleEffect ==
  ASSUME RingsOK, handle_input
  PROVE  /\ RingsOK' /\ Sent' = Sent /\ Arrived' = <<>>
         /\ FirstOf(Kept', Kept \o Arrived, Len(Kept) + Len(Arrived))
<1> DEFINE keyb == AddReceived
<1>1. /\ scancode_buffer' = keyb.buffer /\ end' = keyb.end /\ in_cons' = in_prod
      /\ UNCHANGED <<ring_in, in_prod, ring_out, out_cons, out_prod, begin>>
  BY DEF handle_input
<1>2. KeybOK(keyb, InCount)
  BY AddAll
<1> HIDE DEF keyb
<1>3. RingOf(scancode_buffer, end, begin, KeySize, KeySize, Byte)'
  BY <1>1, <1>2 DEF KeybOK, RingOf
<1>4. Kept' = Contents(keyb.buffer, keyb.end, begin, KeySize, KeySize)
  BY <1>1 DEF Kept
<1>5. FirstOf(Kept', Kept \o Arrived, Len(Kept) + Len(Arrived))
  BY <1>2, <1>4, SequencesTyped DEF KeybOK
<1>6. RingOf(Translated, in_prod, in_cons, InModulus, InSize, Byte)'
  <2>1. Translated' = Translated
    BY <1>1 DEF Translated
  <2> QED
    BY <1>1, <2>1 DEF RingsOK, RingOf
<1>7. RingsOK' /\ Sent' = Sent
  BY <1>1, <1>3, <1>6, SameOut DEF RingsOK
<1>8. Arrived' = <<>>
  <2>1. in_prod \in 0 .. InModulus - 1 /\ InModulus \in Nat \ {0}
    BY RingsAre DEF RingsOK, RingOf
  <2>2. Ahead(in_prod, in_prod, InModulus) = 0
    BY <2>1, AheadNone
  <2>3. Ahead(in_prod', in_cons', InModulus) = 0
    BY <1>1, <2>2
  <2>4. Arrived' = [k \in 1 .. 0 |-> Translated'[Slot(in_cons', k, InModulus, InSize)]]
    BY <2>3 DEF Arrived, Contents
  <2> QED
    BY <2>4
<1> QED
  BY <1>5, <1>7, <1>8

\* The first of what the keyboard's buffer holds.
LEMMA FirstKept ==
  ASSUME RingsOK
  PROVE  /\ Kept = <<>> <=> begin = end
         /\ begin # end => Len(Kept) > 0 /\ Kept[1] = scancode_buffer[begin]
<1> DEFINE n == Ahead(end, begin, KeySize)
<1>1. /\ RingOf(scancode_buffer, end, begin, KeySize, KeySize, Byte)
      /\ KeySize \in Nat \ {0} /\ begin \in 0 .. KeySize - 1 /\ end \in 0 .. KeySize - 1
      /\ IsRing(KeySize, KeySize)
  BY RingsAre DEF RingsOK, RingOf
<1>2. /\ Kept \in Seq(Byte) /\ Len(Kept) = n /\ n \in 0 .. KeySize - 1
      /\ \A k \in 1 .. n : Kept[k] = scancode_buffer[Slot(begin, k, KeySize, KeySize)]
  BY <1>1, SequencesTyped, ContentsIs DEF Holds, Kept
<1>3. n = 0 <=> end = begin
  BY <1>1, AheadNone
<1>4. Kept = <<>> <=> n = 0
  BY <1>2, EmptySeq
<1>5. ASSUME n # 0
      PROVE  Kept[1] = scancode_buffer[begin]
  <2>1. 1 \in 1 .. n /\ 1 \in 1 .. KeySize
    BY <1>1, <1>2, <1>5
  <2>2. Slot(begin, 1, KeySize, KeySize) = (begin + 1 - 1) % KeySize
    BY <1>1, <2>1, SlotIs
  <2>3. begin + 1 - 1 = begin /\ begin % KeySize = begin
    BY <1>1, SmallRest
  <2> QED
    BY <1>2, <2>1, <2>2, <2>3
<1> HIDE DEF n
<1> QED
  BY <1>2, <1>3, <1>4, <1>5

FirstSame == /\ Kept = <<>> <=> begin = end
             /\ begin # end => Len(Kept) > 0 /\ Kept[1] = scancode_buffer[begin]

\* The same after a step.
LEMMA FirstPrimed == RingsOK' => FirstSame'
<1>1. RingsOK => FirstSame
  BY FirstKept DEF FirstSame
<1> QED
  BY <1>1, PTL

\* What the thread has taken stays the first while characters arrive.
LEMMA TakesFirstHandled ==
  ASSUME RingsOK, TakesFirst, handle_input
  PROVE  TakesFirst'
<1> SUFFICES ASSUME pc \in {"took", "got"}
             PROVE  begin' # end' /\ ch' = scancode_buffer'[begin']
  BY DEF TakesFirst, handle_input, reader
<1>1. begin # end /\ ch = scancode_buffer[begin] /\ ch' = ch
  BY DEF TakesFirst, handle_input, reader
<1>2. /\ RingsOK' /\ Arrived \in Seq(Byte) /\ Kept \in Seq(Byte)
      /\ FirstOf(Kept', Kept \o Arrived, Len(Kept) + Len(Arrived))
  BY HandleEffect, SequencesTyped
<1>3. Len(Kept) \in Nat \ {0} /\ Kept[1] = ch
  BY <1>1, FirstKept, SequencesTyped
<1>4. Len(Arrived) \in Nat /\ KeySize \in Nat /\ KeySize > 1
  BY RingsAre, SequencesTyped
<1> DEFINE n == Len(Kept) + Len(Arrived)
<1>5. n \in Nat \ {0} /\ 1 \in 1 .. n /\ 1 <= Len(Kept)
  BY <1>3, <1>4
<1>6. (Kept \o Arrived)[1] = ch
  BY <1>2, <1>3, <1>5, ConcatProperties
<1> HIDE DEF n
<1>7. Kept' \in Seq(Byte) /\ Len(Kept') = IF n < KeySize THEN n ELSE KeySize - 1
  BY <1>2 DEF FirstOf, n
<1>8. Len(Kept') \in Nat \ {0} /\ 1 \in 1 .. Len(Kept')
  BY <1>4, <1>5, <1>7
<1>9. Kept'[1] = ch /\ Kept' # <<>>
  <2> DEFINE u == Kept'
             s == Kept \o Arrived
  <2>1. \A k \in 1 .. Len(u) : u[k] = s[k]
    BY <1>2 DEF FirstOf
  <2>2. Len(u) \in Nat \ {0} /\ 1 \in 1 .. Len(u) /\ s[1] = ch /\ u \in Seq(Byte)
    BY <1>6, <1>7, <1>8
  <2> HIDE DEF u, s
  <2>3. u[1] = ch /\ u # <<>>
    BY <2>1, <2>2, EmptySeq
  <2> QED
    BY <2>3 DEF u
<1>10. FirstSame'
  BY <1>2, FirstPrimed
<1> QED
  BY <1>1, <1>9, <1>10 DEF FirstSame

-----------------------------------------------------------------------------
(* What the steps do to the sequence of what is typed and not read *)

\* To append behind is to append to all.
LEMMA AppendBehind ==
  ASSUME NEW X, NEW s \in Seq(X), NEW t \in Seq(X), NEW v \in X
  PROVE  s \o Append(t, v) = Append(s \o t, v)
<1>1. <<v>> \in Seq(X) /\ s \o t \in Seq(X)
  BY ConcatProperties
<1>2. Append(t, v) = t \o <<v>> /\ Append(s \o t, v) = (s \o t) \o <<v>>
  BY <1>1, AppendIsConcat
<1> QED
  BY <1>1, <1>2, ConcatAssociative

\* The head goes from the second sequence to the first.
LEMMA HeadMoves ==
  ASSUME NEW X, NEW s \in Seq(X), s # <<>>
  PROVE  s = <<Head(s)>> \o Tail(s)
<1> DEFINE n == Len(s)
           u == SubSeq(s, 2, n)
<1>1. n \in Nat \ {0} /\ Head(s) = s[1]
  BY EmptySeq, LenProperties
<1>2. 1 \in 1 .. n /\ n \in 1 .. n /\ 1 + 1 = 2
  BY <1>1
<1>3. SubSeq(s, 1, n) = <<s[1]>> \o SubSeq(s, 1 + 1, n)
  BY <1>2, SubSeqRecursiveFirst
<1>4. SubSeq(s, 1, n) = s /\ Tail(s) = u
  BY SubSeqFull, TailIsSubSeq
<1> QED
  BY <1>1, <1>2, <1>3, <1>4

\* A sequence of one element more.
LEMMA ConsIs ==
  ASSUME NEW X, NEW v \in X, NEW t \in Seq(X)
  PROVE  /\ <<v>> \o t \in Seq(X) /\ <<v>> \o t # <<>>
         /\ Head(<<v>> \o t) = v /\ Tail(<<v>> \o t) = t
<1> DEFINE h == <<v>>
           s == h \o t
           u == Tail(s)
<1>1. h \in Seq(X) /\ Len(h) = 1 /\ h[1] = v
  OBVIOUS
<1> HIDE DEF h
<1>2. Len(t) \in Nat
  BY LenProperties
<1>3. /\ s \in Seq(X) /\ Len(s) = 1 + Len(t)
      /\ \A k \in 1 .. 1 + Len(t) : s[k] = IF k <= 1 THEN h[k] ELSE t[k - 1]
  <2>1. /\ h \o t \in Seq(X) /\ Len(h \o t) = Len(h) + Len(t)
        /\ \A k \in 1 .. Len(h) + Len(t) :
             (h \o t)[k] = IF k <= Len(h) THEN h[k] ELSE t[k - Len(h)]
    BY <1>1, ConcatProperties
  <2> QED
    BY <1>1, <2>1
<1> HIDE DEF s
<1>4. s # <<>> /\ Head(s) = s[1]
  BY <1>2, <1>3, EmptySeq
<1>5. s[1] = v
  BY <1>1, <1>2, <1>3
<1>6. /\ u \in Seq(X) /\ Len(u) = Len(t)
      /\ \A k \in 1 .. Len(u) : u[k] = s[k + 1]
  BY <1>2, <1>3, <1>4, HeadTailProperties
<1> HIDE DEF u
<1>7. ASSUME NEW k \in 1 .. Len(u)
      PROVE  u[k] = t[k]
  <2>1. k + 1 \in 1 .. 1 + Len(t) /\ ~(k + 1 <= 1) /\ (k + 1) - 1 = k
    BY <1>2, <1>6
  <2> QED
    BY <1>3, <1>6, <2>1
<1>8. u = t
  BY <1>6, <1>7, SeqEqual
<1> QED
  BY <1>3, <1>4, <1>5, <1>8 DEF s, h, u

\* What is taken from the first is taken from both.
LEMMA TailOfBoth ==
  ASSUME NEW X, NEW s \in Seq(X), NEW t \in Seq(X), s # <<>>
  PROVE  /\ s \o t \in Seq(X) /\ s \o t # <<>>
         /\ Head(s \o t) = Head(s) /\ Tail(s \o t) = Tail(s) \o t
         /\ <<Head(s)>> \o (Tail(s) \o t) = s \o t
<1> DEFINE h == Head(s)
           u == Tail(s)
           w == u \o t
<1>1. h \in X /\ u \in Seq(X) /\ s = <<h>> \o u
  BY HeadTailProperties, HeadMoves
<1> HIDE DEF h, u
<1>2. <<h>> \in Seq(X) /\ w \in Seq(X)
  BY <1>1, ConcatProperties
<1>3. s \o t = <<h>> \o w
  BY <1>1, <1>2, ConcatAssociative
<1> HIDE DEF w
<1>4. /\ <<h>> \o w \in Seq(X) /\ <<h>> \o w # <<>>
      /\ Head(<<h>> \o w) = h /\ Tail(<<h>> \o w) = w
  BY <1>1, <1>2, ConsIs
<1> QED
  BY <1>3, <1>4 DEF h, u, w

\* What a full buffer leaves of the sequence is its beginning.
LEMMA CutIs ==
  ASSUME NEW X, NEW h \in Seq(X), NEW s \in Seq(X), NEW u \in Seq(X), Len(u) <= Len(s),
         \A k \in 1 .. Len(u) : u[k] = s[k]
  PROVE  /\ h \o u = SubSeq(h \o s, 1, Len(h) + Len(u))
         /\ Len(h \o s) = Len(h) + Len(s)
<1> DEFINE a == h \o s
           b == h \o u
           n == Len(h) + Len(u)
           w == SubSeq(a, 1, n)
<1>1. Len(h) \in Nat /\ Len(u) \in Nat /\ Len(s) \in Nat
  BY LenProperties
<1>2. /\ a \in Seq(X) /\ Len(a) = Len(h) + Len(s)
      /\ \A k \in 1 .. Len(h) + Len(s) : a[k] = IF k <= Len(h) THEN h[k] ELSE s[k - Len(h)]
  BY ConcatProperties
<1>3. /\ b \in Seq(X) /\ Len(b) = n
      /\ \A k \in 1 .. n : b[k] = IF k <= Len(h) THEN h[k] ELSE u[k - Len(h)]
  BY ConcatProperties
<1>4. n \in Nat /\ n <= Len(h) + Len(s)
  BY <1>1
<1> HIDE DEF a, b
<1>5. \A k \in 1 .. n : a[k] \in X
  <2>1. \A k \in 1 .. Len(a) : a[k] \in X
    BY <1>2, ElementOfSeq
  <2> QED
    BY <1>1, <1>2, <1>4, <2>1
<1>6. /\ w \in Seq(X) /\ Len(w) = (IF 1 <= n THEN n - 1 + 1 ELSE 0)
      /\ \A k \in 1 .. n - 1 + 1 : w[k] = a[1 + k - 1]
  <2> HIDE DEF n
  <2> QED
    BY <1>4, <1>5, SubSeqProperties
<1> HIDE DEF w
<1>7. Len(w) = n
  BY <1>4, <1>6
<1>8. ASSUME NEW k \in 1 .. Len(b)
      PROVE  b[k] = w[k]
  <2>1. /\ k \in 1 .. n /\ k \in 1 .. n - 1 + 1 /\ k \in 1 .. Len(h) + Len(s)
        /\ 1 + k - 1 = k
    BY <1>1, <1>3, <1>4
  <2>2. w[k] = a[k]
    BY <1>6, <2>1
  <2>3. CASE k <= Len(h)
    BY <1>2, <1>3, <2>1, <2>2, <2>3
  <2>4. CASE ~(k <= Len(h))
    <3>1. k - Len(h) \in 1 .. Len(u)
      BY <1>1, <2>1, <2>4
    <3> QED
      BY <1>2, <1>3, <2>1, <2>2, <2>4, <3>1
  <2> QED
    BY <2>3, <2>4
<1>9. b = w
  BY <1>3, <1>6, <1>7, <1>8, SeqEqual
<1> QED
  BY <1>2, <1>9 DEF a, b, w

-----------------------------------------------------------------------------
(* Every step keeps the invariant and is a step of LineInput, or none *)

Implements == IInv' /\ [Promise!Next]_(Promise!vars)

\* The variables of LineInput, before and after a step.
LEMMA SeenAre ==
  ASSUME RingsOK, RingsOK'
  PROVE  /\ Typed = Kept \o Arrived /\ Typed' = Kept' \o Arrived'
         /\ Written = Sent /\ Written' = Sent'
BY SequencesAre, SequencesPrimed DEF SequencesSame

\* What the thread has is a sequence too.
LEMMA HeldIs ==
  ASSUME ThreadOK
  PROVE  Held \in Seq(Byte) /\ Held = IF pc \in {"have", "return", "store"} THEN <<ch>> ELSE <<>>
BY DEF Held, ThreadOK

\* A step that is not the thread's.
LEMMA ReaderSame ==
  ASSUME UNCHANGED reader, ThreadOK, StoresOnly, ReadsOn
  PROVE  /\ ThreadOK' /\ StoresOnly' /\ ReadsOn'
         /\ Held' = Held /\ Line' = Line /\ Reading' = Reading /\ Echoed' = Echoed
<1>1. pc' = pc /\ ch' = ch /\ i' = i /\ buf' = buf
  BY DEF reader
<1> QED
  BY <1>1 DEF ThreadOK, StoresOnly, ReadsOn, Held, Line, Reading, Echoed

\* Type is LineInput's, of the character that xencons_rx makes of it.
LEMMA TypeStep ==
  ASSUME IInv, NEW c \in Char, Type(c)
  PROVE  Implements
<1>1. /\ RingsOK /\ RingsOK' /\ Kept' = Kept /\ Sent' = Sent
      /\ Arrived' = Arrived \/ Arrived' = Append(Arrived, Lined(c))
  BY TypeEffect DEF IInv
<1>2. UNCHANGED reader /\ UNCHANGED keys
  BY DEF Type
<1>3. /\ ThreadOK' /\ StoresOnly' /\ ReadsOn'
      /\ Held' = Held /\ Line' = Line /\ Reading' = Reading /\ Echoed' = Echoed
  BY <1>2, ReaderSame DEF IInv
<1>4. IInv'
  BY <1>1, <1>2, <1>3 DEF IInv, TakesFirst, keys, reader
<1>5. /\ Typed = Kept \o Arrived /\ Typed' = Kept \o Arrived'
      /\ Written' = Written
  BY <1>1, SeenAre
<1>6. CASE Arrived' = Arrived
  BY <1>3, <1>4, <1>5, <1>6 DEF Implements, Promise!vars
<1>7. CASE Arrived' = Append(Arrived, Lined(c))
  <2> DEFINE v == Lined(c)
  <2>1. v \in Byte /\ v \in (Char \ {"cr"}) \cup {"nl"}
    BY DEF Lined, Byte
  <2>2. Kept \in Seq(Byte) /\ Arrived \in Seq(Byte) /\ Held \in Seq(Byte)
    BY <1>1, SequencesTyped, HeldIs DEF IInv
  <2> HIDE DEF v
  <2>3. Kept \o Append(Arrived, v) = Append(Kept \o Arrived, v) /\ Kept \o Arrived \in Seq(Byte)
    BY <2>1, <2>2, AppendBehind, ConcatProperties
  <2>4. Held \o Append(Kept \o Arrived, v) = Append(Held \o (Kept \o Arrived), v)
    BY <2>1, <2>2, <2>3, AppendBehind
  <2>5. (Held \o Typed)' = Append(Held \o Typed, v)
    BY <1>3, <1>5, <1>7, <2>3, <2>4 DEF v
  <2>6. Promise!Type(v)
    BY <1>3, <1>5, <2>5 DEF Promise!Type
  <2> QED
    BY <1>4, <2>1, <2>6 DEF Implements, Promise!Next
<1> QED
  BY <1>1, <1>6, <1>7

\* The daemon's other step is Show.
LEMMA ShowStep ==
  ASSUME IInv, Show
  PROVE  Implements
<1>1. /\ RingsOK /\ RingsOK' /\ Kept' = Kept /\ Arrived' = Arrived
      /\ Sent # <<>> /\ Sent' = Tail(Sent)
  BY ShowEffect DEF IInv
<1>2. UNCHANGED reader /\ UNCHANGED keys
  BY DEF Show
<1>3. /\ ThreadOK' /\ StoresOnly' /\ ReadsOn'
      /\ Held' = Held /\ Line' = Line /\ Reading' = Reading /\ Echoed' = Echoed
  BY <1>2, ReaderSame DEF IInv
<1>4. IInv'
  BY <1>1, <1>2, <1>3 DEF IInv, TakesFirst, keys, reader
<1>5. /\ Typed' = Typed /\ Written = Sent /\ Written' = Sent'
  BY <1>1, SeenAre
<1>6. Promise!Show
  BY <1>1, <1>3, <1>5 DEF Promise!Show
<1> QED
  BY <1>4, <1>6 DEF Implements, Promise!Next

\* handle_input changes nothing, or loses what has no room.
LEMMA HandleStep ==
  ASSUME IInv, handle_input
  PROVE  Implements
<1>1. /\ RingsOK /\ RingsOK' /\ Sent' = Sent /\ Arrived' = <<>>
      /\ FirstOf(Kept', Kept \o Arrived, Len(Kept) + Len(Arrived))
  BY HandleEffect DEF IInv
<1>2. UNCHANGED reader
  BY DEF handle_input
<1>3. /\ ThreadOK' /\ StoresOnly' /\ ReadsOn'
      /\ Held' = Held /\ Line' = Line /\ Reading' = Reading /\ Echoed' = Echoed
  BY <1>2, ReaderSame DEF IInv
<1>4. IInv'
  BY <1>1, <1>3, TakesFirstHandled DEF IInv
<1> DEFINE s == Kept \o Arrived
           u == Kept'
           h == Held
<1>5. /\ Kept \in Seq(Byte) /\ Arrived \in Seq(Byte) /\ h \in Seq(Byte)
      /\ h = <<>> \/ h = <<ch>>
  BY <1>1, SequencesTyped, HeldIs DEF IInv
<1>6. /\ s \in Seq(Byte) /\ Len(s) = Len(Kept) + Len(Arrived) /\ Len(s) \in Nat
  BY <1>5, ConcatProperties, LenProperties
<1>7. /\ u \in Seq(Byte) /\ Len(u) = (IF Len(s) < KeySize THEN Len(s) ELSE KeySize - 1)
      /\ \A k \in 1 .. Len(u) : u[k] = s[k]
  <2>1. FirstOf(u, s, Len(s))
    BY <1>1, <1>6
  <2> HIDE DEF u, s
  <2> QED
    BY <2>1 DEF FirstOf
<1>8. Typed = s /\ Typed' = u /\ Written' = Written
  BY <1>1, <1>7, SeenAre, ConcatEmptySeq
<1>9. KeySize \in Nat \ {0} /\ Len(u) <= Len(s) /\ (Len(h) = 0 \/ Len(h) = 1)
  BY <1>5, <1>6, <1>7, RingsAre
<1> HIDE DEF s, u, h
<1>10. CASE Len(s) < KeySize
  <2>1. u = s
    BY <1>6, <1>7, <1>10, SeqEqual
  <2>2. (Held \o Typed)' = Held \o Typed
    BY <1>3, <1>8, <2>1
  <2> QED
    BY <1>3, <1>4, <1>8, <2>2 DEF Implements, Promise!vars
<1>11. CASE ~(Len(s) < KeySize)
  <2> DEFINE n == Len(h) + Len(u)
             a == h \o s
  <2>1. h \o u = SubSeq(a, 1, n) /\ Len(a) = Len(h) + Len(s)
    BY <1>5, <1>6, <1>7, <1>9, CutIs
  <2>2. n \in {KeySize - 1, KeySize - 1 + 1} /\ Len(a) > n
    <3>1. Len(u) = KeySize - 1
      BY <1>7, <1>11
    <3>2. n = KeySize - 1 \/ n = KeySize - 1 + 1
      <4> DEFINE K == KeySize - 1
                 l == Len(h)
      <4>1. K \in Nat /\ (l = 0 \/ l = 1) /\ n = l + K
        BY <1>9, <3>1
      <4> HIDE DEF K, l, n
      <4>2. n = K \/ n = K + 1
        BY <4>1
      <4> QED
        BY <4>2 DEF K
    <3>3. Len(a) > n
      BY <1>6, <1>9, <1>11, <2>1, <3>1
    <3> QED
      BY <3>2, <3>3
  <2>3. Held \o Typed = a /\ (Held \o Typed)' = h \o u
    BY <1>3, <1>8 DEF h
  <2> HIDE DEF n, a
  <2>4. (Held \o Typed)' = SubSeq(Held \o Typed, 1, n) /\ Len(Held \o Typed) > n
    BY <2>1, <2>2, <2>3
  <2>5. Promise!Lose
    BY <1>3, <1>8, <2>2, <2>4 DEF Promise!Lose
  <2> QED
    BY <1>4, <2>5 DEF Implements, Promise!Next
<1> QED
  BY <1>10, <1>11

\* The end of the callback changes nothing of this.
LEMMA ClearStep ==
  ASSUME IInv, UNCHANGED <<rings, keys, reader>>
  PROVE  Implements
<1>1. /\ RingsOK /\ RingsOK' /\ Kept' = Kept /\ Arrived' = Arrived /\ Sent' = Sent
  BY SameRings DEF IInv
<1>2. /\ ThreadOK' /\ StoresOnly' /\ ReadsOn'
      /\ Held' = Held /\ Line' = Line /\ Reading' = Reading /\ Echoed' = Echoed
  BY ReaderSame DEF IInv
<1>3. IInv'
  BY <1>1, <1>2 DEF IInv, TakesFirst, keys, reader
<1>4. Typed' = Typed /\ Written' = Written
  BY <1>1, SeenAre
<1> QED
  BY <1>2, <1>3, <1>4 DEF Implements, Promise!vars

-----------------------------------------------------------------------------
(* The thread's steps *)

\* sys_readline begins a line.
LEMMA StartStep ==
  ASSUME IInv, sys_readline
  PROVE  Implements
<1>1. /\ pc = "user" /\ i' = 0 /\ pc' = "empty" /\ ch' = ch /\ buf' = buf
      /\ UNCHANGED rings /\ UNCHANGED keys
  BY RingsAre DEF sys_readline, At, Loop, Goto
<1>2. /\ RingsOK /\ RingsOK' /\ Kept' = Kept /\ Arrived' = Arrived /\ Sent' = Sent
  BY <1>1, SameRings DEF IInv
<1>3. IInv'
  BY <1>1, <1>2, RingsAre DEF IInv, ThreadOK, TakesFirst, StoresOnly, ReadsOn
<1>4. Held' = Held /\ ~Reading /\ Reading' /\ Echoed' = Echoed
  BY <1>1 DEF Held, Reading, Echoed
<1>5. Line' = <<>>
  <2>1. Line' = [k \in 1 .. 0 |-> buf'[k - 1]]
    BY <1>1 DEF Line
  <2> QED
    BY <2>1
<1>6. Typed' = Typed /\ Written' = Written
  BY <1>2, SeenAre
<1>7. Promise!Start
  BY <1>4, <1>5, <1>6 DEF Promise!Start, Reading
<1> QED
  BY <1>3, <1>7 DEF Implements, Promise!Next

Looks(from, to) ==
  /\ UNCHANGED <<rings, keys, i, buf>> /\ pc = from /\ pc' = to
  /\ \/ from = "user" /\ to = "getchar" /\ ch' = ch
     \/ from = "getchar" /\ to = "user" /\ ch' = ch
     \/ /\ (from = "empty" /\ to = "took") \/ (from = "getchar" /\ to = "got")
        /\ begin # end /\ ch' = scancode_buffer[begin]

\* The steps between the thread's labels that say nothing to LineInput: the
\* entry and the empty end of sys_getchar, and a character that is looked at.
LEMMA LookStep ==
  ASSUME IInv, NEW from, NEW to, Looks(from, to)
  PROVE  Implements
<1> USE DEF Looks
<1>1. /\ RingsOK /\ RingsOK' /\ Kept' = Kept /\ Arrived' = Arrived /\ Sent' = Sent
  BY SameRings DEF IInv
<1>2. Typed' = Typed /\ Written' = Written
  BY <1>1, SeenAre
<1>3. ch' \in Byte
  BY DEF IInv, ThreadOK, RingsOK, RingOf
<1>4. Held' = Held /\ Reading' = Reading /\ Echoed' = Echoed /\ Line' = Line
  BY DEF Held, Reading, Echoed, Line
<1>5. ThreadOK'
  BY <1>3 DEF IInv, ThreadOK
<1>6. TakesFirst' /\ StoresOnly' /\ ReadsOn'
  BY DEF IInv, TakesFirst, StoresOnly, ReadsOn, Reading, keys
<1>7. IInv'
  BY <1>1, <1>5, <1>6 DEF IInv
<1> QED
  BY <1>2, <1>4, <1>7 DEF Implements, Promise!vars

\* The thread goes on with what it has taken: begin moves.
LEMMA HaveStep ==
  ASSUME IInv, Advance("took", "have")
  PROVE  Implements
<1>1. /\ pc = "took" /\ pc' = "have" /\ UNCHANGED <<ch, i, buf>>
  BY DEF Advance, At, Goto
<1>2. begin # end /\ ch = scancode_buffer[begin]
  BY <1>1 DEF IInv, TakesFirst
<1>3. /\ RingsOK /\ RingsOK' /\ Arrived' = Arrived /\ Sent' = Sent
      /\ Kept # <<>> /\ Head(Kept) = ch /\ Kept' = Tail(Kept)
  BY <1>2, AdvanceEffect DEF IInv
<1>4. IInv'
  BY <1>1, <1>3 DEF IInv, ThreadOK, TakesFirst, StoresOnly, ReadsOn, Reading
<1>5. Held = <<>> /\ Held' = <<ch>> /\ Line' = Line /\ Reading' = Reading /\ Echoed' = Echoed
  BY <1>1 DEF Held, Line, Reading, Echoed
<1>6. Typed = Kept \o Arrived /\ Typed' = Tail(Kept) \o Arrived /\ Written' = Written
  BY <1>3, SeenAre
<1>7. Kept \in Seq(Byte) /\ Arrived \in Seq(Byte)
  BY <1>3, SequencesTyped
<1> DEFINE s == Kept \o Arrived
           u == Tail(Kept) \o Arrived
<1>8. s \in Seq(Byte) /\ <<ch>> \o u = s
  BY <1>3, <1>7, TailOfBoth
<1> HIDE DEF s, u
<1>9. <<>> \o s = s
  BY <1>8, ConcatEmptySeq
<1>10. (Held \o Typed)' = Held \o Typed
  BY <1>5, <1>6, <1>8, <1>9 DEF s, u
<1> QED
  BY <1>4, <1>5, <1>6, <1>10 DEF Implements, Promise!vars

\* sys_getchar returns with it.
LEMMA GotStep ==
  ASSUME IInv, Advance("got", "user")
  PROVE  Implements
<1>1. /\ pc = "got" /\ pc' = "user" /\ UNCHANGED <<ch, i, buf>>
  BY DEF Advance, At, Goto
<1>2. begin # end
  BY <1>1 DEF IInv, TakesFirst
<1>3. /\ RingsOK /\ RingsOK' /\ Arrived' = Arrived /\ Sent' = Sent
      /\ Kept # <<>> /\ Kept' = Tail(Kept)
  BY <1>2, AdvanceEffect DEF IInv
<1>4. IInv'
  BY <1>1, <1>3 DEF IInv, ThreadOK, TakesFirst, StoresOnly, ReadsOn, Reading
<1>5. /\ Held = <<>> /\ Held' = <<>> /\ Line' = Line /\ ~Reading /\ Reading' = Reading
      /\ Echoed' = Echoed
  BY <1>1 DEF Held, Line, Reading, Echoed
<1>6. Typed = Kept \o Arrived /\ Typed' = Tail(Kept) \o Arrived /\ Written' = Written
  BY <1>3, SeenAre
<1>7. Kept \in Seq(Byte) /\ Arrived \in Seq(Byte) /\ Tail(Kept) \in Seq(Byte)
  BY <1>3, SequencesTyped, HeadTailProperties
<1> DEFINE s == Kept \o Arrived
           u == Tail(Kept) \o Arrived
<1>8. /\ s \in Seq(Byte) /\ s # <<>> /\ Tail(s) = u /\ u \in Seq(Byte)
  BY <1>3, <1>7, TailOfBoth, ConcatProperties
<1> HIDE DEF s, u
<1>9. <<>> \o s = s /\ <<>> \o u = u
  BY <1>8, ConcatEmptySeq
<1>10. Held \o Typed = s /\ (Held \o Typed)' = u
  BY <1>5, <1>6, <1>9 DEF s, u
<1>11. Promise!GetChar
  BY <1>5, <1>6, <1>8, <1>10 DEF Promise!GetChar
<1> QED
  BY <1>4, <1>11 DEF Implements, Promise!Next

\* What the thread has is the first of what is typed and not read.
LEMMA HeldFirst ==
  ASSUME RingsOK, ThreadOK, pc \in {"have", "return", "store"}
  PROVE  /\ Held \o Typed # <<>> /\ Head(Held \o Typed) = ch
         /\ Tail(Held \o Typed) = Typed /\ Typed \in Seq(Byte) /\ <<>> \o Typed = Typed
<1>1. Kept \in Seq(Byte) /\ Arrived \in Seq(Byte) /\ Typed = Kept \o Arrived
  BY SequencesAre, SequencesTyped DEF SequencesSame
<1>2. Typed \in Seq(Byte) /\ ch \in Byte /\ Held = <<ch>>
  BY <1>1, HeldIs, ConcatProperties DEF ThreadOK
<1>3. <<>> \o Typed = Typed
  BY <1>2, ConcatEmptySeq
<1> QED
  BY <1>2, <1>3, ConsIs

LineOK ==
  /\ Line \in Seq(Byte) /\ Len(Line) = i /\ i \in Nat
  /\ \A k \in 1 .. i : Line[k] = buf[k - 1]
  /\ Line = <<>> <=> i = 0

\* The line is as long as i says.
LEMMA LineIs == ThreadOK => LineOK
<1> SUFFICES ASSUME ThreadOK PROVE LineOK
  OBVIOUS
<1>1. i \in Nat /\ i <= Size - 1 /\ Size \in Nat
  BY RingsAre DEF ThreadOK
<1>2. ASSUME NEW k \in 1 .. i
      PROVE  buf[k - 1] \in Byte
  <2>1. k - 1 \in 0 .. Size - 1
    BY <1>1
  <2> QED
    BY <2>1 DEF ThreadOK
<1>3. Line \in [1 .. i -> Byte] /\ \A k \in 1 .. i : Line[k] = buf[k - 1]
  BY <1>2 DEF Line
<1>4. Line \in Seq(Byte) /\ Len(Line) = i
  BY <1>1, <1>3, IsSequence
<1> QED
  BY <1>1, <1>3, <1>4, EmptySeq DEF LineOK

\* The same after a step.
LEMMA LinePrimed == ThreadOK' => LineOK'
BY LineIs, PTL

\* How a character's echo looks.
LEMMA ShownIs ==
  ASSUME ThreadOK
  PROVE  /\ ch = "ff" \/ (ch = "bs" /\ i = 0) => Promise!Shown(Line, ch) = <<>>
         /\ ~(ch = "ff" \/ (ch = "bs" /\ i = 0)) =>
              Promise!Shown(Line, ch) = IF ch = "nl" THEN <<"nl", "cr">> ELSE <<ch>>
BY LineIs DEF LineOK, Promise!Shown

LineOpen == ~Promise!Done(Line)

\* A line that is being read is not done.
LEMMA NotDone == ThreadOK /\ ReadsOn /\ Reading => LineOpen
<1> SUFFICES ASSUME ThreadOK, ReadsOn, Reading PROVE LineOpen
  OBVIOUS
<1>1. /\ i \in Nat /\ i < Size - 1 /\ Len(Line) = i /\ Size \in Nat
      /\ \A k \in 1 .. i : Line[k] = buf[k - 1]
      /\ Line = <<>> <=> i = 0
      /\ \A k \in 0 .. i - 1 : buf[k] # "nl"
  BY LineIs, RingsAre DEF LineOK, ReadsOn
<1>2. ~(Len(Line) >= Size - 1)
  BY <1>1
<1>3. ASSUME Line # <<>>
      PROVE  Line[Len(Line)] # "nl"
  <2>1. i \in 1 .. i /\ i - 1 \in 0 .. i - 1
    BY <1>1, <1>3
  <2> QED
    BY <1>1, <2>1
<1> QED
  BY <1>2, <1>3 DEF LineOpen, Promise!Done, Promise!Last

\* The same after a step.
LEMMA NotDonePrimed == ThreadOK' /\ ReadsOn' /\ Reading' => LineOpen'
BY NotDone, PTL

\* A character that is skipped is read without an effect.
LEMMA SkipStep ==
  ASSUME IInv, Skip
  PROVE  Implements
<1>1. /\ pc = "have" /\ pc' = "empty" /\ UNCHANGED <<ch, i, buf>>
      /\ ch = "ff" \/ (ch = "bs" /\ i = 0)
      /\ UNCHANGED rings /\ UNCHANGED keys
  BY DEF Skip, At, Goto
<1>2. /\ RingsOK /\ RingsOK' /\ Kept' = Kept /\ Arrived' = Arrived /\ Sent' = Sent
  BY <1>1, SameRings DEF IInv
<1>3. IInv'
  BY <1>1, <1>2 DEF IInv, ThreadOK, TakesFirst, StoresOnly, ReadsOn, Reading
<1>4. Typed' = Typed /\ Written' = Written
  BY <1>2, SeenAre
<1>5. Held' = <<>> /\ Line' = Line /\ Reading /\ Reading' = Reading /\ Echoed = 0 /\ Echoed' = 0
  BY <1>1 DEF Held, Line, Reading, Echoed
<1>6. /\ Held \o Typed # <<>> /\ Head(Held \o Typed) = ch
      /\ Tail(Held \o Typed) = (Held \o Typed)'
  BY <1>1, <1>2, <1>4, <1>5, HeldFirst DEF IInv
<1>7. Len(Promise!Shown(Line, ch)) = 0
  BY <1>1, ShownIs DEF IInv
<1>8. Promise!Edit(Line, ch) = Line
  BY <1>1, LineIs DEF IInv, LineOK, Promise!Edit
<1>9. ~Promise!Done(Line)
  BY <1>5, NotDone DEF IInv, LineOpen
<1>10. Promise!Read
  BY <1>4, <1>5, <1>6, <1>7, <1>8, <1>9 DEF Promise!Read
<1> QED
  BY <1>3, <1>10 DEF Implements, Promise!Next

\* A byte of the echo.
LEMMA EchoIs ==
  ASSUME RingsOK, RingsOK', ThreadOK, NEW c \in Byte,
         pc \in {"have", "return", "store"}, pc' \in {"have", "return", "store"},
         Kept' = Kept, Arrived' = Arrived, UNCHANGED <<ch, i, buf>>,
         Sent' = (IF Len(Sent) < OutSize THEN Append(Sent, c) ELSE Sent),
         Echoed' = Echoed + 1, Echoed < Len(Promise!Shown(Line, ch)),
         Promise!Shown(Line, ch)[Echoed + 1] = c
  PROVE  Promise!Echo
<1>1. Typed' = Typed /\ Written = Sent /\ Written' = Sent'
  BY SeenAre
<1>2. Held' = Held /\ Line' = Line /\ Reading /\ Reading' = Reading
  BY DEF Held, Line, Reading
<1>3. /\ Held \o Typed # <<>> /\ Head(Held \o Typed) = ch
      /\ (Held \o Typed)' = Held \o Typed
  BY <1>1, <1>2, HeldFirst
<1>4. Written' = IF Len(Written) < OutSize
                 THEN Append(Written, Promise!Shown(Line, ch)[Echoed + 1]) ELSE Written
  BY <1>1
<1> QED
  BY <1>2, <1>3, <1>4 DEF Promise!Echo

\* putbyte
LEMMA EchoStep ==
  ASSUME IInv, Echo
  PROVE  Implements
<1> DEFINE to == IF ch = "nl" THEN "return" ELSE "store"
<1>1. /\ pc = "have" /\ pc' = to /\ UNCHANGED <<ch, i, buf>>
      /\ ~(ch = "ff" \/ (ch = "bs" /\ i = 0)) /\ Send(ch)
      /\ UNCHANGED <<ring_in, in_cons, in_prod, out_cons, keys>>
  BY DEF Echo, At, Goto
<1>2. RingsOK /\ ThreadOK /\ ch \in Byte /\ pc \in {"have", "return", "store"}
  BY <1>1 DEF IInv, ThreadOK
<1>3. /\ RingsOK' /\ Kept' = Kept /\ Arrived' = Arrived
      /\ Sent' = IF Len(Sent) < OutSize THEN Append(Sent, ch) ELSE Sent
  BY <1>1, <1>2, SendEffect
<1>4. IInv'
  BY <1>1, <1>3 DEF IInv, ThreadOK, TakesFirst, StoresOnly, ReadsOn, Reading
<1>5. pc' \in {"have", "return", "store"}
  BY <1>1
<1>6. Echoed = 0 /\ Echoed' = 1
  BY <1>1 DEF Echoed
<1>7. Promise!Shown(Line, ch) = IF ch = "nl" THEN <<"nl", "cr">> ELSE <<ch>>
  BY <1>1, <1>2, ShownIs
<1>8. Len(Promise!Shown(Line, ch)) > 0 /\ Promise!Shown(Line, ch)[1] = ch
  BY <1>7
<1>9. /\ Echoed' = Echoed + 1 /\ Echoed < Len(Promise!Shown(Line, ch))
      /\ Promise!Shown(Line, ch)[Echoed + 1] = ch
  BY <1>6, <1>8
<1>10. Promise!Echo
  BY <1>1, <1>2, <1>3, <1>5, <1>9, EchoIs
<1> QED
  BY <1>4, <1>10 DEF Implements, Promise!Next

\* The carriage return of xen_console_print.
LEMMA EchoReturnStep ==
  ASSUME IInv, EchoReturn
  PROVE  Implements
<1>1. /\ pc = "return" /\ pc' = "store" /\ UNCHANGED <<ch, i, buf>> /\ Send("cr")
      /\ UNCHANGED <<ring_in, in_cons, in_prod, out_cons, keys>>
  BY DEF EchoReturn, At, Goto
<1>2. /\ RingsOK /\ ThreadOK /\ "cr" \in Byte /\ ch = "nl"
      /\ pc \in {"have", "return", "store"} /\ pc' \in {"have", "return", "store"}
  BY <1>1 DEF IInv, StoresOnly, Byte
<1>3. /\ RingsOK' /\ Kept' = Kept /\ Arrived' = Arrived
      /\ Sent' = IF Len(Sent) < OutSize THEN Append(Sent, "cr") ELSE Sent
  BY <1>1, <1>2, SendEffect
<1>4. IInv'
  BY <1>1, <1>2, <1>3 DEF IInv, ThreadOK, TakesFirst, StoresOnly, ReadsOn, Reading
<1>5. Echoed = 1 /\ Echoed' = 2
  BY <1>1, <1>2 DEF Echoed
<1>6. Promise!Shown(Line, ch) = <<"nl", "cr">>
  BY <1>2, ShownIs
<1>7. Len(Promise!Shown(Line, ch)) = 2 /\ Promise!Shown(Line, ch)[2] = "cr"
  BY <1>6
<1>8. /\ Echoed' = Echoed + 1 /\ Echoed < Len(Promise!Shown(Line, ch))
      /\ Promise!Shown(Line, ch)[Echoed + 1] = "cr"
  BY <1>5, <1>7
<1>9. Promise!Echo
  BY <1>1, <1>2, <1>3, <1>8, EchoIs
<1> QED
  BY <1>4, <1>9 DEF Implements, Promise!Next

\* A character that is stored is appended to the line.
LEMMA LinePut ==
  ASSUME ThreadOK, ThreadOK', i' = i + 1, buf'[i] = ch, \A k \in 0 .. i - 1 : buf'[k] = buf[k]
  PROVE  Line' = Append(Line, ch)
<1> DEFINE s == Line
           t == Line'
           u == Append(s, ch)
           n == i
           b == buf'
<1>1. /\ s \in Seq(Byte) /\ Len(s) = n /\ n \in Nat
      /\ \A k \in 1 .. n : s[k] = buf[k - 1]
  BY LineIs DEF LineOK
<1>2. /\ t \in Seq(Byte) /\ Len(t) = n + 1
      /\ \A k \in 1 .. n + 1 : t[k] = b[k - 1]
  BY LinePrimed DEF LineOK
<1>3. b[n] = ch /\ (\A k \in 0 .. n - 1 : b[k] = buf[k]) /\ ch \in Byte
  BY DEF ThreadOK
<1> HIDE DEF s, t, n, b
<1>4. /\ u \in Seq(Byte) /\ Len(u) = n + 1 /\ u[n + 1] = ch
      /\ \A k \in 1 .. n : u[k] = s[k]
  BY <1>1, <1>3, AppendProperties
<1> HIDE DEF u
<1>5. ASSUME NEW k \in 1 .. Len(t)
      PROVE  t[k] = u[k]
  <2>1. CASE k = n + 1
    <3>1. n + 1 \in 1 .. n + 1 /\ (n + 1) - 1 = n
      BY <1>1
    <3> QED
      BY <1>2, <1>3, <1>4, <2>1, <3>1
  <2>2. CASE k # n + 1
    <3>1. k \in 1 .. n /\ k \in 1 .. n + 1 /\ k - 1 \in 0 .. n - 1
      BY <1>1, <1>2, <2>2
    <3> QED
      BY <1>1, <1>2, <1>3, <1>4, <3>1
  <2> QED
    BY <2>1, <2>2
<1>6. t = u
  BY <1>2, <1>4, <1>5, SeqEqual
<1> QED
  BY <1>6 DEF s, t, u

\* A backspace takes the last character away.
LEMMA LineBack ==
  ASSUME ThreadOK, ThreadOK', i' = i - 1, buf' = buf
  PROVE  Line' = Promise!Front(Line)
<1> DEFINE s == Line
           t == Line'
           n == i
           m == n - 1
           u == SubSeq(s, 1, m)
<1>1. /\ s \in Seq(Byte) /\ Len(s) = n /\ n \in Nat
      /\ \A k \in 1 .. n : s[k] = buf[k - 1]
  BY LineIs DEF LineOK
<1>2. /\ t \in Seq(Byte) /\ Len(t) = m /\ m \in Nat
      /\ \A k \in 1 .. m : t[k] = buf[k - 1]
  BY LinePrimed DEF LineOK
<1>3. Promise!Front(s) = u
  BY <1>1 DEF Promise!Front
<1> HIDE DEF s, t
<1>4. \A k \in 1 .. m : k \in 1 .. n /\ s[k] \in Byte
  <2>1. \A k \in 1 .. n : s[k] \in Byte
    BY <1>1, ElementOfSeq
  <2> QED
    BY <1>1, <2>1
<1> HIDE DEF m
<1>5. /\ u \in Seq(Byte) /\ Len(u) = (IF 1 <= m THEN m - 1 + 1 ELSE 0)
      /\ \A k \in 1 .. m - 1 + 1 : u[k] = s[1 + k - 1]
  BY <1>2, <1>4, SubSeqProperties
<1> HIDE DEF u
<1>6. Len(u) = m
  BY <1>2, <1>5
<1>7. ASSUME NEW k \in 1 .. Len(t)
      PROVE  t[k] = u[k]
  <2>1. k \in 1 .. m /\ k \in 1 .. m - 1 + 1 /\ 1 + k - 1 = k
    BY <1>2
  <2> QED
    BY <1>1, <1>2, <1>4, <1>5, <2>1
<1>8. t = u
  BY <1>2, <1>5, <1>6, <1>7, SeqEqual
<1> QED
  BY <1>3, <1>8 DEF s, t

\* What Read is made of, once the line and the test of its end are known.
LEMMA ReadIs ==
  ASSUME RingsOK, RingsOK', ThreadOK, StoresOnly, pc = "store",
         Kept' = Kept, Arrived' = Arrived, Sent' = Sent,
         pc' \in {"empty", "user"},
         Line' = Promise!Edit(Line, ch), Reading' = ~Promise!Done(Line')
  PROVE  Promise!Read
<1>1. Typed' = Typed /\ Written' = Written
  BY SeenAre
<1>2. Held' = <<>> /\ Reading /\ Echoed' = 0
  BY DEF Held, Reading, Echoed
<1>3. /\ Held \o Typed # <<>> /\ Head(Held \o Typed) = ch
      /\ Tail(Held \o Typed) = (Held \o Typed)'
  BY <1>1, <1>2, HeldFirst
<1>4. ~(ch = "ff" \/ (ch = "bs" /\ i = 0))
  BY DEF StoresOnly
<1>5. Promise!Shown(Line, ch) = IF ch = "nl" THEN <<"nl", "cr">> ELSE <<ch>>
  BY <1>4, ShownIs
<1>6. Len(Promise!Shown(Line, ch)) = IF ch = "nl" THEN 2 ELSE 1
  BY <1>5
<1>7. Echoed = Len(Promise!Shown(Line, ch))
  BY <1>6 DEF Echoed
<1> QED
  BY <1>1, <1>2, <1>3, <1>7 DEF Promise!Read

\* What is made of the line by a character that is stored.
LEMMA EditIs ==
  ASSUME ThreadOK, ch # "ff"
  PROVE  /\ ch = "bs" /\ i # 0 => Promise!Edit(Line, ch) = Promise!Front(Line)
         /\ ch # "bs" => Promise!Edit(Line, ch) = Append(Line, ch)
BY LineIs DEF LineOK, Promise!Edit

\* copy_char_to_user_argpkt_buf, and the end of the line.
LEMMA StoreStep ==
  ASSUME IInv, Store
  PROVE  Implements
<1>1. /\ RingsOK /\ ThreadOK /\ StoresOnly /\ pc = "store" /\ ch' = ch
      /\ UNCHANGED rings /\ UNCHANGED keys
      /\ i \in Nat /\ i < Size - 1 /\ (\A k \in 0 .. i - 1 : buf[k] # "nl")
      /\ buf \in [0 .. Size - 1 -> Byte] /\ ch \in Byte /\ Size \in Nat /\ ch # "ff"
  BY RingsAre DEF IInv, ThreadOK, ReadsOn, Reading, StoresOnly, Store, At
<1>2. /\ RingsOK' /\ Kept' = Kept /\ Arrived' = Arrived /\ Sent' = Sent
  BY <1>1, SameRings
<1>3. ASSUME ThreadOK', ReadsOn', pc' \in {"empty", "user"},
             Line' = Promise!Edit(Line, ch), Reading' = ~Promise!Done(Line')
      PROVE  Implements
  <2>1. IInv'
    BY <1>2, <1>3 DEF IInv, TakesFirst, StoresOnly
  <2>2. Promise!Read
    BY <1>1, <1>2, <1>3, ReadIs
  <2> QED
    BY <2>1, <2>2 DEF Implements, Promise!Next
<1>4. CASE ch = "bs"
  <2>1. i' = i - 1 /\ buf' = buf /\ i # 0 /\ pc' = "empty"
    BY <1>1, <1>4 DEF Store, Loop, Goto, StoresOnly
  <2>2. i' \in 0 .. Size - 1 /\ i' < Size - 1 /\ 0 .. i' - 1 \subseteq 0 .. i - 1
    BY <1>1, <2>1
  <2>3. ThreadOK'
    BY <1>1, <2>1, <2>2 DEF ThreadOK
  <2>4. ReadsOn'
    BY <1>1, <2>1, <2>2 DEF ReadsOn
  <2>5. Line' = Promise!Edit(Line, ch)
    BY <1>1, <1>4, <2>1, <2>3, LineBack, EditIs
  <2>6. Reading' /\ ~Promise!Done(Line')
    BY <2>1, <2>3, <2>4, NotDonePrimed DEF Reading, LineOpen
  <2> QED
    BY <1>3, <2>1, <2>3, <2>4, <2>5, <2>6
<1>5. CASE ch # "bs"
  <2>1. /\ i' = i + 1 /\ pc' \in {"empty", "user"}
        /\ buf' = (IF ch = "nl" THEN [buf EXCEPT ![i] = ch, ![i + 1] = "nul"]
                                ELSE [buf EXCEPT ![i] = ch])
        /\ pc' = "user" <=> ch = "nl" \/ ~(i + 1 < Size - 1)
    <3>1. CASE ch = "nl"
      BY <1>1, <3>1 DEF Store, Goto
    <3>2. CASE ch # "nl"
      BY <1>1, <1>5, <3>2 DEF Store, Loop, Goto
    <3> QED
      BY <3>1, <3>2
  <2>2. i \in 0 .. Size - 1 /\ i + 1 \in 0 .. Size - 1 /\ i # i + 1 /\ "nul" \in Byte
    BY <1>1 DEF Byte
  <2>3. /\ buf' \in [0 .. Size - 1 -> Byte] /\ buf'[i] = ch
        /\ \A k \in 0 .. i - 1 : buf'[k] = buf[k]
    <3>1. \A k \in 0 .. i - 1 : k \in 0 .. Size - 1 /\ k # i /\ k # i + 1
      BY <1>1
    <3> QED
      BY <1>1, <2>1, <2>2, <3>1
  <2>4. ThreadOK'
    BY <1>1, <2>1, <2>2, <2>3 DEF ThreadOK
  <2>5. Line' = Append(Line, ch)
    BY <1>1, <2>1, <2>3, <2>4, LinePut
  <2>6. Line' = Promise!Edit(Line, ch)
    BY <1>1, <1>5, <2>5, EditIs
  <2>7. ReadsOn'
    <3>1. SUFFICES ASSUME Reading'
                   PROVE  i' < Size - 1 /\ \A k \in 0 .. i' - 1 : buf'[k] # "nl"
      BY DEF ReadsOn
    <3>2. ch # "nl" /\ i + 1 < Size - 1
      BY <2>1, <3>1 DEF Reading
    <3>3. ASSUME NEW k \in 0 .. i' - 1
          PROVE  buf'[k] # "nl"
      <4>1. k = i \/ k \in 0 .. i - 1
        BY <1>1, <2>1
      <4> QED
        BY <1>1, <2>3, <3>2, <4>1
    <3> QED
      BY <2>1, <3>2, <3>3
  <2>8. Reading' = ~Promise!Done(Line')
    <3>1. CASE ch = "nl"
      <4>1. Line \in Seq(Byte) /\ ~Reading'
        BY <1>1, <2>1, <3>1, LineIs DEF LineOK, Reading
      <4>2. Line' # <<>> /\ Line'[Len(Line')] = "nl"
        BY <1>1, <2>5, <3>1, <4>1, AppendProperties
      <4>3. Promise!Done(Line')
        BY <4>2 DEF Promise!Done, Promise!Last
      <4> QED
        BY <4>1, <4>3 DEF Reading
    <3>2. CASE ch # "nl" /\ ~(i + 1 < Size - 1)
      <4>1. Len(Line') = i' /\ i' >= Size - 1 /\ ~Reading'
        BY <1>1, <2>1, <2>4, <3>2, LinePrimed DEF LineOK, Reading
      <4>2. Promise!Done(Line')
        BY <4>1 DEF Promise!Done
      <4> QED
        BY <4>1, <4>2 DEF Reading
    <3>3. CASE ch # "nl" /\ i + 1 < Size - 1
      <4>1. Reading'
        BY <2>1, <3>3 DEF Reading
      <4> QED
        BY <2>4, <2>7, <4>1, NotDonePrimed DEF LineOpen
    <3> QED
      BY <3>1, <3>2, <3>3
  <2> QED
    BY <1>3, <2>1, <2>4, <2>6, <2>7, <2>8
<1> QED
  BY <1>4, <1>5

-----------------------------------------------------------------------------
\* The console starts empty.
LEMMA InitImplements == Init => IInv /\ Promise!Init
<1> SUFFICES ASSUME Init PROVE IInv /\ Promise!Init
  OBVIOUS
<1> USE RingsAre
<1>1. "nul" \in Byte /\ Lined("nul") = "nul"
  BY DEF Byte, Lined
<1>2. Translated = [k \in 0 .. InSize - 1 |-> "nul"]
  BY <1>1 DEF Init, Translated
<1>3. RingsOK
  BY <1>1, <1>2 DEF Init, RingsOK, RingOf
<1>4. ThreadOK /\ TakesFirst /\ StoresOnly /\ ReadsOn
  BY <1>1 DEF Init, ThreadOK, TakesFirst, StoresOnly, ReadsOn, Reading
<1>5. Kept = <<>> /\ Arrived = <<>> /\ Sent = <<>>
  <2>1. /\ Kept \in Seq(Byte) /\ Arrived \in Seq(Byte) /\ Sent \in Seq(Byte)
        /\ Len(Kept) = Ahead(0, 0, KeySize) /\ Len(Arrived) = InCount /\ Len(Sent) = OutCount
    BY <1>3, SequencesTyped DEF Init
  <2>2. /\ InCount = Ahead(0, 0, InModulus) /\ OutCount = Ahead(0, 0, OutModulus)
    BY DEF Init, InCount, OutCount, Ahead
  <2>3. ASSUME NEW M \in Nat \ {0}
        PROVE  Ahead(0, 0, M) = 0
    <3>1. 0 \in 0 .. M - 1
      BY <2>3
    <3> QED
      BY <2>3, <3>1, AheadNone
  <2>4. Len(Kept) = 0 /\ Len(Arrived) = 0 /\ Len(Sent) = 0
    <3>1. KeySize \in Nat \ {0}
      OBVIOUS
    <3> QED
      BY <2>1, <2>2, <2>3, <3>1
  <2> QED
    BY <2>1, <2>4, EmptySeq
<1>6. Typed = <<>> /\ Written = <<>>
  BY <1>3, <1>5, SequencesAre DEF SequencesSame
<1>7. Held = <<>> /\ Reading = FALSE /\ Echoed = 0 /\ Line = <<>>
  BY DEF Init, Held, Reading, Echoed, Line
<1>8. Held \o Typed = <<>>
  BY <1>6, <1>7
<1> QED
  BY <1>3, <1>4, <1>6, <1>7, <1>8 DEF IInv, Promise!Init

\* One case for each action.
LEMMA StepImplements == IInv /\ [Next]_vars => IInv' /\ [Promise!Next]_(Promise!vars)
<1> SUFFICES ASSUME IInv, [Next]_vars PROVE Implements
  BY DEF Implements
<1>1. ASSUME NEW c \in Char, Type(c) PROVE Implements
  BY <1>1, TypeStep
<1>2. CASE Show
  BY <1>2, ShowStep
<1>3. CASE handle_input
  BY <1>3, HandleStep
<1>4. CASE ClearPort
  BY <1>4, ClearStep DEF ClearPort
<1>5. CASE sys_readline
  BY <1>5, StartStep
<1>6. CASE sys_getchar
  <2>1. Looks("user", "getchar")
    BY <1>6 DEF sys_getchar, At, Goto, Looks
  <2> QED
    BY <2>1, LookStep
<1>7. CASE keyb_remove_scancode("empty", "took")
  <2>1. Looks("empty", "took")
    BY <1>7 DEF keyb_remove_scancode, At, Goto, IsEmpty, Looks
  <2> QED
    BY <2>1, LookStep
<1>8. CASE Advance("took", "have")
  BY <1>8, HaveStep
<1>9. CASE keyb_remove_scancode("getchar", "got")
  <2>1. Looks("getchar", "got")
    BY <1>9 DEF keyb_remove_scancode, At, Goto, IsEmpty, Looks
  <2> QED
    BY <2>1, LookStep
<1>10. CASE Advance("got", "user")
  BY <1>10, GotStep
<1>11. CASE GetNothing
  <2>1. Looks("getchar", "user")
    BY <1>11 DEF GetNothing, At, Goto, Looks
  <2> QED
    BY <2>1, LookStep
<1>12. CASE Skip
  BY <1>12, SkipStep
<1>13. CASE Echo
  BY <1>13, EchoStep
<1>14. CASE EchoReturn
  BY <1>14, EchoReturnStep
<1>15. CASE Store
  BY <1>15, StoreStep
<1>16. CASE UNCHANGED vars
  BY <1>16, ClearStep DEF vars
<1> QED
  BY <1>1, <1>2, <1>3, <1>4, <1>5, <1>6, <1>7, <1>8, <1>9, <1>10, <1>11, <1>12, <1>13, <1>14,
     <1>15, <1>16 DEF Next, Reader

(* The console's rings, the interrupt, the keyboard's buffer and readline  *)
(* implement LineInput: what is typed is read once and in order, is lost   *)
(* only behind a full buffer, and the line that is read is the one that is *)
(* echoed, for rings, buffers and lines of every size.                     *)
THEOREM LinesAreWhatIsTyped == Spec => ImplementsLineInput
BY InitImplements, StepImplements, PTL DEF Spec, ImplementsLineInput, Promise!Spec
=============================================================================
