----------------------------- MODULE QueueLists -----------------------------
(***************************************************************************)
(* What the macros of variable_queue.h do to the list a queue is.          *)
(*                                                                         *)
(* IsList(m, h, l, s): in the memory m, queue h of link l holds the        *)
(* elements of the sequence s, each once.  An insertion makes it the list  *)
(* with one element more, a removal the list with one element less, the    *)
(* other queues keep theirs, and Q_FOREACH visits exactly the list.        *)
(***************************************************************************)
EXTENDS VariableQueue, Sequences, SequenceTheorems, FiniteSetTheorems, WellFoundedInduction, TLAPS

\* s with e at place p, and s without its place p.
Inserted(s, p, e) ==
  [i \in 1 .. Len(s) + 1 |-> IF i < p THEN s[i] ELSE IF i = p THEN e ELSE s[i-1]]

Removed(s, p) == [i \in 1 .. Len(s) - 1 |-> IF i < p THEN s[i] ELSE s[i+1]]

\* The elements of s, each once.
Distinct(s) == \A i, j \in 1 .. Len(s) : s[i] = s[j] => i = j
Holds(s, e) == \E i \in 1 .. Len(s) : s[i] = e

\* The ends ft and lt and the links N and P of one queue make the list s.
Chain(ft, lt, N, P, s) ==
  /\ s \in Seq(Elem) /\ Distinct(s)
  /\ ft = IF Len(s) = 0 THEN NULL ELSE s[1]
  /\ lt = IF Len(s) = 0 THEN NULL ELSE s[Len(s)]
  /\ \A i \in 1 .. Len(s) : /\ N[s[i]] = IF i = Len(s) THEN NULL ELSE s[i+1]
                            /\ P[s[i]] = IF i = 1 THEN NULL ELSE s[i-1]

IsList(m, h, l, s) == Chain(m.first[h], m.last[h], m.next[l], m.prev[l], s)

-----------------------------------------------------------------------------
\* A set of numbers with 0 that holds with a number the next one holds them all.
LEMMA AllNumbers ==
  ASSUME NEW S, 0 \in S, \A n \in Nat : n \in S => n + 1 \in S
  PROVE  \A n \in Nat : n \in S
<1> DEFINE R == {pair \in Nat \X Nat : pair[1] < pair[2]}
           T == Nat \ S
<1>1. IsWellFoundedOn(R, Nat)
  BY NatLessThanWellFounded DEF OpToRel
<1>2. \A x, y \in Nat : <<x, y>> \in R <=> x < y
  OBVIOUS
<1> HIDE DEF R
<1>3. SUFFICES ASSUME T # {} PROVE FALSE
  OBVIOUS
<1>4. PICK x \in T : \A y \in T : ~(<<y, x>> \in R)
  BY <1>1, <1>3, WFMin
<1>5. x \in Nat /\ x # 0 /\ x - 1 \in Nat /\ x - 1 < x
  BY <1>4
<1>6. x - 1 \in S
  BY <1>2, <1>4, <1>5
<1> QED
  BY <1>4, <1>5, <1>6

\* The list with one element more is a sequence of distinct elements.
LEMMA InsertedIs ==
  ASSUME NEW s \in Seq(Elem), NEW p \in 1 .. Len(s) + 1, NEW e \in Elem
  PROVE  /\ Inserted(s, p, e) \in Seq(Elem) /\ Len(Inserted(s, p, e)) = Len(s) + 1
         /\ \A i \in 1 .. Len(s) + 1 :
              Inserted(s, p, e)[i] = IF i < p THEN s[i] ELSE IF i = p THEN e ELSE s[i-1]
<1> DEFINE n == Len(s)
           t == Inserted(s, p, e)
<1>1. n \in Nat /\ s \in [1 .. n -> Elem]
  BY LenProperties
<1>2. t = [i \in 1 .. n + 1 |-> IF i < p THEN s[i] ELSE IF i = p THEN e ELSE s[i-1]]
  BY DEF Inserted
<1>3. \A i \in 1 .. n + 1 : (IF i < p THEN s[i] ELSE IF i = p THEN e ELSE s[i-1]) \in Elem
  <2> TAKE i \in 1 .. n + 1
  <2>1. i < p => i \in 1 .. n
    BY <1>1
  <2>2. ~(i < p) /\ i # p => i - 1 \in 1 .. n
    BY <1>1
  <2> HIDE DEF n
  <2> QED
    BY <1>1, <2>1, <2>2
<1>4. t \in [1 .. n + 1 -> Elem]
  BY <1>2, <1>3
<1> HIDE DEF n, t
<1>5. t \in Seq(Elem) /\ Len(t) = n + 1
  BY <1>1, <1>4, SeqDef
<1> QED
  BY <1>2, <1>5 DEF t, n

\* The list with one element less.
LEMMA RemovedIs ==
  ASSUME NEW s \in Seq(Elem), NEW p \in 1 .. Len(s)
  PROVE  /\ Removed(s, p) \in Seq(Elem) /\ Len(Removed(s, p)) = Len(s) - 1
         /\ \A i \in 1 .. Len(s) - 1 : Removed(s, p)[i] = IF i < p THEN s[i] ELSE s[i+1]
<1> DEFINE n == Len(s)
           t == Removed(s, p)
<1>1. n \in Nat /\ s \in [1 .. n -> Elem] /\ n - 1 \in Nat
  BY LenProperties
<1>2. t = [i \in 1 .. n - 1 |-> IF i < p THEN s[i] ELSE s[i+1]]
  BY DEF Removed
<1>3. \A i \in 1 .. n - 1 : (IF i < p THEN s[i] ELSE s[i+1]) \in Elem
  <2> TAKE i \in 1 .. n - 1
  <2>1. i \in 1 .. n /\ i + 1 \in 1 .. n
    BY <1>1
  <2> HIDE DEF n
  <2> QED
    BY <1>1, <2>1
<1>4. t \in [1 .. n - 1 -> Elem]
  BY <1>2, <1>3
<1> HIDE DEF n, t
<1>5. t \in Seq(Elem) /\ Len(t) = n - 1
  BY <1>1, <1>4, SeqDef
<1> QED
  BY <1>2, <1>5 DEF t, n

-----------------------------------------------------------------------------
\* The chain with e inserted at place p: e is linked to the elements that are
\* there and before, and they to it.
LEMMA ChainInserted ==
  ASSUME NEW ft, NEW lt, NEW N, NEW P, NEW s, Chain(ft, lt, N, P, s),
         NEW p \in 1 .. Len(s) + 1, NEW e \in Elem, ~Holds(s, e), NEW NN, NEW PP,
         \A d \in Elem :
           /\ NN[d] = IF d = e THEN IF p = Len(s) + 1 THEN NULL ELSE s[p]
                      ELSE IF p > 1 /\ d = s[p-1] THEN e ELSE N[d]
           /\ PP[d] = IF d = e THEN IF p = 1 THEN NULL ELSE s[p-1]
                      ELSE IF p <= Len(s) /\ d = s[p] THEN e ELSE P[d]
  PROVE  Chain(IF p = 1 THEN e ELSE ft, IF p = Len(s) + 1 THEN e ELSE lt, NN, PP,
               Inserted(s, p, e))
<1> DEFINE n == Len(s)
           t == Inserted(s, p, e)
<1>1. /\ s \in Seq(Elem) /\ Distinct(s) /\ n \in Nat /\ \A i \in 1 .. n : s[i] \in Elem
      /\ \A i \in 1 .. n : s[i] # e
  BY LenProperties DEF Chain, Holds
<1>2. /\ ft = IF n = 0 THEN NULL ELSE s[1]
      /\ lt = IF n = 0 THEN NULL ELSE s[n]
      /\ \A i \in 1 .. n : /\ N[s[i]] = IF i = n THEN NULL ELSE s[i+1]
                           /\ P[s[i]] = IF i = 1 THEN NULL ELSE s[i-1]
  BY DEF Chain
<1>3. /\ t \in Seq(Elem) /\ Len(t) = n + 1
      /\ \A i \in 1 .. n + 1 : t[i] = IF i < p THEN s[i] ELSE IF i = p THEN e ELSE s[i-1]
  BY <1>1, InsertedIs
<1>4. \A i, j \in 1 .. n : s[i] = s[j] => i = j
  BY <1>1 DEF Distinct
<1> HIDE DEF n, t
<1>5. p \in 1 .. n + 1
  BY DEF n
<1>6. /\ \A i \in 1 .. n + 1 : i < p => i \in 1 .. n /\ t[i] = s[i]
      /\ t[p] = e
      /\ \A i \in 1 .. n + 1 : p < i => i - 1 \in 1 .. n /\ t[i] = s[i-1]
  BY <1>1, <1>3, <1>5
<1>7. Distinct(t)
  <2> SUFFICES ASSUME NEW i \in 1 .. n + 1, NEW j \in 1 .. n + 1, t[i] = t[j] PROVE i = j
    BY <1>3 DEF Distinct
  <2>1. \A k \in 1 .. n + 1 : k # p => t[k] # e
    BY <1>1, <1>5, <1>6
  <2>2. CASE i # p /\ j # p
    BY <1>1, <1>4, <1>5, <1>6, <2>2
  <2> QED
    BY <1>5, <1>6, <2>1, <2>2
<1>8. /\ (IF p = 1 THEN e ELSE ft) = t[1]
      /\ (IF p = n + 1 THEN e ELSE lt) = t[n+1]
  BY <1>1, <1>2, <1>5, <1>6
<1>9. ASSUME NEW i \in 1 .. n + 1
      PROVE  /\ NN[t[i]] = IF i = n + 1 THEN NULL ELSE t[i+1]
             /\ PP[t[i]] = IF i = 1 THEN NULL ELSE t[i-1]
  <2> DEFINE d == t[i]
  <2>1. /\ NN[d] = IF d = e THEN IF p = n + 1 THEN NULL ELSE s[p]
                   ELSE IF p > 1 /\ d = s[p-1] THEN e ELSE N[d]
        /\ PP[d] = IF d = e THEN IF p = 1 THEN NULL ELSE s[p-1]
                   ELSE IF p <= n /\ d = s[p] THEN e ELSE P[d]
    BY <1>1, <1>6 DEF n
  <2> HIDE DEF d
  <2>2. CASE i < p
    <3>1. i \in 1 .. n /\ d = s[i] /\ d # e
      BY <1>1, <1>6, <2>2 DEF d
    <3>2. /\ p > 1 /\ d = s[p-1] <=> i = p - 1
          /\ ~(p <= n /\ d = s[p])
      BY <1>1, <1>4, <1>5, <2>2, <3>1
    <3>3. /\ N[d] = IF i = n THEN NULL ELSE s[i+1]
          /\ P[d] = IF i = 1 THEN NULL ELSE s[i-1]
      BY <1>2, <3>1
    <3>4. /\ i # p - 1 => i + 1 \in 1 .. n + 1 /\ i + 1 < p
          /\ i # 1 => i - 1 \in 1 .. n + 1 /\ i - 1 < p
          /\ i # n + 1
      BY <1>1, <1>5, <2>2, <3>1
    <3> QED
      BY <1>1, <1>5, <1>6, <2>1, <2>2, <3>1, <3>2, <3>3, <3>4 DEF d
  <2>3. CASE i = p
    <3>1. /\ d = e
          /\ p # n + 1 => p + 1 \in 1 .. n + 1 /\ p < p + 1 /\ (p + 1) - 1 = p
          /\ p # 1 => p - 1 \in 1 .. n + 1 /\ p - 1 < p
      BY <1>1, <1>5, <1>6, <2>3 DEF d
    <3>2. /\ NN[d] = IF i = n + 1 THEN NULL ELSE s[p]
          /\ PP[d] = IF i = 1 THEN NULL ELSE s[p-1]
      BY <2>1, <2>3, <3>1
    <3>3. (p # n + 1 => t[p+1] = s[p]) /\ (p # 1 => t[p-1] = s[p-1])
      BY <1>6, <3>1
    <3> QED
      BY <2>3, <3>2, <3>3 DEF d
  <2>4. CASE p < i
    <3>1. i - 1 \in 1 .. n /\ d = s[i-1] /\ d # e
      BY <1>1, <1>6, <2>4 DEF d
    <3>2. /\ ~(p > 1 /\ d = s[p-1])
          /\ p <= n /\ d = s[p] <=> i - 1 = p
      BY <1>1, <1>4, <1>5, <2>4, <3>1
    <3>3. /\ N[d] = IF i - 1 = n THEN NULL ELSE s[i]
          /\ P[d] = IF i - 1 = 1 THEN NULL ELSE s[i-2]
      BY <1>2, <3>1
    <3>4. /\ i # n + 1 => i + 1 \in 1 .. n + 1 /\ p < i + 1 /\ (i + 1) - 1 = i
          /\ i - 1 # p => i - 1 \in 1 .. n + 1 /\ p < i - 1 /\ (i - 1) - 1 = i - 2
          /\ i - 1 = p => i - 1 \in 1 .. n + 1
          /\ i # 1 /\ (i - 1 # p => i - 1 # 1)
      BY <1>1, <1>5, <2>4, <3>1
    <3>5. NN[d] = IF i = n + 1 THEN NULL ELSE t[i+1]
      <4>1. i - 1 = n <=> i = n + 1
        BY <1>1, <3>1
      <4>2. i # n + 1 => t[i+1] = s[i]
        BY <1>6, <3>4
      <4> QED
        BY <2>1, <3>1, <3>2, <3>3, <4>1, <4>2
    <3>6. PP[d] = t[i-1]
      BY <1>6, <2>1, <3>1, <3>2, <3>3, <3>4
    <3> QED
      BY <3>4, <3>5, <3>6 DEF d
  <2> QED
    BY <1>5, <2>2, <2>3, <2>4
<1> QED
  BY <1>1, <1>3, <1>7, <1>8, <1>9 DEF Chain, n, t

\* The chain without its place p: the elements before and after it are linked.
LEMMA ChainRemoved ==
  ASSUME NEW ft, NEW lt, NEW N, NEW P, NEW s, Chain(ft, lt, N, P, s),
         NEW p \in 1 .. Len(s), NEW NN, NEW PP,
         \A d \in Elem :
           /\ NN[d] = IF d = s[p] THEN NULL
                      ELSE IF p > 1 /\ d = s[p-1] THEN N[s[p]] ELSE N[d]
           /\ PP[d] = IF d = s[p] THEN NULL
                      ELSE IF p < Len(s) /\ d = s[p+1] THEN P[s[p]] ELSE P[d]
  PROVE  Chain(IF p = 1 THEN N[s[p]] ELSE ft, IF p = Len(s) THEN P[s[p]] ELSE lt, NN, PP,
               Removed(s, p))
<1> DEFINE n == Len(s)
           t == Removed(s, p)
<1>1. /\ s \in Seq(Elem) /\ Distinct(s) /\ n \in Nat /\ \A i \in 1 .. n : s[i] \in Elem
  BY LenProperties DEF Chain
<1>2. /\ ft = IF n = 0 THEN NULL ELSE s[1]
      /\ lt = IF n = 0 THEN NULL ELSE s[n]
      /\ \A i \in 1 .. n : /\ N[s[i]] = IF i = n THEN NULL ELSE s[i+1]
                           /\ P[s[i]] = IF i = 1 THEN NULL ELSE s[i-1]
  BY DEF Chain
<1>3. /\ t \in Seq(Elem) /\ Len(t) = n - 1
      /\ \A i \in 1 .. n - 1 : t[i] = IF i < p THEN s[i] ELSE s[i+1]
  BY <1>1, RemovedIs
<1>4. \A i, j \in 1 .. n : s[i] = s[j] => i = j
  BY <1>1 DEF Distinct
<1> HIDE DEF n, t
<1>5. p \in 1 .. n
  BY DEF n
<1>6. /\ \A i \in 1 .. n - 1 : i < p => i \in 1 .. n /\ t[i] = s[i]
      /\ \A i \in 1 .. n - 1 : p <= i => i + 1 \in 1 .. n /\ t[i] = s[i+1]
  BY <1>1, <1>3, <1>5
<1>7. Distinct(t)
  <2> SUFFICES ASSUME NEW i \in 1 .. n - 1, NEW j \in 1 .. n - 1, t[i] = t[j] PROVE i = j
    BY <1>3 DEF Distinct
  <2> QED
    BY <1>1, <1>4, <1>5, <1>6
<1>8. /\ (IF p = 1 THEN N[s[p]] ELSE ft) = IF n - 1 = 0 THEN NULL ELSE t[1]
      /\ (IF p = n THEN P[s[p]] ELSE lt) = IF n - 1 = 0 THEN NULL ELSE t[n-1]
  <2>1. CASE n = 1
    BY <1>2, <1>5, <2>1
  <2>2. CASE n # 1
    <3>1. 1 \in 1 .. n - 1 /\ n - 1 \in 1 .. n - 1 /\ n - 1 # 0 /\ (n - 1) + 1 = n
      BY <1>1, <1>5, <2>2
    <3>2. (IF p = 1 THEN N[s[p]] ELSE ft) = t[1]
      BY <1>2, <1>5, <1>6, <2>2, <3>1
    <3>3. (IF p = n THEN P[s[p]] ELSE lt) = t[n-1]
      BY <1>2, <1>5, <1>6, <2>2, <3>1
    <3> QED
      BY <3>1, <3>2, <3>3
  <2> QED
    BY <2>1, <2>2
<1>9. ASSUME NEW i \in 1 .. n - 1
      PROVE  /\ NN[t[i]] = IF i = n - 1 THEN NULL ELSE t[i+1]
             /\ PP[t[i]] = IF i = 1 THEN NULL ELSE t[i-1]
  <2> DEFINE d == t[i]
             k == IF i < p THEN i ELSE i + 1
  <2>0. k \in 1 .. n /\ k # p /\ d = s[k]
    BY <1>1, <1>5, <1>6
  <2>1. /\ NN[d] = IF d = s[p] THEN NULL
                   ELSE IF p > 1 /\ d = s[p-1] THEN N[s[p]] ELSE N[d]
        /\ PP[d] = IF d = s[p] THEN NULL
                   ELSE IF p < n /\ d = s[p+1] THEN P[s[p]] ELSE P[d]
    BY <1>1, <2>0 DEF n
  <2> HIDE DEF d
  <2>2. /\ NN[d] = IF k = p - 1 THEN N[s[p]] ELSE N[d]
        /\ PP[d] = IF k = p + 1 THEN P[s[p]] ELSE P[d]
    <3>1. d # s[p] /\ (p > 1 /\ d = s[p-1] <=> k = p - 1) /\ (p < n /\ d = s[p+1] <=> k = p + 1)
      BY <1>1, <1>4, <1>5, <2>0
    <3> QED
      BY <2>1, <3>1
  <2>3. /\ NN[d] = IF k = p - 1 THEN IF p = n THEN NULL ELSE s[p+1]
                   ELSE IF k = n THEN NULL ELSE s[k+1]
        /\ PP[d] = IF k = p + 1 THEN IF p = 1 THEN NULL ELSE s[p-1]
                   ELSE IF k = 1 THEN NULL ELSE s[k-1]
    BY <1>2, <1>5, <2>0, <2>2
  <2>4. NN[d] = IF i = n - 1 THEN NULL ELSE t[i+1]
    <3>1. CASE i + 1 < p
      <4>1. i # n - 1 /\ k = i /\ k # p - 1 /\ k # n /\ t[i+1] = s[i+1]
        BY <1>1, <1>5, <1>6, <3>1
      <4> QED
        BY <2>3, <4>1
    <3>2. CASE i + 1 = p
      <4>1. k = i /\ k = p - 1 /\ (p = n <=> i = n - 1) /\ (p # n => t[i+1] = s[p+1])
        BY <1>1, <1>5, <1>6, <3>2
      <4> QED
        BY <2>3, <4>1
    <3>3. CASE i >= p
      <4>1. k = i + 1 /\ k # p - 1 /\ (k = n <=> i = n - 1) /\ (k # n => t[i+1] = s[k+1])
        <5>1. k = i + 1 /\ k # p - 1 /\ (k = n <=> i = n - 1)
          BY <1>1, <1>5, <3>3
        <5>2. k # n => i + 1 \in 1 .. n - 1 /\ p <= i + 1 /\ (i + 1) + 1 = k + 1
          BY <1>1, <1>5, <3>3, <5>1
        <5> QED
          BY <1>6, <5>1, <5>2
      <4> QED
        BY <2>3, <4>1
    <3> QED
      BY <1>1, <1>5, <3>1, <3>2, <3>3
  <2>5. PP[d] = IF i = 1 THEN NULL ELSE t[i-1]
    <3>1. CASE i < p
      <4>1. k = i /\ k # p + 1 /\ (i # 1 => t[i-1] = s[i-1])
        BY <1>1, <1>5, <1>6, <3>1
      <4> QED
        BY <2>3, <4>1
    <3>2. CASE i = p
      <4>1. k = p + 1 /\ (p # 1 => t[i-1] = s[p-1])
        BY <1>1, <1>5, <1>6, <3>2
      <4> QED
        BY <2>3, <3>2, <4>1
    <3>3. CASE i > p
      <4>1. k = i + 1 /\ k # p + 1 /\ k # 1 /\ i # 1 /\ t[i-1] = s[k-1]
        <5>1. /\ k = i + 1 /\ k # p + 1 /\ k # 1 /\ i # 1
              /\ i - 1 \in 1 .. n - 1 /\ p <= i - 1 /\ (i - 1) + 1 = k - 1
          BY <1>1, <1>5, <3>3
        <5> QED
          BY <1>6, <5>1
      <4> QED
        BY <2>3, <4>1
    <3> QED
      BY <1>1, <1>5, <3>1, <3>2, <3>3
  <2> QED
    BY <2>4, <2>5 DEF d
<1> QED
  BY <1>1, <1>3, <1>7, <1>8, <1>9 DEF Chain, n, t

-----------------------------------------------------------------------------
\* A memory with the heads and links, and perhaps more of its owner's.
Fields == {"first", "last", "next", "prev"}

IsMemory(q) ==
  /\ Fields \subseteq DOMAIN q /\ q = [x \in DOMAIN q |-> q[x]]
  /\ q.first \in [QHead -> Ptr] /\ q.last \in [QHead -> Ptr]
  /\ q.next \in [Link -> [Elem -> Ptr]] /\ q.prev \in [Link -> [Elem -> Ptr]]

\* From q to n only queue h and the links l of the elements in T may change.
Touches(q, n, h, l, T) ==
  /\ DOMAIN n = DOMAIN q /\ \A x \in DOMAIN q \ Fields : n[x] = q[x]
  /\ \A g \in QHead \ {h} : n.first[g] = q.first[g] /\ n.last[g] = q.last[g]
  /\ \A j \in Link \ {l} : n.next[j] = q.next[j] /\ n.prev[j] = q.prev[j]
  /\ \A d \in Elem \ T : n.next[l][d] = q.next[l][d] /\ n.prev[l][d] = q.prev[l][d]

\* The elements a macro touches: e and those of the list s.
Near(e, s) == {e} \cup {d \in Elem : Holds(s, d)}

\* The memory with other ends f and t of queue h and other links N and P of link l.
Stored(q, h, l, f, t, N, P) ==
  [q EXCEPT !.first = [q.first EXCEPT ![h] = f], !.last = [q.last EXCEPT ![h] = t],
            !.next = [q.next EXCEPT ![l] = N], !.prev = [q.prev EXCEPT ![l] = P]]

\* The links N and P are those of q off the elements in T.
SameOff(T, q, l, N, P) == \A d \in Elem \ T : N[d] = q.next[l][d] /\ P[d] = q.prev[l][d]

\* What the stores of a macro come to.
LEMMA StoresEffect ==
  ASSUME NEW q, IsMemory(q), NEW h \in QHead, NEW l \in Link,
         NEW f \in Ptr, NEW t \in Ptr, NEW N \in [Elem -> Ptr], NEW P \in [Elem -> Ptr],
         NEW T, SameOff(T, q, l, N, P),
         NEW n, n = Stored(q, h, l, f, t, N, P)
  PROVE  /\ IsMemory(n) /\ Touches(q, n, h, l, T)
         /\ n.first[h] = f /\ n.last[h] = t /\ n.next[l] = N /\ n.prev[l] = P
<1> DEFINE ft == [q.first EXCEPT ![h] = f]
           lt == [q.last EXCEPT ![h] = t]
           nx == [q.next EXCEPT ![l] = N]
           pv == [q.prev EXCEPT ![l] = P]
<1>1. n = [q EXCEPT !.first = ft, !.last = lt, !.next = nx, !.prev = pv]
  BY DEF Stored
<1>2. /\ ft \in [QHead -> Ptr] /\ ft[h] = f /\ \A g \in QHead \ {h} : ft[g] = q.first[g]
      /\ lt \in [QHead -> Ptr] /\ lt[h] = t /\ \A g \in QHead \ {h} : lt[g] = q.last[g]
      /\ nx \in [Link -> [Elem -> Ptr]] /\ nx[l] = N /\ \A j \in Link \ {l} : nx[j] = q.next[j]
      /\ pv \in [Link -> [Elem -> Ptr]] /\ pv[l] = P /\ \A j \in Link \ {l} : pv[j] = q.prev[j]
  BY DEF IsMemory
<1>3. Fields \subseteq DOMAIN q /\ q = [x \in DOMAIN q |-> q[x]]
  BY DEF IsMemory
<1> HIDE DEF ft, lt, nx, pv
<1>4. n.first = ft /\ n.last = lt /\ n.next = nx /\ n.prev = pv
  BY <1>1, <1>3 DEF Fields
<1>5. DOMAIN n = DOMAIN q /\ \A x \in DOMAIN q \ Fields : n[x] = q[x]
  BY <1>1, <1>3 DEF Fields
<1>6. n = [x \in DOMAIN q |-> n[x]]
  BY <1>1, <1>3
<1>7. IsMemory(n)
  BY <1>2, <1>3, <1>4, <1>5, <1>6 DEF IsMemory
<1>8. Touches(q, n, h, l, T)
  <2>1. /\ \A g \in QHead \ {h} : n.first[g] = q.first[g] /\ n.last[g] = q.last[g]
        /\ \A j \in Link \ {l} : n.next[j] = q.next[j] /\ n.prev[j] = q.prev[j]
    BY <1>2, <1>4
  <2>2. \A d \in Elem \ T : n.next[l][d] = q.next[l][d] /\ n.prev[l][d] = q.prev[l][d]
    BY <1>2, <1>4 DEF SameOff
  <2> QED
    BY <1>5, <2>1, <2>2 DEF Touches
<1> QED
  BY <1>2, <1>4, <1>7, <1>8

\* The queues a macro is not called on keep their lists.
LEMMA OtherLists ==
  ASSUME NEW q, NEW n, NEW h \in QHead, NEW l \in Link, NEW T, Touches(q, n, h, l, T),
         NEW g \in QHead \ {h}, NEW j \in Link, NEW r, IsList(q, g, j, r),
         j = l => \A d \in T : ~Holds(r, d)
  PROVE  IsList(n, g, j, r)
<1>1. r \in Seq(Elem) /\ \A i \in 1 .. Len(r) : r[i] \in Elem
  BY LenProperties DEF IsList, Chain
<1>2. ASSUME NEW i \in 1 .. Len(r)
      PROVE  n.next[j][r[i]] = q.next[j][r[i]] /\ n.prev[j][r[i]] = q.prev[j][r[i]]
  <2>1. CASE j # l
    BY <2>1 DEF Touches
  <2>2. CASE j = l
    <3>1. r[i] \notin T
      BY <2>2 DEF Holds
    <3> QED
      BY <1>1, <2>2, <3>1 DEF Touches
  <2> QED
    BY <2>1, <2>2
<1>3. n.first[g] = q.first[g] /\ n.last[g] = q.last[g]
  BY DEF Touches
<1> QED
  BY <1>2, <1>3 DEF IsList, Chain

\* What a list says of its ends.
LEMMA ListEnds ==
  ASSUME NEW q, NEW h \in QHead, NEW l \in Link, NEW s, IsList(q, h, l, s)
  PROVE  /\ s \in Seq(Elem) /\ Len(s) \in Nat /\ Distinct(s)
         /\ \A i \in 1 .. Len(s) : s[i] \in Elem /\ s[i] # NULL
         /\ Len(s) = 0 => q.first[h] = NULL /\ q.last[h] = NULL
         /\ Len(s) # 0 => /\ q.first[h] = s[1] /\ q.first[h] # NULL
                          /\ q.last[h] = s[Len(s)] /\ q.last[h] # NULL
<1>1. s \in Seq(Elem) /\ Len(s) \in Nat /\ Distinct(s)
  BY LenProperties DEF IsList, Chain
<1>2. \A i \in 1 .. Len(s) : s[i] \in Elem /\ s[i] # NULL
  BY <1>1, LenProperties, NullAssumption
<1>3. Len(s) # 0 => 1 \in 1 .. Len(s) /\ Len(s) \in 1 .. Len(s)
  BY <1>1
<1> QED
  BY <1>1, <1>2, <1>3 DEF IsList, Chain

-----------------------------------------------------------------------------
\* Q_INSERT_FRONT puts e before the list.
LEMMA InsertFrontList ==
  ASSUME NEW q, IsMemory(q), NEW h \in QHead, NEW e \in Elem, NEW l \in Link,
         NEW s, IsList(q, h, l, s), ~Holds(s, e), NEW n, n = Q_INSERT_FRONT(q, h, e, l)
  PROVE  /\ IsMemory(n) /\ IsList(n, h, l, Inserted(s, 1, e))
         /\ Touches(q, n, h, l, Near(e, s))
<1> DEFINE N == [q.next[l] EXCEPT ![e] = q.first[h]]
           P == [Store(q.prev[l], q.first[h], e) EXCEPT ![e] = NULL]
           t == IF q.last[h] = NULL THEN e ELSE q.last[h]
<1>1. /\ Len(s) \in Nat /\ \A i \in 1 .. Len(s) : s[i] \in Elem /\ s[i] # NULL /\ s[i] # e
      /\ Len(s) = 0 => q.first[h] = NULL /\ q.last[h] = NULL
      /\ Len(s) # 0 => q.first[h] = s[1] /\ q.first[h] # NULL /\ q.last[h] # NULL
  BY ListEnds DEF Holds
<1>2. /\ q.first[h] \in Ptr /\ q.last[h] \in Ptr /\ e \in Ptr /\ NULL \in Ptr
      /\ q.next[l] \in [Elem -> Ptr] /\ q.prev[l] \in [Elem -> Ptr]
  BY DEF IsMemory, Ptr
<1>3. n = Stored(q, h, l, e, t, N, P)
  BY DEF Q_INSERT_FRONT, Stored
<1>4. N \in [Elem -> Ptr] /\ P \in [Elem -> Ptr] /\ t \in Ptr
  BY <1>2 DEF Store
<1>5. \A d \in Elem : /\ N[d] = IF d = e THEN q.first[h] ELSE q.next[l][d]
                      /\ P[d] = IF d = e THEN NULL
                                ELSE IF q.first[h] # NULL /\ d = q.first[h] THEN e
                                ELSE q.prev[l][d]
  BY <1>2 DEF Store
<1>6. \A d \in Elem \ Near(e, s) : d # e /\ \A i \in 1 .. Len(s) : d # s[i]
  BY DEF Near, Holds
<1>7. t = IF 1 = Len(s) + 1 THEN e ELSE q.last[h]
  BY <1>1
<1> HIDE DEF N, P, t
<1>8. \A d \in Elem : /\ N[d] = IF d = e THEN IF 1 = Len(s) + 1 THEN NULL ELSE s[1]
                                ELSE IF 1 > 1 /\ d = s[1-1] THEN e ELSE q.next[l][d]
                      /\ P[d] = IF d = e THEN IF 1 = 1 THEN NULL ELSE s[1-1]
                                ELSE IF 1 <= Len(s) /\ d = s[1] THEN e ELSE q.prev[l][d]
  BY <1>1, <1>5
<1>9. SameOff(Near(e, s), q, l, N, P)
  BY <1>1, <1>5, <1>6 DEF SameOff
<1>10. /\ IsMemory(n) /\ Touches(q, n, h, l, Near(e, s))
       /\ n.first[h] = e /\ n.last[h] = t /\ n.next[l] = N /\ n.prev[l] = P
  <2> e \in Ptr
    BY <1>2
  <2> QED
    BY <1>3, <1>4, <1>9, StoresEffect
<1>11. 1 \in 1 .. Len(s) + 1
  BY <1>1
<1>12. Chain(IF 1 = 1 THEN e ELSE q.first[h], IF 1 = Len(s) + 1 THEN e ELSE q.last[h], N, P,
             Inserted(s, 1, e))
  BY <1>8, <1>11, ChainInserted DEF IsList
<1> QED
  BY <1>7, <1>10, <1>12 DEF IsList

\* Q_INSERT_TAIL puts e after the list.
LEMMA InsertTailList ==
  ASSUME NEW q, IsMemory(q), NEW h \in QHead, NEW e \in Elem, NEW l \in Link,
         NEW s, IsList(q, h, l, s), ~Holds(s, e), NEW n, n = Q_INSERT_TAIL(q, h, e, l)
  PROVE  /\ IsMemory(n) /\ IsList(n, h, l, Inserted(s, Len(s) + 1, e))
         /\ Touches(q, n, h, l, Near(e, s))
<1> DEFINE N == [Store(q.next[l], q.last[h], e) EXCEPT ![e] = NULL]
           P == [q.prev[l] EXCEPT ![e] = q.last[h]]
           f == IF q.first[h] = NULL THEN e ELSE q.first[h]
           p == Len(s) + 1
<1>1. /\ Len(s) \in Nat /\ \A i \in 1 .. Len(s) : s[i] \in Elem /\ s[i] # NULL /\ s[i] # e
      /\ Len(s) = 0 => q.first[h] = NULL /\ q.last[h] = NULL
      /\ Len(s) # 0 => q.last[h] = s[Len(s)] /\ q.first[h] # NULL /\ q.last[h] # NULL
  BY ListEnds DEF Holds
<1>2. /\ q.first[h] \in Ptr /\ q.last[h] \in Ptr /\ e \in Ptr /\ NULL \in Ptr
      /\ q.next[l] \in [Elem -> Ptr] /\ q.prev[l] \in [Elem -> Ptr]
  BY DEF IsMemory, Ptr
<1>3. n = Stored(q, h, l, f, e, N, P)
  BY DEF Q_INSERT_TAIL, Stored
<1>4. N \in [Elem -> Ptr] /\ P \in [Elem -> Ptr] /\ f \in Ptr
  BY <1>2 DEF Store
<1>5. \A d \in Elem : /\ P[d] = IF d = e THEN q.last[h] ELSE q.prev[l][d]
                      /\ N[d] = IF d = e THEN NULL
                                ELSE IF q.last[h] # NULL /\ d = q.last[h] THEN e
                                ELSE q.next[l][d]
  BY <1>2 DEF Store
<1>6. \A d \in Elem \ Near(e, s) : d # e /\ \A i \in 1 .. Len(s) : d # s[i]
  BY DEF Near, Holds
<1>7. f = IF p = 1 THEN e ELSE q.first[h]
  BY <1>1
<1>8. p \in 1 .. Len(s) + 1 /\ p = Len(s) + 1 /\ ~(p <= Len(s)) /\ p - 1 = Len(s)
      /\ (p = 1 <=> Len(s) = 0) /\ (p > 1 <=> Len(s) # 0)
  BY <1>1
<1> HIDE DEF N, P, f, p
<1>9. \A d \in Elem : /\ N[d] = IF d = e THEN IF p = Len(s) + 1 THEN NULL ELSE s[p]
                                ELSE IF p > 1 /\ d = s[p-1] THEN e ELSE q.next[l][d]
                      /\ P[d] = IF d = e THEN IF p = 1 THEN NULL ELSE s[p-1]
                                ELSE IF p <= Len(s) /\ d = s[p] THEN e ELSE q.prev[l][d]
  BY <1>1, <1>5, <1>8
<1>10. SameOff(Near(e, s), q, l, N, P)
  BY <1>1, <1>5, <1>6 DEF SameOff
<1>11. /\ IsMemory(n) /\ Touches(q, n, h, l, Near(e, s))
       /\ n.first[h] = f /\ n.last[h] = e /\ n.next[l] = N /\ n.prev[l] = P
  <2> e \in Ptr
    BY <1>2
  <2> QED
    BY <1>3, <1>4, <1>10, StoresEffect
<1>12. Chain(IF p = 1 THEN e ELSE q.first[h], IF p = Len(s) + 1 THEN e ELSE q.last[h], N, P,
             Inserted(s, p, e))
  BY <1>8, <1>9, ChainInserted DEF IsList
<1> QED
  BY <1>7, <1>8, <1>11, <1>12 DEF IsList

\* Q_INSERT_AFTER puts e after the element at place i.
LEMMA InsertAfterList ==
  ASSUME NEW q, IsMemory(q), NEW h \in QHead, NEW e \in Elem, NEW l \in Link,
         NEW s, IsList(q, h, l, s), ~Holds(s, e), NEW i \in 1 .. Len(s),
         NEW n, n = Q_INSERT_AFTER(q, h, s[i], e, l)
  PROVE  /\ IsMemory(n) /\ IsList(n, h, l, Inserted(s, i + 1, e))
         /\ Touches(q, n, h, l, Near(e, s))
<1>1. /\ Len(s) \in Nat /\ \A j \in 1 .. Len(s) : s[j] \in Elem /\ s[j] # NULL /\ s[j] # e
      /\ q.last[h] = s[Len(s)] /\ \A j \in 1 .. Len(s) : s[j] = s[i] => i = j
  BY ListEnds DEF Holds, Distinct
<1>2. Len(s) \in 1 .. Len(s) /\ (q.last[h] = s[i] <=> i = Len(s))
  BY <1>1
<1>3. CASE i = Len(s)
  BY <1>2, <1>3, InsertTailList DEF Q_INSERT_AFTER
<1>4. CASE i # Len(s)
  <2> DEFINE N == [q.next[l] EXCEPT ![e] = q.next[l][s[i]], ![s[i]] = e]
             P == Store([q.prev[l] EXCEPT ![e] = s[i]], q.next[l][s[i]], e)
             p == i + 1
  <2>1. /\ p \in 1 .. Len(s) + 1 /\ p \in 1 .. Len(s) /\ p - 1 = i /\ p > 1 /\ p # 1
        /\ p # Len(s) + 1 /\ p <= Len(s) /\ p = i + 1
    BY <1>1, <1>4
  <2>2. q.next[l][s[i]] = s[p] /\ s[p] \in Elem /\ s[p] # NULL /\ s[i] \in Elem /\ s[i] # e
        /\ s[p] # e /\ s[p] # s[i]
    BY <1>1, <1>4, <2>1 DEF IsList, Chain
  <2>3. /\ q.next[l] \in [Elem -> Ptr] /\ q.prev[l] \in [Elem -> Ptr]
        /\ q.first[h] \in Ptr /\ q.last[h] \in Ptr /\ e \in Ptr /\ s[p] \in Ptr /\ s[i] \in Ptr
        /\ q.first = [q.first EXCEPT ![h] = q.first[h]]
        /\ q.last = [q.last EXCEPT ![h] = q.last[h]]
    BY <2>2 DEF IsMemory, Ptr
  <2>4. n = [q EXCEPT !.next = [q.next EXCEPT ![l] = N], !.prev = [q.prev EXCEPT ![l] = P]]
    BY <1>2, <1>4 DEF Q_INSERT_AFTER
  <2>5. N \in [Elem -> Ptr] /\ P \in [Elem -> Ptr]
    BY <2>2, <2>3 DEF Store
  <2>6. \A d \in Elem : /\ N[d] = IF d = e THEN s[p] ELSE IF d = s[i] THEN e ELSE q.next[l][d]
                        /\ P[d] = IF d = e THEN s[i] ELSE IF d = s[p] THEN e ELSE q.prev[l][d]
    BY <2>2, <2>3 DEF Store
  <2> HIDE DEF N, P, p
  <2>7. n = Stored(q, h, l, q.first[h], q.last[h], N, P)
    <3> DEFINE nx == [q.next EXCEPT ![l] = N]
               pv == [q.prev EXCEPT ![l] = P]
    <3> HIDE DEF nx, pv
    <3>1. q = [x \in DOMAIN q |-> q[x]] /\ Fields \subseteq DOMAIN q
      BY DEF IsMemory
    <3>2. [q EXCEPT !.next = nx, !.prev = pv]
          = [q EXCEPT !.first = q.first, !.last = q.last, !.next = nx, !.prev = pv]
      BY <3>1 DEF Fields
    <3> QED
      BY <2>3, <2>4, <3>2 DEF nx, pv, Stored
  <2>8. \A d \in Elem \ Near(e, s) : d # e /\ \A j \in 1 .. Len(s) : d # s[j]
    BY DEF Near, Holds
  <2>9. SameOff(Near(e, s), q, l, N, P)
    BY <2>1, <2>6, <2>8 DEF SameOff
  <2>10. /\ IsMemory(n) /\ Touches(q, n, h, l, Near(e, s))
         /\ n.first[h] = q.first[h] /\ n.last[h] = q.last[h] /\ n.next[l] = N /\ n.prev[l] = P
    <3> q.first[h] \in Ptr /\ q.last[h] \in Ptr
      BY <2>3
    <3> QED
      BY <2>5, <2>7, <2>9, StoresEffect
  <2>11. \A d \in Elem : /\ N[d] = IF d = e THEN IF p = Len(s) + 1 THEN NULL ELSE s[p]
                                   ELSE IF p > 1 /\ d = s[p-1] THEN e ELSE q.next[l][d]
                         /\ P[d] = IF d = e THEN IF p = 1 THEN NULL ELSE s[p-1]
                                   ELSE IF p <= Len(s) /\ d = s[p] THEN e ELSE q.prev[l][d]
    BY <2>1, <2>6
  <2>12. Chain(IF p = 1 THEN e ELSE q.first[h], IF p = Len(s) + 1 THEN e ELSE q.last[h], N, P,
               Inserted(s, p, e))
    <3> Chain(q.first[h], q.last[h], q.next[l], q.prev[l], s) /\ p \in 1 .. Len(s) + 1
      BY <2>1 DEF IsList
    <3> QED
      BY <2>11, ChainInserted
  <2> QED
    BY <2>1, <2>10, <2>12 DEF IsList
<1> QED
  BY <1>3, <1>4

\* Q_INSERT_BEFORE puts e before the element at place i.
LEMMA InsertBeforeList ==
  ASSUME NEW q, IsMemory(q), NEW h \in QHead, NEW e \in Elem, NEW l \in Link,
         NEW s, IsList(q, h, l, s), ~Holds(s, e), NEW i \in 1 .. Len(s),
         NEW n, n = Q_INSERT_BEFORE(q, h, s[i], e, l)
  PROVE  /\ IsMemory(n) /\ IsList(n, h, l, Inserted(s, i, e))
         /\ Touches(q, n, h, l, Near(e, s))
<1>1. /\ Len(s) \in Nat /\ \A j \in 1 .. Len(s) : s[j] \in Elem /\ s[j] # NULL /\ s[j] # e
      /\ q.first[h] = s[1] /\ \A j \in 1 .. Len(s) : s[j] = s[i] => i = j
  BY ListEnds DEF Holds, Distinct
<1>2. 1 \in 1 .. Len(s) /\ (q.first[h] = s[i] <=> i = 1)
  BY <1>1
<1>3. CASE i = 1
  BY <1>2, <1>3, InsertFrontList DEF Q_INSERT_BEFORE
<1>4. CASE i # 1
  <2> DEFINE N == Store([q.next[l] EXCEPT ![e] = s[i]], q.prev[l][s[i]], e)
             P == [q.prev[l] EXCEPT ![e] = q.prev[l][s[i]], ![s[i]] = e]
             c == s[i-1]
  <2>1. /\ i \in 1 .. Len(s) + 1 /\ i - 1 \in 1 .. Len(s) /\ i > 1 /\ i # Len(s) + 1
        /\ i <= Len(s)
    BY <1>1, <1>4
  <2>2. q.prev[l][s[i]] = c /\ c \in Elem /\ c # NULL /\ s[i] \in Elem /\ s[i] # e
        /\ c # e /\ c # s[i]
    BY <1>1, <1>4, <2>1 DEF IsList, Chain
  <2>3. /\ q.next[l] \in [Elem -> Ptr] /\ q.prev[l] \in [Elem -> Ptr]
        /\ q.first[h] \in Ptr /\ q.last[h] \in Ptr /\ e \in Ptr /\ c \in Ptr /\ s[i] \in Ptr
        /\ q.first = [q.first EXCEPT ![h] = q.first[h]]
        /\ q.last = [q.last EXCEPT ![h] = q.last[h]]
    BY <2>2 DEF IsMemory, Ptr
  <2>4. n = [q EXCEPT !.prev = [q.prev EXCEPT ![l] = P], !.next = [q.next EXCEPT ![l] = N]]
    BY <1>2, <1>4 DEF Q_INSERT_BEFORE
  <2>5. N \in [Elem -> Ptr] /\ P \in [Elem -> Ptr]
    BY <2>2, <2>3 DEF Store
  <2>6. \A d \in Elem : /\ N[d] = IF d = e THEN s[i] ELSE IF d = c THEN e ELSE q.next[l][d]
                        /\ P[d] = IF d = e THEN c ELSE IF d = s[i] THEN e ELSE q.prev[l][d]
    BY <2>2, <2>3 DEF Store
  <2> HIDE DEF N, P
  <2>7. n = Stored(q, h, l, q.first[h], q.last[h], N, P)
    <3> DEFINE nx == [q.next EXCEPT ![l] = N]
               pv == [q.prev EXCEPT ![l] = P]
    <3> HIDE DEF nx, pv
    <3>1. q = [x \in DOMAIN q |-> q[x]] /\ Fields \subseteq DOMAIN q
      BY DEF IsMemory
    <3>2. [q EXCEPT !.prev = pv, !.next = nx]
          = [q EXCEPT !.first = q.first, !.last = q.last, !.next = nx, !.prev = pv]
      BY <3>1 DEF Fields
    <3> QED
      BY <2>3, <2>4, <3>2 DEF nx, pv, Stored
  <2>8. \A d \in Elem \ Near(e, s) : d # e /\ \A j \in 1 .. Len(s) : d # s[j]
    BY DEF Near, Holds
  <2>9. SameOff(Near(e, s), q, l, N, P)
    BY <2>1, <2>6, <2>8 DEF SameOff
  <2>10. /\ IsMemory(n) /\ Touches(q, n, h, l, Near(e, s))
         /\ n.first[h] = q.first[h] /\ n.last[h] = q.last[h] /\ n.next[l] = N /\ n.prev[l] = P
    <3> q.first[h] \in Ptr /\ q.last[h] \in Ptr
      BY <2>3
    <3> QED
      BY <2>5, <2>7, <2>9, StoresEffect
  <2>11. \A d \in Elem : /\ N[d] = IF d = e THEN IF i = Len(s) + 1 THEN NULL ELSE s[i]
                                   ELSE IF i > 1 /\ d = s[i-1] THEN e ELSE q.next[l][d]
                         /\ P[d] = IF d = e THEN IF i = 1 THEN NULL ELSE s[i-1]
                                   ELSE IF i <= Len(s) /\ d = s[i] THEN e ELSE q.prev[l][d]
    BY <2>1, <2>6
  <2>12. Chain(IF i = 1 THEN e ELSE q.first[h], IF i = Len(s) + 1 THEN e ELSE q.last[h], N, P,
               Inserted(s, i, e))
    <3> Chain(q.first[h], q.last[h], q.next[l], q.prev[l], s) /\ i \in 1 .. Len(s) + 1
      BY <2>1 DEF IsList
    <3> QED
      BY <2>11, ChainInserted
  <2> QED
    BY <2>1, <2>10, <2>12 DEF IsList
<1> QED
  BY <1>3, <1>4

\* Q_REMOVE takes the element at place i out of the list.
LEMMA RemoveList ==
  ASSUME NEW q, IsMemory(q), NEW h \in QHead, NEW l \in Link,
         NEW s, IsList(q, h, l, s), NEW i \in 1 .. Len(s), NEW n, n = Q_REMOVE(q, h, s[i], l)
  PROVE  /\ IsMemory(n) /\ IsList(n, h, l, Removed(s, i))
         /\ Touches(q, n, h, l, Near(s[i], s))
<1> DEFINE e == s[i]
           N == [Store(q.next[l], q.prev[l][e], q.next[l][e]) EXCEPT ![e] = NULL]
           P == [Store(q.prev[l], q.next[l][e], q.prev[l][e]) EXCEPT ![e] = NULL]
           f == IF q.first[h] = e THEN q.next[l][e] ELSE q.first[h]
           t == IF q.last[h] = e THEN q.prev[l][e] ELSE q.last[h]
<1>1. /\ Len(s) \in Nat /\ \A j \in 1 .. Len(s) : s[j] \in Elem /\ s[j] # NULL
      /\ q.first[h] = s[1] /\ q.last[h] = s[Len(s)] /\ \A j \in 1 .. Len(s) : s[j] = e => i = j
  BY ListEnds DEF Distinct
<1>2. /\ q.first[h] \in Ptr /\ q.last[h] \in Ptr /\ e \in Elem /\ NULL \in Ptr
      /\ q.next[l] \in [Elem -> Ptr] /\ q.prev[l] \in [Elem -> Ptr]
      /\ q.next[l][e] \in Ptr /\ q.prev[l][e] \in Ptr
  BY <1>1 DEF IsMemory, Ptr
<1>3. n = Stored(q, h, l, f, t, N, P)
  BY DEF Q_REMOVE, Stored
<1>4. N \in [Elem -> Ptr] /\ P \in [Elem -> Ptr] /\ f \in Ptr /\ t \in Ptr
  BY <1>2 DEF Store
<1>5. /\ q.next[l][e] = IF i = Len(s) THEN NULL ELSE s[i+1]
      /\ q.prev[l][e] = IF i = 1 THEN NULL ELSE s[i-1]
  BY DEF IsList, Chain
<1>6. \A d \in Elem :
        /\ N[d] = IF d = e THEN NULL
                  ELSE IF q.prev[l][e] # NULL /\ d = q.prev[l][e] THEN q.next[l][e]
                  ELSE q.next[l][d]
        /\ P[d] = IF d = e THEN NULL
                  ELSE IF q.next[l][e] # NULL /\ d = q.next[l][e] THEN q.prev[l][e]
                  ELSE q.prev[l][d]
  BY <1>2 DEF Store
<1>7. /\ i = 1 \/ (i > 1 /\ s[i-1] # NULL /\ i - 1 \in 1 .. Len(s))
      /\ i = Len(s) \/ (i < Len(s) /\ s[i+1] # NULL /\ i + 1 \in 1 .. Len(s))
      /\ 1 \in 1 .. Len(s) /\ Len(s) \in 1 .. Len(s)
  BY <1>1
<1>8. \A d \in Elem \ Near(e, s) : \A j \in 1 .. Len(s) : d # s[j]
  BY DEF Near, Holds
<1>9. /\ f = IF i = 1 THEN q.next[l][e] ELSE q.first[h]
      /\ t = IF i = Len(s) THEN q.prev[l][e] ELSE q.last[h]
  BY <1>1, <1>7
<1> HIDE DEF N, P, f, t
<1>10. \A d \in Elem : /\ N[d] = IF d = s[i] THEN NULL
                                 ELSE IF i > 1 /\ d = s[i-1] THEN q.next[l][s[i]] ELSE q.next[l][d]
                       /\ P[d] = IF d = s[i] THEN NULL
                                 ELSE IF i < Len(s) /\ d = s[i+1] THEN q.prev[l][s[i]]
                                 ELSE q.prev[l][d]
  BY <1>1, <1>5, <1>6, <1>7
<1>11. SameOff(Near(e, s), q, l, N, P)
  BY <1>6, <1>5, <1>7, <1>8 DEF SameOff
<1>12. /\ IsMemory(n) /\ Touches(q, n, h, l, Near(e, s))
       /\ n.first[h] = f /\ n.last[h] = t /\ n.next[l] = N /\ n.prev[l] = P
  <2> HIDE DEF e
  <2> QED
    BY <1>3, <1>4, <1>11, StoresEffect
<1>13. Chain(IF i = 1 THEN q.next[l][s[i]] ELSE q.first[h],
             IF i = Len(s) THEN q.prev[l][s[i]] ELSE q.last[h], N, P, Removed(s, i))
  <2> DEFINE ft == q.first[h]   lt == q.last[h]   nx == q.next[l]   pv == q.prev[l]
  <2>1. Chain(ft, lt, nx, pv, s)
    BY DEF IsList
  <2>2. \A d \in Elem : /\ N[d] = IF d = s[i] THEN NULL
                                 ELSE IF i > 1 /\ d = s[i-1] THEN nx[s[i]] ELSE nx[d]
                       /\ P[d] = IF d = s[i] THEN NULL
                                 ELSE IF i < Len(s) /\ d = s[i+1] THEN pv[s[i]] ELSE pv[d]
    BY <1>10
  <2> HIDE DEF ft, lt, nx, pv
  <2>3. Chain(IF i = 1 THEN nx[s[i]] ELSE ft, IF i = Len(s) THEN pv[s[i]] ELSE lt, N, P,
              Removed(s, i))
    BY <2>1, <2>2, ChainRemoved
  <2> QED
    BY <2>3 DEF ft, lt, nx, pv
<1> QED
  BY <1>9, <1>12, <1>13 DEF IsList

-----------------------------------------------------------------------------
\* A list has no more elements than there are.
LEMMA ListFits ==
  ASSUME NEW s \in Seq(Elem), Distinct(s)
  PROVE  Len(s) \in Nat /\ Cardinality(Elem) \in Nat /\ Len(s) <= Cardinality(Elem)
<1>1. Len(s) \in Nat /\ s \in [1 .. Len(s) -> Elem]
  BY LenProperties
<1>2. s \in Injection(1 .. Len(s), Elem)
  BY <1>1 DEF Distinct, Injection, IsInjective
<1>3. Cardinality(1 .. Len(s)) <= Cardinality(Elem)
  BY <1>2, FS_Injection, FiniteAssumption
<1>4. Cardinality(1 .. Len(s)) = Len(s)
  BY <1>1, FS_Interval
<1> QED
  BY <1>1, <1>3, <1>4, FS_CardinalityType, FiniteAssumption

\* Q_FOREACH visits the elements of the list, in its order.
LEMMA ForeachList ==
  ASSUME NEW q, NEW h, NEW l, NEW s, IsList(q, h, l, s)
  PROVE  Q_FOREACH(q, h, l) = s
<1> DEFINE C == Cardinality(Elem)
           len == Len(s)
           Follows(w) == w = [n \in 0 .. C |-> IF n = 0 THEN q.first[h]
                                               ELSE IF w[n-1] = NULL THEN NULL
                                               ELSE q.next[l][w[n-1]]]
           W == [n \in 0 .. C |-> IF n < len THEN s[n+1] ELSE NULL]
<1>1. /\ s \in Seq(Elem) /\ s \in [1 .. len -> Elem] /\ len \in Nat
      /\ C \in Nat /\ len <= C
      /\ \A i \in 1 .. len : s[i] # NULL
      /\ q.first[h] = IF len = 0 THEN NULL ELSE s[1]
      /\ \A i \in 1 .. len : q.next[l][s[i]] = IF i = len THEN NULL ELSE s[i+1]
  BY ListFits, LenProperties, NullAssumption DEF IsList, Chain
<1> HIDE DEF C, len
<1>2. \A n \in 0 .. C : W[n] = IF n < len THEN s[n+1] ELSE NULL
  OBVIOUS
<1>3. \A n \in 0 .. C : W[n] = IF n = 0 THEN q.first[h]
                               ELSE IF W[n-1] = NULL THEN NULL ELSE q.next[l][W[n-1]]
  <2> TAKE n \in 0 .. C
  <2>1. CASE n = 0
    BY <1>1, <1>2, <2>1
  <2>2. CASE n # 0
    <3>1. n - 1 \in 0 .. C /\ (n - 1) + 1 = n /\ W[n-1] = IF n - 1 < len THEN s[n] ELSE NULL
      BY <1>1, <1>2, <2>2
    <3>2. CASE n - 1 < len
      <4>1. n \in 1 .. len /\ (n < len <=> n # len)
        BY <1>1, <2>2, <3>2
      <4> QED
        BY <1>1, <1>2, <2>2, <3>1, <3>2, <4>1
    <3>3. CASE ~(n - 1 < len)
      <4>1. ~(n < len)
        BY <1>1, <2>2, <3>3
      <4> QED
        BY <1>2, <2>2, <3>1, <3>3, <4>1
    <3> QED
      BY <3>2, <3>3
  <2> QED
    BY <2>1, <2>2
<1>4. Follows(W)
  BY <1>3
<1>5. ASSUME NEW w, Follows(w)
      PROVE  w = W
  <2> DEFINE S == {n \in Nat : n \in 0 .. C => w[n] = W[n]}
  <2>1. \A n \in 0 .. C : w[n] = IF n = 0 THEN q.first[h]
                                 ELSE IF w[n-1] = NULL THEN NULL ELSE q.next[l][w[n-1]]
    BY <1>5
  <2>2. 0 \in S
    BY <1>1, <1>3, <2>1
  <2>3. ASSUME NEW n \in Nat, n \in S
        PROVE  n + 1 \in S
    <3> SUFFICES ASSUME n + 1 \in 0 .. C PROVE w[n+1] = W[n+1]
      OBVIOUS
    <3>1. n \in 0 .. C /\ n + 1 # 0 /\ (n + 1) - 1 = n
      BY <1>1
    <3>2. w[n] = W[n]
      BY <2>3, <3>1
    <3> HIDE DEF W, S
    <3> QED
      BY <1>3, <2>1, <3>1, <3>2
  <2>4. \A n \in Nat : n \in S
    <3> HIDE DEF S
    <3> QED
      BY <2>2, <2>3, AllNumbers
  <2>5. \A n \in 0 .. C : w[n] = W[n]
    <3> TAKE n \in 0 .. C
    <3>1. n \in S
      <4> n \in Nat
        BY <1>1
      <4> HIDE DEF S
      <4> QED
        BY <2>4
    <3> HIDE DEF W
    <3> QED
      BY <3>1
  <2>6. w = [n \in 0 .. C |-> w[n]] /\ W = [n \in 0 .. C |-> W[n]]
    BY <1>5
  <2> HIDE DEF W, Follows
  <2> QED
    BY <2>5, <2>6
<1> DEFINE walk == CHOOSE w : Follows(w)
<1>6. walk = W
  <2> HIDE DEF Follows, W
  <2> QED
    BY <1>4, <1>5
<1> DEFINE visited == {n \in 0 .. (C - 1) : walk[n] # NULL}
<1>7. Q_FOREACH(q, h, l) = [i \in 1 .. Cardinality(visited) |-> walk[i-1]]
  BY DEF Q_FOREACH, C
<1>8. visited = 0 .. (len - 1)
  <2>1. \A n \in 0 .. (C - 1) : walk[n] # NULL <=> n < len
    <3> TAKE n \in 0 .. (C - 1)
    <3>1. n \in 0 .. C /\ (n < len => n + 1 \in 1 .. len)
      BY <1>1
    <3> HIDE DEF W, walk
    <3> QED
      BY <1>1, <1>2, <1>6, <3>1
  <2> HIDE DEF walk
  <2> QED
    BY <1>1, <2>1
<1>9. Cardinality(visited) = len
  <2>1. Cardinality(0 .. (len - 1)) = IF 0 > len - 1 THEN 0 ELSE (len - 1) - 0 + 1
    BY <1>1, FS_Interval
  <2>2. Cardinality(visited) = Cardinality(0 .. (len - 1))
    BY <1>8
  <2> HIDE DEF visited
  <2> QED
    BY <1>1, <2>1, <2>2
<1>10. \A i \in 1 .. len : walk[i-1] = s[i]
  <2> TAKE i \in 1 .. len
  <2>1. i - 1 \in 0 .. C /\ i - 1 < len /\ (i - 1) + 1 = i
    BY <1>1
  <2> HIDE DEF W, walk
  <2> QED
    BY <1>2, <1>6, <2>1
<1> HIDE DEF walk, visited
<1> QED
  BY <1>1, <1>7, <1>9, <1>10

-----------------------------------------------------------------------------
(* What the queues hold, their order left aside: each queue h is a list of *)
(* the link link[h] and holds the elements Q[h], and no element is on two  *)
(* queues of one link.                                                     *)
IsSet(m, h, l, E) == \E s : IsList(m, h, l, s) /\ \A e \in Elem : e \in E <=> Holds(s, e)

Apart(link, Q) == \A g, h \in QHead : g # h /\ link[g] = link[h] => Q[g] \cap Q[h] = {}

Linked(m, link, Q) ==
  /\ IsMemory(m) /\ link \in [QHead -> Link] /\ Q \in [QHead -> SUBSET Elem]
  /\ \A h \in QHead : IsSet(m, h, link[h], Q[h])
  /\ Apart(link, Q)

\* The element e is on no queue of the link of h.
Unlinked(link, Q, h, e) == \A g \in QHead : link[g] = link[h] => e \notin Q[g]

\* Nothing but heads and links differs between m and n.
SameRest(m, n) == DOMAIN n = DOMAIN m /\ \A x \in DOMAIN m \ Fields : n[x] = m[x]

\* What the list with e inserted holds.
LEMMA HoldsInserted ==
  ASSUME NEW s \in Seq(Elem), NEW p \in 1 .. Len(s) + 1, NEW e \in Elem, NEW d
  PROVE  Holds(Inserted(s, p, e), d) <=> Holds(s, d) \/ d = e
<1> DEFINE t == Inserted(s, p, e)
<1>1. /\ Len(s) \in Nat /\ Len(t) = Len(s) + 1 /\ p \in 1 .. Len(s) + 1
      /\ \A i \in 1 .. Len(s) + 1 : t[i] = IF i < p THEN s[i] ELSE IF i = p THEN e ELSE s[i-1]
  BY InsertedIs, LenProperties
<1> HIDE DEF t
<1>2. ASSUME NEW i \in 1 .. Len(t), t[i] = d
      PROVE  Holds(s, d) \/ d = e
  <2>1. i < p => i \in 1 .. Len(s) /\ t[i] = s[i]
    BY <1>1
  <2>2. i > p => i - 1 \in 1 .. Len(s) /\ t[i] = s[i-1]
    BY <1>1
  <2>3. i = p => t[i] = e
    BY <1>1
  <2> QED
    BY <1>1, <1>2, <2>1, <2>2, <2>3 DEF Holds
<1>3. ASSUME NEW i \in 1 .. Len(s), s[i] = d
      PROVE  Holds(t, d)
  <2>1. i < p => i \in 1 .. Len(t) /\ t[i] = s[i]
    BY <1>1
  <2>2. i >= p => i + 1 \in 1 .. Len(t) /\ t[i+1] = s[i]
    BY <1>1
  <2> QED
    BY <1>1, <1>3, <2>1, <2>2 DEF Holds
<1>4. p \in 1 .. Len(t) /\ t[p] = e
  BY <1>1
<1>5. Holds(t, d) <=> Holds(s, d) \/ d = e
  BY <1>2, <1>3, <1>4 DEF Holds
<1> QED
  BY <1>5 DEF t

\* What the list without its place p holds.
LEMMA HoldsRemoved ==
  ASSUME NEW s \in Seq(Elem), Distinct(s), NEW p \in 1 .. Len(s), NEW d
  PROVE  Holds(Removed(s, p), d) <=> Holds(s, d) /\ d # s[p]
<1> DEFINE t == Removed(s, p)
<1>1. /\ Len(s) \in Nat /\ Len(t) = Len(s) - 1 /\ p \in 1 .. Len(s)
      /\ \A i \in 1 .. Len(s) - 1 : t[i] = IF i < p THEN s[i] ELSE s[i+1]
      /\ \A i, j \in 1 .. Len(s) : s[i] = s[j] => i = j
  BY RemovedIs, LenProperties DEF Distinct
<1> HIDE DEF t
<1>2. ASSUME NEW i \in 1 .. Len(t), t[i] = d
      PROVE  Holds(s, d) /\ d # s[p]
  <2>1. i < p => i \in 1 .. Len(s) /\ t[i] = s[i]
    BY <1>1
  <2>2. i >= p => i + 1 \in 1 .. Len(s) /\ t[i] = s[i+1]
    BY <1>1
  <2> QED
    BY <1>1, <1>2, <2>1, <2>2 DEF Holds
<1>3. ASSUME NEW i \in 1 .. Len(s), s[i] = d, d # s[p]
      PROVE  Holds(t, d)
  <2>1. i < p => i \in 1 .. Len(t) /\ t[i] = s[i]
    BY <1>1
  <2>2. i > p => i - 1 \in 1 .. Len(t) /\ t[i-1] = s[i]
    BY <1>1
  <2> QED
    BY <1>1, <1>3, <2>1, <2>2 DEF Holds
<1>4. Holds(t, d) <=> Holds(s, d) /\ d # s[p]
  BY <1>2, <1>3 DEF Holds
<1> QED
  BY <1>4 DEF t

\* A change of one queue, around elements that no other queue of its link holds.
LEMMA SetChanged ==
  ASSUME NEW m, NEW link, NEW Q, Linked(m, link, Q), NEW h \in QHead, NEW T,
         NEW n, IsMemory(n), Touches(m, n, h, link[h], T),
         \A g \in QHead \ {h} : link[g] = link[h] => Q[g] \cap T = {},
         NEW E \in SUBSET T, IsSet(n, h, link[h], E), E \subseteq Elem
  PROVE  Linked(n, link, [Q EXCEPT ![h] = E])
<1> DEFINE R == [Q EXCEPT ![h] = E]
<1>1. /\ link \in [QHead -> Link] /\ Q \in [QHead -> SUBSET Elem]
      /\ \A g \in QHead : IsSet(m, g, link[g], Q[g])
      /\ \A g, j \in QHead : g # j /\ link[g] = link[j] => Q[g] \cap Q[j] = {}
  BY DEF Linked, Apart
<1>2. R \in [QHead -> SUBSET Elem] /\ R[h] = E /\ \A g \in QHead \ {h} : R[g] = Q[g]
  BY <1>1
<1> HIDE DEF R
<1>3. ASSUME NEW g \in QHead \ {h}
      PROVE  IsSet(n, g, link[g], Q[g])
  <2>1. PICK s : IsList(m, g, link[g], s) /\ \A e \in Elem : e \in Q[g] <=> Holds(s, e)
    BY <1>1 DEF IsSet
  <2>2. s \in Seq(Elem) /\ \A i \in 1 .. Len(s) : s[i] \in Elem
    BY <2>1, LenProperties DEF IsList, Chain
  <2>3. link[g] = link[h] => \A d \in T : ~Holds(s, d)
    BY <2>1, <2>2 DEF Holds
  <2>4. IsList(n, g, link[g], s)
    BY <1>1, <2>1, <2>3, OtherLists
  <2> QED
    BY <2>1, <2>4 DEF IsSet
<1>4. \A g \in QHead : IsSet(n, g, link[g], R[g])
  BY <1>2, <1>3
<1>5. Apart(link, R)
  BY <1>1, <1>2 DEF Apart
<1> QED
  BY <1>1, <1>2, <1>4, <1>5 DEF Linked, R

\* An insertion adds e to the queue.
LEMMA SetInsert ==
  ASSUME NEW m, NEW link, NEW Q, Linked(m, link, Q), NEW h \in QHead, NEW e \in Elem,
         Unlinked(link, Q, h, e),
         NEW n, \/ n = Q_INSERT_FRONT(m, h, e, link[h])
                \/ n = Q_INSERT_TAIL(m, h, e, link[h])
  PROVE  Linked(n, link, [Q EXCEPT ![h] = Q[h] \cup {e}]) /\ SameRest(m, n)
<1>1. /\ IsMemory(m) /\ link[h] \in Link /\ Q[h] \subseteq Elem
      /\ \A g \in QHead : g # h /\ link[g] = link[h] => Q[g] \cap Q[h] = {}
  BY DEF Linked, Apart
<1>2. PICK s : IsList(m, h, link[h], s) /\ \A d \in Elem : d \in Q[h] <=> Holds(s, d)
  BY DEF Linked, IsSet
<1>3. ~Holds(s, e) /\ s \in Seq(Elem) /\ Len(s) \in Nat
  BY <1>2, LenProperties DEF Unlinked, IsList, Chain
<1>4. \E p \in 1 .. Len(s) + 1 : /\ IsMemory(n) /\ IsList(n, h, link[h], Inserted(s, p, e))
                                 /\ Touches(m, n, h, link[h], Near(e, s))
  <2>1. 1 \in 1 .. Len(s) + 1 /\ Len(s) + 1 \in 1 .. Len(s) + 1
    BY <1>3
  <2>2. CASE n = Q_INSERT_FRONT(m, h, e, link[h])
    BY <1>1, <1>2, <1>3, <2>1, <2>2, InsertFrontList
  <2>3. CASE n = Q_INSERT_TAIL(m, h, e, link[h])
    BY <1>1, <1>2, <1>3, <2>1, <2>3, InsertTailList
  <2> QED
    BY <2>2, <2>3
<1>5. PICK p \in 1 .. Len(s) + 1 : /\ IsMemory(n) /\ IsList(n, h, link[h], Inserted(s, p, e))
                                   /\ Touches(m, n, h, link[h], Near(e, s))
  BY <1>4
<1> DEFINE E == Q[h] \cup {e}
<1>6. E \subseteq Elem /\ IsSet(n, h, link[h], E)
  <2>1. \A d \in Elem : d \in E <=> Holds(Inserted(s, p, e), d)
    BY <1>2, <1>3, HoldsInserted
  <2> QED
    BY <1>1, <1>5, <2>1 DEF IsSet
<1>7. Near(e, s) = E
  BY <1>1, <1>2 DEF Near
<1>8. \A g \in QHead \ {h} : link[g] = link[h] => Q[g] \cap E = {}
  BY <1>1 DEF Unlinked
<1> HIDE DEF E
<1>9. Linked(n, link, [Q EXCEPT ![h] = E])
  BY <1>5, <1>6, <1>7, <1>8, SetChanged
<1> QED
  BY <1>5, <1>9 DEF Touches, SameRest, E

\* A removal takes e from the queue.
LEMMA SetRemove ==
  ASSUME NEW m, NEW link, NEW Q, Linked(m, link, Q), NEW h \in QHead, NEW e \in Q[h],
         NEW n, n = Q_REMOVE(m, h, e, link[h])
  PROVE  Linked(n, link, [Q EXCEPT ![h] = Q[h] \ {e}]) /\ SameRest(m, n)
<1>1. /\ IsMemory(m) /\ link[h] \in Link /\ Q[h] \subseteq Elem
      /\ \A g \in QHead : g # h /\ link[g] = link[h] => Q[g] \cap Q[h] = {}
  BY DEF Linked, Apart
<1>2. PICK s : IsList(m, h, link[h], s) /\ \A d \in Elem : d \in Q[h] <=> Holds(s, d)
  BY DEF Linked, IsSet
<1>3. s \in Seq(Elem) /\ Len(s) \in Nat /\ Distinct(s) /\ e \in Elem
  BY <1>1, <1>2, LenProperties DEF IsList, Chain
<1>4. PICK p \in 1 .. Len(s) : s[p] = e
  BY <1>2, <1>3 DEF Holds
<1>5. /\ IsMemory(n) /\ IsList(n, h, link[h], Removed(s, p))
      /\ Touches(m, n, h, link[h], Near(e, s))
  BY <1>1, <1>2, <1>4, RemoveList
<1> DEFINE E == Q[h] \ {e}
<1>6. E \subseteq Elem /\ IsSet(n, h, link[h], E)
  <2>1. \A d \in Elem : d \in E <=> Holds(Removed(s, p), d)
    BY <1>2, <1>3, <1>4, HoldsRemoved
  <2> QED
    BY <1>1, <1>5, <2>1 DEF IsSet
<1>7. Near(e, s) = Q[h]
  BY <1>1, <1>2, <1>3 DEF Near
<1>8. \A g \in QHead \ {h} : link[g] = link[h] => Q[g] \cap Q[h] = {}
  BY <1>1
<1>9. E \in SUBSET Q[h]
  OBVIOUS
<1> HIDE DEF E
<1>10. Linked(n, link, [Q EXCEPT ![h] = E])
  BY <1>5, <1>6, <1>7, <1>8, <1>9, SetChanged
<1> QED
  BY <1>5, <1>10 DEF Touches, SameRest, E

\* Q_GET_FRONT gives an element of the queue, or NULL when there is none.
LEMMA SetFront ==
  ASSUME NEW m, NEW link, NEW Q, Linked(m, link, Q), NEW h \in QHead
  PROVE  IF Q[h] = {} THEN Q_GET_FRONT(m, h) = NULL
         ELSE Q_GET_FRONT(m, h) \in Q[h] /\ Q_GET_FRONT(m, h) # NULL
<1>1. PICK s : IsList(m, h, link[h], s) /\ \A d \in Elem : d \in Q[h] <=> Holds(s, d)
  BY DEF Linked, IsSet
<1>2. Q[h] \subseteq Elem /\ link[h] \in Link
  BY DEF Linked
<1>3. /\ Len(s) \in Nat /\ \A i \in 1 .. Len(s) : s[i] \in Elem /\ s[i] # NULL
      /\ Len(s) = 0 => m.first[h] = NULL
      /\ Len(s) # 0 => m.first[h] = s[1]
  BY <1>1, <1>2, ListEnds
<1>4. CASE Len(s) = 0
  <2>1. Q[h] = {}
    BY <1>1, <1>2, <1>4 DEF Holds
  <2> QED
    BY <1>3, <1>4, <2>1 DEF Q_GET_FRONT
<1>5. CASE Len(s) # 0
  <2>1. 1 \in 1 .. Len(s)
    BY <1>3, <1>5
  <2>2. s[1] \in Q[h]
    BY <1>1, <1>3, <2>1 DEF Holds
  <2> QED
    BY <1>3, <1>5, <2>1, <2>2 DEF Q_GET_FRONT
<1> QED
  BY <1>4, <1>5

\* Q_FOREACH visits each element of the queue once.
LEMMA SetForeach ==
  ASSUME NEW m, NEW link, NEW Q, Linked(m, link, Q), NEW h \in QHead,
         NEW s, s = Q_FOREACH(m, h, link[h])
  PROVE  /\ s \in Seq(Elem) /\ Len(s) \in Nat /\ Distinct(s)
         /\ \A i \in 1 .. Len(s) : s[i] \in Q[h]
         /\ \A e \in Q[h] : Holds(s, e)
         /\ Members(m, h, link[h]) = Q[h]
<1>1. PICK t : IsList(m, h, link[h], t) /\ \A d \in Elem : d \in Q[h] <=> Holds(t, d)
  BY DEF Linked, IsSet
<1>2. s = t
  BY <1>1, ForeachList
<1>3. Q[h] \subseteq Elem
  BY DEF Linked
<1>4. /\ s \in Seq(Elem) /\ Len(s) \in Nat /\ Distinct(s) /\ DOMAIN s = 1 .. Len(s)
      /\ \A i \in 1 .. Len(s) : s[i] \in Elem
  BY <1>1, <1>2, LenProperties DEF IsList, Chain
<1>5. \A i \in 1 .. Len(s) : s[i] \in Q[h]
  BY <1>1, <1>2, <1>4 DEF Holds
<1>6. \A e \in Q[h] : Holds(s, e)
  BY <1>1, <1>2, <1>3
<1>7. Members(m, h, link[h]) = Q[h]
  <2>1. Members(m, h, link[h]) = {s[i] : i \in 1 .. Len(s)}
    BY <1>4 DEF Members
  <2> QED
    BY <1>5, <1>6, <2>1 DEF Holds
<1> QED
  BY <1>4, <1>5, <1>6, <1>7
=============================================================================
