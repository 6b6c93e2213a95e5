---------------------------- MODULE QueueProofs ----------------------------
(***************************************************************************)
(* The queue macros keep every queue a consistent doubly linked list, for  *)
(* any number of elements, queues and links.                               *)
(*                                                                         *)
(* For each macro an Effect lemma gives the four pointer functions it      *)
(* leaves behind, and an Inv lemma shows that they satisfy ListInv, the    *)
(* body of QueueInv over those functions.  The theorem at the end combines *)
(* them: QueueInv is inductive as it stands.                               *)
(***************************************************************************)
EXTENDS QueueMachine, QueueLists

\* QueueInv of the heads F, L, the links N, P and the client's view O.
ListInv(F, L, N, P, O) ==
  /\ \A g \in QHead : /\ F[g] = NULL <=> L[g] = NULL
                      /\ F[g] # NULL => O[F[g]] = g /\ P[F[g]] = NULL
                      /\ L[g] # NULL => O[L[g]] = g /\ N[L[g]] = NULL
  /\ \A d \in Elem : /\ N[d] # NULL => P[N[d]] = d /\ O[N[d]] = O[d]
                     /\ P[d] # NULL => N[P[d]] = d /\ O[P[d]] = O[d]
                     /\ O[d] = NULL => N[d] = NULL /\ P[d] = NULL
                     /\ O[d] # NULL /\ N[d] = NULL => L[O[d]] = d
                     /\ O[d] # NULL /\ P[d] = NULL => F[O[d]] = d

\* The types of the four pointer functions and of the client's view.
ListType(F, L, N, P, O) ==
  /\ F \in [QHead -> Ptr] /\ L \in [QHead -> Ptr]
  /\ N \in [Elem -> Ptr] /\ P \in [Elem -> Ptr]
  /\ O \in [Elem -> QHead \cup {NULL}]

\* Element e is on queue h.
IsOn(O, e, h) == O[e] = h

\* The invariant, of memory and queues as parameters.
LEMMA QueueInvIsListInv ==
  ASSUME TypeOK
  PROVE  /\ QueueInv <=> ListInv(m.first, m.last, m.next[link], m.prev[link], on)
         /\ ListType(m.first, m.last, m.next[link], m.prev[link], on)
BY LinkAssumption DEF TypeOK, QueueMemory, QueueInv, EndsAgree, LinksAgree, ListInv, ListType,
                      First, Last, NextOf, PrevOf

\* The same after a step.
LEMMA QueueInvPrimed ==
  ASSUME TypeOK', ListInv(m'.first, m'.last, m'.next[link], m'.prev[link], on')
  PROVE  QueueInv'
BY DEF QueueInv, EndsAgree, LinksAgree, ListInv, First, Last, NextOf, PrevOf

\* Empty queues are consistent.
LEMMA InitInv == Init => TypeOK /\ QueueInv
BY NullAssumption, LinkAssumption
   DEF Init, TypeOK, QueueInv, EndsAgree, LinksAgree, EmptyMemory, QueueMemory, Ptr,
       First, Last, NextOf, PrevOf

\* The stores of Q_INSERT_FRONT, field by field.
LEMMA InsertFrontEffect ==
  ASSUME NEW q \in QueueMemory, NEW h \in QHead, NEW e \in Elem, NEW l \in Link,
         NEW n, n = Q_INSERT_FRONT(q, h, e, l)
  PROVE  /\ n \in QueueMemory
         /\ n.first = [q.first EXCEPT ![h] = e]
         /\ n.last = [q.last EXCEPT ![h] = IF @ = NULL THEN e ELSE @]
         /\ n.next[l] = [q.next[l] EXCEPT ![e] = q.first[h]]
         /\ n.prev[l] = [Store(q.prev[l], q.first[h], e) EXCEPT ![e] = NULL]
<1> DEFINE ft == [q.first EXCEPT ![h] = e]
           lt == [q.last EXCEPT ![h] = IF @ = NULL THEN e ELSE @]
           nx == [q.next EXCEPT ![l] = [q.next[l] EXCEPT ![e] = q.first[h]]]
           pv == [q.prev EXCEPT ![l] = [Store(q.prev[l], q.first[h], e) EXCEPT ![e] = NULL]]
<1>1. n = [first |-> ft, last |-> lt, next |-> nx, prev |-> pv]
  BY DEF Q_INSERT_FRONT, QueueMemory
<1>2. ft \in [QHead -> Ptr] /\ lt \in [QHead -> Ptr]
  BY DEF QueueMemory, Ptr
<1>3. nx \in [Link -> [Elem -> Ptr]]
  BY DEF QueueMemory, Ptr, Store
<1>4. pv \in [Link -> [Elem -> Ptr]]
  BY DEF QueueMemory, Ptr, Store
<1>5. nx[l] = [q.next[l] EXCEPT ![e] = q.first[h]]
  BY DEF QueueMemory
<1>6. pv[l] = [Store(q.prev[l], q.first[h], e) EXCEPT ![e] = NULL]
  BY DEF QueueMemory
<1> HIDE DEF nx, pv, ft, lt
<1> QED BY <1>1, <1>2, <1>3, <1>4, <1>5, <1>6 DEF QueueMemory, ft, lt

\* Q_INSERT_FRONT keeps the queues consistent.
LEMMA InsertFrontListInv ==
  ASSUME NEW F, NEW L, NEW N, NEW P, NEW O, NEW h \in QHead, NEW e \in Elem,
         ListType(F, L, N, P, O), ListInv(F, L, N, P, O), O[e] = NULL
  PROVE  ListInv([F EXCEPT ![h] = e],
                 [L EXCEPT ![h] = IF @ = NULL THEN e ELSE @],
                 [N EXCEPT ![e] = F[h]],
                 [Store(P, F[h], e) EXCEPT ![e] = NULL],
                 [O EXCEPT ![e] = h])
<1> DEFINE FF == [F EXCEPT ![h] = e]
           LL == [L EXCEPT ![h] = IF @ = NULL THEN e ELSE @]
           NN == [N EXCEPT ![e] = F[h]]
           PP == [Store(P, F[h], e) EXCEPT ![e] = NULL]
           OO == [O EXCEPT ![e] = h]
<1> USE NullAssumption, LinkAssumption DEF Ptr, Store, ListType, ListInv
<1>1. \A g \in QHead : /\ FF[g] = NULL <=> LL[g] = NULL
                       /\ FF[g] # NULL => OO[FF[g]] = g /\ PP[FF[g]] = NULL
                       /\ LL[g] # NULL => OO[LL[g]] = g /\ NN[LL[g]] = NULL
  OBVIOUS
<1>2. \A d \in Elem : /\ NN[d] # NULL => PP[NN[d]] = d /\ OO[NN[d]] = OO[d]
                      /\ PP[d] # NULL => NN[PP[d]] = d /\ OO[PP[d]] = OO[d]
                      /\ OO[d] = NULL => NN[d] = NULL /\ PP[d] = NULL
                      /\ OO[d] # NULL /\ NN[d] = NULL => LL[OO[d]] = d
                      /\ OO[d] # NULL /\ PP[d] = NULL => FF[OO[d]] = d
  OBVIOUS
<1> HIDE DEF FF, LL, NN, PP, OO
<1>3. ListInv(FF, LL, NN, PP, OO)
  BY <1>1, <1>2
<1> QED BY <1>3 DEF FF, LL, NN, PP, OO

\* The stores of Q_INSERT_TAIL, field by field.
LEMMA InsertTailEffect ==
  ASSUME NEW q \in QueueMemory, NEW h \in QHead, NEW e \in Elem, NEW l \in Link,
         NEW n, n = Q_INSERT_TAIL(q, h, e, l)
  PROVE  /\ n \in QueueMemory
         /\ n.first = [q.first EXCEPT ![h] = IF @ = NULL THEN e ELSE @]
         /\ n.last = [q.last EXCEPT ![h] = e]
         /\ n.next[l] = [Store(q.next[l], q.last[h], e) EXCEPT ![e] = NULL]
         /\ n.prev[l] = [q.prev[l] EXCEPT ![e] = q.last[h]]
<1> DEFINE ft == [q.first EXCEPT ![h] = IF @ = NULL THEN e ELSE @]
           lt == [q.last EXCEPT ![h] = e]
           nx == [q.next EXCEPT ![l] = [Store(q.next[l], q.last[h], e) EXCEPT ![e] = NULL]]
           pv == [q.prev EXCEPT ![l] = [q.prev[l] EXCEPT ![e] = q.last[h]]]
<1>1. n = [first |-> ft, last |-> lt, next |-> nx, prev |-> pv]
  BY DEF Q_INSERT_TAIL, QueueMemory
<1>2. ft \in [QHead -> Ptr] /\ lt \in [QHead -> Ptr]
  BY DEF QueueMemory, Ptr
<1>3. nx \in [Link -> [Elem -> Ptr]]
  BY DEF QueueMemory, Ptr, Store
<1>4. pv \in [Link -> [Elem -> Ptr]]
  BY DEF QueueMemory, Ptr, Store
<1>5. nx[l] = [Store(q.next[l], q.last[h], e) EXCEPT ![e] = NULL]
  BY DEF QueueMemory
<1>6. pv[l] = [q.prev[l] EXCEPT ![e] = q.last[h]]
  BY DEF QueueMemory
<1> HIDE DEF nx, pv, ft, lt
<1> QED BY <1>1, <1>2, <1>3, <1>4, <1>5, <1>6 DEF QueueMemory, ft, lt

\* Q_INSERT_TAIL keeps the queues consistent.
LEMMA InsertTailListInv ==
  ASSUME NEW F, NEW L, NEW N, NEW P, NEW O, NEW h \in QHead, NEW e \in Elem,
         ListType(F, L, N, P, O), ListInv(F, L, N, P, O), O[e] = NULL
  PROVE  ListInv([F EXCEPT ![h] = IF @ = NULL THEN e ELSE @],
                 [L EXCEPT ![h] = e],
                 [Store(N, L[h], e) EXCEPT ![e] = NULL],
                 [P EXCEPT ![e] = L[h]],
                 [O EXCEPT ![e] = h])
<1> DEFINE FF == [F EXCEPT ![h] = IF @ = NULL THEN e ELSE @]
           LL == [L EXCEPT ![h] = e]
           NN == [Store(N, L[h], e) EXCEPT ![e] = NULL]
           PP == [P EXCEPT ![e] = L[h]]
           OO == [O EXCEPT ![e] = h]
<1> USE NullAssumption, LinkAssumption DEF Ptr, Store, ListType, ListInv
<1>1. \A g \in QHead : /\ FF[g] = NULL <=> LL[g] = NULL
                       /\ FF[g] # NULL => OO[FF[g]] = g /\ PP[FF[g]] = NULL
                       /\ LL[g] # NULL => OO[LL[g]] = g /\ NN[LL[g]] = NULL
  OBVIOUS
<1>2. \A d \in Elem : /\ NN[d] # NULL => PP[NN[d]] = d /\ OO[NN[d]] = OO[d]
                      /\ PP[d] # NULL => NN[PP[d]] = d /\ OO[PP[d]] = OO[d]
                      /\ OO[d] = NULL => NN[d] = NULL /\ PP[d] = NULL
                      /\ OO[d] # NULL /\ NN[d] = NULL => LL[OO[d]] = d
                      /\ OO[d] # NULL /\ PP[d] = NULL => FF[OO[d]] = d
  OBVIOUS
<1> HIDE DEF FF, LL, NN, PP, OO
<1>3. ListInv(FF, LL, NN, PP, OO)
  BY <1>1, <1>2
<1> QED BY <1>3 DEF FF, LL, NN, PP, OO

\* The stores of Q_INSERT_AFTER, field by field.
LEMMA InsertAfterEffect ==
  ASSUME NEW q \in QueueMemory, NEW h \in QHead, NEW e \in Elem, NEW l \in Link,
         NEW inq \in Elem, q.last[h] # inq,
         NEW n, n = Q_INSERT_AFTER(q, h, inq, e, l)
  PROVE  /\ n \in QueueMemory
         /\ n.first = q.first
         /\ n.last = q.last
         /\ n.next[l] = [q.next[l] EXCEPT ![e] = q.next[l][inq], ![inq] = e]
         /\ n.prev[l] = Store([q.prev[l] EXCEPT ![e] = inq], q.next[l][inq], e)
<1> DEFINE ft == q.first
           lt == q.last
           nx == [q.next EXCEPT ![l] = [q.next[l] EXCEPT ![e] = q.next[l][inq], ![inq] = e]]
           pv == [q.prev EXCEPT ![l] = Store([q.prev[l] EXCEPT ![e] = inq], q.next[l][inq], e)]
<1>1. n = [first |-> ft, last |-> lt, next |-> nx, prev |-> pv]
  BY DEF Q_INSERT_AFTER, QueueMemory
<1>2. ft \in [QHead -> Ptr] /\ lt \in [QHead -> Ptr]
  BY DEF QueueMemory, Ptr
<1>3. nx \in [Link -> [Elem -> Ptr]]
  BY DEF QueueMemory, Ptr, Store
<1>4. pv \in [Link -> [Elem -> Ptr]]
  BY DEF QueueMemory, Ptr, Store
<1>5. nx[l] = [q.next[l] EXCEPT ![e] = q.next[l][inq], ![inq] = e]
  BY DEF QueueMemory
<1>6. pv[l] = Store([q.prev[l] EXCEPT ![e] = inq], q.next[l][inq], e)
  BY DEF QueueMemory
<1> HIDE DEF nx, pv, ft, lt
<1> QED BY <1>1, <1>2, <1>3, <1>4, <1>5, <1>6 DEF QueueMemory, ft, lt

\* Q_INSERT_AFTER keeps the queues consistent.
LEMMA InsertAfterListInv ==
  ASSUME NEW F, NEW L, NEW N, NEW P, NEW O, NEW h \in QHead, NEW e \in Elem,
         NEW inq \in Elem,
         ListType(F, L, N, P, O), ListInv(F, L, N, P, O), O[e] = NULL, O[inq] = h, L[h] # inq
  PROVE  ListInv(F,
                 L,
                 [N EXCEPT ![e] = N[inq], ![inq] = e],
                 Store([P EXCEPT ![e] = inq], N[inq], e),
                 [O EXCEPT ![e] = h])
<1> DEFINE FF == F
           LL == L
           NN == [N EXCEPT ![e] = N[inq], ![inq] = e]
           PP == Store([P EXCEPT ![e] = inq], N[inq], e)
           OO == [O EXCEPT ![e] = h]
<1> USE NullAssumption, LinkAssumption DEF Ptr, Store, ListType, ListInv
<1>1. \A g \in QHead : /\ FF[g] = NULL <=> LL[g] = NULL
                       /\ FF[g] # NULL => OO[FF[g]] = g /\ PP[FF[g]] = NULL
                       /\ LL[g] # NULL => OO[LL[g]] = g /\ NN[LL[g]] = NULL
  OBVIOUS
<1>2. \A d \in Elem : /\ NN[d] # NULL => PP[NN[d]] = d /\ OO[NN[d]] = OO[d]
                      /\ PP[d] # NULL => NN[PP[d]] = d /\ OO[PP[d]] = OO[d]
                      /\ OO[d] = NULL => NN[d] = NULL /\ PP[d] = NULL
                      /\ OO[d] # NULL /\ NN[d] = NULL => LL[OO[d]] = d
                      /\ OO[d] # NULL /\ PP[d] = NULL => FF[OO[d]] = d
  OBVIOUS
<1> HIDE DEF FF, LL, NN, PP, OO
<1>3. ListInv(FF, LL, NN, PP, OO)
  BY <1>1, <1>2
<1> QED BY <1>3 DEF FF, LL, NN, PP, OO

\* The stores of Q_INSERT_BEFORE, field by field.
LEMMA InsertBeforeEffect ==
  ASSUME NEW q \in QueueMemory, NEW h \in QHead, NEW e \in Elem, NEW l \in Link,
         NEW inq \in Elem, q.first[h] # inq,
         NEW n, n = Q_INSERT_BEFORE(q, h, inq, e, l)
  PROVE  /\ n \in QueueMemory
         /\ n.first = q.first
         /\ n.last = q.last
         /\ n.next[l] = Store([q.next[l] EXCEPT ![e] = inq], q.prev[l][inq], e)
         /\ n.prev[l] = [q.prev[l] EXCEPT ![e] = q.prev[l][inq], ![inq] = e]
<1> DEFINE ft == q.first
           lt == q.last
           nx == [q.next EXCEPT ![l] = Store([q.next[l] EXCEPT ![e] = inq], q.prev[l][inq], e)]
           pv == [q.prev EXCEPT ![l] = [q.prev[l] EXCEPT ![e] = q.prev[l][inq], ![inq] = e]]
<1>1. n = [first |-> ft, last |-> lt, next |-> nx, prev |-> pv]
  BY DEF Q_INSERT_BEFORE, QueueMemory
<1>2. ft \in [QHead -> Ptr] /\ lt \in [QHead -> Ptr]
  BY DEF QueueMemory, Ptr
<1>3. nx \in [Link -> [Elem -> Ptr]]
  BY DEF QueueMemory, Ptr, Store
<1>4. pv \in [Link -> [Elem -> Ptr]]
  BY DEF QueueMemory, Ptr, Store
<1>5. nx[l] = Store([q.next[l] EXCEPT ![e] = inq], q.prev[l][inq], e)
  BY DEF QueueMemory
<1>6. pv[l] = [q.prev[l] EXCEPT ![e] = q.prev[l][inq], ![inq] = e]
  BY DEF QueueMemory
<1> HIDE DEF nx, pv, ft, lt
<1> QED BY <1>1, <1>2, <1>3, <1>4, <1>5, <1>6 DEF QueueMemory, ft, lt

\* Q_INSERT_BEFORE keeps the queues consistent.
LEMMA InsertBeforeListInv ==
  ASSUME NEW F, NEW L, NEW N, NEW P, NEW O, NEW h \in QHead, NEW e \in Elem,
         NEW inq \in Elem,
         ListType(F, L, N, P, O), ListInv(F, L, N, P, O), O[e] = NULL, O[inq] = h, F[h] # inq
  PROVE  ListInv(F,
                 L,
                 Store([N EXCEPT ![e] = inq], P[inq], e),
                 [P EXCEPT ![e] = P[inq], ![inq] = e],
                 [O EXCEPT ![e] = h])
<1> DEFINE FF == F
           LL == L
           NN == Store([N EXCEPT ![e] = inq], P[inq], e)
           PP == [P EXCEPT ![e] = P[inq], ![inq] = e]
           OO == [O EXCEPT ![e] = h]
<1> USE NullAssumption, LinkAssumption DEF Ptr, Store, ListType, ListInv
<1>1. \A g \in QHead : /\ FF[g] = NULL <=> LL[g] = NULL
                       /\ FF[g] # NULL => OO[FF[g]] = g /\ PP[FF[g]] = NULL
                       /\ LL[g] # NULL => OO[LL[g]] = g /\ NN[LL[g]] = NULL
  OBVIOUS
<1>2. \A d \in Elem : /\ NN[d] # NULL => PP[NN[d]] = d /\ OO[NN[d]] = OO[d]
                      /\ PP[d] # NULL => NN[PP[d]] = d /\ OO[PP[d]] = OO[d]
                      /\ OO[d] = NULL => NN[d] = NULL /\ PP[d] = NULL
                      /\ OO[d] # NULL /\ NN[d] = NULL => LL[OO[d]] = d
                      /\ OO[d] # NULL /\ PP[d] = NULL => FF[OO[d]] = d
  OBVIOUS
<1> HIDE DEF FF, LL, NN, PP, OO
<1>3. ListInv(FF, LL, NN, PP, OO)
  BY <1>1, <1>2
<1> QED BY <1>3 DEF FF, LL, NN, PP, OO

\* The stores of Q_REMOVE, field by field.
LEMMA RemoveEffect ==
  ASSUME NEW q \in QueueMemory, NEW h \in QHead, NEW e \in Elem, NEW l \in Link,
         NEW n, n = Q_REMOVE(q, h, e, l)
  PROVE  /\ n \in QueueMemory
         /\ n.first = [q.first EXCEPT ![h] = IF @ = e THEN q.next[l][e] ELSE @]
         /\ n.last = [q.last EXCEPT ![h] = IF @ = e THEN q.prev[l][e] ELSE @]
         /\ n.next[l] = [Store(q.next[l], q.prev[l][e], q.next[l][e]) EXCEPT ![e] = NULL]
         /\ n.prev[l] = [Store(q.prev[l], q.next[l][e], q.prev[l][e]) EXCEPT ![e] = NULL]
<1> DEFINE ft == [q.first EXCEPT ![h] = IF @ = e THEN q.next[l][e] ELSE @]
           lt == [q.last EXCEPT ![h] = IF @ = e THEN q.prev[l][e] ELSE @]
           nx == [q.next EXCEPT ![l] = [Store(q.next[l], q.prev[l][e], q.next[l][e]) EXCEPT ![e] = NULL]]
           pv == [q.prev EXCEPT ![l] = [Store(q.prev[l], q.next[l][e], q.prev[l][e]) EXCEPT ![e] = NULL]]
<1>1. n = [first |-> ft, last |-> lt, next |-> nx, prev |-> pv]
  BY DEF Q_REMOVE, QueueMemory
<1>2. ft \in [QHead -> Ptr] /\ lt \in [QHead -> Ptr]
  BY DEF QueueMemory, Ptr
<1>3. nx \in [Link -> [Elem -> Ptr]]
  BY DEF QueueMemory, Ptr, Store
<1>4. pv \in [Link -> [Elem -> Ptr]]
  BY DEF QueueMemory, Ptr, Store
<1>5. nx[l] = [Store(q.next[l], q.prev[l][e], q.next[l][e]) EXCEPT ![e] = NULL]
  BY DEF QueueMemory
<1>6. pv[l] = [Store(q.prev[l], q.next[l][e], q.prev[l][e]) EXCEPT ![e] = NULL]
  BY DEF QueueMemory
<1> HIDE DEF nx, pv, ft, lt
<1> QED BY <1>1, <1>2, <1>3, <1>4, <1>5, <1>6 DEF QueueMemory, ft, lt

\* Q_REMOVE keeps the queues consistent.
LEMMA RemoveListInv ==
  ASSUME NEW F, NEW L, NEW N, NEW P, NEW O, NEW h \in QHead, NEW e \in Elem,
         ListType(F, L, N, P, O), ListInv(F, L, N, P, O), IsOn(O, e, h)
  PROVE  ListInv([F EXCEPT ![h] = IF @ = e THEN N[e] ELSE @],
                 [L EXCEPT ![h] = IF @ = e THEN P[e] ELSE @],
                 [Store(N, P[e], N[e]) EXCEPT ![e] = NULL],
                 [Store(P, N[e], P[e]) EXCEPT ![e] = NULL],
                 [O EXCEPT ![e] = NULL])
<1> DEFINE FF == [F EXCEPT ![h] = IF @ = e THEN N[e] ELSE @]
           LL == [L EXCEPT ![h] = IF @ = e THEN P[e] ELSE @]
           NN == [Store(N, P[e], N[e]) EXCEPT ![e] = NULL]
           PP == [Store(P, N[e], P[e]) EXCEPT ![e] = NULL]
           OO == [O EXCEPT ![e] = NULL]
<1> USE NullAssumption, LinkAssumption DEF IsOn, Ptr, Store, ListType, ListInv
<1>1. \A g \in QHead : /\ FF[g] = NULL <=> LL[g] = NULL
                       /\ FF[g] # NULL => OO[FF[g]] = g /\ PP[FF[g]] = NULL
                       /\ LL[g] # NULL => OO[LL[g]] = g /\ NN[LL[g]] = NULL
  OBVIOUS
<1>2. \A d \in Elem : /\ NN[d] # NULL => PP[NN[d]] = d /\ OO[NN[d]] = OO[d]
                      /\ PP[d] # NULL => NN[PP[d]] = d /\ OO[PP[d]] = OO[d]
                      /\ OO[d] = NULL => NN[d] = NULL /\ PP[d] = NULL
                      /\ OO[d] # NULL /\ NN[d] = NULL => LL[OO[d]] = d
                      /\ OO[d] # NULL /\ PP[d] = NULL => FF[OO[d]] = d
  OBVIOUS
<1> HIDE DEF FF, LL, NN, PP, OO
<1>3. ListInv(FF, LL, NN, PP, OO)
  BY <1>1, <1>2
<1> QED BY <1>3 DEF FF, LL, NN, PP, OO

-----------------------------------------------------------------------------
\* Every macro, called within its contract, keeps types and consistency.
LEMMA StepInv == TypeOK /\ QueueInv /\ [Next]_vars => TypeOK' /\ QueueInv'
<1> SUFFICES ASSUME TypeOK, QueueInv, [Next]_vars
             PROVE  TypeOK' /\ QueueInv'
  OBVIOUS
<1>1. /\ m \in QueueMemory /\ on \in [Elem -> QHead \cup {NULL}]
      /\ ListInv(m.first, m.last, m.next[link], m.prev[link], on)
      /\ ListType(m.first, m.last, m.next[link], m.prev[link], on)
  BY QueueInvIsListInv DEF TypeOK
<1> SUFFICES /\ m' \in QueueMemory /\ on' \in [Elem -> QHead \cup {NULL}]
             /\ ListInv(m'.first, m'.last, m'.next[link], m'.prev[link], on')
  BY QueueInvPrimed DEF TypeOK
<1> USE LinkAssumption
<1>2. ASSUME NEW h \in QHead, NEW e \in Elem, on[e] = NULL, on' = [on EXCEPT ![e] = h],
             m' = Q_INSERT_FRONT(m, h, e, link)
      PROVE  /\ m' \in QueueMemory /\ on' \in [Elem -> QHead \cup {NULL}]
             /\ ListInv(m'.first, m'.last, m'.next[link], m'.prev[link], on')
  <2>1. /\ m' \in QueueMemory
        /\ m'.first = [m.first EXCEPT ![h] = e]
        /\ m'.last = [m.last EXCEPT ![h] = IF @ = NULL THEN e ELSE @]
        /\ m'.next[link] = [m.next[link] EXCEPT ![e] = m.first[h]]
        /\ m'.prev[link] = [Store(m.prev[link], m.first[h], e) EXCEPT ![e] = NULL]
    BY <1>1, <1>2, InsertFrontEffect
  <2>2. ListInv([m.first EXCEPT ![h] = e],
               [m.last EXCEPT ![h] = IF @ = NULL THEN e ELSE @],
               [m.next[link] EXCEPT ![e] = m.first[h]],
               [Store(m.prev[link], m.first[h], e) EXCEPT ![e] = NULL],
               [on EXCEPT ![e] = h])
    BY <1>1, <1>2, InsertFrontListInv
  <2>3. on' = [on EXCEPT ![e] = h] /\ on' \in [Elem -> QHead \cup {NULL}]
    BY <1>1, <1>2
  <2> QED BY <2>1, <2>2, <2>3
<1>3. ASSUME NEW h \in QHead, NEW e \in Elem, on[e] = NULL, on' = [on EXCEPT ![e] = h],
             m' = Q_INSERT_TAIL(m, h, e, link)
      PROVE  /\ m' \in QueueMemory /\ on' \in [Elem -> QHead \cup {NULL}]
             /\ ListInv(m'.first, m'.last, m'.next[link], m'.prev[link], on')
  <2>1. /\ m' \in QueueMemory
        /\ m'.first = [m.first EXCEPT ![h] = IF @ = NULL THEN e ELSE @]
        /\ m'.last = [m.last EXCEPT ![h] = e]
        /\ m'.next[link] = [Store(m.next[link], m.last[h], e) EXCEPT ![e] = NULL]
        /\ m'.prev[link] = [m.prev[link] EXCEPT ![e] = m.last[h]]
    BY <1>1, <1>3, InsertTailEffect
  <2>2. ListInv([m.first EXCEPT ![h] = IF @ = NULL THEN e ELSE @],
               [m.last EXCEPT ![h] = e],
               [Store(m.next[link], m.last[h], e) EXCEPT ![e] = NULL],
               [m.prev[link] EXCEPT ![e] = m.last[h]],
               [on EXCEPT ![e] = h])
    BY <1>1, <1>3, InsertTailListInv
  <2>3. on' = [on EXCEPT ![e] = h] /\ on' \in [Elem -> QHead \cup {NULL}]
    BY <1>1, <1>3
  <2> QED BY <2>1, <2>2, <2>3
<1>4. ASSUME NEW h \in QHead, NEW e \in Elem, NEW inq \in Elem, InsertAfter(h, inq, e)
      PROVE  /\ m' \in QueueMemory /\ on' \in [Elem -> QHead \cup {NULL}]
             /\ ListInv(m'.first, m'.last, m'.next[link], m'.prev[link], on')
  <2>1. CASE m.last[h] = inq
    BY <1>3, <1>4, <2>1 DEF InsertAfter, Q_INSERT_AFTER
  <2>2. CASE m.last[h] # inq
    <3>1. /\ m' \in QueueMemory
          /\ m'.first = m.first
          /\ m'.last = m.last
          /\ m'.next[link] = [m.next[link] EXCEPT ![e] = m.next[link][inq], ![inq] = e]
          /\ m'.prev[link] = Store([m.prev[link] EXCEPT ![e] = inq], m.next[link][inq], e)
      BY <1>1, <1>4, <2>2, InsertAfterEffect DEF InsertAfter
    <3>2. ListInv(m.first,
                 m.last,
                 [m.next[link] EXCEPT ![e] = m.next[link][inq], ![inq] = e],
                 Store([m.prev[link] EXCEPT ![e] = inq], m.next[link][inq], e),
                 [on EXCEPT ![e] = h])
      BY <1>1, <1>4, <2>2, InsertAfterListInv DEF InsertAfter
    <3>3. on' = [on EXCEPT ![e] = h] /\ on' \in [Elem -> QHead \cup {NULL}]
      BY <1>1, <1>4, <2>2 DEF InsertAfter
    <3> QED BY <3>1, <3>2, <3>3
  <2> QED BY <2>1, <2>2
<1>5. ASSUME NEW h \in QHead, NEW e \in Elem, NEW inq \in Elem, InsertBefore(h, inq, e)
      PROVE  /\ m' \in QueueMemory /\ on' \in [Elem -> QHead \cup {NULL}]
             /\ ListInv(m'.first, m'.last, m'.next[link], m'.prev[link], on')
  <2>1. CASE m.first[h] = inq
    BY <1>2, <1>5, <2>1 DEF InsertBefore, Q_INSERT_BEFORE
  <2>2. CASE m.first[h] # inq
    <3>1. /\ m' \in QueueMemory
          /\ m'.first = m.first
          /\ m'.last = m.last
          /\ m'.next[link] = Store([m.next[link] EXCEPT ![e] = inq], m.prev[link][inq], e)
          /\ m'.prev[link] = [m.prev[link] EXCEPT ![e] = m.prev[link][inq], ![inq] = e]
      BY <1>1, <1>5, <2>2, InsertBeforeEffect DEF InsertBefore
    <3>2. ListInv(m.first,
                 m.last,
                 Store([m.next[link] EXCEPT ![e] = inq], m.prev[link][inq], e),
                 [m.prev[link] EXCEPT ![e] = m.prev[link][inq], ![inq] = e],
                 [on EXCEPT ![e] = h])
      BY <1>1, <1>5, <2>2, InsertBeforeListInv DEF InsertBefore
    <3>3. on' = [on EXCEPT ![e] = h] /\ on' \in [Elem -> QHead \cup {NULL}]
      BY <1>1, <1>5, <2>2 DEF InsertBefore
    <3> QED BY <3>1, <3>2, <3>3
  <2> QED BY <2>1, <2>2
<1>6. ASSUME NEW h \in QHead, NEW e \in Elem, Remove(h, e)
      PROVE  /\ m' \in QueueMemory /\ on' \in [Elem -> QHead \cup {NULL}]
             /\ ListInv(m'.first, m'.last, m'.next[link], m'.prev[link], on')
  <2> DEFINE F == m.first   L == m.last   N == m.next[link]   P == m.prev[link]
  <2>1. on[e] = h /\ m' = Q_REMOVE(m, h, e, link) /\ on' = [on EXCEPT ![e] = NULL]
    BY <1>6 DEF Remove
  <2>2. /\ m' \in QueueMemory
        /\ m'.first = [F EXCEPT ![h] = IF @ = e THEN N[e] ELSE @]
        /\ m'.last = [L EXCEPT ![h] = IF @ = e THEN P[e] ELSE @]
        /\ m'.next[link] = [Store(N, P[e], N[e]) EXCEPT ![e] = NULL]
        /\ m'.prev[link] = [Store(P, N[e], P[e]) EXCEPT ![e] = NULL]
    BY <1>1, <2>1, RemoveEffect
  <2>3. ListInv(F, L, N, P, on) /\ ListType(F, L, N, P, on) /\ IsOn(on, e, h)
    BY <1>1, <2>1 DEF IsOn
  <2> HIDE DEF F, L, N, P
  <2>4. ListInv([F EXCEPT ![h] = IF @ = e THEN N[e] ELSE @],
                [L EXCEPT ![h] = IF @ = e THEN P[e] ELSE @],
                [Store(N, P[e], N[e]) EXCEPT ![e] = NULL],
                [Store(P, N[e], P[e]) EXCEPT ![e] = NULL],
                [on EXCEPT ![e] = NULL])
    BY <2>3, RemoveListInv
  <2>5. on' \in [Elem -> QHead \cup {NULL}]
    BY <1>1, <2>1
  <2> QED BY <2>1, <2>2, <2>4, <2>5
<1>7. CASE UNCHANGED vars
  BY <1>1, <1>7 DEF vars
<1> QED
  BY <1>2, <1>3, <1>4, <1>5, <1>6, <1>7 DEF Next, InsertFront, InsertTail

(* Under the macros' contract every queue of variable_queue.h stays a      *)
(* consistent doubly linked list, whatever the order of the calls.         *)
THEOREM QueuesStayConsistent == Spec => [](TypeOK /\ QueueInv)
BY InitInv, StepInv, PTL DEF Spec

-----------------------------------------------------------------------------
\* The queues hold the sequences L, and o says for each element on which it is.
Queued(q, o, L) ==
  /\ IsMemory(q) /\ L \in [QHead -> Seq(Elem)] /\ o \in [Elem -> QHead \cup {NULL}]
  /\ \A h \in QHead : IsList(q, h, link, L[h])
  /\ \A h \in QHead, e \in Elem : Holds(L[h], e) <=> o[e] = h

\* An insertion into queue h keeps what every queue holds but for e.
LEMMA InsertQueued ==
  ASSUME NEW q, NEW o, NEW L, Queued(q, o, L), NEW h \in QHead, NEW e \in Elem, o[e] = NULL,
         NEW p \in 1 .. Len(L[h]) + 1, NEW n, IsMemory(n),
         IsList(n, h, link, Inserted(L[h], p, e)), Touches(q, n, h, link, Near(e, L[h]))
  PROVE  Queued(n, [o EXCEPT ![e] = h], [L EXCEPT ![h] = Inserted(L[h], p, e)])
<1> DEFINE s == L[h]
           t == Inserted(s, p, e)
           O == [o EXCEPT ![e] = h]
           K == [L EXCEPT ![h] = t]
<1> USE LinkAssumption
<1>1. /\ L \in [QHead -> Seq(Elem)] /\ o \in [Elem -> QHead \cup {NULL}]
      /\ \A g \in QHead : IsList(q, g, link, L[g])
      /\ \A g \in QHead, d \in Elem : Holds(L[g], d) <=> o[d] = g
  BY DEF Queued
<1>2. s \in Seq(Elem) /\ Len(s) \in Nat
  BY <1>1, LenProperties
<1>3. /\ t \in Seq(Elem) /\ Len(t) = Len(s) + 1
      /\ \A i \in 1 .. Len(s) + 1 : t[i] = IF i < p THEN s[i] ELSE IF i = p THEN e ELSE s[i-1]
  <2>1. p \in 1 .. Len(s) + 1
    OBVIOUS
  <2> HIDE DEF s
  <2> QED
    BY <1>2, <2>1, InsertedIs
<1>4. \A d \in Elem : Holds(t, d) <=> Holds(s, d) \/ d = e
  <2>1. p \in 1 .. Len(s) + 1
    OBVIOUS
  <2> HIDE DEF s
  <2> QED
    BY <1>2, <2>1, HoldsInserted
<1>5. ~Holds(s, e) /\ \A d \in Near(e, s) : d = e \/ o[d] = h
  BY <1>1, LinkAssumption DEF Near
<1>6. O \in [Elem -> QHead \cup {NULL}] /\ K \in [QHead -> Seq(Elem)]
  BY <1>1, <1>3
<1>7. \A g \in QHead : IsList(n, g, link, K[g])
  <2> TAKE g \in QHead
  <2>1. CASE g = h
    BY <1>1, <2>1
  <2>2. CASE g # h
    <3>1. \A d \in Near(e, s) : ~Holds(L[g], d)
      BY <1>1, <1>5, <2>2, LinkAssumption DEF Near
    <3>2. IsList(n, g, link, L[g])
      BY <1>1, <2>2, <3>1, OtherLists
    <3> QED
      BY <1>1, <2>2, <3>2
  <2> QED
    BY <2>1, <2>2
<1>8. ASSUME NEW g \in QHead, NEW d \in Elem
      PROVE  Holds(K[g], d) <=> O[d] = g
  <2>1. CASE g = h
    <3>1. K[g] = t /\ (O[d] = g <=> o[d] = h \/ d = e)
      BY <1>1, <2>1
    <3> HIDE DEF K, O, t
    <3> QED
      BY <1>1, <1>4, <3>1
  <2>2. CASE g # h
    <3>1. K[g] = L[g] /\ (O[d] = g <=> o[d] = g)
      BY <1>1, <2>2
    <3> HIDE DEF K, O
    <3> QED
      BY <1>1, <3>1
  <2> QED
    BY <2>1, <2>2
<1> QED
  BY <1>6, <1>7, <1>8 DEF Queued

\* A removal from queue h keeps what every queue holds but for the element removed.
LEMMA RemoveQueued ==
  ASSUME NEW q, NEW o, NEW L, Queued(q, o, L), NEW h \in QHead, NEW p \in 1 .. Len(L[h]),
         NEW n, IsMemory(n), IsList(n, h, link, Removed(L[h], p)),
         Touches(q, n, h, link, Near(L[h][p], L[h]))
  PROVE  Queued(n, [o EXCEPT ![L[h][p]] = NULL], [L EXCEPT ![h] = Removed(L[h], p)])
<1> DEFINE s == L[h]
           e == s[p]
           t == Removed(s, p)
           O == [o EXCEPT ![e] = NULL]
           K == [L EXCEPT ![h] = t]
<1> USE LinkAssumption
<1>1. /\ L \in [QHead -> Seq(Elem)] /\ o \in [Elem -> QHead \cup {NULL}]
      /\ \A g \in QHead : IsList(q, g, link, L[g])
      /\ \A g \in QHead, d \in Elem : Holds(L[g], d) <=> o[d] = g
  BY DEF Queued
<1>2. s \in Seq(Elem) /\ Len(s) \in Nat /\ \A i, j \in 1 .. Len(s) : s[i] = s[j] => i = j
  BY <1>1, LenProperties DEF IsList, Chain, Distinct
<1>3. /\ t \in Seq(Elem) /\ Len(t) = Len(s) - 1
      /\ \A i \in 1 .. Len(s) - 1 : t[i] = IF i < p THEN s[i] ELSE s[i+1]
  BY <1>2, RemovedIs
<1>4. \A d \in Elem : Holds(t, d) <=> Holds(s, d) /\ d # e
  <2>1. p \in 1 .. Len(s)
    OBVIOUS
  <2> HIDE DEF s
  <2> QED
    BY <1>2, <2>1, HoldsRemoved DEF Distinct
<1>5. e \in Elem /\ Holds(s, e) /\ \A d \in Near(e, s) : o[d] = h
  BY <1>1, <1>2, LenProperties DEF Near, Holds
<1>6. O \in [Elem -> QHead \cup {NULL}] /\ K \in [QHead -> Seq(Elem)]
  BY <1>1, <1>3
<1>7. \A g \in QHead : IsList(n, g, link, K[g])
  <2> TAKE g \in QHead
  <2>1. CASE g = h
    BY <1>1, <2>1
  <2>2. CASE g # h
    <3>1. \A d \in Near(e, s) : ~Holds(L[g], d)
      BY <1>1, <1>5, <2>2 DEF Near
    <3>2. IsList(n, g, link, L[g])
      BY <1>1, <2>2, <3>1, OtherLists
    <3> QED
      BY <1>1, <2>2, <3>2
  <2> QED
    BY <2>1, <2>2
<1>8. ASSUME NEW g \in QHead, NEW d \in Elem
      PROVE  Holds(K[g], d) <=> O[d] = g
  <2>1. CASE g = h
    <3>1. K[g] = t /\ (O[d] = g <=> o[d] = h /\ d # e)
      BY <1>1, <1>5, <2>1
    <3> HIDE DEF K, O, t
    <3> QED
      BY <1>1, <1>4, <3>1
  <2>2. CASE g # h
    <3>1. K[g] = L[g] /\ (O[d] = g <=> o[d] = g)
      BY <1>1, <1>5, <2>2
    <3> HIDE DEF K, O
    <3> QED
      BY <1>1, <3>1
  <2> QED
    BY <2>1, <2>2
<1> QED
  BY <1>6, <1>7, <1>8 DEF Queued

\* The two ways to write a list with one element more or less.
LEMMA InsertedFront ==
  ASSUME NEW s \in Seq(Elem), NEW e \in Elem
  PROVE  Inserted(s, 1, e) = <<e>> \o s /\ Inserted(s, Len(s) + 1, e) = Append(s, e)
<1>1. Len(s) \in Nat
  BY LenProperties
<1>2. 1 \in 1 .. Len(s) + 1 /\ Len(s) + 1 \in 1 .. Len(s) + 1
  BY <1>1
<1>3. Inserted(s, 1, e) = <<e>> \o s
  <2>1. /\ <<e>> \in Seq(Elem) /\ Len(<<e>>) = 1 /\ <<e>>[1] = e
    OBVIOUS
  <2>2. /\ <<e>> \o s \in Seq(Elem) /\ Len(<<e>> \o s) = Len(s) + 1
        /\ \A i \in 1 .. Len(s) + 1 : (<<e>> \o s)[i] = IF i <= 1 THEN <<e>>[i] ELSE s[i-1]
    BY <1>1, <2>1, ConcatProperties
  <2>3. /\ Inserted(s, 1, e) \in Seq(Elem) /\ Len(Inserted(s, 1, e)) = Len(s) + 1
        /\ \A i \in 1 .. Len(s) + 1 :
             Inserted(s, 1, e)[i] = IF i < 1 THEN s[i] ELSE IF i = 1 THEN e ELSE s[i-1]
    BY <1>2, InsertedIs
  <2>4. \A i \in 1 .. Len(s) + 1 : Inserted(s, 1, e)[i] = (<<e>> \o s)[i]
    BY <1>1, <2>1, <2>2, <2>3
  <2> QED
    BY <2>2, <2>3, <2>4, SeqEqual
<1>4. Inserted(s, Len(s) + 1, e) = Append(s, e)
  <2>1. /\ Append(s, e) \in Seq(Elem) /\ Len(Append(s, e)) = Len(s) + 1
        /\ \A i \in 1 .. Len(s) + 1 : Append(s, e)[i] = IF i = Len(s) + 1 THEN e ELSE s[i]
    BY <1>1, AppendProperties
  <2> DEFINE p == Len(s) + 1
             t == Inserted(s, p, e)
  <2>2. /\ t \in Seq(Elem) /\ Len(t) = Len(s) + 1
        /\ \A i \in 1 .. Len(s) + 1 : t[i] = IF i < p THEN s[i] ELSE IF i = p THEN e ELSE s[i-1]
    <3>1. p \in 1 .. Len(s) + 1
      BY <1>2
    <3> HIDE DEF p
    <3> QED
      BY <3>1, InsertedIs
  <2>3. \A i \in 1 .. Len(s) + 1 : t[i] = Append(s, e)[i]
    <3> HIDE DEF t
    <3> QED
      BY <1>1, <2>1, <2>2
  <2> QED
    BY <2>1, <2>2, <2>3, SeqEqual
<1> QED
  BY <1>3, <1>4

\* The front of s up to place p - 1, and its rest from place p on.
LEMMA Parts ==
  ASSUME NEW s \in Seq(Elem), NEW p \in 1 .. Len(s) + 1
  PROVE  /\ Len(s) \in Nat
         /\ SubSeq(s, 1, p - 1) \in Seq(Elem) /\ Len(SubSeq(s, 1, p - 1)) = p - 1
         /\ \A i \in 1 .. p - 1 : SubSeq(s, 1, p - 1)[i] = s[i]
         /\ SubSeq(s, p, Len(s)) \in Seq(Elem) /\ Len(SubSeq(s, p, Len(s))) = Len(s) - p + 1
         /\ \A i \in 1 .. Len(s) - p + 1 : SubSeq(s, p, Len(s))[i] = s[p + i - 1]
<1>1. Len(s) \in Nat /\ s \in [1 .. Len(s) -> Elem]
  BY LenProperties
<1>2. /\ 1 \in Int /\ p - 1 \in Int /\ p \in Int /\ Len(s) \in Int
      /\ \A i \in 1 .. p - 1 : s[i] \in Elem
      /\ \A i \in p .. Len(s) : s[i] \in Elem
  BY <1>1
<1>3. /\ SubSeq(s, 1, p - 1) \in Seq(Elem)
      /\ Len(SubSeq(s, 1, p - 1)) = IF 1 <= p - 1 THEN p - 1 - 1 + 1 ELSE 0
      /\ \A i \in 1 .. p - 1 - 1 + 1 : SubSeq(s, 1, p - 1)[i] = s[1 + i - 1]
  BY <1>2, SubSeqProperties
<1>4. /\ SubSeq(s, p, Len(s)) \in Seq(Elem)
      /\ Len(SubSeq(s, p, Len(s))) = IF p <= Len(s) THEN Len(s) - p + 1 ELSE 0
      /\ \A i \in 1 .. Len(s) - p + 1 : SubSeq(s, p, Len(s))[i] = s[p + i - 1]
  BY <1>2, SubSeqProperties
<1>5. /\ (IF 1 <= p - 1 THEN p - 1 - 1 + 1 ELSE 0) = p - 1
      /\ (IF p <= Len(s) THEN Len(s) - p + 1 ELSE 0) = Len(s) - p + 1
      /\ p - 1 - 1 + 1 = p - 1 /\ \A i \in 1 .. p - 1 : 1 + i - 1 = i
  BY <1>1
<1> QED
  BY <1>1, <1>3, <1>4, <1>5

\* InsertAt and RemoveAt of SequencesExt, the forms of SequenceQueues.
LEMMA InsertedAt ==
  ASSUME NEW s \in Seq(Elem), NEW p \in 1 .. Len(s) + 1, NEW e \in Elem
  PROVE  Inserted(s, p, e) = SubSeq(s, 1, p - 1) \o <<e>> \o SubSeq(s, p, Len(s))
<1> DEFINE a == SubSeq(s, 1, p - 1)
           b == SubSeq(s, p, Len(s))
           ae == a \o <<e>>
           c == ae \o b
           t == Inserted(s, p, e)
           n == Len(s)
<1>1. /\ n \in Nat /\ p \in 1 .. n + 1
      /\ a \in Seq(Elem) /\ Len(a) = p - 1 /\ \A i \in 1 .. p - 1 : a[i] = s[i]
      /\ b \in Seq(Elem) /\ Len(b) = n - p + 1 /\ \A i \in 1 .. n - p + 1 : b[i] = s[p + i - 1]
  BY Parts
<1>2. <<e>> \in Seq(Elem) /\ Len(<<e>>) = 1 /\ <<e>>[1] = e
  OBVIOUS
<1>3. /\ t \in Seq(Elem) /\ Len(t) = n + 1
      /\ \A i \in 1 .. n + 1 : t[i] = IF i < p THEN s[i] ELSE IF i = p THEN e ELSE s[i-1]
  BY <1>1, InsertedIs
<1> HIDE DEF a, b, t, n
<1>4. /\ ae \in Seq(Elem) /\ Len(ae) = p - 1 + 1
      /\ \A i \in 1 .. p - 1 + 1 : ae[i] = IF i <= p - 1 THEN a[i] ELSE <<e>>[i - (p - 1)]
  BY <1>1, <1>2, ConcatProperties
<1>5. p - 1 + 1 = p /\ \A i \in 1 .. p : (i <= p - 1 <=> i < p) /\ (~(i < p) => i - (p - 1) = 1)
  BY <1>1
<1>6. ae \in Seq(Elem) /\ Len(ae) = p /\ \A i \in 1 .. p : ae[i] = IF i < p THEN a[i] ELSE e
  BY <1>2, <1>4, <1>5
<1> HIDE DEF ae
<1>7. /\ c \in Seq(Elem) /\ Len(c) = n + 1
      /\ \A i \in 1 .. n + 1 : c[i] = IF i <= p THEN ae[i] ELSE b[i - p]
  <2>1. ae \in Seq(Elem) /\ b \in Seq(Elem)
    BY <1>1, <1>6
  <2>2. /\ c \in Seq(Elem) /\ Len(c) = Len(ae) + Len(b)
        /\ \A i \in 1 .. Len(ae) + Len(b) :
             c[i] = IF i <= Len(ae) THEN ae[i] ELSE b[i - Len(ae)]
    BY <2>1, ConcatProperties
  <2>3. Len(ae) = p /\ Len(ae) + Len(b) = n + 1
    BY <1>1, <1>6
  <2> HIDE DEF c
  <2> QED
    BY <2>2, <2>3
<1> HIDE DEF c
<1>8. ASSUME NEW i \in 1 .. n + 1
      PROVE  c[i] = t[i]
  <2>1. c[i] = IF i <= p THEN ae[i] ELSE b[i - p]
    BY <1>1, <1>7
  <2>2. CASE i < p
    BY <1>1, <1>3, <1>6, <2>1, <2>2
  <2>3. CASE i = p
    BY <1>1, <1>3, <1>6, <2>1, <2>3
  <2>4. CASE i > p
    <3>1. i - p \in 1 .. n - p + 1 /\ p + (i - p) - 1 = i - 1 /\ ~(i <= p) /\ ~(i < p)
      BY <1>1, <2>4
    <3> QED
      BY <1>1, <1>3, <2>1, <2>4, <3>1
  <2> QED
    BY <1>1, <2>2, <2>3, <2>4
<1>9. Len(c) = n + 1
  BY <1>1, <1>7
<1> QED
  BY <1>3, <1>7, <1>8, <1>9, SeqEqual DEF a, b, ae, c, t

\* Deleting from the abstract sequence is removing the place of the element.
LEMMA RemovedAt ==
  ASSUME NEW s \in Seq(Elem), NEW p \in 1 .. Len(s)
  PROVE  Removed(s, p) = SubSeq(s, 1, p - 1) \o SubSeq(s, p + 1, Len(s))
<1> DEFINE a == SubSeq(s, 1, p - 1)
           b == SubSeq(s, p + 1, Len(s))
           c == a \o b
           t == Removed(s, p)
           n == Len(s)
<1>0. n \in Nat
  BY LenProperties
<1>1. /\ p \in 1 .. n /\ p \in 1 .. n + 1 /\ p + 1 \in 1 .. n + 1
  BY <1>0
<1>2. a \in Seq(Elem) /\ Len(a) = p - 1 /\ \A i \in 1 .. p - 1 : a[i] = s[i]
  BY <1>1, Parts
<1>3. /\ b \in Seq(Elem) /\ Len(b) = n - (p + 1) + 1
      /\ \A i \in 1 .. n - (p + 1) + 1 : b[i] = s[(p + 1) + i - 1]
  BY <1>1, Parts
<1>4. /\ t \in Seq(Elem) /\ Len(t) = n - 1
      /\ \A i \in 1 .. n - 1 : t[i] = IF i < p THEN s[i] ELSE s[i+1]
  BY <1>1, RemovedIs
<1> HIDE DEF a, b, t, n
<1>5. /\ c \in Seq(Elem) /\ Len(c) = (p - 1) + (n - (p + 1) + 1)
      /\ \A i \in 1 .. (p - 1) + (n - (p + 1) + 1) :
           c[i] = IF i <= p - 1 THEN a[i] ELSE b[i - (p - 1)]
  BY <1>2, <1>3, ConcatProperties
<1> HIDE DEF c
<1>6. ASSUME NEW i \in 1 .. n - 1
      PROVE  c[i] = t[i]
  <2>1. c[i] = IF i <= p - 1 THEN a[i] ELSE b[i - (p - 1)]
    BY <1>0, <1>1, <1>5
  <2>2. CASE i < p
    BY <1>0, <1>1, <1>2, <1>4, <2>1, <2>2
  <2>3. CASE ~(i < p)
    <3>1. i - (p - 1) \in 1 .. n - (p + 1) + 1 /\ (p + 1) + (i - (p - 1)) - 1 = i + 1
          /\ ~(i <= p - 1)
      BY <1>0, <1>1, <2>3
    <3> QED
      BY <1>3, <1>4, <2>1, <2>3, <3>1
  <2> QED
    BY <2>2, <2>3
<1>7. Len(c) = n - 1
  BY <1>0, <1>1, <1>5
<1> QED
  BY <1>4, <1>5, <1>6, <1>7, SeqEqual DEF a, b, c, t
-----------------------------------------------------------------------------
\* The sequences of the refinement: what a Q_FOREACH over each queue visits.
Lists == [h \in QHead |-> Q_FOREACH(m, h, link)]

ListsInv == Queued(m, on, Lists)

\* The sequences a memory's queues hold are those that Q_FOREACH visits.
LEMMA QueuedAre ==
  ASSUME NEW q, NEW o, NEW L, Queued(q, o, L)
  PROVE  [h \in QHead |-> Q_FOREACH(q, h, link)] = L
<1>1. L \in [QHead -> Seq(Elem)] /\ \A h \in QHead : Q_FOREACH(q, h, link) = L[h]
  BY ForeachList DEF Queued
<1> QED
  BY <1>1

\* The queues start empty.
LEMMA InitLists == Init => ListsInv /\ Abstract!Init
<1> SUFFICES ASSUME Init PROVE ListsInv /\ Abstract!Init
  OBVIOUS
<1> DEFINE L == [h \in QHead |-> <<>>]
<1>1. <<>> \in Seq(Elem) /\ Len(<<>>) = 0
  OBVIOUS
<1>2. IsMemory(m) /\ on = [e \in Elem |-> NULL]
  BY DEF Init, EmptyMemory, IsMemory, Ptr, Fields
<1>3. ASSUME NEW h \in QHead
      PROVE  IsList(m, h, link, <<>>)
  <2>1. m.first[h] = NULL /\ m.last[h] = NULL
    BY DEF Init, EmptyMemory
  <2> QED
    BY <1>1, <2>1 DEF IsList, Chain, Distinct
<1>4. \A e \in Elem : ~Holds(<<>>, e)
  BY <1>1 DEF Holds
<1>5. Queued(m, on, L)
  BY <1>1, <1>2, <1>3, <1>4, LinkAssumption DEF Queued
<1>6. Lists = L
  BY <1>5, QueuedAre DEF Lists
<1> QED
  BY <1>5, <1>6 DEF ListsInv, Lists, Abstract!Init

\* An element its client knows on no queue is listed on none.
LEMMA NotListed ==
  ASSUME ListsInv, NEW h \in QHead, NEW e \in Elem, on[e] = NULL
  PROVE  ~Abstract!Listed(e) /\ ~Holds(Lists[h], e)
BY LinkAssumption DEF ListsInv, Queued, Abstract!Listed, Abstract!Contains, Holds, Lists

\* An element on queue h has a place in its list.
LEMMA PlaceIs ==
  ASSUME ListsInv, NEW h \in QHead, NEW e \in Elem, on[e] = h
  PROVE  /\ Place(h, e) \in 1 .. Len(Lists[h]) /\ Lists[h][Place(h, e)] = e
         /\ Place(h, e) \in DOMAIN Lists[h]
<1>1. Lists[h] \in Seq(Elem) /\ Lists[h] = Q_FOREACH(m, h, link) /\ Holds(Lists[h], e)
  BY DEF ListsInv, Queued, Lists
<1>2. DOMAIN Lists[h] = 1 .. Len(Lists[h])
  BY <1>1, LenProperties
<1>3. \E i \in DOMAIN Lists[h] : Lists[h][i] = e
  BY <1>1, <1>2 DEF Holds
<1> QED
  BY <1>1, <1>2, <1>3 DEF Place

\* After a step that leaves the queues holding K, K is what the refinement sees.
LEMMA StepLists ==
  ASSUME NEW K, Queued(m', on', K)
  PROVE  ListsInv' /\ Lists' = K
<1>1. Lists' = K
  BY QueuedAre DEF Lists
<1> QED
  BY <1>1 DEF ListsInv

\* What a front insertion does to the lists, and so on for the other macros.
LEMMA InsertFrontStep ==
  ASSUME ListsInv, NEW h \in QHead, NEW e \in Elem, InsertFront(h, e)
  PROVE  ListsInv' /\ Abstract!InsertFront(h, e)
<1> DEFINE s == Lists[h]
<1> USE LinkAssumption
<1>1. /\ Queued(m, on, Lists) /\ IsMemory(m) /\ s \in Seq(Elem) /\ Len(s) \in Nat
      /\ IsList(m, h, link, s) /\ on[e] = NULL /\ 1 \in 1 .. Len(s) + 1
      /\ on' = [on EXCEPT ![e] = h] /\ m' = Q_INSERT_FRONT(m, h, e, link)
  BY LenProperties DEF ListsInv, Queued, InsertFront
<1>2. ~Abstract!Listed(e) /\ ~Holds(s, e)
  BY <1>1, NotListed
<1>3. /\ IsMemory(m') /\ IsList(m', h, link, Inserted(s, 1, e))
      /\ Touches(m, m', h, link, Near(e, s))
  BY <1>1, <1>2, InsertFrontList
<1>4. Queued(m', on', [Lists EXCEPT ![h] = Inserted(s, 1, e)])
  BY <1>1, <1>3, InsertQueued
<1>5. ListsInv' /\ Lists' = [Lists EXCEPT ![h] = Inserted(s, 1, e)]
  BY <1>4, StepLists
<1>6. Inserted(s, 1, e) = <<e>> \o s
  BY <1>1, InsertedFront
<1> QED
  BY <1>2, <1>5, <1>6 DEF Lists, Abstract!InsertFront, Abstract!Becomes

\* Q_INSERT_TAIL appends to the abstract sequence.
LEMMA InsertTailStep ==
  ASSUME ListsInv, NEW h \in QHead, NEW e \in Elem, InsertTail(h, e)
  PROVE  ListsInv' /\ Abstract!InsertTail(h, e)
<1> DEFINE s == Lists[h]
           p == Len(s) + 1
<1> USE LinkAssumption
<1>1. /\ Queued(m, on, Lists) /\ IsMemory(m) /\ s \in Seq(Elem) /\ p \in 1 .. Len(s) + 1
      /\ IsList(m, h, link, s) /\ on[e] = NULL
      /\ on' = [on EXCEPT ![e] = h] /\ m' = Q_INSERT_TAIL(m, h, e, link)
  BY LenProperties DEF ListsInv, Queued, InsertTail
<1>2. ~Abstract!Listed(e) /\ ~Holds(s, e)
  BY <1>1, NotListed
<1>3. /\ IsMemory(m') /\ IsList(m', h, link, Inserted(s, p, e))
      /\ Touches(m, m', h, link, Near(e, s))
  BY <1>1, <1>2, InsertTailList
<1>4. Queued(m', on', [Lists EXCEPT ![h] = Inserted(s, p, e)])
  <2> HIDE DEF p
  <2> QED
    BY <1>1, <1>3, InsertQueued
<1>5. ListsInv' /\ Lists' = [Lists EXCEPT ![h] = Inserted(s, p, e)]
  BY <1>4, StepLists
<1>6. Inserted(s, p, e) = Append(s, e)
  BY <1>1, InsertedFront
<1> QED
  BY <1>2, <1>5, <1>6 DEF Lists, Abstract!InsertTail, Abstract!Becomes

\* Q_INSERT_AFTER inserts behind an element of the abstract sequence.
LEMMA InsertAfterStep ==
  ASSUME ListsInv, NEW h \in QHead, NEW e \in Elem, NEW inq \in Elem, InsertAfter(h, inq, e)
  PROVE  ListsInv' /\ Abstract!InsertAfter(h, Place(h, inq), e)
<1> DEFINE s == Lists[h]
           i == Place(h, inq)
           p == i + 1
<1> USE LinkAssumption
<1>1. /\ Queued(m, on, Lists) /\ IsMemory(m) /\ s \in Seq(Elem) /\ Len(s) \in Nat
      /\ IsList(m, h, link, s) /\ on[e] = NULL /\ on[inq] = h
      /\ on' = [on EXCEPT ![e] = h] /\ m' = Q_INSERT_AFTER(m, h, inq, e, link)
  BY LenProperties DEF ListsInv, Queued, InsertAfter
<1>2. ~Abstract!Listed(e) /\ ~Holds(s, e)
  BY <1>1, NotListed
<1>3. i \in 1 .. Len(s) /\ s[i] = inq
  BY <1>1, PlaceIs
<1> HIDE DEF i
<1>4. p \in 1 .. Len(s) + 1 /\ m' = Q_INSERT_AFTER(m, h, s[i], e, link)
  BY <1>1, <1>3
<1>5. /\ IsMemory(m') /\ IsList(m', h, link, Inserted(s, p, e))
      /\ Touches(m, m', h, link, Near(e, s))
  BY <1>1, <1>2, <1>3, <1>4, InsertAfterList
<1> HIDE DEF p
<1>6. Queued(m', on', [Lists EXCEPT ![h] = Inserted(s, p, e)])
  BY <1>1, <1>4, <1>5, InsertQueued
<1>7. ListsInv' /\ Lists' = [Lists EXCEPT ![h] = Inserted(s, p, e)]
  BY <1>6, StepLists
<1>8. Inserted(s, p, e) = SubSeq(s, 1, p - 1) \o <<e>> \o SubSeq(s, p, Len(s))
  BY <1>1, <1>4, InsertedAt
<1> QED
  BY <1>2, <1>7, <1>8
     DEF Lists, Abstract!InsertAfter, Abstract!Becomes, Abstract!InsertAt, p, i

\* Q_INSERT_BEFORE inserts before an element of the abstract sequence.
LEMMA InsertBeforeStep ==
  ASSUME ListsInv, NEW h \in QHead, NEW e \in Elem, NEW inq \in Elem, InsertBefore(h, inq, e)
  PROVE  ListsInv' /\ Abstract!InsertBefore(h, Place(h, inq), e)
<1> DEFINE s == Lists[h]
           p == Place(h, inq)
<1> USE LinkAssumption
<1>1. /\ Queued(m, on, Lists) /\ IsMemory(m) /\ s \in Seq(Elem) /\ Len(s) \in Nat
      /\ IsList(m, h, link, s) /\ on[e] = NULL /\ on[inq] = h
      /\ on' = [on EXCEPT ![e] = h] /\ m' = Q_INSERT_BEFORE(m, h, inq, e, link)
  BY LenProperties DEF ListsInv, Queued, InsertBefore
<1>2. ~Abstract!Listed(e) /\ ~Holds(s, e)
  BY <1>1, NotListed
<1>3. p \in 1 .. Len(s) /\ s[p] = inq
  BY <1>1, PlaceIs
<1> HIDE DEF p
<1>4. p \in 1 .. Len(s) + 1 /\ m' = Q_INSERT_BEFORE(m, h, s[p], e, link)
  BY <1>1, <1>3
<1>5. /\ IsMemory(m') /\ IsList(m', h, link, Inserted(s, p, e))
      /\ Touches(m, m', h, link, Near(e, s))
  BY <1>1, <1>2, <1>3, <1>4, InsertBeforeList
<1>6. Queued(m', on', [Lists EXCEPT ![h] = Inserted(s, p, e)])
  BY <1>1, <1>4, <1>5, InsertQueued
<1>7. ListsInv' /\ Lists' = [Lists EXCEPT ![h] = Inserted(s, p, e)]
  BY <1>6, StepLists
<1>8. Inserted(s, p, e) = SubSeq(s, 1, p - 1) \o <<e>> \o SubSeq(s, p, Len(s))
  BY <1>1, <1>4, InsertedAt
<1> QED
  BY <1>2, <1>7, <1>8
     DEF Lists, Abstract!InsertBefore, Abstract!Becomes, Abstract!InsertAt, p

\* Q_REMOVE deletes from the abstract sequence.
LEMMA RemoveStep ==
  ASSUME ListsInv, NEW h \in QHead, NEW e \in Elem, Remove(h, e)
  PROVE  ListsInv' /\ Abstract!Delete(h, Place(h, e))
<1> DEFINE s == Lists[h]
           p == Place(h, e)
<1> USE LinkAssumption
<1>1. /\ Queued(m, on, Lists) /\ IsMemory(m) /\ s \in Seq(Elem) /\ IsList(m, h, link, s)
      /\ on[e] = h /\ on' = [on EXCEPT ![e] = NULL] /\ m' = Q_REMOVE(m, h, e, link)
  BY DEF ListsInv, Queued, Remove
<1>2. p \in 1 .. Len(s) /\ s[p] = e
  BY <1>1, PlaceIs
<1> HIDE DEF p
<1>3. m' = Q_REMOVE(m, h, s[p], link)
  BY <1>1, <1>2
<1>4. /\ IsMemory(m') /\ IsList(m', h, link, Removed(s, p))
      /\ Touches(m, m', h, link, Near(s[p], s))
  BY <1>1, <1>2, <1>3, RemoveList
<1>5. Queued(m', [on EXCEPT ![s[p]] = NULL], [Lists EXCEPT ![h] = Removed(s, p)])
  BY <1>1, <1>2, <1>4, RemoveQueued
<1>6. ListsInv' /\ Lists' = [Lists EXCEPT ![h] = Removed(s, p)]
  BY <1>1, <1>2, <1>5, StepLists
<1>7. Removed(s, p) = SubSeq(s, 1, p - 1) \o SubSeq(s, p + 1, Len(s))
  BY <1>1, <1>2, RemovedAt
<1> QED
  BY <1>6, <1>7 DEF Lists, Abstract!Delete, Abstract!Becomes, Abstract!RemoveAt, p

\* Every step keeps the lists and is a step, or a stutter, of SequenceQueues.
LEMMA StepImplements ==
  ASSUME ListsInv, [Next]_vars
  PROVE  /\ ListsInv' /\ [Abstract!Next]_Lists
         /\ \A h \in QHead, e \in Elem : MacroImplements(h, e)
<1>1. \A h \in QHead, e \in Elem : MacroImplements(h, e)
  BY InsertFrontStep, InsertTailStep, InsertAfterStep, InsertBeforeStep, RemoveStep
     DEF MacroImplements
<1>2. CASE Next
  <2>1. PICK h \in QHead, e \in Elem :
               \/ InsertFront(h, e) \/ InsertTail(h, e) \/ Remove(h, e)
               \/ \E inq \in Elem : InsertAfter(h, inq, e) \/ InsertBefore(h, inq, e)
    BY <1>2 DEF Next
  <2>2. CASE InsertFront(h, e)
    <3>1. ListsInv' /\ Abstract!InsertFront(h, e)
      BY <2>2, InsertFrontStep
    <3> QED
      BY <1>1, <3>1 DEF Abstract!Next
  <2>3. CASE InsertTail(h, e)
    <3>1. ListsInv' /\ Abstract!InsertTail(h, e)
      BY <2>3, InsertTailStep
    <3> QED
      BY <1>1, <3>1 DEF Abstract!Next
  <2>4. CASE Remove(h, e)
    <3>1. ListsInv' /\ Abstract!Delete(h, Place(h, e)) /\ Place(h, e) \in DOMAIN Lists[h]
      BY <2>4, RemoveStep, PlaceIs DEF Remove
    <3> QED
      BY <1>1, <3>1 DEF Abstract!Next, Lists
  <2>5. ASSUME NEW inq \in Elem, InsertAfter(h, inq, e)
        PROVE  ListsInv' /\ Abstract!Next
    <3>1. /\ ListsInv' /\ Abstract!InsertAfter(h, Place(h, inq), e)
          /\ Place(h, inq) \in DOMAIN Lists[h]
      BY <2>5, InsertAfterStep, PlaceIs DEF InsertAfter
    <3> QED
      BY <3>1 DEF Abstract!Next, Lists
  <2>6. ASSUME NEW inq \in Elem, InsertBefore(h, inq, e)
        PROVE  ListsInv' /\ Abstract!Next
    <3>1. /\ ListsInv' /\ Abstract!InsertBefore(h, Place(h, inq), e)
          /\ Place(h, inq) \in DOMAIN Lists[h]
      BY <2>6, InsertBeforeStep, PlaceIs DEF InsertBefore
    <3> QED
      BY <3>1 DEF Abstract!Next, Lists
  <2> QED
    BY <1>1, <2>1, <2>2, <2>3, <2>4, <2>5, <2>6
<1>3. CASE UNCHANGED vars
  BY <1>1, <1>3 DEF vars, ListsInv, Lists
<1> QED
  BY <1>2, <1>3

(* The pointers of variable_queue.h implement the sequences of             *)
(* SequenceQueues: each macro puts its element at the place its name says, *)
(* takes the right one away, and leaves every other queue of the link as   *)
(* it was, whatever the number of elements, queues and links.              *)
THEOREM QueuesAreSequences == Spec => ImplementsSequences
BY InitLists, StepImplements, PTL DEF Spec, ImplementsSequences, Abstract!Spec, Lists
=============================================================================
