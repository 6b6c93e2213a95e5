--------------------------- MODULE VariableQueue ---------------------------
(***************************************************************************)
(* The intrusive doubly linked queues of kern/inc/variable_queue.h.        *)
(*                                                                         *)
(* A queue is a pair of pointers first/last (Q_NEW_HEAD); an element       *)
(* carries one next/prev pair per link name (Q_NEW_LINK).  The memory of   *)
(* all the heads and links is one record m, and every macro is an operator *)
(* that returns the memory after it.  The operators use EXCEPT on the four *)
(* fields only, so m may have further fields of its owner.                 *)
(*                                                                         *)
(* The operators follow the macros store by store, also where an argument  *)
(* breaks the macro's contract: removing an element through the wrong link *)
(* or from a queue it is not on does here what the C stores do.            *)
(***************************************************************************)
EXTENDS Naturals, FiniteSets

CONSTANTS Elem,   \* the structures that can be queued
          QHead,  \* the queue heads
          Link,   \* the link names
          NULL    \* the null pointer

ASSUME NullAssumption == NULL \notin Elem

\* Memory has room for finitely many of them.
ASSUME FiniteAssumption == IsFiniteSet(Elem)

Ptr == Elem \cup {NULL}

QueueMemory ==
  [first : [QHead -> Ptr], last : [QHead -> Ptr],
   next : [Link -> [Elem -> Ptr]], prev : [Link -> [Elem -> Ptr]]]

\* All heads and links cleared: Q_INIT_HEAD and Q_INIT_ELEM, or memset.
EmptyMemory ==
  [first |-> [h \in QHead |-> NULL], last |-> [h \in QHead |-> NULL],
   next |-> [l \in Link |-> [e \in Elem |-> NULL]],
   prev |-> [l \in Link |-> [e \in Elem |-> NULL]]]

\* "if (p != NULL) p->field = v", field being the function g.
Store(g, p, v) == IF p = NULL THEN g ELSE [g EXCEPT ![p] = v]

Q_GET_FRONT(m, h) == m.first[h]

Q_INSERT_FRONT(m, h, e, l) ==
  [m EXCEPT !.prev[l]  = [Store(@, m.first[h], e) EXCEPT ![e] = NULL],
            !.next[l]  = [@ EXCEPT ![e] = m.first[h]],
            !.first[h] = e,
            !.last[h]  = IF @ = NULL THEN e ELSE @]

Q_INSERT_TAIL(m, h, e, l) ==
  [m EXCEPT !.next[l]  = [Store(@, m.last[h], e) EXCEPT ![e] = NULL],
            !.prev[l]  = [@ EXCEPT ![e] = m.last[h]],
            !.last[h]  = e,
            !.first[h] = IF @ = NULL THEN e ELSE @]

Q_INSERT_AFTER(m, h, inq, e, l) ==
  IF m.last[h] = inq
  THEN Q_INSERT_TAIL(m, h, e, l)
  ELSE [m EXCEPT !.next[l] = [@ EXCEPT ![e] = m.next[l][inq], ![inq] = e],
                 !.prev[l] = Store([@ EXCEPT ![e] = inq], m.next[l][inq], e)]

\* Mutant of Q_INSERT_BEFORE: the macros swapped.
InsertBeforeIsAfter(m, h, inq, e, l) == Q_INSERT_AFTER(m, h, inq, e, l)

Q_INSERT_BEFORE(m, h, inq, e, l) ==
  IF m.first[h] = inq
  THEN Q_INSERT_FRONT(m, h, e, l)
  ELSE [m EXCEPT !.prev[l] = [@ EXCEPT ![e] = m.prev[l][inq], ![inq] = e],
                 !.next[l] = Store([@ EXCEPT ![e] = inq], m.prev[l][inq], e)]

\* Mutant of Q_REMOVE: the successor's prev is not mended.
RemoveKeepsPrev(m, h, e, l) ==
  [m EXCEPT !.first[h] = IF @ = e THEN m.next[l][e] ELSE @,
            !.last[h]  = IF @ = e THEN m.prev[l][e] ELSE @,
            !.next[l]  = [Store(@, m.prev[l][e], m.next[l][e]) EXCEPT ![e] = NULL],
            !.prev[l]  = [@ EXCEPT ![e] = NULL]]

Q_REMOVE(m, h, e, l) ==
  [m EXCEPT !.first[h] = IF @ = e THEN m.next[l][e] ELSE @,
            !.last[h]  = IF @ = e THEN m.prev[l][e] ELSE @,
            !.next[l]  = [Store(@, m.prev[l][e], m.next[l][e]) EXCEPT ![e] = NULL],
            !.prev[l]  = [Store(@, m.next[l][e], m.prev[l][e]) EXCEPT ![e] = NULL]]

-----------------------------------------------------------------------------
\* The elements a Q_FOREACH over queue h visits, in order.  A walk longer
\* than the number of elements would never end; it is cut there.
Q_FOREACH(m, h, l) ==
  LET walk[n \in 0..Cardinality(Elem)] ==
        IF n = 0 THEN m.first[h]
        ELSE IF walk[n-1] = NULL THEN NULL ELSE m.next[l][walk[n-1]]
      visited == {n \in 0..(Cardinality(Elem) - 1) : walk[n] # NULL}
  IN  [i \in 1..Cardinality(visited) |-> walk[i-1]]

\* The elements on queue h.
Members(m, h, l) == LET s == Q_FOREACH(m, h, l) IN {s[i] : i \in DOMAIN s}
=============================================================================
