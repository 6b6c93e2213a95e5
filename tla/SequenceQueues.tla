--------------------------- MODULE SequenceQueues ---------------------------
(***************************************************************************)
(* What the queues of variable_queue.h promise: every queue is a sequence, *)
(* an element is on at most one queue, and the macros insert and remove at *)
(* the place their names say.                                              *)
(***************************************************************************)
EXTENDS Sequences, SequencesExt

CONSTANTS Elem, QHead

VARIABLE lists   \* the sequence of elements on each queue

Listed(e) == \E h \in QHead : Contains(lists[h], e)

Init == lists = [h \in QHead |-> <<>>]

\* Queue h becomes the sequence s.
Becomes(h, s) == lists' = [lists EXCEPT ![h] = s]

InsertFront(h, e) == ~Listed(e) /\ Becomes(h, <<e>> \o lists[h])

InsertTail(h, e) == ~Listed(e) /\ Becomes(h, Append(lists[h], e))

InsertAfter(h, i, e) == ~Listed(e) /\ Becomes(h, InsertAt(lists[h], i + 1, e))

InsertBefore(h, i, e) == ~Listed(e) /\ Becomes(h, InsertAt(lists[h], i, e))

Delete(h, i) == Becomes(h, RemoveAt(lists[h], i))

Next == \E h \in QHead :
          \/ \E e \in Elem : \/ InsertFront(h, e) \/ InsertTail(h, e)
                             \/ \E i \in DOMAIN lists[h] : \/ InsertAfter(h, i, e)
                                                           \/ InsertBefore(h, i, e)
          \/ \E i \in DOMAIN lists[h] : Delete(h, i)

Spec == Init /\ [][Next]_lists
=============================================================================
