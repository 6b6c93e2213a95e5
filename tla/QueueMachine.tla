---------------------------- MODULE QueueMachine ----------------------------
(***************************************************************************)
(* The queue macros under their contract: any client that inserts only     *)
(* elements that are on no queue of the link, and removes an element only  *)
(* from the queue it is on.  The queues of one link share the pointers of  *)
(* that link, as the run queue and the done queue share runnable_link;     *)
(* different links have nothing in common, so one link is enough.          *)
(***************************************************************************)
EXTENDS VariableQueue

CONSTANT link

ASSUME LinkAssumption == link \in Link /\ NULL \notin QHead

VARIABLES m,    \* the heads and links
          on    \* on[e]: the queue e is on, as its client knows it; or NULL

vars == <<m, on>>

TypeOK == m \in QueueMemory /\ on \in [Elem -> QHead \cup {NULL}]

Init == m = EmptyMemory /\ on = [e \in Elem |-> NULL]

InsertFront(h, e) ==
  /\ on[e] = NULL
  /\ m' = Q_INSERT_FRONT(m, h, e, link)
  /\ on' = [on EXCEPT ![e] = h]

InsertTail(h, e) ==
  /\ on[e] = NULL
  /\ m' = Q_INSERT_TAIL(m, h, e, link)
  /\ on' = [on EXCEPT ![e] = h]

InsertAfter(h, inq, e) ==
  /\ on[e] = NULL /\ on[inq] = h
  /\ m' = Q_INSERT_AFTER(m, h, inq, e, link)
  /\ on' = [on EXCEPT ![e] = h]

InsertBefore(h, inq, e) ==
  /\ on[e] = NULL /\ on[inq] = h
  /\ m' = Q_INSERT_BEFORE(m, h, inq, e, link)
  /\ on' = [on EXCEPT ![e] = h]

Remove(h, e) ==
  /\ on[e] = h
  /\ m' = Q_REMOVE(m, h, e, link)
  /\ on' = [on EXCEPT ![e] = NULL]

Next == \E h \in QHead, e \in Elem :
          \/ InsertFront(h, e) \/ InsertTail(h, e) \/ Remove(h, e)
          \/ \E inq \in Elem : InsertAfter(h, inq, e) \/ InsertBefore(h, inq, e)

Spec == Init /\ [][Next]_vars

-----------------------------------------------------------------------------
First(h) == m.first[h]
Last(h)  == m.last[h]
NextOf(e) == m.next[link][e]
PrevOf(e) == m.prev[link][e]

(* The ends of every queue: a queue has a first element exactly when it    *)
(* has a last one, and they are on it with nothing before and after them.  *)
EndsAgree ==
  \A h \in QHead :
    /\ First(h) = NULL <=> Last(h) = NULL
    /\ First(h) # NULL => on[First(h)] = h /\ PrevOf(First(h)) = NULL
    /\ Last(h) # NULL => on[Last(h)] = h /\ NextOf(Last(h)) = NULL

(* The links of every element: next and prev are inverse and stay on one   *)
(* queue, and only the ends of a queue and the elements on none have NULL  *)
(* pointers.                                                               *)
LinksAgree ==
  \A e \in Elem :
    /\ NextOf(e) # NULL => PrevOf(NextOf(e)) = e /\ on[NextOf(e)] = on[e]
    /\ PrevOf(e) # NULL => NextOf(PrevOf(e)) = e /\ on[PrevOf(e)] = on[e]
    /\ on[e] = NULL => NextOf(e) = NULL /\ PrevOf(e) = NULL
    /\ on[e] # NULL /\ NextOf(e) = NULL => Last(on[e]) = e
    /\ on[e] # NULL /\ PrevOf(e) = NULL => First(on[e]) = e

(* What variable_queue.h has to keep so that Q_FOREACH, Q_REMOVE and the   *)
(* inserts work on any queue: the doubly linked lists are consistent.      *)
QueueInv == EndsAgree /\ LinksAgree

(* The pointers implement the sequences of SequenceQueues, and each macro  *)
(* inserts or removes at the place its name says.                          *)
Abstract == INSTANCE SequenceQueues
              WITH lists <- [h \in QHead |-> Q_FOREACH(m, h, link)]

Place(h, e) == CHOOSE i \in DOMAIN Q_FOREACH(m, h, link) : Q_FOREACH(m, h, link)[i] = e

MacroImplements(h, e) ==
  /\ InsertFront(h, e) => Abstract!InsertFront(h, e)
  /\ InsertTail(h, e) => Abstract!InsertTail(h, e)
  /\ Remove(h, e) => Abstract!Delete(h, Place(h, e))
  /\ \A inq \in Elem :
       /\ InsertAfter(h, inq, e) => Abstract!InsertAfter(h, Place(h, inq), e)
       /\ InsertBefore(h, inq, e) => Abstract!InsertBefore(h, Place(h, inq), e)

ImplementsSequences ==
  Abstract!Spec /\ [][\A h \in QHead, e \in Elem : MacroImplements(h, e)]_vars
=============================================================================
