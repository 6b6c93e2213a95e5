-------------------------- MODULE SchedulerProofs --------------------------
(***************************************************************************)
(* The scheduler's invariants hold for any number of threads, for programs *)
(* that fork, vanish, wait, sleep and yield, and for programs that kill    *)
(* and suspend threads while none waits (SoundPrograms).                   *)
(*                                                                         *)
(* The first part says what each function of the scheduler and of the      *)
(* threads does to kernel memory, the order on the queues left aside.      *)
(* Is(m, q, s, d, c, p, a, mp): m is a kernel memory whose queues are      *)
(* linked and hold the sets q, whose threads have the states s, deadlines  *)
(* d, counts c and parents p, with the threads a allocated and mp in the   *)
(* map.  The lemmas execute the functions on these eight values.  The      *)
(* second part is the inductive invariant.                                 *)
(***************************************************************************)
EXTENDS SchedulerProps, FiniteSetTheorems, TLAPS

QL == INSTANCE QueueLists WITH Elem <- Thread, QHead <- Heads, Link <- Links

\* The link that a queue is made of.
LinkOf ==
  [h \in Heads |-> IF h[1] \in {"runnable_queue", "done_queue"} THEN "runnable_link"
                   ELSE IF h[1] \in {"sleep_queue", "self_wait_list"} THEN "wait_link"
                   ELSE "child_link"]

RunLink   == {RunQ, DoneQ}
WaitLink  == {SleepQ} \cup {SelfWait(t) : t \in Thread}
ChildLink == {Children(t) : t \in Thread} \cup {Zombies(t) : t \in Thread}

\* The queues of each link, and that they are all different.
LEMMA HeadsAre ==
  /\ RunQ \in Heads /\ DoneQ \in Heads /\ SleepQ \in Heads
  /\ LinkOf[RunQ] = "runnable_link" /\ LinkOf[DoneQ] = "runnable_link"
  /\ LinkOf[SleepQ] = "wait_link"
  /\ RunQ # DoneQ /\ RunQ # SleepQ /\ DoneQ # SleepQ
  /\ \A t \in Thread :
       /\ SelfWait(t) \in Heads /\ Children(t) \in Heads /\ Zombies(t) \in Heads
       /\ LinkOf[SelfWait(t)] = "wait_link"
       /\ LinkOf[Children(t)] = "child_link" /\ LinkOf[Zombies(t)] = "child_link"
       /\ SelfWait(t) \notin {RunQ, DoneQ, SleepQ}
       /\ Children(t) \notin {RunQ, DoneQ, SleepQ}
       /\ Zombies(t) \notin {RunQ, DoneQ, SleepQ}
  /\ \A t, u \in Thread :
       /\ SelfWait(t) # Children(u) /\ SelfWait(t) # Zombies(u) /\ Children(t) # Zombies(u)
       /\ t # u => SelfWait(t) # SelfWait(u) /\ Children(t) # Children(u) /\ Zombies(t) # Zombies(u)
  /\ LinkOf \in [Heads -> Links]
BY DEF Heads, RunQ, DoneQ, SleepQ, SelfWait, Children, Zombies, LinkOf, Links

\* Every queue is one of these.
LEMMA HeadIs ==
  ASSUME NEW h \in Heads
  PROVE  \/ h \in {RunQ, DoneQ} /\ LinkOf[h] = "runnable_link"
         \/ h = SleepQ
         \/ \E t \in Thread : h = SelfWait(t) \/ h = Children(t) \/ h = Zombies(t)
BY HeadsAre DEF Heads

\* The assumptions of the queues' lemmas, for threads.
LEMMA QueueAssumptions == QL!NullAssumption /\ QL!FiniteAssumption
BY ThreadAssumption DEF QL!NullAssumption, QL!FiniteAssumption, QL!IsFiniteSet, IsFiniteSet

\* The macros and the walk are those of the lemmas.
LEMMA SameMacros ==
  ASSUME NEW m, NEW h, NEW e, NEW l
  PROVE  /\ Q_INSERT_FRONT(m, h, e, l) = QL!Q_INSERT_FRONT(m, h, e, l)
         /\ Q_INSERT_TAIL(m, h, e, l) = QL!Q_INSERT_TAIL(m, h, e, l)
         /\ Q_REMOVE(m, h, e, l) = QL!Q_REMOVE(m, h, e, l)
         /\ Q_GET_FRONT(m, h) = QL!Q_GET_FRONT(m, h)
BY DEF Q_INSERT_FRONT, QL!Q_INSERT_FRONT, Q_INSERT_TAIL, QL!Q_INSERT_TAIL, Q_REMOVE,
       QL!Q_REMOVE, Q_GET_FRONT, QL!Q_GET_FRONT, Store, QL!Store

\* The walk of VariableQueue is that of the lemmas.
LEMMA SameWalk ==
  ASSUME NEW m, NEW h, NEW l
  PROVE  /\ Q_FOREACH(m, h, l) = QL!Q_FOREACH(m, h, l)
         /\ Members(m, h, l) = QL!Members(m, h, l)
<1>1. Q_FOREACH(m, h, l) = QL!Q_FOREACH(m, h, l)
  BY DEF Q_FOREACH, QL!Q_FOREACH, Cardinality, QL!Cardinality, IsFiniteSet, QL!IsFiniteSet
<1> QED
  BY <1>1 DEF Members, QL!Members

-----------------------------------------------------------------------------
Typed(s, d, c, p, a, mp) ==
  /\ s \in [Thread -> States] /\ d \in [Thread -> Nat] /\ c \in [Thread -> Int]
  /\ p \in [Thread -> Ptr] /\ a \in SUBSET Thread /\ mp \in SUBSET Thread

\* The memory with these fields.
Fields10(f, l, n, v, s, d, c, p, a, mp) ==
  [first |-> f, last |-> l, next |-> n, prev |-> v, state |-> s, deadline |-> d,
   count |-> c, parent |-> p, alloc |-> a, map |-> mp]

Is(m, q, s, d, c, p, a, mp) ==
  /\ m = Fields10(m.first, m.last, m.next, m.prev, s, d, c, p, a, mp)
  /\ Typed(s, d, c, p, a, mp)
  /\ QL!Linked(m, LinkOf, q)

\* What the fields of a memory are.
LEMMA IsFields ==
  ASSUME NEW m, NEW q, NEW s, NEW d, NEW c, NEW p, NEW a, NEW mp, Is(m, q, s, d, c, p, a, mp)
  PROVE  /\ m.state = s /\ m.deadline = d /\ m.count = c /\ m.parent = p
         /\ m.alloc = a /\ m.map = mp
         /\ Typed(s, d, c, p, a, mp) /\ q \in [Heads -> SUBSET Thread]
         /\ DOMAIN m = {"first", "last", "next", "prev", "state", "deadline", "count",
                        "parent", "alloc", "map"}
         /\ m = Fields10(m.first, m.last, m.next, m.prev, s, d, c, p, a, mp)
<1>1. q \in [Heads -> SUBSET Thread]
  BY DEF Is, QL!Linked
<1>2. m = Fields10(m.first, m.last, m.next, m.prev, s, d, c, p, a, mp)
  BY DEF Is
<1> QED
  BY <1>1, <1>2 DEF Is, Fields10

\* A memory that differs only in other fields than heads and links.
LEMMA IsStored ==
  ASSUME NEW m, NEW q, NEW s, NEW d, NEW c, NEW p, NEW a, NEW mp, Is(m, q, s, d, c, p, a, mp),
         NEW s2, NEW d2, NEW c2, NEW p2, NEW a2, NEW mp2, Typed(s2, d2, c2, p2, a2, mp2),
         NEW n, n = Fields10(m.first, m.last, m.next, m.prev, s2, d2, c2, p2, a2, mp2)
  PROVE  Is(n, q, s2, d2, c2, p2, a2, mp2)
<1>1. /\ n.first = m.first /\ n.last = m.last /\ n.next = m.next /\ n.prev = m.prev
      /\ DOMAIN n = {"first", "last", "next", "prev", "state", "deadline", "count",
                     "parent", "alloc", "map"}
      /\ n = [x \in DOMAIN n |-> n[x]]
  BY DEF Fields10
<1>2. QL!Linked(m, LinkOf, q)
  BY DEF Is
<1>3. QL!IsMemory(n)
  BY <1>1, <1>2 DEF QL!Linked, QL!IsMemory, QL!Fields
<1>4. \A h, l, t : QL!IsList(m, h, l, t) => QL!IsList(n, h, l, t)
  BY <1>1 DEF QL!IsList
<1>5. \A h \in Heads : QL!IsSet(n, h, LinkOf[h], q[h])
  BY <1>2, <1>4 DEF QL!Linked, QL!IsSet
<1>6. QL!Linked(n, LinkOf, q)
  BY <1>2, <1>3, <1>5 DEF QL!Linked
<1> QED
  BY <1>1, <1>6 DEF Is

\* A macro on queue h leaves the other fields alone.
LEMMA IsLinked ==
  ASSUME NEW m, NEW q, NEW s, NEW d, NEW c, NEW p, NEW a, NEW mp, Is(m, q, s, d, c, p, a, mp),
         NEW n, NEW r, QL!Linked(n, LinkOf, r), QL!SameRest(m, n)
  PROVE  Is(n, r, s, d, c, p, a, mp)
<1>1. /\ m.state = s /\ m.deadline = d /\ m.count = c /\ m.parent = p
      /\ m.alloc = a /\ m.map = mp /\ Typed(s, d, c, p, a, mp)
      /\ DOMAIN m = {"first", "last", "next", "prev", "state", "deadline", "count",
                     "parent", "alloc", "map"}
  BY IsFields
<1>2. /\ n.state = s /\ n.deadline = d /\ n.count = c /\ n.parent = p
      /\ n.alloc = a /\ n.map = mp /\ DOMAIN n = DOMAIN m
  BY <1>1 DEF QL!SameRest, QL!Fields
<1>3. n = [x \in DOMAIN n |-> n[x]]
  BY DEF QL!Linked, QL!IsMemory
<1>4. n = Fields10(n.first, n.last, n.next, n.prev, s, d, c, p, a, mp)
  BY <1>1, <1>2, <1>3 DEF Fields10
<1> QED
  BY <1>1, <1>4 DEF Is

-----------------------------------------------------------------------------
\* The macros.
LEMMA IsRemoved ==
  ASSUME NEW m, NEW q, NEW s, NEW d, NEW c, NEW p, NEW a, NEW mp, Is(m, q, s, d, c, p, a, mp),
         NEW h \in Heads, NEW t \in q[h], NEW l, l = LinkOf[h], NEW n, n = Q_REMOVE(m, h, t, l)
  PROVE  Is(n, [q EXCEPT ![h] = q[h] \ {t}], s, d, c, p, a, mp)
<1>1. QL!Linked(m, LinkOf, q)
  BY DEF Is
<1>2. n = QL!Q_REMOVE(m, h, t, LinkOf[h])
  BY SameMacros
<1>3. QL!Linked(n, LinkOf, [q EXCEPT ![h] = q[h] \ {t}]) /\ QL!SameRest(m, n)
  BY <1>1, <1>2, QueueAssumptions, QL!SetRemove
<1> QED
  BY <1>3, IsLinked

Free(q, h, t) == \A g \in Heads : LinkOf[g] = LinkOf[h] => t \notin q[g]

\* Either insertion macro adds a thread that is on no queue of the link.
LEMMA IsInserted ==
  ASSUME NEW m, NEW q, NEW s, NEW d, NEW c, NEW p, NEW a, NEW mp, Is(m, q, s, d, c, p, a, mp),
         NEW h \in Heads, NEW t \in Thread, Free(q, h, t), NEW l, l = LinkOf[h],
         NEW n, n = Q_INSERT_FRONT(m, h, t, l) \/ n = Q_INSERT_TAIL(m, h, t, l)
  PROVE  Is(n, [q EXCEPT ![h] = q[h] \cup {t}], s, d, c, p, a, mp)
<1>1. QL!Linked(m, LinkOf, q)
  BY DEF Is
<1>2. n = QL!Q_INSERT_FRONT(m, h, t, LinkOf[h]) \/ n = QL!Q_INSERT_TAIL(m, h, t, LinkOf[h])
  BY SameMacros
<1>3. QL!Unlinked(LinkOf, q, h, t)
  BY DEF Free, QL!Unlinked
<1>4. QL!Linked(n, LinkOf, [q EXCEPT ![h] = q[h] \cup {t}]) /\ QL!SameRest(m, n)
  BY <1>1, <1>2, <1>3, QueueAssumptions, QL!SetInsert
<1> QED
  BY <1>4, IsLinked

\* An element of one queue is on no other of the link.
LEMMA OnlyThere ==
  ASSUME NEW m, NEW q, NEW s, NEW d, NEW c, NEW p, NEW a, NEW mp, Is(m, q, s, d, c, p, a, mp),
         NEW h \in Heads, NEW t \in q[h], NEW g \in Heads, g # h, LinkOf[g] = LinkOf[h]
  PROVE  t \notin q[g]
<1>1. QL!Apart(LinkOf, q)
  BY DEF Is, QL!Linked
<1> QED
  BY <1>1 DEF QL!Apart

\* From q to r the element t has moved from queue h to queue g.
MovedTo(q, r, h, g, t) ==
  /\ r \in [Heads -> SUBSET Thread]
  /\ \A j \in Heads : r[j] = IF j = g THEN q[j] \cup {t} ELSE IF j = h THEN q[j] \ {t} ELSE q[j]

\* Move takes a thread from one queue to another, or to the end of its own.
LEMMA IsMoved ==
  ASSUME NEW m, NEW q, NEW s, NEW d, NEW c, NEW p, NEW a, NEW mp, Is(m, q, s, d, c, p, a, mp),
         NEW h \in Heads, NEW g \in Heads, LinkOf[g] = LinkOf[h], NEW t \in q[h],
         NEW l, l = LinkOf[h], NEW n, n = Move(m, h, g, t, l), NEW r, MovedTo(q, r, h, g, t)
  PROVE  Is(n, r, s, d, c, p, a, mp)
<1> DEFINE o == Q_REMOVE(m, h, t, l)
           u == [q EXCEPT ![h] = q[h] \ {t}]
           v == [u EXCEPT ![g] = u[g] \cup {t}]
<1>1. q \in [Heads -> SUBSET Thread] /\ t \in Thread
  BY IsFields
<1>2. Is(o, u, s, d, c, p, a, mp)
  BY IsRemoved
<1>3. u \in [Heads -> SUBSET Thread] /\ u[h] = q[h] \ {t} /\ \A j \in Heads \ {h} : u[j] = q[j]
  BY <1>1
<1>4. Free(u, g, t)
  BY <1>3, OnlyThere DEF Free
<1>5. n = Q_INSERT_TAIL(o, g, t, l)
  BY DEF Move
<1> HIDE DEF o, u
<1>6. Is(n, v, s, d, c, p, a, mp)
  BY <1>1, <1>2, <1>4, <1>5, IsInserted
<1>7. v = r
  BY <1>1, <1>3 DEF MovedTo
<1> QED
  BY <1>6, <1>7

\* Q_GET_FRONT returns a thread of the queue, or NULL when it is empty.
LEMMA IsFront ==
  ASSUME NEW m, NEW q, NEW s, NEW d, NEW c, NEW p, NEW a, NEW mp, Is(m, q, s, d, c, p, a, mp),
         NEW h \in Heads
  PROVE  IF q[h] = {} THEN Q_GET_FRONT(m, h) = NULL
         ELSE Q_GET_FRONT(m, h) \in q[h] /\ Q_GET_FRONT(m, h) # NULL
<1>1. QL!Linked(m, LinkOf, q)
  BY DEF Is
<1>2. IF q[h] = {} THEN QL!Q_GET_FRONT(m, h) = NULL
      ELSE QL!Q_GET_FRONT(m, h) \in q[h] /\ QL!Q_GET_FRONT(m, h) # NULL
  BY <1>1, QueueAssumptions, QL!SetFront
<1> QED
  BY <1>2, SameMacros

\* The walk over a queue visits each of its threads once.
Visits(w, E) ==
  /\ Len(w) \in Nat /\ DOMAIN w = 1 .. Len(w)
  /\ \A i \in 1 .. Len(w) : w[i] \in E
  /\ \A e \in E : \E i \in 1 .. Len(w) : w[i] = e
  /\ \A i, j \in 1 .. Len(w) : w[i] = w[j] => i = j

\* Q_FOREACH visits the set of the queue.
LEMMA IsWalk ==
  ASSUME NEW m, NEW q, NEW s, NEW d, NEW c, NEW p, NEW a, NEW mp, Is(m, q, s, d, c, p, a, mp),
         NEW h \in Heads, NEW l, l = LinkOf[h]
  PROVE  Visits(Q_FOREACH(m, h, l), q[h]) /\ Members(m, h, l) = q[h]
<1> DEFINE w == QL!Q_FOREACH(m, h, LinkOf[h])
<1>1. QL!Linked(m, LinkOf, q)
  BY DEF Is
<1>2. /\ w \in Seq(Thread) /\ Len(w) \in Nat /\ QL!Distinct(w)
      /\ \A i \in 1 .. Len(w) : w[i] \in q[h]
      /\ \A e \in q[h] : QL!Holds(w, e)
      /\ QL!Members(m, h, LinkOf[h]) = q[h]
  <2> HIDE DEF w
  <2>1. w = QL!Q_FOREACH(m, h, LinkOf[h])
    BY DEF w
  <2> QED
    BY <1>1, <2>1, QueueAssumptions, QL!SetForeach
<1>3. Visits(w, q[h])
  <2> HIDE DEF w
  <2> QED
    BY <1>2 DEF Visits, QL!Distinct, QL!Holds
<1> QED
  BY <1>2, <1>3, SameWalk

-----------------------------------------------------------------------------
\* The stores to the fields of a thread.
LEMMA IsState ==
  ASSUME NEW m, NEW q, NEW s, NEW d, NEW c, NEW p, NEW a, NEW mp, Is(m, q, s, d, c, p, a, mp),
         NEW t \in Thread, NEW x \in States
  PROVE  Is([m EXCEPT !.state[t] = x], q, [s EXCEPT ![t] = x], d, c, p, a, mp)
<1>1. [m EXCEPT !.state[t] = x]
        = Fields10(m.first, m.last, m.next, m.prev, [s EXCEPT ![t] = x], d, c, p, a, mp)
  BY IsFields DEF Fields10
<1>2. Typed([s EXCEPT ![t] = x], d, c, p, a, mp)
  BY IsFields DEF Typed
<1> QED
  BY <1>1, <1>2, IsStored

\* thread_get counts one reference more.
LEMMA IsGet ==
  ASSUME NEW m, NEW q, NEW s, NEW d, NEW c, NEW p, NEW a, NEW mp, Is(m, q, s, d, c, p, a, mp),
         NEW t \in Thread
  PROVE  Is(thread_get(m, t), q, s, d, [c EXCEPT ![t] = c[t] + 1], p, a, mp)
<1>1. thread_get(m, t)
        = Fields10(m.first, m.last, m.next, m.prev, s, d, [c EXCEPT ![t] = c[t] + 1], p, a, mp)
  BY IsFields DEF Fields10, thread_get
<1>2. Typed(s, d, [c EXCEPT ![t] = c[t] + 1], p, a, mp)
  BY IsFields DEF Typed
<1> QED
  BY <1>1, <1>2, IsStored

\* A store to the hash map.
LEMMA IsMapped ==
  ASSUME NEW m, NEW q, NEW s, NEW d, NEW c, NEW p, NEW a, NEW mp, Is(m, q, s, d, c, p, a, mp),
         NEW r \in SUBSET Thread
  PROVE  Is([m EXCEPT !.map = r], q, s, d, c, p, a, r)
<1>1. [m EXCEPT !.map = r] = Fields10(m.first, m.last, m.next, m.prev, s, d, c, p, a, r)
  BY IsFields DEF Fields10
<1>2. Typed(s, d, c, p, a, r)
  BY IsFields DEF Typed
<1> QED
  BY <1>1, <1>2, IsStored

\* The stores of sched_wait_on to a thread's deadline and state.
LEMMA IsWaiting ==
  ASSUME NEW m, NEW q, NEW s, NEW d, NEW c, NEW p, NEW a, NEW mp, Is(m, q, s, d, c, p, a, mp),
         NEW t \in Thread, NEW x \in States, NEW y \in Nat
  PROVE  Is([m EXCEPT !.deadline[t] = y, !.state[t] = x],
            q, [s EXCEPT ![t] = x], [d EXCEPT ![t] = y], c, p, a, mp)
<1> DEFINE e == [d EXCEPT ![t] = y]
           u == [s EXCEPT ![t] = x]
<1>1. Typed(u, e, c, p, a, mp)
  BY IsFields DEF Typed
<1>2. m.deadline = d /\ m.state = s
  BY IsFields
<1>3. [m EXCEPT !.deadline[t] = y, !.state[t] = x] = [[m EXCEPT !.deadline = e] EXCEPT !.state = u]
  BY <1>2
<1> HIDE DEF e, u
<1>4. PICK f, l, n, v : m = Fields10(f, l, n, v, s, d, c, p, a, mp)
  BY IsFields
<1> DEFINE g == [m EXCEPT !.deadline = e]
<1>5. g = Fields10(f, l, n, v, s, e, c, p, a, mp)
  BY <1>4 DEF Fields10
<1> HIDE DEF g
<1>6. [g EXCEPT !.state = u] = Fields10(f, l, n, v, u, e, c, p, a, mp)
  BY <1>5 DEF Fields10
<1>7. f = m.first /\ l = m.last /\ n = m.next /\ v = m.prev
  BY <1>4 DEF Fields10
<1> QED
  BY <1>1, <1>3, <1>6, <1>7, IsStored DEF e, u, g

\* kernel_tick brings every pending deadline closer.
LEMMA IsTicked ==
  ASSUME NEW m, NEW q, NEW s, NEW d, NEW c, NEW p, NEW a, NEW mp, Is(m, q, s, d, c, p, a, mp),
         NEW e, e = [t \in Thread |-> IF d[t] > 0 THEN d[t] - 1 ELSE 0]
  PROVE  Is(Ticked(m), q, s, e, c, p, a, mp)
<1>1. Ticked(m) = Fields10(m.first, m.last, m.next, m.prev, s, e, c, p, a, mp)
  BY IsFields DEF Fields10, Ticked
<1>2. Typed(s, e, c, p, a, mp)
  BY IsFields DEF Typed
<1> QED
  BY <1>1, <1>2, IsStored

-----------------------------------------------------------------------------
(* thread_put *)

\* f[n] is the n-th ancestor of t, n up to z.
Ancestors(f, z, m, t) ==
  f = [n \in 0..z |-> IF n = 0 THEN t ELSE IF f[n-1] = NULL THEN NULL ELSE m.parent[f[n-1]]]

\* The recursion of FreedBy has a value.
LEMMA AncestorsExist ==
  ASSUME NEW m, NEW t, NEW z \in Nat
  PROVE  \E f : Ancestors(f, z, m, t)
<1> DEFINE S == {j \in Nat : \E f : Ancestors(f, j, m, t)}
<1>1. 0 \in S
  <2> DEFINE f == [n \in 0..0 |-> t]
  <2>1. Ancestors(f, 0, m, t)
    BY DEF Ancestors
  <2> HIDE DEF f
  <2> QED
    BY <2>1
<1>2. ASSUME NEW j \in Nat, j \in S
      PROVE  j + 1 \in S
  <2>1. PICK f : Ancestors(f, j, m, t)
    BY <1>2
  <2> DEFINE x == IF f[j] = NULL THEN NULL ELSE m.parent[f[j]]
             g == [n \in 0..(j+1) |-> IF n = j + 1 THEN x ELSE f[n]]
  <2>2. \A n \in 0..j : f[n] = IF n = 0 THEN t ELSE IF f[n-1] = NULL THEN NULL ELSE m.parent[f[n-1]]
    BY <2>1 DEF Ancestors
  <2>3. g[j+1] = x /\ \A n \in 0..j : g[n] = f[n]
    BY <1>2
  <2>4. ASSUME NEW n \in 0..(j+1)
        PROVE  g[n] = IF n = 0 THEN t ELSE IF g[n-1] = NULL THEN NULL ELSE m.parent[g[n-1]]
    <3>1. CASE n = j + 1
      <4>1. n # 0 /\ n - 1 = j /\ j \in 0..j
        BY <1>2, <3>1
      <4>2. g[n] = x /\ g[n-1] = f[j]
        BY <2>3, <3>1, <4>1
      <4> HIDE DEF g
      <4> QED
        BY <4>1, <4>2
    <3>2. CASE n # j + 1
      <4>1. n \in 0..j /\ (n # 0 => n - 1 \in 0..j)
        BY <1>2, <3>2
      <4> HIDE DEF g
      <4> QED
        BY <2>2, <2>3, <4>1
    <3> QED
      BY <3>1, <3>2
  <2>5. g = [n \in 0..(j+1) |-> g[n]]
    OBVIOUS
  <2> HIDE DEF g
  <2>6. Ancestors(g, j + 1, m, t)
    BY <2>4, <2>5 DEF Ancestors
  <2> QED
    BY <1>2, <2>6
<1> HIDE DEF S
<1>3. \A j \in Nat : j \in S
  BY <1>1, <1>2, QueueAssumptions, QL!AllNumbers
<1>4. z \in S
  BY <1>3
<1> QED
  BY <1>4 DEF S

\* A thread that is not freed, and one that is freed without its parent.
LEMMA FreedByIs ==
  ASSUME NEW m, NEW t \in Thread
  PROVE  /\ m.count[t] # 1 => FreedBy(m, t) = {}
         /\ m.count[t] = 1 /\ m.parent[t] \in Thread /\ m.count[m.parent[t]] # 1
              => FreedBy(m, t) = {t}
<1> DEFINE N == Cardinality(Thread)
           up == CHOOSE f : Ancestors(f, N, m, t)
           freed(n) == \A i \in 0..n : up[i] # NULL /\ m.count[up[i]] = 1
<1>1. N \in Nat /\ N >= 1
  <2>1. N \in Nat
    BY FS_CardinalityType, ThreadAssumption
  <2>2. N # 0
    BY FS_EmptySet, ThreadAssumption
  <2> HIDE DEF N
  <2> QED
    BY <2>1, <2>2
<1>2. FreedBy(m, t) = {up[n] : n \in {n \in 0..N : freed(n)}}
  BY DEF FreedBy, Ancestors
<1> HIDE DEF N
<1>3. Ancestors(up, N, m, t)
  BY <1>1, AncestorsExist
<1> HIDE DEF up
<1>4. t # NULL /\ up[0] = t /\ up[1] = m.parent[t]
  <2>1. \A n \in 0..N : up[n] = IF n = 0 THEN t
                                ELSE IF up[n-1] = NULL THEN NULL ELSE m.parent[up[n-1]]
    BY <1>3 DEF Ancestors
  <2>2. 0 \in 0..N /\ 1 \in 0..N /\ 1 - 1 = 0
    BY <1>1
  <2> QED
    BY <2>1, <2>2, ThreadAssumption
<1>5. ASSUME m.count[t] # 1
      PROVE  FreedBy(m, t) = {}
  <2>1. \A n \in 0..N : ~freed(n)
    BY <1>1, <1>4, <1>5
  <2> HIDE DEF freed
  <2> QED
    BY <1>2, <2>1
<1>6. ASSUME m.count[t] = 1, m.parent[t] \in Thread, m.count[m.parent[t]] # 1
      PROVE  FreedBy(m, t) = {t}
  <2>1. freed(0) /\ 0 \in 0..N
    BY <1>1, <1>4, <1>6
  <2>2. \A n \in 0..N : freed(n) => n = 0
    BY <1>1, <1>4, <1>6
  <2> HIDE DEF freed
  <2> QED
    BY <1>2, <1>4, <2>1, <2>2
<1> QED
  BY <1>5, <1>6

\* What thread_put stores.
LEMMA IsFourStored ==
  ASSUME NEW m, NEW q, NEW s, NEW d, NEW c, NEW p, NEW a, NEW mp, Is(m, q, s, d, c, p, a, mp),
         NEW e, NEW u, NEW w, NEW b, Typed(u, d, e, w, b, mp)
  PROVE  Is([m EXCEPT !.count = e, !.state = u, !.parent = w, !.alloc = b], q, u, d, e, w, b, mp)
<1>1. PICK f, l, n, v : m = Fields10(f, l, n, v, s, d, c, p, a, mp)
  BY IsFields
<1>2. f = m.first /\ l = m.last /\ n = m.next /\ v = m.prev
  BY <1>1 DEF Fields10
<1> DEFINE m1 == [m EXCEPT !.count = e]
           m2 == [m1 EXCEPT !.state = u]
           m3 == [m2 EXCEPT !.parent = w]
           m4 == [m3 EXCEPT !.alloc = b]
<1>3. m1 = Fields10(f, l, n, v, s, d, e, p, a, mp)
  BY <1>1 DEF Fields10
<1>4. m2 = Fields10(f, l, n, v, u, d, e, p, a, mp)
  <2> HIDE DEF m1
  <2> QED
    BY <1>3 DEF Fields10
<1>5. m3 = Fields10(f, l, n, v, u, d, e, w, a, mp)
  <2> HIDE DEF m2
  <2> QED
    BY <1>4 DEF Fields10
<1>6. m4 = Fields10(f, l, n, v, u, d, e, w, b, mp)
  <2> HIDE DEF m3
  <2> QED
    BY <1>5 DEF Fields10
<1>7. [m EXCEPT !.count = e, !.state = u, !.parent = w, !.alloc = b] = m4
  OBVIOUS
<1> HIDE DEF m1, m2, m3, m4
<1> QED
  BY <1>2, <1>6, <1>7, IsStored

\* A reference is put that is not the last.
LEMMA IsPut ==
  ASSUME NEW m, NEW q, NEW s, NEW d, NEW c, NEW p, NEW a, NEW mp, Is(m, q, s, d, c, p, a, mp),
         NEW t \in Thread, c[t] # 1
  PROVE  Is(thread_put(m, t), q, s, d, [c EXCEPT ![t] = c[t] - 1], p, a, mp)
<1> DEFINE e == [c EXCEPT ![t] = c[t] - 1]
<1>1. /\ FreedBy(m, t) = {} /\ Typed(s, d, e, p, a, mp)
      /\ m.count = c /\ m.state = s /\ m.parent = p /\ m.alloc = a
  BY FreedByIs, IsFields DEF Typed
<1>2. /\ [v \in Thread |-> IF v \in {t} \cup {p[u] : u \in {}} THEN c[v] - 1 ELSE c[v]] = e
      /\ [v \in Thread |-> IF v \in {} THEN "FREE" ELSE s[v]] = s
      /\ [v \in Thread |-> IF v \in {} THEN NULL ELSE p[v]] = p
      /\ a \ {} = a
  BY IsFields DEF Typed
<1>3. thread_put(m, t) =
        [m EXCEPT !.count = [v \in Thread |-> IF v \in {t} \cup {p[u] : u \in {}}
                                              THEN c[v] - 1 ELSE c[v]],
                  !.state = [v \in Thread |-> IF v \in {} THEN "FREE" ELSE s[v]],
                  !.parent = [v \in Thread |-> IF v \in {} THEN NULL ELSE p[v]],
                  !.alloc = a \ {}]
  BY <1>1 DEF thread_put
<1> HIDE DEF e
<1>4. thread_put(m, t) = [m EXCEPT !.count = e, !.state = s, !.parent = p, !.alloc = a]
  BY <1>2, <1>3
<1>5. Is([m EXCEPT !.count = e, !.state = s, !.parent = p, !.alloc = a], q, s, d, e, p, a, mp)
  BY <1>1, IsFourStored
<1> QED
  BY <1>4, <1>5 DEF e

\* The last reference to t is put, which puts its parent.
LEMMA IsFreed ==
  ASSUME NEW m, NEW q, NEW s, NEW d, NEW c, NEW p, NEW a, NEW mp, Is(m, q, s, d, c, p, a, mp),
         NEW t \in Thread, c[t] = 1, NEW u \in Thread, p[t] = u, u # t, c[u] # 1
  PROVE  Is(thread_put(m, t), q, [s EXCEPT ![t] = "FREE"], d,
            [c EXCEPT ![t] = 0, ![u] = c[u] - 1], [p EXCEPT ![t] = NULL], a \ {t}, mp)
<1> DEFINE e == [c EXCEPT ![t] = 0, ![u] = c[u] - 1]
           x == [s EXCEPT ![t] = "FREE"]
           w == [p EXCEPT ![t] = NULL]
           b == a \ {t}
<1>1. m.count = c /\ m.state = s /\ m.parent = p /\ m.alloc = a /\ Typed(s, d, c, p, a, mp)
  BY IsFields
<1>2. FreedBy(m, t) = {t}
  BY <1>1, FreedByIs
<1>3. Typed(x, d, e, w, b, mp)
  BY <1>1 DEF Typed, States, Ptr
<1>4. /\ [v \in Thread |-> IF v \in {t} \cup {p[y] : y \in {t}} THEN c[v] - 1 ELSE c[v]] = e
      /\ [v \in Thread |-> IF v \in {t} THEN "FREE" ELSE s[v]] = x
      /\ [v \in Thread |-> IF v \in {t} THEN NULL ELSE p[v]] = w
  <2>1. {t} \cup {p[y] : y \in {t}} = {t, u}
    <3>1. \A v : v \in {p[y] : y \in {t}} <=> v = u
      OBVIOUS
    <3> QED
      BY <3>1
  <2>2. [v \in Thread |-> IF v \in {t, u} THEN c[v] - 1 ELSE c[v]] = e
    <3>1. DOMAIN e = Thread /\ e = [v \in DOMAIN e |-> e[v]]
      BY <1>1 DEF Typed
    <3>2. \A v \in Thread : e[v] = IF v \in {t, u} THEN c[v] - 1 ELSE c[v]
      BY <1>1 DEF Typed
    <3> HIDE DEF e
    <3> QED
      BY <3>1, <3>2
  <2>3. [v \in Thread |-> IF v \in {t} THEN "FREE" ELSE s[v]] = x
    BY <1>1 DEF Typed
  <2>4. [v \in Thread |-> IF v \in {t} THEN NULL ELSE p[v]] = w
    BY <1>1 DEF Typed
  <2> QED
    BY <2>1, <2>2, <2>3, <2>4
<1>5. thread_put(m, t) =
        [m EXCEPT !.count = [v \in Thread |-> IF v \in {t} \cup {p[y] : y \in {t}}
                                              THEN c[v] - 1 ELSE c[v]],
                  !.state = [v \in Thread |-> IF v \in {t} THEN "FREE" ELSE s[v]],
                  !.parent = [v \in Thread |-> IF v \in {t} THEN NULL ELSE p[v]],
                  !.alloc = b]
  BY <1>1, <1>2 DEF thread_put
<1> HIDE DEF e, x, w, b
<1>6. thread_put(m, t) = [m EXCEPT !.count = e, !.state = x, !.parent = w, !.alloc = b]
  BY <1>4, <1>5
<1>7. Is([m EXCEPT !.count = e, !.state = x, !.parent = w, !.alloc = b], q, x, d, e, w, b, mp)
  BY <1>3, IsFourStored
<1> QED
  BY <1>6, <1>7 DEF e, x, w, b

-----------------------------------------------------------------------------
(* sched_wakeup_threads *)

\* The queues and the states when the threads W of a list are woken.
Woken(q, list, W) ==
  [h \in Heads |-> IF h = list THEN q[h] \ W ELSE IF h = RunQ THEN q[h] \cup W ELSE q[h]]
Runnable(s, W) == [t \in Thread |-> IF t \in W THEN "RUNNABLE" ELSE s[t]]

\* A list of threads that wait.
WaitList(q, s, list) ==
  /\ list \in Heads /\ LinkOf[list] = "wait_link"
  /\ \A t \in q[list] : s[t] = "WAITING" /\ t \notin q[RunQ] /\ t \notin q[DoneQ]

\* One round of the loop, for a thread whose deadline has come.
LEMMA IsWokenUp ==
  ASSUME NEW m, NEW q, NEW s, NEW d, NEW c, NEW p, NEW a, NEW mp, Is(m, q, s, d, c, p, a, mp),
         NEW list \in Heads, LinkOf[list] = "wait_link", NEW t \in q[list], s[t] = "WAITING",
         t \notin q[RunQ], t \notin q[DoneQ], d[t] = 0
  PROVE  Is(WakeUp(m, list, t), Woken(q, list, {t}), Runnable(s, {t}), d, c, p, a, mp)
<1> DEFINE o == Q_REMOVE(m, list, t, "wait_link")
           r == [q EXCEPT ![list] = q[list] \ {t}]
           x == [s EXCEPT ![t] = "RUNNABLE"]
           n == [o EXCEPT !.state[t] = "RUNNABLE"]
           v == [r EXCEPT ![RunQ] = r[RunQ] \cup {t}]
<1>1. t \in Thread /\ q \in [Heads -> SUBSET Thread] /\ s \in [Thread -> States]
      /\ m.deadline = d /\ m.state = s
  BY IsFields DEF Typed
<1>2. Is(o, r, s, d, c, p, a, mp)
  BY IsRemoved
<1>3. RunQ # list /\ LinkOf[RunQ] = "runnable_link" /\ RunQ \in Heads
  BY HeadsAre
<1>4. r \in [Heads -> SUBSET Thread] /\ r[RunQ] = q[RunQ] /\ r[DoneQ] = q[DoneQ]
  BY <1>1, <1>3, HeadsAre
<1>5. \A h \in Heads : LinkOf[h] = "runnable_link" => h = RunQ \/ h = DoneQ
  BY HeadsAre DEF Heads
<1>6. Free(r, RunQ, t)
  BY <1>3, <1>4, <1>5 DEF Free
<1>7. WakeUp(m, list, t) = Q_INSERT_FRONT(n, RunQ, t, "runnable_link")
  BY <1>1 DEF WakeUp
<1>8. v = Woken(q, list, {t})
  <2>1. \A h \in Heads : r[h] = IF h = list THEN q[h] \ {t} ELSE q[h]
    BY <1>1
  <2> HIDE DEF r
  <2>2. \A h \in Heads : v[h] = IF h = RunQ THEN r[h] \cup {t} ELSE r[h]
    BY <1>4
  <2>3. v = [h \in Heads |-> v[h]]
    BY <1>4
  <2> HIDE DEF v
  <2>4. \A h \in Heads :
          v[h] = IF h = list THEN q[h] \ {t} ELSE IF h = RunQ THEN q[h] \cup {t} ELSE q[h]
    BY <1>3, <2>1, <2>2
  <2> QED
    BY <2>3, <2>4 DEF Woken
<1>9. x = Runnable(s, {t})
  BY <1>1 DEF Runnable
<1>10. "RUNNABLE" \in States
  BY DEF States
<1> HIDE DEF o, r
<1>11. Is(n, r, x, d, c, p, a, mp)
  BY <1>1, <1>2, <1>10, IsState
<1> HIDE DEF n, x
<1>12. Is(WakeUp(m, list, t), v, x, d, c, p, a, mp)
  BY <1>1, <1>3, <1>6, <1>7, <1>11, IsInserted
<1> QED
  BY <1>8, <1>9, <1>12

\* f[i] is the memory after i rounds over the walk w.
WakeRounds(f, j, m, list, w) ==
  f = [i \in 0..j |-> IF i = 0 THEN m ELSE WakeUp(f[i-1], list, w[i])]

\* The recursion of sched_wakeup_threads has a value.
LEMMA WakeRoundsExist ==
  ASSUME NEW m, NEW list, NEW w, NEW z \in Nat
  PROVE  \E f : WakeRounds(f, z, m, list, w)
<1> DEFINE S == {j \in Nat : \E f : WakeRounds(f, j, m, list, w)}
<1>1. 0 \in S
  <2> DEFINE f == [n \in 0..0 |-> m]
  <2>1. WakeRounds(f, 0, m, list, w)
    BY DEF WakeRounds
  <2> HIDE DEF f
  <2> QED
    BY <2>1
<1>2. ASSUME NEW j \in Nat, j \in S
      PROVE  j + 1 \in S
  <2>1. PICK f : WakeRounds(f, j, m, list, w)
    BY <1>2
  <2> DEFINE x == WakeUp(f[j], list, w[j+1])
             g == [n \in 0..(j+1) |-> IF n = j + 1 THEN x ELSE f[n]]
  <2>2. \A n \in 0..j : f[n] = IF n = 0 THEN m ELSE WakeUp(f[n-1], list, w[n])
    BY <2>1 DEF WakeRounds
  <2>3. g[j+1] = x /\ \A n \in 0..j : g[n] = f[n]
    BY <1>2
  <2>4. ASSUME NEW n \in 0..(j+1)
        PROVE  g[n] = IF n = 0 THEN m ELSE WakeUp(g[n-1], list, w[n])
    <3>1. CASE n = j + 1
      <4>1. n # 0 /\ n - 1 = j /\ j \in 0..j
        BY <1>2, <3>1
      <4>2. g[n] = x /\ g[n-1] = f[j]
        BY <2>3, <3>1, <4>1
      <4> HIDE DEF g
      <4> QED
        BY <3>1, <4>1, <4>2
    <3>2. CASE n # j + 1
      <4>1. n \in 0..j /\ (n # 0 => n - 1 \in 0..j)
        BY <1>2, <3>2
      <4> HIDE DEF g
      <4> QED
        BY <2>2, <2>3, <4>1
    <3> QED
      BY <3>1, <3>2
  <2>5. g = [n \in 0..(j+1) |-> g[n]]
    OBVIOUS
  <2> HIDE DEF g
  <2>6. WakeRounds(g, j + 1, m, list, w)
    BY <2>4, <2>5 DEF WakeRounds
  <2> QED
    BY <1>2, <2>6
<1> HIDE DEF S
<1>3. \A j \in Nat : j \in S
  BY <1>1, <1>2, QueueAssumptions, QL!AllNumbers
<1>4. z \in S
  BY <1>3
<1> QED
  BY <1>4 DEF S

\* Waking V, then W, is waking both.
LEMMA WokenTwice ==
  ASSUME NEW q, NEW s, NEW list \in Heads, list # RunQ, NEW V, NEW W
  PROVE  /\ Woken(Woken(q, list, V), list, W) = Woken(q, list, V \cup W)
         /\ Runnable(Runnable(s, V), W) = Runnable(s, V \cup W)
<1> DEFINE r == Woken(q, list, V)
<1>1. \A h \in Heads : r[h] = IF h = list THEN q[h] \ V
                              ELSE IF h = RunQ THEN q[h] \cup V ELSE q[h]
  BY DEF Woken
<1> HIDE DEF r
<1>2. ASSUME NEW h \in Heads
      PROVE  (IF h = list THEN r[h] \ W ELSE IF h = RunQ THEN r[h] \cup W ELSE r[h])
               = (IF h = list THEN q[h] \ (V \cup W)
                  ELSE IF h = RunQ THEN q[h] \cup (V \cup W) ELSE q[h])
  <2>1. CASE h = list
    BY <1>1, <2>1
  <2>2. CASE h # list /\ h = RunQ
    BY <1>1, <2>2
  <2>3. CASE h # list /\ h # RunQ
    BY <1>1, <2>3
  <2> QED
    BY <2>1, <2>2, <2>3
<1>3. Woken(r, list, W) = Woken(q, list, V \cup W)
  BY <1>2 DEF Woken
<1> QED
  BY <1>3 DEF Runnable, r

\* sched_wakeup_threads wakes the threads of the list whose deadline has come.
LEMMA IsWoken ==
  ASSUME NEW m, NEW q, NEW s, NEW d, NEW c, NEW p, NEW a, NEW mp, Is(m, q, s, d, c, p, a, mp),
         NEW list, WaitList(q, s, list), NEW W, W = {t \in q[list] : d[t] = 0}
  PROVE  Is(sched_wakeup_threads(m, list), Woken(q, list, W), Runnable(s, W), d, c, p, a, mp)
<1> DEFINE w == Q_FOREACH(m, list, "wait_link")
           L == Len(w)
           f == CHOOSE g : WakeRounds(g, L, m, list, w)
           V(i) == {t \in q[list] : d[t] = 0 /\ \E j \in 1..i : w[j] = t}
           Q(i) == Woken(q, list, V(i))
           R(i) == Runnable(s, V(i))
           P(i) == i \in 0..L => Is(f[i], Q(i), R(i), d, c, p, a, mp)
           S == {i \in Nat : P(i)}
<1>1. list \in Heads /\ LinkOf[list] = "wait_link" /\ RunQ # list
      /\ LinkOf[RunQ] = "runnable_link" /\ DoneQ # list /\ RunQ \in Heads /\ DoneQ \in Heads
      /\ RunQ # DoneQ
      /\ \A t \in q[list] : s[t] = "WAITING" /\ t \notin q[RunQ] /\ t \notin q[DoneQ]
  BY HeadsAre DEF WaitList
<1>2. Visits(w, q[list])
  BY <1>1, IsWalk
<1>3. q \in [Heads -> SUBSET Thread] /\ s \in [Thread -> States] /\ d \in [Thread -> Nat]
      /\ q[list] \subseteq Thread
  BY <1>1, IsFields DEF Typed
<1>4. sched_wakeup_threads(m, list) = f[L]
  BY DEF sched_wakeup_threads, WakeRounds
<1> HIDE DEF w
<1>5. /\ L \in Nat /\ \A i \in 1..L : w[i] \in q[list]
      /\ \A t \in q[list] : \E i \in 1..L : w[i] = t
      /\ \A i, j \in 1..L : w[i] = w[j] => i = j
  BY <1>2 DEF Visits
<1>6. WakeRounds(f, L, m, list, w)
  <2> HIDE DEF L
  <2> QED
    BY <1>5, WakeRoundsExist
<1> HIDE DEF f, L
<1>7. \A i \in 0..L : f[i] = IF i = 0 THEN m ELSE WakeUp(f[i-1], list, w[i])
  BY <1>6 DEF WakeRounds
<1>8. P(0)
  <2>1. V(0) = {}
    OBVIOUS
  <2>2. Woken(q, list, {}) = q /\ Runnable(s, {}) = s
    BY <1>3 DEF Woken, Runnable
  <2>3. f[0] = m
    BY <1>5, <1>7
  <2> QED
    BY <2>1, <2>2, <2>3
<1>9. ASSUME NEW i \in Nat, P(i)
      PROVE  P(i+1)
  <2>1. SUFFICES ASSUME i + 1 \in 0..L PROVE Is(f[i+1], Q(i+1), R(i+1), d, c, p, a, mp)
    OBVIOUS
  <2> DEFINE t == w[i+1]
  <2>2. i \in 0..L /\ i + 1 \in 1..L /\ i + 1 # 0 /\ (i + 1) - 1 = i
    BY <1>5, <2>1
  <2>3. Is(f[i], Q(i), R(i), d, c, p, a, mp) /\ f[i+1] = WakeUp(f[i], list, t)
    BY <1>7, <1>9, <2>1, <2>2
  <2>4. t \in q[list] /\ t \in Thread /\ t \notin V(i)
    BY <1>3, <1>5, <2>2
  <2>5. V(i+1) = IF d[t] = 0 THEN V(i) \cup {t} ELSE V(i)
    BY <1>5, <2>2, <2>4
  <2>6. V(i) \subseteq q[list]
    OBVIOUS
  <2> HIDE DEF t, V
  <2>7. CASE d[t] = 0
    <3>1. t \in Q(i)[list] /\ t \notin Q(i)[RunQ] /\ t \notin Q(i)[DoneQ] /\ R(i)[t] = "WAITING"
      BY <1>1, <2>4, <2>6 DEF Woken, Runnable
    <3>2. Q(i+1) = Woken(Q(i), list, {t}) /\ R(i+1) = Runnable(R(i), {t})
      BY <1>1, <2>5, <2>7, WokenTwice
    <3> HIDE DEF Q, R
    <3>3. Is(WakeUp(f[i], list, t), Woken(Q(i), list, {t}), Runnable(R(i), {t}), d, c, p, a, mp)
      BY <1>1, <2>3, <2>7, <3>1, IsWokenUp
    <3> QED
      BY <2>3, <3>2, <3>3
  <2>8. CASE d[t] # 0
    <3>1. f[i].deadline = d
      <4> HIDE DEF Q, R
      <4> QED
        BY <2>3, IsFields
    <3>2. d[t] > 0
      BY <1>3, <2>4, <2>8
    <3>3. f[i+1] = f[i]
      BY <2>3, <3>1, <3>2 DEF WakeUp
    <3> QED
      BY <2>3, <2>5, <2>8, <3>3
  <2> QED
    BY <2>7, <2>8
<1> HIDE DEF P
<1>10. \A i \in Nat : i \in S
  <2>1. 0 \in S
    BY <1>8
  <2>2. \A i \in Nat : i \in S => i + 1 \in S
    BY <1>9
  <2> HIDE DEF S
  <2> QED
    BY <2>1, <2>2, QueueAssumptions, QL!AllNumbers
<1>11. P(L)
  BY <1>5, <1>10
<1>12. V(L) = W
  BY <1>5
<1>13. L \in 0..L
  BY <1>5
<1> HIDE DEF V, S
<1> QED
  BY <1>4, <1>11, <1>12, <1>13 DEF P

-----------------------------------------------------------------------------
(* sched_yield *)

\* The done queue is empty: nothing is put.
LEMMA NothingPut ==
  ASSUME NEW m, NEW q, NEW s, NEW d, NEW c, NEW p, NEW a, NEW mp, Is(m, q, s, d, c, p, a, mp),
         q[DoneQ] = {}
  PROVE  PutDead(m) = m
<1> DEFINE w == Q_FOREACH(m, DoneQ, "runnable_link")
           Rounds(f, j) == f = [i \in 0..j |-> IF i = 0 THEN m
                                               ELSE sched_remove_done_thread(f[i-1], w[i])]
           f == CHOOSE g : Rounds(g, Len(w))
<1>1. PutDead(m) = f[Len(w)]
  BY DEF PutDead
<1>2. DoneQ \in Heads /\ LinkOf[DoneQ] = "runnable_link"
  BY HeadsAre
<1>3. Visits(w, {})
  BY <1>2, IsWalk
<1> HIDE DEF w
<1>4. Len(w) = 0
  BY <1>3 DEF Visits
<1>5. Rounds([i \in 0..0 |-> m], 0)
  OBVIOUS
<1>6. Rounds(f, 0)
  <2> HIDE DEF Rounds
  <2> QED
    BY <1>4, <1>5
<1>7. f[0] = m
  <2> HIDE DEF f
  <2> QED
    BY <1>6
<1> QED
  BY <1>1, <1>4, <1>7

\* The threads of the run queue can run: none is skipped.
LEMMA NothingSkipped ==
  ASSUME NEW m, NEW q, NEW s, NEW d, NEW c, NEW p, NEW a, NEW mp, Is(m, q, s, d, c, p, a, mp),
         \A t \in q[RunQ] : s[t] = "RUNNABLE"
  PROVE  Skim(m) = m
<1> DEFINE w == Q_FOREACH(m, RunQ, "runnable_link")
           dead == {i \in DOMAIN w : \A j \in 1..i : m.state[w[j]] # "RUNNABLE"}
           u == DeadAtFront(m)
           Rounds(f, j) == f = [i \in 0..j |-> IF i = 0 THEN m
                                               ELSE Move(f[i-1], RunQ, DoneQ, u[i], "runnable_link")]
           f == CHOOSE g : Rounds(g, Cardinality(DOMAIN u))
<1>1. Skim(m) = f[Cardinality(DOMAIN u)]
  BY DEF Skim
<1>2. RunQ \in Heads /\ LinkOf[RunQ] = "runnable_link" /\ m.state = s
  BY HeadsAre, IsFields
<1>3. Visits(w, q[RunQ])
  BY <1>2, IsWalk
<1>4. u = [i \in dead |-> w[i]]
  BY DEF DeadAtFront
<1> HIDE DEF w, u
<1>5. dead = {}
  <2>1. SUFFICES ASSUME NEW i \in DOMAIN w PROVE i \in 1..i /\ m.state[w[i]] = "RUNNABLE"
    OBVIOUS
  <2> QED
    BY <1>2, <1>3 DEF Visits
<1> HIDE DEF dead
<1>6. Cardinality(DOMAIN u) = 0
  <2>1. DOMAIN u = {}
    BY <1>4, <1>5
  <2> QED
    BY <2>1, FS_EmptySet
<1>7. Rounds([i \in 0..0 |-> m], 0)
  OBVIOUS
<1>8. Rounds(f, 0)
  <2> HIDE DEF Rounds
  <2> QED
    BY <1>6, <1>7
<1>9. f[0] = m
  <2> HIDE DEF f
  <2> QED
    BY <1>8
<1> QED
  BY <1>1, <1>6, <1>9

\* Whether the thread old may call sched_yield in states s with the run queue E.
MayYield(s, E, old) ==
  \/ old = IdleThread
  \/ s[old] = "RUNNABLE" /\ old \in E
  \/ s[old] \in {"WAITING", "SUSPENDED", "ZOMBIE"}

\* sched_yield's first steps change the order of the run queue only, and
\* choose a thread of it, or idle.
LEMMA IsYielded ==
  ASSUME NEW m, NEW q, NEW s, NEW d, NEW c, NEW p, NEW a, NEW mp, Is(m, q, s, d, c, p, a, mp),
         \A t \in q[RunQ] : s[t] = "RUNNABLE", NEW old, MayYield(s, q[RunQ], old),
         NEW n, n = Skim(Requeue(m, old))
  PROVE  Is(n, q, s, d, c, p, a, mp) /\ NextThread(n) \in q[RunQ] \cup {IdleThread}
<1>1. /\ q \in [Heads -> SUBSET Thread] /\ RunQ \in Heads /\ LinkOf[RunQ] = "runnable_link"
      /\ m.state = s
  BY IsFields, HeadsAre
<1> DEFINE o == Requeue(m, old)
<1>2. Is(o, q, s, d, c, p, a, mp)
  <2>1. CASE old = IdleThread \/ s[old] \in {"WAITING", "SUSPENDED", "ZOMBIE"}
    <3>1. o = m
      BY <1>1, <2>1 DEF Requeue
    <3> QED
      BY <3>1
  <2>2. CASE old # IdleThread /\ s[old] = "RUNNABLE" /\ old \in q[RunQ]
    <3>1. o = Move(m, RunQ, RunQ, old, "runnable_link")
      BY <1>1, <2>2 DEF Requeue
    <3>2. MovedTo(q, q, RunQ, RunQ, old)
      BY <1>1, <2>2 DEF MovedTo
    <3> HIDE DEF o
    <3> QED
      BY <1>1, <2>2, <3>1, <3>2, IsMoved
  <2> QED
    BY <2>1, <2>2 DEF MayYield
<1>3. n = o
  <2> HIDE DEF o
  <2>1. Skim(o) = o
    BY <1>2, NothingSkipped
  <2> QED
    BY <2>1 DEF o
<1>4. IF q[RunQ] = {} THEN Q_GET_FRONT(n, RunQ) = NULL
      ELSE Q_GET_FRONT(n, RunQ) \in q[RunQ] /\ Q_GET_FRONT(n, RunQ) # NULL
  <2> HIDE DEF o
  <2> QED
    BY <1>1, <1>2, <1>3, IsFront
<1> QED
  BY <1>2, <1>3, <1>4 DEF NextThread

-----------------------------------------------------------------------------
(* thread_copy *)

\* The thread t is on no queue, and its own lists are empty.
Unused(q, t) ==
  /\ \A h \in Heads : t \notin q[h]
  /\ q[SelfWait(t)] = {} /\ q[Children(t)] = {} /\ q[Zombies(t)] = {}

\* The links N differ from O for the thread t only, where they are NULL.
LinksCleared(N, O, t) == N = [l \in Links |-> [O[l] EXCEPT ![t] = NULL]]

\* A list on which t is not does not see that the links of t are cleared.
LEMMA IsCleared ==
  ASSUME NEW m, NEW q, NEW s, NEW d, NEW c, NEW p, NEW a, NEW mp, Is(m, q, s, d, c, p, a, mp),
         NEW s2, NEW d2, NEW c2, NEW p2, NEW a2, NEW mp2, Typed(s2, d2, c2, p2, a2, mp2),
         NEW t \in Thread, \A h \in Heads : t \notin q[h], NEW N, LinksCleared(N, m.next, t),
         NEW V, LinksCleared(V, m.prev, t),
         NEW n, n = Fields10(m.first, m.last, N, V, s2, d2, c2, p2, a2, mp2)
  PROVE  Is(n, q, s2, d2, c2, p2, a2, mp2)
<1>1. /\ n.first = m.first /\ n.last = m.last /\ n.next = N /\ n.prev = V
      /\ DOMAIN n = {"first", "last", "next", "prev", "state", "deadline", "count",
                     "parent", "alloc", "map"}
      /\ n = [x \in DOMAIN n |-> n[x]]
  BY DEF Fields10
<1>2. QL!Linked(m, LinkOf, q)
  BY DEF Is
<1>3. /\ m.first \in [Heads -> QL!Ptr] /\ m.last \in [Heads -> QL!Ptr]
      /\ m.next \in [Links -> [Thread -> QL!Ptr]] /\ m.prev \in [Links -> [Thread -> QL!Ptr]]
      /\ LinkOf \in [Heads -> Links]
  BY <1>2 DEF QL!Linked, QL!IsMemory
<1>4. N \in [Links -> [Thread -> QL!Ptr]] /\ V \in [Links -> [Thread -> QL!Ptr]]
  <2>1. ASSUME NEW O \in [Links -> [Thread -> QL!Ptr]], NEW l \in Links
        PROVE  [O[l] EXCEPT ![t] = NULL] \in [Thread -> QL!Ptr]
    BY <2>1 DEF QL!Ptr
  <2> QED
    BY <1>3, <2>1 DEF LinksCleared
<1>5. \A l \in Links : \A e \in Thread \ {t} : N[l][e] = m.next[l][e] /\ V[l][e] = m.prev[l][e]
  BY <1>3 DEF LinksCleared
<1>6. QL!IsMemory(n)
  BY <1>1, <1>3, <1>4 DEF QL!IsMemory, QL!Fields
<1>7. ASSUME NEW h \in Heads, NEW w, QL!IsList(m, h, LinkOf[h], w), ~QL!Holds(w, t)
      PROVE  QL!IsList(n, h, LinkOf[h], w)
  <2>1. /\ w \in Seq(Thread) /\ QL!Distinct(w)
        /\ m.first[h] = IF Len(w) = 0 THEN NULL ELSE w[1]
        /\ m.last[h] = IF Len(w) = 0 THEN NULL ELSE w[Len(w)]
        /\ \A i \in 1 .. Len(w) :
             /\ m.next[LinkOf[h]][w[i]] = IF i = Len(w) THEN NULL ELSE w[i+1]
             /\ m.prev[LinkOf[h]][w[i]] = IF i = 1 THEN NULL ELSE w[i-1]
    BY <1>7 DEF QL!IsList, QL!Chain
  <2>2. \A i \in 1 .. Len(w) : w[i] \in Thread \ {t}
    BY <1>7, <2>1 DEF QL!Holds
  <2>3. LinkOf[h] \in Links
    BY <1>3
  <2>4. \A i \in 1 .. Len(w) : N[LinkOf[h]][w[i]] = m.next[LinkOf[h]][w[i]]
                               /\ V[LinkOf[h]][w[i]] = m.prev[LinkOf[h]][w[i]]
    BY <1>5, <2>2, <2>3
  <2> QED
    BY <1>1, <2>1, <2>4 DEF QL!IsList, QL!Chain
<1>8. ASSUME NEW h \in Heads
      PROVE  QL!IsSet(n, h, LinkOf[h], q[h])
  <2>1. QL!IsSet(m, h, LinkOf[h], q[h])
    BY <1>2 DEF QL!Linked
  <2>2. PICK w : QL!IsList(m, h, LinkOf[h], w) /\ \A e \in Thread : e \in q[h] <=> QL!Holds(w, e)
    BY <2>1 DEF QL!IsSet
  <2>3. QL!IsList(n, h, LinkOf[h], w)
    BY <1>7, <2>2
  <2> QED
    BY <2>2, <2>3 DEF QL!IsSet
<1>9. QL!Linked(n, LinkOf, q)
  BY <1>2, <1>6, <1>8 DEF QL!Linked
<1> QED
  BY <1>1, <1>9 DEF Is

\* An empty queue has no ends.
LEMMA EmptyEnds ==
  ASSUME NEW m, NEW q, NEW s, NEW d, NEW c, NEW p, NEW a, NEW mp, Is(m, q, s, d, c, p, a, mp),
         NEW h \in Heads, q[h] = {}
  PROVE  m.first[h] = NULL /\ m.last[h] = NULL
<1>1. QL!IsSet(m, h, LinkOf[h], {})
  BY DEF Is, QL!Linked
<1>2. PICK w : QL!IsList(m, h, LinkOf[h], w) /\ \A e \in Thread : ~QL!Holds(w, e)
  BY <1>1 DEF QL!IsSet
<1>3. /\ w \in Seq(Thread)
      /\ m.first[h] = IF Len(w) = 0 THEN NULL ELSE w[1]
      /\ m.last[h] = IF Len(w) = 0 THEN NULL ELSE w[Len(w)]
  BY <1>2 DEF QL!IsList, QL!Chain
<1>4. Len(w) = 0
  <2>1. Len(w) \in Nat /\ w \in [1..Len(w) -> Thread]
    BY <1>3
  <2>2. SUFFICES ASSUME Len(w) # 0 PROVE FALSE
    OBVIOUS
  <2>3. 1 \in 1..Len(w) /\ w[1] \in Thread
    BY <2>1, <2>2
  <2> QED
    BY <1>2, <2>3 DEF QL!Holds
<1> QED
  BY <1>3, <1>4

\* The own lists of t, already empty, are initialised.
LEMMA OwnHeadsEmpty ==
  ASSUME NEW m, NEW q, NEW s, NEW d, NEW c, NEW p, NEW a, NEW mp, Is(m, q, s, d, c, p, a, mp),
         NEW t \in Thread, Unused(q, t), NEW own, own = {SelfWait(t), Children(t), Zombies(t)}
  PROVE  /\ [h \in Heads |-> IF h \in own THEN NULL ELSE m.first[h]] = m.first
         /\ [h \in Heads |-> IF h \in own THEN NULL ELSE m.last[h]] = m.last
<1>1. \A h \in own : h \in Heads /\ q[h] = {}
  BY HeadsAre DEF Unused
<1>2. \A h \in own : m.first[h] = NULL /\ m.last[h] = NULL
  BY <1>1, EmptyEnds
<1>3. m.first \in [Heads -> QL!Ptr] /\ m.last \in [Heads -> QL!Ptr]
  BY DEF Is, QL!Linked, QL!IsMemory
<1> QED
  BY <1>2, <1>3

\* The stores to all fields but the map.
NineStored(m, F, L, N, V, S, D, C, P, A) ==
  [m EXCEPT !.first = F, !.last = L, !.next = N, !.prev = V, !.state = S,
            !.deadline = D, !.count = C, !.parent = P, !.alloc = A]

\* A record with nine fields stored is the record of the ten values.
LEMMA NineStores ==
  ASSUME NEW m, NEW f, NEW l, NEW n, NEW v, NEW s, NEW d, NEW c, NEW p, NEW a, NEW mp,
         m = Fields10(f, l, n, v, s, d, c, p, a, mp),
         NEW F, NEW L, NEW N, NEW V, NEW S, NEW D, NEW C, NEW P, NEW A,
         NEW r, r = NineStored(m, F, L, N, V, S, D, C, P, A)
  PROVE  r = Fields10(F, L, N, V, S, D, C, P, A, mp)
<1> DEFINE m1 == [m EXCEPT !.first = F]
           m2 == [m1 EXCEPT !.last = L]
           m3 == [m2 EXCEPT !.next = N]
           m4 == [m3 EXCEPT !.prev = V]
           m5 == [m4 EXCEPT !.state = S]
           m6 == [m5 EXCEPT !.deadline = D]
           m7 == [m6 EXCEPT !.count = C]
           m8 == [m7 EXCEPT !.parent = P]
           m9 == [m8 EXCEPT !.alloc = A]
<1>1. m1 = Fields10(F, l, n, v, s, d, c, p, a, mp)
  BY DEF Fields10
<1>2. m2 = Fields10(F, L, n, v, s, d, c, p, a, mp)
  <2> HIDE DEF m1
  <2> QED
    BY <1>1 DEF Fields10
<1>3. m3 = Fields10(F, L, N, v, s, d, c, p, a, mp)
  <2> HIDE DEF m2
  <2> QED
    BY <1>2 DEF Fields10
<1>4. m4 = Fields10(F, L, N, V, s, d, c, p, a, mp)
  <2> HIDE DEF m3
  <2> QED
    BY <1>3 DEF Fields10
<1>5. m5 = Fields10(F, L, N, V, S, d, c, p, a, mp)
  <2> HIDE DEF m4
  <2> QED
    BY <1>4 DEF Fields10
<1>6. m6 = Fields10(F, L, N, V, S, D, c, p, a, mp)
  <2> HIDE DEF m5
  <2> QED
    BY <1>5 DEF Fields10
<1>7. m7 = Fields10(F, L, N, V, S, D, C, p, a, mp)
  <2> HIDE DEF m6
  <2> QED
    BY <1>6 DEF Fields10
<1>8. m8 = Fields10(F, L, N, V, S, D, C, P, a, mp)
  <2> HIDE DEF m7
  <2> QED
    BY <1>7 DEF Fields10
<1>9. m9 = Fields10(F, L, N, V, S, D, C, P, A, mp)
  <2> HIDE DEF m8
  <2> QED
    BY <1>8 DEF Fields10
<1>10. r = m9
  BY DEF NineStored
<1> QED
  BY <1>9, <1>10

\* The memory that thread_copy starts from: the child cleared and initialised.
Allocated(m, t, u) ==
  LET own == {SelfWait(t), Children(t), Zombies(t)}
  IN  [m EXCEPT !.first = [h \in Heads |-> IF h \in own THEN NULL ELSE @[h]],
                !.last  = [h \in Heads |-> IF h \in own THEN NULL ELSE @[h]],
                !.next  = [l \in Links |-> [@[l] EXCEPT ![t] = NULL]],
                !.prev  = [l \in Links |-> [@[l] EXCEPT ![t] = NULL]],
                !.state[t] = "RUNNABLE", !.deadline[t] = 0,
                !.count[t] = 1, !.parent[t] = u, !.alloc = @ \cup {t}]

\* malloc, memset and thread_init make t a new thread with empty lists.
LEMMA IsAllocated ==
  ASSUME NEW m, NEW q, NEW s, NEW d, NEW c, NEW p, NEW a, NEW mp, Is(m, q, s, d, c, p, a, mp),
         NEW t \in Thread, Unused(q, t), NEW u \in Thread,
         NEW n, n = Allocated(m, t, u)
  PROVE  Is(n, q, [s EXCEPT ![t] = "RUNNABLE"], [d EXCEPT ![t] = 0], [c EXCEPT ![t] = 1],
            [p EXCEPT ![t] = u], a \cup {t}, mp)
<1> DEFINE own == {SelfWait(t), Children(t), Zombies(t)}
           s2 == [s EXCEPT ![t] = "RUNNABLE"]
           d2 == [d EXCEPT ![t] = 0]
           c2 == [c EXCEPT ![t] = 1]
           p2 == [p EXCEPT ![t] = u]
           a2 == a \cup {t}
           N == [l \in Links |-> [m.next[l] EXCEPT ![t] = NULL]]
           V == [l \in Links |-> [m.prev[l] EXCEPT ![t] = NULL]]
           F == [h \in Heads |-> IF h \in own THEN NULL ELSE m.first[h]]
           G == [h \in Heads |-> IF h \in own THEN NULL ELSE m.last[h]]
<1>1. /\ m.state = s /\ m.deadline = d /\ m.count = c /\ m.parent = p /\ m.alloc = a
      /\ Typed(s2, d2, c2, p2, a2, mp)
  <2>1. "RUNNABLE" \in States
    BY DEF States
  <2>2. \A v \in Thread : v \in Ptr
    BY DEF Ptr
  <2> QED
    BY <2>1, <2>2, IsFields DEF Typed
<1>2. F = m.first /\ G = m.last
  <2>1. own = {SelfWait(t), Children(t), Zombies(t)}
    OBVIOUS
  <2> HIDE DEF own
  <2> QED
    BY <2>1, OwnHeadsEmpty
<1>3. n = [m EXCEPT !.first = F, !.last = G, !.next = N, !.prev = V, !.state = s2,
                    !.deadline = d2, !.count = c2, !.parent = p2, !.alloc = a2]
  BY <1>1 DEF Allocated
<1>4. LinksCleared(N, m.next, t) /\ LinksCleared(V, m.prev, t)
  BY DEF LinksCleared
<1>5. m = Fields10(m.first, m.last, m.next, m.prev, s, d, c, p, a, mp)
  BY IsFields
<1> HIDE DEF s2, d2, c2, p2, a2, N, V, F, G
<1>6. n = NineStored(m, F, G, N, V, s2, d2, c2, p2, a2)
  BY <1>3 DEF NineStored
<1>7. n = Fields10(m.first, m.last, N, V, s2, d2, c2, p2, a2, mp)
  BY <1>2, <1>5, <1>6, NineStores
<1>8. \A h \in Heads : t \notin q[h]
  BY DEF Unused
<1>9. Is(n, q, s2, d2, c2, p2, a2, mp)
  BY <1>1, <1>4, <1>7, <1>8, IsCleared
<1> QED
  BY <1>9 DEF s2, d2, c2, p2, a2

\* What thread_copy of the child t of u comes to.
LEMMA IsCopied ==
  ASSUME NEW m, NEW q, NEW s, NEW d, NEW c, NEW p, NEW a, NEW mp, Is(m, q, s, d, c, p, a, mp),
         NEW t \in Thread, Unused(q, t), NEW u \in Thread, u # t
  PROVE  Is(thread_copy(m, t, u), [q EXCEPT ![Children(u)] = q[Children(u)] \cup {t}],
            [s EXCEPT ![t] = "RUNNABLE"], [d EXCEPT ![t] = 0],
            [c EXCEPT ![t] = 2, ![u] = c[u] + 1], [p EXCEPT ![t] = u], a \cup {t}, mp \cup {t})
<1> DEFINE m1 == Allocated(m, t, u)
           m2 == thread_get(m1, u)
           m3 == Q_INSERT_TAIL(m2, Children(u), t, "child_link")
           m4 == thread_get(m3, t)
           q3 == [q EXCEPT ![Children(u)] = q[Children(u)] \cup {t}]
           s1 == [s EXCEPT ![t] = "RUNNABLE"]
           d1 == [d EXCEPT ![t] = 0]
           c1 == [c EXCEPT ![t] = 1]
           c2 == [c1 EXCEPT ![u] = c1[u] + 1]
           c4 == [c2 EXCEPT ![t] = c2[t] + 1]
           p1 == [p EXCEPT ![t] = u]
           a1 == a \cup {t}
<1>1. /\ s \in [Thread -> States] /\ d \in [Thread -> Nat] /\ c \in [Thread -> Int]
      /\ p \in [Thread -> Ptr] /\ a \in SUBSET Thread /\ mp \in SUBSET Thread
  BY IsFields DEF Typed
<1>2. thread_copy(m, t, u) = [m4 EXCEPT !.map = m3.map \cup {t}]
  BY DEF thread_copy, Allocated, sched_add_thread, thread_get
<1>3. c4 = [c EXCEPT ![t] = 2, ![u] = c[u] + 1]
  BY <1>1
<1>4. Is(m1, q, s1, d1, c1, p1, a1, mp)
  BY IsAllocated
<1> HIDE DEF m1, s1, d1, c1, p1, a1
<1>5. Is(m2, q, s1, d1, c2, p1, a1, mp)
  BY <1>4, IsGet
<1> HIDE DEF m2, c2
<1>6. Is(m3, q3, s1, d1, c2, p1, a1, mp)
  <2>1. Free(q, Children(u), t)
    BY DEF Free, Unused
  <2>2. Children(u) \in Heads /\ LinkOf[Children(u)] = "child_link"
    BY HeadsAre
  <2> QED
    BY <1>5, <2>1, <2>2, IsInserted
<1> HIDE DEF m3, q3
<1>7. Is(m4, q3, s1, d1, c4, p1, a1, mp)
  BY <1>6, IsGet
<1>8. m3.map = mp
  BY <1>6, IsFields
<1> HIDE DEF m4, c4
<1>9. Is([m4 EXCEPT !.map = mp \cup {t}], q3, s1, d1, c4, p1, a1, mp \cup {t})
  <2>1. mp \cup {t} \in SUBSET Thread
    BY <1>1
  <2> QED
    BY <1>7, <2>1, IsMapped
<1> QED
  BY <1>2, <1>3, <1>8, <1>9 DEF q3, s1, d1, p1, a1

\* The memory after sys_fork has made the child t of u, and it is on the run queue.
LEMMA IsForked ==
  ASSUME NEW m, NEW q, NEW s, NEW d, NEW c, NEW p, NEW a, NEW mp, Is(m, q, s, d, c, p, a, mp),
         NEW t \in Thread, Unused(q, t), NEW u \in Thread, u # t
  PROVE  Is(sched_add_runnable_thread(thread_get(thread_copy(m, t, u), t), t),
            [q EXCEPT ![Children(u)] = q[Children(u)] \cup {t}, ![RunQ] = q[RunQ] \cup {t}],
            [s EXCEPT ![t] = "RUNNABLE"], [d EXCEPT ![t] = 0],
            [c EXCEPT ![t] = 4, ![u] = c[u] + 1], [p EXCEPT ![t] = u], a \cup {t}, mp \cup {t})
<1> DEFINE m1 == thread_copy(m, t, u)
           m2 == thread_get(m1, t)
           m3 == thread_get(m2, t)
           m4 == [m3 EXCEPT !.state[t] = "RUNNABLE"]
           m5 == Q_INSERT_TAIL(m4, RunQ, t, "runnable_link")
           q1 == [q EXCEPT ![Children(u)] = q[Children(u)] \cup {t}]
           q5 == [q1 EXCEPT ![RunQ] = q1[RunQ] \cup {t}]
           s1 == [s EXCEPT ![t] = "RUNNABLE"]
           s4 == [s1 EXCEPT ![t] = "RUNNABLE"]
           d1 == [d EXCEPT ![t] = 0]
           c1 == [c EXCEPT ![t] = 2, ![u] = c[u] + 1]
           c2 == [c1 EXCEPT ![t] = c1[t] + 1]
           c3 == [c2 EXCEPT ![t] = c2[t] + 1]
           p1 == [p EXCEPT ![t] = u]
           a1 == a \cup {t}
           r1 == mp \cup {t}
<1>1. /\ s \in [Thread -> States] /\ c \in [Thread -> Int] /\ q \in [Heads -> SUBSET Thread]
      /\ Children(u) \in Heads /\ RunQ \in Heads /\ LinkOf[RunQ] = "runnable_link"
      /\ Children(u) # RunQ /\ LinkOf[Children(u)] = "child_link"
  BY IsFields, HeadsAre DEF Typed
<1>2. Is(m1, q1, s1, d1, c1, p1, a1, r1)
  BY IsCopied
<1>3. c3 = [c EXCEPT ![t] = 4, ![u] = c[u] + 1]
  BY <1>1
<1>4. s4 = s1
  BY <1>1
<1>5. q5 = [q EXCEPT ![Children(u)] = q[Children(u)] \cup {t}, ![RunQ] = q[RunQ] \cup {t}]
  BY <1>1
<1>6. Free(q1, RunQ, t)
  <2>1. \A h \in Heads : h # Children(u) => q1[h] = q[h]
    BY <1>1
  <2> HIDE DEF q1
  <2> QED
    BY <1>1, <2>1 DEF Free, Unused
<1>7. sched_add_runnable_thread(m2, t) = m5
  BY DEF sched_add_runnable_thread
<1> HIDE DEF m1, q1, s1, d1, c1, p1, a1, r1
<1>8. Is(m2, q1, s1, d1, c2, p1, a1, r1)
  BY <1>2, IsGet
<1> HIDE DEF m2, c2
<1>9. Is(m3, q1, s1, d1, c3, p1, a1, r1)
  BY <1>8, IsGet
<1> HIDE DEF m3, c3
<1>10. Is(m4, q1, s4, d1, c3, p1, a1, r1)
  <2>1. "RUNNABLE" \in States
    BY DEF States
  <2> QED
    BY <1>9, <2>1, IsState
<1> HIDE DEF m4, s4
<1>11. Is(m5, q5, s4, d1, c3, p1, a1, r1)
  BY <1>1, <1>6, <1>10, IsInserted
<1> QED
  BY <1>3, <1>4, <1>5, <1>7, <1>11 DEF m1, m2, s1, d1, p1, a1, r1

\* The memory after sched_wait_on has put thread t on a list.
LEMMA IsBlocked ==
  ASSUME NEW m, NEW q, NEW s, NEW d, NEW c, NEW p, NEW a, NEW mp, Is(m, q, s, d, c, p, a, mp),
         NEW t \in q[RunQ], NEW list \in Heads, LinkOf[list] = "wait_link", Free(q, list, t),
         NEW y \in Nat, NEW m1, m1 = [m EXCEPT !.deadline[t] = y, !.state[t] = "WAITING"]
  PROVE  Is(Q_INSERT_TAIL(Q_REMOVE(m1, RunQ, t, "runnable_link"), list, t, "wait_link"),
            [q EXCEPT ![RunQ] = q[RunQ] \ {t}, ![list] = q[list] \cup {t}],
            [s EXCEPT ![t] = "WAITING"], [d EXCEPT ![t] = y], c, p, a, mp)
<1> DEFINE m2 == Q_REMOVE(m1, RunQ, t, "runnable_link")
           q2 == [q EXCEPT ![RunQ] = q[RunQ] \ {t}]
           q3 == [q2 EXCEPT ![list] = q2[list] \cup {t}]
           s1 == [s EXCEPT ![t] = "WAITING"]
           d1 == [d EXCEPT ![t] = y]
<1>1. /\ t \in Thread /\ "WAITING" \in States /\ q \in [Heads -> SUBSET Thread]
      /\ RunQ \in Heads /\ LinkOf[RunQ] = "runnable_link" /\ RunQ # list
  BY IsFields, HeadsAre DEF States
<1>2. Is(m1, q, s1, d1, c, p, a, mp)
  BY <1>1, IsWaiting
<1> HIDE DEF s1, d1
<1>3. Is(m2, q2, s1, d1, c, p, a, mp)
  BY <1>1, <1>2, IsRemoved
<1>4. q2[list] = q[list]
  BY <1>1
<1>5. Free(q2, list, t)
  BY <1>1 DEF Free
<1>6. q3 = [q EXCEPT ![RunQ] = q[RunQ] \ {t}, ![list] = q[list] \cup {t}]
  BY <1>1
<1> HIDE DEF m2, q2
<1>7. Is(Q_INSERT_TAIL(m2, list, t, "wait_link"), q3, s1, d1, c, p, a, mp)
  BY <1>1, <1>3, <1>5, IsInserted
<1> QED
  BY <1>6, <1>7 DEF m2, s1, d1

-----------------------------------------------------------------------------
(***************************************************************************)
(* The inductive invariant, as a predicate of the eight values of kernel   *)
(* memory, of the references e[t] to a thread that no structure of kernel  *)
(* memory shows, and of the set x of threads inside thread_wait.           *)
(***************************************************************************)
One(b) == IF b THEN 1 ELSE 0

\* Queues hold allocated threads; idle is on none, the done queue is empty,
\* only its owner is on a self_wait_list, and free threads own empty lists.
Placed(q, a) ==
  /\ \A h \in Heads : q[h] \subseteq a /\ IdleThread \notin q[h]
  /\ q[DoneQ] = {}
  /\ \A t \in Thread : q[SelfWait(t)] \subseteq {t}
  /\ \A t \in Thread \ a : q[SelfWait(t)] = {} /\ q[Children(t)] = {} /\ q[Zombies(t)] = {}

\* A thread's state says which queue it is on and whether it is in the map.
Agrees(q, s, a, mp) ==
  /\ mp \subseteq a /\ IdleThread \in mp /\ s[IdleThread] = "RUNNABLE"
  /\ \A t \in a \ {IdleThread} :
       /\ s[t] = "RUNNABLE" <=> t \in q[RunQ]
       /\ s[t] = "WAITING" <=> t \in q[SleepQ] \/ t \in q[SelfWait(t)]
  /\ \A t \in a : /\ s[t] \in {"RUNNABLE", "WAITING", "SUSPENDED", "ZOMBIE", "DONE"}
                  /\ t \in mp <=> s[t] \in {"RUNNABLE", "WAITING", "SUSPENDED"}

\* A living thread is its parent's child; the parent of an allocated thread
\* is allocated, and the lists of children agree with the parents.
Family(q, p, a, mp) ==
  /\ \A t \in a : /\ p[t] \in a \cup {NULL} /\ p[t] # t
                  /\ p[t] = NULL => t \in {IdleThread, InitThread}
                  /\ t \in mp /\ p[t] # NULL => t \in q[Children(p[t])]
  /\ \A t, u \in Thread : /\ t \in q[Children(u)] \/ t \in q[Zombies(u)] => p[t] = u
                          /\ t \in q[Zombies(u)] => t \notin mp

Queued(q, t) == t \in q[RunQ] \/ t \in q[SleepQ] \/ t \in q[SelfWait(t)]
Owned(q, p, t) == p[t] = NULL \/ t \in q[Children(p[t])] \/ t \in q[Zombies(p[t])]
Kids(p, a, t) == {u \in a : p[u] = t}

\* A count is the references that no structure shows, that of the queue the
\* thread is on, that of its parent's lists, and those of its children.
Counted(q, c, p, a, e) ==
  \A t \in a : c[t] = e[t] + One(Queued(q, t)) + One(Owned(q, p, t)) + Cardinality(Kids(p, a, t))

\* Whether any thread's code sleeps or waits for a child.
SomeoneBlocks == \E t \in Thread : "sleep" \in Program[t] \/ "wait" \in Program[t]

\* A thread inside thread_wait waits for a child, or finds a zombie.
Waits(q, d, mp, x) ==
  /\ (q[SleepQ] # {} \/ x # {}) => SomeoneBlocks
  /\ \A t \in x : t \in mp /\ (t \in q[SelfWait(t)] \/ q[Zombies(t)] # {})
  /\ \A t \in Thread : t \in q[SelfWait(t)] =>
       t \in x /\ d[t] = 0 /\ q[Children(t)] # {} /\ q[Zombies(t)] = {}

Good(q, s, d, c, p, a, mp, e, x) ==
  /\ Placed(q, a) /\ Agrees(q, s, a, mp) /\ Family(q, p, a, mp)
  /\ Counted(q, c, p, a, e) /\ Waits(q, d, mp, x)

-----------------------------------------------------------------------------
\* A thread has finitely many children.
LEMMA KidsFinite ==
  ASSUME NEW p, NEW a \in SUBSET Thread, NEW t
  PROVE  IsFiniteSet(Kids(p, a, t)) /\ Cardinality(Kids(p, a, t)) \in Nat
<1>1. Kids(p, a, t) \in SUBSET Thread
  BY DEF Kids
<1>2. IsFiniteSet(Kids(p, a, t))
  BY <1>1, FS_Subset, ThreadAssumption
<1> QED
  BY <1>2, FS_CardinalityType

\* A zombie is dropped from the list of t: what q2 differs from q in.
Dropped(q, q2, t, z) ==
  /\ q2[RunQ] = q[RunQ] /\ q2[DoneQ] = q[DoneQ] /\ q2[SleepQ] = q[SleepQ]
  /\ \A v \in Thread : /\ q2[SelfWait(v)] = q[SelfWait(v)] /\ q2[Children(v)] = q[Children(v)]
                       /\ q2[Zombies(v)] = IF v = t THEN q[Zombies(v)] \ {z} ELSE q[Zombies(v)]
  /\ \A h \in Heads : q2[h] \subseteq q[h]

\* Q_REMOVE of a zombie drops it.
LEMMA DroppedIs ==
  ASSUME NEW q \in [Heads -> SUBSET Thread], NEW t \in Thread, NEW z
  PROVE  Dropped(q, [q EXCEPT ![Zombies(t)] = q[Zombies(t)] \ {z}], t, z)
<1> DEFINE r == [q EXCEPT ![Zombies(t)] = q[Zombies(t)] \ {z}]
<1>1. \A h \in Heads : r[h] = IF h = Zombies(t) THEN q[h] \ {z} ELSE q[h]
  OBVIOUS
<1> HIDE DEF r
<1>2. r[RunQ] = q[RunQ] /\ r[DoneQ] = q[DoneQ] /\ r[SleepQ] = q[SleepQ]
  BY <1>1, HeadsAre
<1>3. ASSUME NEW v \in Thread
      PROVE  /\ r[SelfWait(v)] = q[SelfWait(v)] /\ r[Children(v)] = q[Children(v)]
             /\ r[Zombies(v)] = IF v = t THEN q[Zombies(v)] \ {z} ELSE q[Zombies(v)]
  BY <1>1, HeadsAre
<1>4. \A h \in Heads : r[h] \subseteq q[h]
  BY <1>1
<1> QED
  BY <1>2, <1>3, <1>4 DEF Dropped, r

\* What is known of a zombie z of t.
LEMMA ZombieIs ==
  ASSUME NEW q \in [Heads -> SUBSET Thread], NEW s, NEW d, NEW c, NEW p, NEW a, NEW mp, NEW e,
         NEW x, Good(q, s, d, c, p, a, mp, e, x), NEW t \in Thread, NEW z \in q[Zombies(t)],
         z \notin q[Children(t)]
  PROVE  /\ z \in a /\ z \in Thread /\ z # t /\ z # IdleThread /\ p[z] = t /\ t \in a /\ z \notin mp
         /\ z \notin x /\ s[z] \in {"ZOMBIE", "DONE"}
         /\ z \notin q[RunQ] /\ z \notin q[DoneQ] /\ z \notin q[SleepQ]
         /\ \A v \in Thread : z \notin q[SelfWait(v)] /\ z \notin q[Children(v)]
                              /\ (v # t => z \notin q[Zombies(v)])
<1>1. Zombies(t) \in Heads /\ RunQ \in Heads /\ SleepQ \in Heads /\ DoneQ \in Heads
  BY HeadsAre
<1>2. z \in Thread /\ z \in a /\ z # IdleThread
  BY <1>1 DEF Good, Placed
<1>3. p[z] = t /\ z \notin mp
  BY <1>2 DEF Good, Family
<1>4. z # t /\ t \in a
  BY <1>2, <1>3, ThreadAssumption DEF Good, Family
<1>5. s[z] \in {"ZOMBIE", "DONE"} /\ z \notin q[RunQ] /\ z \notin q[SleepQ]
      /\ z \notin q[SelfWait(z)]
  BY <1>2, <1>3 DEF Good, Agrees
<1>6. z \notin q[DoneQ] /\ z \notin x
  BY <1>3 DEF Good, Placed, Waits
<1>7. \A v \in Thread : z \notin q[SelfWait(v)]
  BY <1>5 DEF Good, Placed
<1>8. \A v \in Thread : z \notin q[Children(v)] /\ (v # t => z \notin q[Zombies(v)])
  BY <1>2, <1>3 DEF Good, Family
<1> QED
  BY <1>2, <1>3, <1>4, <1>5, <1>6, <1>7, <1>8

\* Only the state of z differs.
SameBut(s, s2, z) == \A v \in Thread \ {z} : s2[v] = s[v]

\* A zombie that is referred to by its children stays allocated.
LEMMA ZombieKept ==
  ASSUME NEW q \in [Heads -> SUBSET Thread], NEW s, NEW d, NEW c \in [Thread -> Int], NEW p,
         NEW a \in SUBSET Thread, NEW mp, NEW e \in [Thread -> Nat],
         NEW x, Good(q, s, d, c, p, a, mp, e, x), NEW t \in Thread, NEW z \in q[Zombies(t)],
         z \notin q[Children(t)], t \notin x,
         NEW q2, Dropped(q, q2, t, z), NEW s2,
         s2[z] = "ZOMBIE" \/ s2[z] = "DONE", SameBut(s, s2, z),
         NEW c2, c2 = [c EXCEPT ![z] = c[z] - 1]
  PROVE  Good(q2, s2, d, c2, p, a, mp, e, x)
<1>1. /\ z \in a /\ z \in Thread /\ z # t /\ z # IdleThread /\ p[z] = t /\ t \in a /\ z \notin mp
      /\ z \notin x
      /\ z \notin q[RunQ] /\ z \notin q[SleepQ]
      /\ \A v \in Thread : z \notin q[SelfWait(v)] /\ z \notin q[Children(v)]
                           /\ (v # t => z \notin q[Zombies(v)])
  BY ZombieIs
<1>2. /\ q2[RunQ] = q[RunQ] /\ q2[SleepQ] = q[SleepQ]
      /\ \A v \in Thread : /\ q2[SelfWait(v)] = q[SelfWait(v)] /\ q2[Children(v)] = q[Children(v)]
                           /\ v # t => q2[Zombies(v)] = q[Zombies(v)]
      /\ q2[Zombies(t)] = q[Zombies(t)] \ {z} /\ t # NULL
  BY ThreadAssumption DEF Dropped
<1>3. Placed(q2, a)
  <2>1. Placed(q, a)
    BY DEF Good
  <2>2. \A h \in Heads : q2[h] \subseteq a /\ IdleThread \notin q2[h]
    BY <2>1 DEF Placed, Dropped
  <2> QED
    BY <2>1, <2>2 DEF Placed, Dropped
<1>4. Agrees(q2, s2, a, mp)
  <2>1. Agrees(q, s, a, mp)
    BY DEF Good
  <2>2. s2[IdleThread] = "RUNNABLE"
    BY <1>1, <2>1, ThreadAssumption DEF Agrees, SameBut
  <2>3. ASSUME NEW v \in a \ {IdleThread}
        PROVE  /\ s2[v] = "RUNNABLE" <=> v \in q2[RunQ]
               /\ s2[v] = "WAITING" <=> v \in q2[SleepQ] \/ v \in q2[SelfWait(v)]
    BY <1>1, <1>2, <2>1 DEF Agrees, SameBut
  <2>4. ASSUME NEW v \in a
        PROVE  /\ s2[v] \in {"RUNNABLE", "WAITING", "SUSPENDED", "ZOMBIE", "DONE"}
               /\ v \in mp <=> s2[v] \in {"RUNNABLE", "WAITING", "SUSPENDED"}
    BY <1>1, <2>1 DEF Agrees, SameBut
  <2> QED
    BY <2>1, <2>2, <2>3, <2>4 DEF Agrees
<1>5. Family(q2, p, a, mp)
  <2>1. Family(q, p, a, mp)
    BY DEF Good
  <2>2. ASSUME NEW v \in a, v \in mp, p[v] # NULL
        PROVE  v \in q2[Children(p[v])]
    BY <1>2, <2>1, <2>2 DEF Family
  <2>3. ASSUME NEW v \in Thread, NEW u \in Thread
        PROVE  /\ v \in q2[Children(u)] \/ v \in q2[Zombies(u)] => p[v] = u
               /\ v \in q2[Zombies(u)] => v \notin mp
    BY <1>2, <2>1 DEF Family
  <2> QED
    BY <2>1, <2>2, <2>3 DEF Family
<1>6. Counted(q2, c2, p, a, e)
  <2>1. Counted(q, c, p, a, e) /\ Family(q, p, a, mp)
    BY DEF Good
  <2>2. ASSUME NEW v \in a
        PROVE  c2[v] = e[v] + One(Queued(q2, v)) + One(Owned(q2, p, v)) + Cardinality(Kids(p, a, v))
    <3>1. c[v] = e[v] + One(Queued(q, v)) + One(Owned(q, p, v)) + Cardinality(Kids(p, a, v))
      BY <2>1 DEF Counted
    <3>2. Queued(q2, v) <=> Queued(q, v)
      BY <1>2 DEF Queued
    <3>3. Cardinality(Kids(p, a, v)) \in Nat /\ e[v] \in Nat
      BY KidsFinite
    <3>4. v = z => Owned(q, p, v) /\ ~Owned(q2, p, v)
      BY <1>1, <1>2 DEF Owned
    <3>5. v # z => (Owned(q2, p, v) <=> Owned(q, p, v))
      <4>1. p[v] \in Thread \cup {NULL}
        BY <2>1 DEF Family
      <4> QED
        BY <1>2, <4>1 DEF Owned
    <3>6. c2[v] = IF v = z THEN c[v] - 1 ELSE c[v]
      OBVIOUS
    <3> HIDE DEF Good
    <3> QED
      BY <3>1, <3>2, <3>3, <3>4, <3>5, <3>6 DEF One
  <2> QED
    BY <2>2 DEF Counted
<1>7. Waits(q2, d, mp, x)
  <2>1. Waits(q, d, mp, x) /\ x \subseteq Thread
    BY DEF Good, Waits, Agrees
  <2> QED
    BY <2>1 DEF Waits, Dropped
<1> QED
  BY <1>3, <1>4, <1>5, <1>6, <1>7 DEF Good

\* A zombie to which nothing refers any more is freed, which puts its parent.
LEMMA ZombieFreed ==
  ASSUME NEW q \in [Heads -> SUBSET Thread], NEW s, NEW d, NEW c \in [Thread -> Int],
         NEW p \in [Thread -> Ptr],
         NEW a \in SUBSET Thread, NEW mp, NEW e \in [Thread -> Nat],
         NEW x, Good(q, s, d, c, p, a, mp, e, x), NEW t \in Thread, NEW z \in q[Zombies(t)],
         z \notin q[Children(t)], t \notin x, c[z] = 1,
         NEW q2, Dropped(q, q2, t, z), NEW s2, SameBut(s, s2, z),
         NEW c2, c2 = [c EXCEPT ![z] = 0, ![t] = c[t] - 1],
         NEW p2, p2 = [p EXCEPT ![z] = NULL], NEW a2, a2 = a \ {z}
  PROVE  Good(q2, s2, d, c2, p2, a2, mp, e, x)
<1>1. /\ z \in a /\ z \in Thread /\ z # t /\ z # IdleThread /\ p[z] = t /\ t \in a /\ z \notin mp
      /\ z \notin x
      /\ z \notin q[RunQ] /\ z \notin q[DoneQ] /\ z \notin q[SleepQ]
      /\ \A v \in Thread : z \notin q[SelfWait(v)] /\ z \notin q[Children(v)]
                           /\ (v # t => z \notin q[Zombies(v)])
  BY ZombieIs
<1>2. /\ q2[RunQ] = q[RunQ] /\ q2[SleepQ] = q[SleepQ] /\ q2[DoneQ] = q[DoneQ]
      /\ \A v \in Thread : /\ q2[SelfWait(v)] = q[SelfWait(v)] /\ q2[Children(v)] = q[Children(v)]
                           /\ v # t => q2[Zombies(v)] = q[Zombies(v)]
      /\ q2[Zombies(t)] = q[Zombies(t)] \ {z} /\ t # NULL
  BY ThreadAssumption DEF Dropped
<1>3. /\ \A v \in Thread \ {z} : p2[v] = p[v] /\ c2[v] = IF v = t THEN c[v] - 1 ELSE c[v]
      /\ p2[z] = NULL
  BY <1>1
<1>4. Kids(p, a, z) = {}
  <2>1. /\ c[z] = e[z] + One(Queued(q, z)) + One(Owned(q, p, z)) + Cardinality(Kids(p, a, z))
        /\ Owned(q, p, z)
    BY <1>1 DEF Good, Counted, Owned
  <2>2. e[z] \in Nat /\ Cardinality(Kids(p, a, z)) \in Nat /\ IsFiniteSet(Kids(p, a, z))
    BY <1>1, KidsFinite
  <2>3. Cardinality(Kids(p, a, z)) = 0
    <3> DEFINE i == One(Queued(q, z))
               j == One(Owned(q, p, z))
               n == Cardinality(Kids(p, a, z))
    <3>1. i = 0 \/ i = 1
      BY DEF One
    <3>2. j = 1
      BY <2>1 DEF One
    <3>3. 1 = e[z] + i + j + n /\ e[z] \in Nat /\ n \in Nat
      BY <2>1, <2>2
    <3> HIDE DEF i, j, n
    <3>4. n = 0
      BY <3>1, <3>2, <3>3
    <3> QED
      BY <3>4 DEF n
  <2> QED
    BY <2>2, <2>3, FS_EmptySet
<1>5. \A v \in a : p[v] # z
  BY <1>4 DEF Kids
<1>6. q[SelfWait(z)] = {} /\ q[Children(z)] = {} /\ q[Zombies(z)] = {}
  <2>1. Placed(q, a) /\ Family(q, p, a, mp)
    BY DEF Good
  <2>2. q[SelfWait(z)] = {}
    BY <1>1, <2>1 DEF Placed
  <2>3. \A v \in Thread : v \in q[Children(z)] \/ v \in q[Zombies(z)] => v \in a /\ p[v] = z
    BY <1>1, <2>1, HeadsAre DEF Placed, Family
  <2>4. q[Children(z)] \subseteq Thread /\ q[Zombies(z)] \subseteq Thread
    BY <1>1, HeadsAre
  <2> QED
    BY <1>5, <2>2, <2>3, <2>4
<1>7. Placed(q2, a2)
  <2>1. Placed(q, a)
    BY DEF Good
  <2>2. \A h \in Heads : q2[h] \subseteq a /\ IdleThread \notin q2[h]
    BY <2>1 DEF Placed, Dropped
  <2>3. \A h \in Heads : z \notin q2[h]
    <3>1. ASSUME NEW h \in Heads
          PROVE  z \notin q2[h]
      <4>1. \/ h = RunQ \/ h = DoneQ \/ h = SleepQ
            \/ \E v \in Thread : h = SelfWait(v) \/ h = Children(v) \/ h = Zombies(v)
        BY HeadIs
      <4>2. CASE h = RunQ \/ h = DoneQ \/ h = SleepQ
        BY <1>1, <1>2, <4>2
      <4>3. CASE \E v \in Thread : h = SelfWait(v) \/ h = Children(v) \/ h = Zombies(v)
        BY <1>1, <1>2, <4>3
      <4> QED
        BY <4>1, <4>2, <4>3
    <3> QED
      BY <3>1
  <2>4. \A v \in Thread : q2[SelfWait(v)] \subseteq {v}
    BY <1>2, <2>1 DEF Placed
  <2>5. \A v \in Thread \ a2 : q2[SelfWait(v)] = {} /\ q2[Children(v)] = {} /\ q2[Zombies(v)] = {}
    BY <1>1, <1>2, <1>6, <2>1 DEF Placed
  <2>6. q2[DoneQ] = {}
    BY <1>2, <2>1 DEF Placed
  <2> QED
    BY <2>2, <2>3, <2>4, <2>5, <2>6 DEF Placed
<1>8. Agrees(q2, s2, a2, mp)
  <2>1. Agrees(q, s, a, mp)
    BY DEF Good
  <2>2. s2[IdleThread] = "RUNNABLE" /\ mp \subseteq a2
    BY <1>1, <2>1, ThreadAssumption DEF Agrees, SameBut
  <2>3. ASSUME NEW v \in a2 \ {IdleThread}
        PROVE  /\ s2[v] = "RUNNABLE" <=> v \in q2[RunQ]
               /\ s2[v] = "WAITING" <=> v \in q2[SleepQ] \/ v \in q2[SelfWait(v)]
    BY <1>1, <1>2, <2>1 DEF Agrees, SameBut
  <2>4. ASSUME NEW v \in a2
        PROVE  /\ s2[v] \in {"RUNNABLE", "WAITING", "SUSPENDED", "ZOMBIE", "DONE"}
               /\ v \in mp <=> s2[v] \in {"RUNNABLE", "WAITING", "SUSPENDED"}
    BY <1>1, <2>1 DEF Agrees, SameBut
  <2> QED
    BY <2>1, <2>2, <2>3, <2>4 DEF Agrees
<1>9. Family(q2, p2, a2, mp)
  <2>1. Family(q, p, a, mp)
    BY DEF Good
  <2>2. ASSUME NEW v \in a2
        PROVE  /\ p2[v] \in a2 \cup {NULL} /\ p2[v] # v
               /\ p2[v] = NULL => v \in {IdleThread, InitThread}
               /\ v \in mp /\ p2[v] # NULL => v \in q2[Children(p2[v])]
    <3>1. p2[v] = p[v] /\ v \in a /\ p[v] # z
      BY <1>3, <1>5
    <3> QED
      BY <1>2, <2>1, <3>1 DEF Family
  <2>3. ASSUME NEW v \in Thread, NEW u \in Thread
        PROVE  /\ v \in q2[Children(u)] \/ v \in q2[Zombies(u)] => p2[v] = u
               /\ v \in q2[Zombies(u)] => v \notin mp
    <3>1. CASE v = z
      BY <1>1, <1>2, <3>1
    <3>2. CASE v # z
      BY <1>2, <1>3, <2>1, <3>2 DEF Family
    <3> QED
      BY <3>1, <3>2
  <2> QED
    BY <2>2, <2>3 DEF Family
<1>10. Counted(q2, c2, p2, a2, e)
  <2>1. Counted(q, c, p, a, e) /\ Family(q, p, a, mp)
    BY DEF Good
  <2>2. ASSUME NEW v \in a2
        PROVE  c2[v] = e[v] + One(Queued(q2, v)) + One(Owned(q2, p2, v))
                         + Cardinality(Kids(p2, a2, v))
    <3>1. /\ c[v] = e[v] + One(Queued(q, v)) + One(Owned(q, p, v)) + Cardinality(Kids(p, a, v))
          /\ v \in Thread \ {z}
      BY <2>1 DEF Counted
    <3>2. Queued(q2, v) <=> Queued(q, v)
      BY <1>2, <3>1 DEF Queued
    <3>3. /\ Cardinality(Kids(p, a, v)) \in Nat /\ IsFiniteSet(Kids(p, a, v)) /\ e[v] \in Nat
          /\ c[v] \in Int
      BY <3>1, KidsFinite
    <3>4. Owned(q2, p2, v) <=> Owned(q, p, v)
      <4>1. p2[v] = p[v] /\ p[v] \in Thread \cup {NULL}
        BY <1>3, <2>1, <3>1 DEF Family
      <4> QED
        BY <1>2, <3>1, <4>1 DEF Owned
    <3>5. Cardinality(Kids(p2, a2, v))
            = IF v = t THEN Cardinality(Kids(p, a, v)) - 1 ELSE Cardinality(Kids(p, a, v))
      <4>1. Kids(p2, a2, v) = Kids(p, a, v) \ {z}
        BY <1>3 DEF Kids
      <4>2. z \in Kids(p, a, v) <=> v = t
        BY <1>1 DEF Kids
      <4>3. Cardinality(Kids(p, a, v) \ {z})
              = IF z \in Kids(p, a, v) THEN Cardinality(Kids(p, a, v)) - 1
                ELSE Cardinality(Kids(p, a, v))
        BY <3>3, FS_RemoveElement
      <4> QED
        BY <4>1, <4>2, <4>3
    <3>6. c2[v] = IF v = t THEN c[v] - 1 ELSE c[v]
      BY <1>3, <3>1
    <3> QED
      BY <3>1, <3>2, <3>3, <3>4, <3>5, <3>6 DEF One
  <2> QED
    BY <2>2 DEF Counted
<1>11. Waits(q2, d, mp, x)
  <2>1. Waits(q, d, mp, x) /\ x \subseteq Thread
    BY DEF Good, Waits, Agrees
  <2> QED
    BY <1>2, <2>1 DEF Waits, Dropped
<1> QED
  BY <1>7, <1>8, <1>9, <1>10, <1>11 DEF Good

-----------------------------------------------------------------------------
\* The memory n is good with the queues q, and the threads but those in Z
\* have the states s; those in Z are not runnable.
GoodBut(n, q, s, d, mp, e, x, Z) ==
  \E s2, c2, p2, a2 :
    /\ Is(n, q, s2, d, c2, p2, a2, mp) /\ Good(q, s2, d, c2, p2, a2, mp, e, x)
    /\ \A v \in Thread \ Z : s2[v] = s[v]
    /\ \A v \in Z : s2[v] # "RUNNABLE"

\* One zombie z of t is taken off the list and put: in thread_wait (its state
\* is kept) and in thread_vanish_noyield (it is DONE).
LEMMA ZombiePut ==
  ASSUME NEW m, NEW q, NEW s, NEW d, NEW c, NEW p, NEW a, NEW mp, Is(m, q, s, d, c, p, a, mp),
         NEW e \in [Thread -> Nat], NEW x, Good(q, s, d, c, p, a, mp, e, x),
         NEW t \in Thread, NEW z \in q[Zombies(t)], t \notin x, e[t] # 0, e[z] = 0,
         NEW n, \/ n = m
                \/ n = [m EXCEPT !.state[z] = "DONE"]
  PROVE  GoodBut(thread_put(Q_REMOVE(n, Zombies(t), z, "child_link"), z),
                 [q EXCEPT ![Zombies(t)] = q[Zombies(t)] \ {z}], s, d, mp, e, x, {z})
<1> DEFINE q2 == [q EXCEPT ![Zombies(t)] = q[Zombies(t)] \ {z}]
           s1 == n.state
           o == Q_REMOVE(n, Zombies(t), z, "child_link")
<1>1. /\ q \in [Heads -> SUBSET Thread] /\ c \in [Thread -> Int] /\ p \in [Thread -> Ptr]
      /\ a \in SUBSET Thread /\ s \in [Thread -> States]
      /\ Zombies(t) \in Heads /\ LinkOf[Zombies(t)] = "child_link"
      /\ Children(t) \in Heads /\ LinkOf[Children(t)] = "child_link" /\ Children(t) # Zombies(t)
  BY IsFields, HeadsAre DEF Typed
<1>2. z \notin q[Children(t)]
  BY <1>1, OnlyThere
<1>3. z \in a /\ z \in Thread /\ z # t /\ p[z] = t /\ t \in a /\ s[z] \in {"ZOMBIE", "DONE"}
  BY <1>1, <1>2, ZombieIs
<1>4. /\ Is(n, q, s1, d, c, p, a, mp) /\ (s1[z] = "ZOMBIE" \/ s1[z] = "DONE")
      /\ SameBut(s, s1, z)
  <2>1. CASE n = m
    <3>1. s1 = s
      BY <2>1, IsFields
    <3> QED
      BY <1>3, <2>1, <3>1 DEF SameBut
  <2>2. CASE n = [m EXCEPT !.state[z] = "DONE"]
    <3> DEFINE u == [s EXCEPT ![z] = "DONE"]
    <3>1. Is([m EXCEPT !.state[z] = "DONE"], q, u, d, c, p, a, mp)
      <4>1. "DONE" \in States
        BY DEF States
      <4> HIDE DEF u
      <4> QED
        BY <1>3, <4>1, IsState DEF u
    <3>2. u[z] = "DONE" /\ SameBut(s, u, z)
      BY <1>1, <1>3 DEF SameBut
    <3> HIDE DEF u
    <3>3. Is(n, q, u, d, c, p, a, mp)
      BY <2>2, <3>1
    <3>4. s1 = u
      BY <3>3, IsFields
    <3> QED
      BY <3>2, <3>3, <3>4
  <2> QED
    BY <2>1, <2>2
<1> HIDE DEF s1
<1>5. Dropped(q, q2, t, z)
  BY <1>1, DroppedIs
<1>6. Is(o, q2, s1, d, c, p, a, mp)
  BY <1>1, <1>4, IsRemoved
<1> HIDE DEF q2, o
<1>7. CASE c[z] # 1
  <2> DEFINE c2 == [c EXCEPT ![z] = c[z] - 1]
  <2>1. Is(thread_put(o, z), q2, s1, d, c2, p, a, mp)
    BY <1>3, <1>6, <1>7, IsPut
  <2>2. Good(q2, s1, d, c2, p, a, mp, e, x)
    <3> HIDE DEF c2
    <3>1. c2 = [c EXCEPT ![z] = c[z] - 1]
      BY DEF c2
    <3> QED
      BY <1>1, <1>2, <1>4, <1>5, <3>1, ZombieKept
  <2> HIDE DEF c2
  <2> QED
    BY <1>4, <2>1, <2>2 DEF GoodBut, SameBut, q2, o
<1>8. CASE c[z] = 1
  <2> DEFINE c2 == [c EXCEPT ![z] = 0, ![t] = c[t] - 1]
             s2 == [s1 EXCEPT ![z] = "FREE"]
             p2 == [p EXCEPT ![z] = NULL]
             a2 == a \ {z}
  <2>1. c[t] # 1
    <3> DEFINE k0 == Cardinality(Kids(p, a, t))
               i == One(Queued(q, t))
               j == One(Owned(q, p, t))
    <3>1. c[t] = e[t] + i + j + k0
      BY <1>3 DEF Good, Counted
    <3>2. k0 \in Nat /\ k0 # 0
      <4>1. z \in Kids(p, a, t)
        BY <1>3 DEF Kids
      <4>2. k0 \in Nat /\ IsFiniteSet(Kids(p, a, t))
        BY <1>1, KidsFinite
      <4> QED
        BY <4>1, <4>2, FS_EmptySet
    <3>3. (i = 0 \/ i = 1) /\ (j = 0 \/ j = 1)
      BY DEF One
    <3> HIDE DEF k0, i, j
    <3>4. e[t] \in Nat
      OBVIOUS
    <3> QED
      BY <3>1, <3>2, <3>3, <3>4
  <2>2. Is(thread_put(o, z), q2, s2, d, c2, p2, a2, mp)
    BY <1>3, <1>6, <1>8, <2>1, IsFreed
  <2>3. s2[z] = "FREE" /\ SameBut(s, s2, z)
    <3>1. s1 \in [Thread -> States]
      BY <1>4, IsFields DEF Typed
    <3> QED
      BY <1>3, <1>4, <3>1 DEF SameBut
  <2>4. Good(q2, s2, d, c2, p2, a2, mp, e, x)
    <3> HIDE DEF s2, c2, p2, a2
    <3>1. /\ c2 = [c EXCEPT ![z] = 0, ![t] = c[t] - 1] /\ p2 = [p EXCEPT ![z] = NULL]
          /\ a2 = a \ {z}
      BY DEF c2, p2, a2
    <3> QED
      BY <1>1, <1>2, <1>5, <1>8, <2>3, <3>1, ZombieFreed
  <2> HIDE DEF s2, c2, p2, a2
  <2> QED
    BY <2>2, <2>3, <2>4 DEF GoodBut, SameBut, q2, o
<1> QED
  BY <1>7, <1>8

\* f[i] is the memory after i rounds of ReleaseZombies over the walk w.
ReleaseRounds(f, j, m, t, w) ==
  f = [i \in 0..j |-> IF i = 0 THEN m ELSE ReleaseZombie(f[i-1], t, w[i])]

\* The recursion of ReleaseZombies has a value.
LEMMA ReleaseRoundsExist ==
  ASSUME NEW m, NEW t, NEW w, NEW n \in Nat
  PROVE  \E f : ReleaseRounds(f, n, m, t, w)
<1> DEFINE S == {j \in Nat : \E f : ReleaseRounds(f, j, m, t, w)}
<1>1. 0 \in S
  <2> DEFINE f == [i \in 0..0 |-> m]
  <2>1. ReleaseRounds(f, 0, m, t, w)
    BY DEF ReleaseRounds
  <2> HIDE DEF f
  <2> QED
    BY <2>1
<1>2. ASSUME NEW j \in Nat, j \in S
      PROVE  j + 1 \in S
  <2>1. PICK f : ReleaseRounds(f, j, m, t, w)
    BY <1>2
  <2> DEFINE x == ReleaseZombie(f[j], t, w[j+1])
             g == [i \in 0..(j+1) |-> IF i = j + 1 THEN x ELSE f[i]]
  <2>2. \A i \in 0..j : f[i] = IF i = 0 THEN m ELSE ReleaseZombie(f[i-1], t, w[i])
    BY <2>1 DEF ReleaseRounds
  <2>3. g[j+1] = x /\ \A i \in 0..j : g[i] = f[i]
    BY <1>2
  <2>4. ASSUME NEW i \in 0..(j+1)
        PROVE  g[i] = IF i = 0 THEN m ELSE ReleaseZombie(g[i-1], t, w[i])
    <3>1. CASE i = j + 1
      <4>1. i # 0 /\ i - 1 = j /\ j \in 0..j
        BY <1>2, <3>1
      <4>2. g[i] = x /\ g[i-1] = f[j]
        BY <2>3, <3>1, <4>1
      <4> HIDE DEF g
      <4> QED
        BY <3>1, <4>1, <4>2
    <3>2. CASE i # j + 1
      <4>1. i \in 0..j /\ (i # 0 => i - 1 \in 0..j)
        BY <1>2, <3>2
      <4> HIDE DEF g
      <4> QED
        BY <2>2, <2>3, <4>1
    <3> QED
      BY <3>1, <3>2
  <2>5. g = [i \in 0..(j+1) |-> g[i]]
    OBVIOUS
  <2> HIDE DEF g
  <2>6. ReleaseRounds(g, j + 1, m, t, w)
    BY <2>4, <2>5 DEF ReleaseRounds
  <2> QED
    BY <1>2, <2>6
<1> HIDE DEF S
<1>3. \A j \in Nat : j \in S
  BY <1>1, <1>2, QueueAssumptions, QL!AllNumbers
<1>4. n \in S
  BY <1>3
<1> QED
  BY <1>4 DEF S

\* The zombies of t are released one by one.
LEMMA ZombiesReleased ==
  ASSUME NEW m, NEW q, NEW s, NEW d, NEW c, NEW p, NEW a, NEW mp, Is(m, q, s, d, c, p, a, mp),
         NEW e \in [Thread -> Nat], NEW x, Good(q, s, d, c, p, a, mp, e, x),
         NEW t \in Thread, t \notin x, e[t] # 0, \A z \in q[Zombies(t)] : e[z] = 0
  PROVE  GoodBut(ReleaseZombies(m, t), [q EXCEPT ![Zombies(t)] = {}], s, d, mp, e, x,
                 q[Zombies(t)])
<1> DEFINE h == Zombies(t)
           w == Q_FOREACH(m, h, "child_link")
           L == Len(w)
           f == CHOOSE g : ReleaseRounds(g, L, m, t, w)
           Z(i) == {z \in q[h] : \E j \in 1..i : w[j] = z}
           Q(i) == [q EXCEPT ![h] = q[h] \ Z(i)]
           P(i) == i \in 0..L => GoodBut(f[i], Q(i), s, d, mp, e, x, Z(i))
           S == {i \in Nat : P(i)}
<1>1. h \in Heads /\ LinkOf[h] = "child_link" /\ q \in [Heads -> SUBSET Thread]
  BY IsFields, HeadsAre
<1>2. Visits(w, q[h])
  BY <1>1, IsWalk
<1>3. ReleaseZombies(m, t) = f[L]
  BY DEF ReleaseZombies, ReleaseRounds
<1> HIDE DEF w, h
<1>4. /\ L \in Nat /\ \A i \in 1..L : w[i] \in q[h]
      /\ \A z \in q[h] : \E i \in 1..L : w[i] = z
      /\ \A i, j \in 1..L : w[i] = w[j] => i = j
  BY <1>2 DEF Visits
<1>5. ReleaseRounds(f, L, m, t, w)
  <2> HIDE DEF L
  <2> QED
    BY <1>4, ReleaseRoundsExist
<1> HIDE DEF f, L
<1>6. \A i \in 0..L : f[i] = IF i = 0 THEN m ELSE ReleaseZombie(f[i-1], t, w[i])
  BY <1>5 DEF ReleaseRounds
<1>7. P(0)
  <2>1. Z(0) = {}
    OBVIOUS
  <2>2. [q EXCEPT ![h] = q[h] \ {}] = q
    BY <1>1
  <2>3. f[0] = m
    BY <1>4, <1>6
  <2>4. GoodBut(m, q, s, d, mp, e, x, {})
    BY DEF GoodBut
  <2> QED
    BY <2>1, <2>2, <2>3, <2>4
<1>8. ASSUME NEW i \in Nat, P(i)
      PROVE  P(i+1)
  <2>1. SUFFICES ASSUME i + 1 \in 0..L PROVE GoodBut(f[i+1], Q(i+1), s, d, mp, e, x, Z(i+1))
    OBVIOUS
  <2> DEFINE z == w[i+1]
  <2>2. i \in 0..L /\ i + 1 \in 1..L /\ i + 1 # 0 /\ (i + 1) - 1 = i
    BY <1>4, <2>1
  <2>3. GoodBut(f[i], Q(i), s, d, mp, e, x, Z(i)) /\ f[i+1] = ReleaseZombie(f[i], t, z)
    BY <1>6, <1>8, <2>1, <2>2
  <2>4. z \in q[h] /\ z \notin Z(i)
    BY <1>4, <2>2
  <2>5. Z(i+1) = Z(i) \cup {z}
    BY <1>4, <2>2, <2>4
  <2>6. Z(i) \subseteq q[h]
    OBVIOUS
  <2> HIDE DEF z, Z
  <2>7. Q(i)[h] = q[h] \ Z(i) /\ z \in Q(i)[h] /\ Q(i+1) = [Q(i) EXCEPT ![h] = Q(i)[h] \ {z}]
    BY <1>1, <2>4, <2>5
  <2> HIDE DEF Q
  <2>8. PICK s2, c2, p2, a2 :
          /\ Is(f[i], Q(i), s2, d, c2, p2, a2, mp) /\ Good(Q(i), s2, d, c2, p2, a2, mp, e, x)
          /\ \A v \in Thread \ Z(i) : s2[v] = s[v]
          /\ \A v \in Z(i) : s2[v] # "RUNNABLE"
    BY <2>3 DEF GoodBut
  <2> DEFINE n == [f[i] EXCEPT !.state[z] = "DONE"]
             o == thread_put(Q_REMOVE(n, Zombies(t), z, "child_link"), z)
  <2>9. f[i+1] = o
    BY <2>3 DEF ReleaseZombie
  <2>10. e[z] = 0 /\ z \in Q(i)[Zombies(t)]
    BY <2>4, <2>7 DEF h
  <2>11. GoodBut(o, [Q(i) EXCEPT ![Zombies(t)] = Q(i)[Zombies(t)] \ {z}], s2, d, mp, e, x, {z})
    <3>1. n = f[i] \/ n = [f[i] EXCEPT !.state[z] = "DONE"]
      OBVIOUS
    <3> QED
      BY <2>8, <2>10, <3>1, ZombiePut
  <2> HIDE DEF n, o
  <2>12. GoodBut(f[i+1], Q(i+1), s2, d, mp, e, x, {z})
    BY <2>7, <2>9, <2>11 DEF h
  <2>13. PICK s3, c3, p3, a3 :
          /\ Is(f[i+1], Q(i+1), s3, d, c3, p3, a3, mp) /\ Good(Q(i+1), s3, d, c3, p3, a3, mp, e, x)
          /\ \A v \in Thread \ {z} : s3[v] = s2[v]
          /\ \A v \in {z} : s3[v] # "RUNNABLE"
    BY <2>12 DEF GoodBut
  <2>14. Z(i) \subseteq Thread
    BY <1>1, <2>6
  <2>15. /\ \A v \in Thread \ Z(i+1) : s3[v] = s[v]
         /\ \A v \in Z(i+1) : s3[v] # "RUNNABLE"
    BY <2>4, <2>5, <2>8, <2>13, <2>14
  <2> QED
    BY <2>13, <2>15 DEF GoodBut
<1> HIDE DEF P
<1>9. \A i \in Nat : i \in S
  <2>1. 0 \in S
    BY <1>7
  <2>2. \A i \in Nat : i \in S => i + 1 \in S
    BY <1>8
  <2> HIDE DEF S
  <2> QED
    BY <2>1, <2>2, QueueAssumptions, QL!AllNumbers
<1>10. P(L)
  BY <1>4, <1>9
<1>11. Z(L) = q[h] /\ L \in 0..L
  BY <1>4
<1> HIDE DEF Z, S
<1>12. GoodBut(f[L], [q EXCEPT ![h] = q[h] \ q[h]], s, d, mp, e, x, q[h])
  BY <1>10, <1>11 DEF P
<1>13. q[h] \ q[h] = {}
  OBVIOUS
<1> QED
  BY <1>3, <1>12, <1>13 DEF h

\* The memory n is good, with some counts.
GoodCounts(n, q, s, d, p, a, mp, e, x) ==
  \E c : Is(n, q, s, d, c, p, a, mp) /\ Good(q, s, d, c, p, a, mp, e, x)

\* A reference that no structure shows is put, and is not the last.
LEMMA HeldPut ==
  ASSUME NEW m, NEW q, NEW s, NEW d, NEW c, NEW p, NEW a, NEW mp, Is(m, q, s, d, c, p, a, mp),
         NEW e \in [Thread -> Nat], NEW x, Good(q, s, d, c, p, a, mp, e, x),
         NEW t \in a, e[t] # 0, e[t] = 1 => Owned(q, p, t),
         NEW e2, e2 = [e EXCEPT ![t] = e[t] - 1]
  PROVE  GoodCounts(thread_put(m, t), q, s, d, p, a, mp, e2, x)
<1> DEFINE c2 == [c EXCEPT ![t] = c[t] - 1]
<1>1. a \in SUBSET Thread /\ c \in [Thread -> Int] /\ t \in Thread
  BY IsFields DEF Typed
<1>2. c[t] # 1
  <2> DEFINE k0 == Cardinality(Kids(p, a, t))
             i == One(Queued(q, t))
             j == One(Owned(q, p, t))
  <2>1. c[t] = e[t] + i + j + k0
    BY DEF Good, Counted
  <2>2. k0 \in Nat /\ e[t] \in Nat
    BY <1>1, KidsFinite
  <2>3. (i = 0 \/ i = 1) /\ (j = 0 \/ j = 1) /\ (e[t] = 1 => j = 1)
    BY DEF One
  <2> HIDE DEF k0, i, j
  <2> QED
    BY <2>1, <2>2, <2>3
<1>3. Is(thread_put(m, t), q, s, d, c2, p, a, mp)
  BY <1>1, <1>2, IsPut
<1>4. Counted(q, c2, p, a, e2)
  <2>1. ASSUME NEW v \in a
        PROVE  c2[v] = e2[v] + One(Queued(q, v)) + One(Owned(q, p, v)) + Cardinality(Kids(p, a, v))
    <3> DEFINE k0 == Cardinality(Kids(p, a, v))
               i == One(Queued(q, v))
               j == One(Owned(q, p, v))
    <3>1. c[v] = e[v] + i + j + k0
      BY DEF Good, Counted
    <3>2. k0 \in Nat /\ e[v] \in Nat /\ (i = 0 \/ i = 1) /\ (j = 0 \/ j = 1)
      BY <1>1, KidsFinite DEF One
    <3>3. /\ c2[v] = IF v = t THEN c[v] - 1 ELSE c[v]
          /\ e2[v] = IF v = t THEN e[v] - 1 ELSE e[v]
      BY <1>1
    <3> HIDE DEF k0, i, j, c2
    <3>4. c2[v] = e2[v] + i + j + k0
      BY <3>1, <3>2, <3>3
    <3> QED
      BY <3>4 DEF k0, i, j
  <2> QED
    BY <2>1 DEF Counted
<1> HIDE DEF c2
<1>5. Good(q, s, d, c2, p, a, mp, e2, x)
  BY <1>4 DEF Good
<1> QED
  BY <1>3, <1>5 DEF GoodCounts

\* The threads outside mp and x are held by structures of kernel memory only.
Unheld(e, mp, x) == \A z \in Thread : z \notin mp /\ z \notin x => e[z] = 0

\* The memory n is good, and the threads in the map have kept their states s.
StatesKept(n, s, d, mp, e, x) ==
  \E q2, s2, c2, p2, a2 :
    /\ Is(n, q2, s2, d, c2, p2, a2, mp) /\ Good(q2, s2, d, c2, p2, a2, mp, e, x)
    /\ \A v \in mp : s2[v] = s[v]

\* The end of thread_wait: a zombie, if there is one, and the caller's own
\* reference are put.
LEMMA WaitFinished ==
  ASSUME NEW m, NEW q, NEW s, NEW d, NEW c, NEW p, NEW a, NEW mp, Is(m, q, s, d, c, p, a, mp),
         NEW e \in [Thread -> Nat], NEW x, Good(q, s, d, c, p, a, mp, e, x),
         NEW t \in mp, t \notin x, e[t] = 3, Unheld(e, mp, x),
         NEW e2, e2 = [e EXCEPT ![t] = 2]
  PROVE  StatesKept(FinishWait(m, t), s, d, mp, e2, x)
<1>1. t \in Thread /\ mp \subseteq Thread /\ q \in [Heads -> SUBSET Thread]
      /\ Zombies(t) \in Heads
  BY IsFields, HeadsAre DEF Typed
<1> DEFINE z == Q_GET_FRONT(m, Zombies(t))
           n == IF z = NULL THEN m
                ELSE thread_put(Q_REMOVE(m, Zombies(t), z, "child_link"), z)
<1>2. FinishWait(m, t) = thread_put(n, t)
  BY DEF FinishWait
<1>3. PICK q2, s2, c2, p2, a2 :
        /\ Is(n, q2, s2, d, c2, p2, a2, mp) /\ Good(q2, s2, d, c2, p2, a2, mp, e, x)
        /\ \A v \in mp : s2[v] = s[v]
  <2>1. CASE q[Zombies(t)] = {}
    <3>1. n = m
      BY <1>1, <2>1, IsFront
    <3> HIDE DEF n
    <3> QED
      BY <3>1
  <2>2. CASE q[Zombies(t)] # {}
    <3>1. z \in q[Zombies(t)] /\ z # NULL
      BY <1>1, <2>2, IsFront
    <3>2. z \in Thread /\ z \notin mp /\ z \notin x
      BY <1>1, <3>1 DEF Good, Family, Waits
    <3>3. e[z] = 0 /\ e[t] # 0
      BY <3>2 DEF Unheld
    <3>4. n = thread_put(Q_REMOVE(m, Zombies(t), z, "child_link"), z)
      BY <3>1
    <3> HIDE DEF z, n
    <3>5. GoodBut(n, [q EXCEPT ![Zombies(t)] = q[Zombies(t)] \ {z}], s, d, mp, e, x, {z})
      <4>1. GoodBut(thread_put(Q_REMOVE(m, Zombies(t), z, "child_link"), z),
                    [q EXCEPT ![Zombies(t)] = q[Zombies(t)] \ {z}], s, d, mp, e, x, {z})
        BY <1>1, <3>1, <3>3, ZombiePut
      <4> QED
        BY <3>4, <4>1
    <3>6. \A v \in mp : v \in Thread \ {z}
      BY <1>1, <3>2
    <3> QED
      BY <3>5, <3>6 DEF GoodBut
  <2> QED
    BY <2>1, <2>2
<1> HIDE DEF n
<1>4. t \in a2 /\ e[t] # 0 /\ e2 = [e EXCEPT ![t] = e[t] - 1]
  BY <1>3 DEF Good, Agrees
<1>5. GoodCounts(thread_put(n, t), q2, s2, d, p2, a2, mp, e2, x)
  <2>1. e[t] = 1 => Owned(q2, p2, t)
    OBVIOUS
  <2> QED
    BY <1>3, <1>4, <2>1, HeldPut
<1> QED
  BY <1>2, <1>3, <1>5 DEF GoodCounts, StatesKept

-----------------------------------------------------------------------------
(* What the steps do to the invariant. *)

\* A tick only brings deadlines closer.
LEMMA GoodTicked ==
  ASSUME NEW q, NEW s, NEW d, NEW c, NEW p, NEW a, NEW mp, NEW e, NEW x,
         Good(q, s, d, c, p, a, mp, e, x),
         NEW d2, d2 = [t \in Thread |-> IF d[t] > 0 THEN d[t] - 1 ELSE 0]
  PROVE  Good(q, s, d2, c, p, a, mp, e, x)
<1>1. Waits(q, d, mp, x)
  BY DEF Good
<1>2. \A t \in Thread : d[t] = 0 => d2[t] = 0
  OBVIOUS
<1>3. Waits(q, d2, mp, x)
  BY <1>1, <1>2 DEF Waits
<1> QED
  BY <1>3 DEF Good

\* The lists of children are not touched.
SameKin(q, q2) ==
  \A v \in Thread : q2[Children(v)] = q[Children(v)] /\ q2[Zombies(v)] = q[Zombies(v)]

\* What the lists of children say does not change with other queues.
LEMMA KinKept ==
  ASSUME NEW q, NEW q2, SameKin(q, q2), NEW p, NEW a \in SUBSET Thread, NEW mp, Family(q, p, a, mp)
  PROVE  Family(q2, p, a, mp) /\ \A v \in a : One(Owned(q2, p, v)) = One(Owned(q, p, v))
<1>1. \A v \in a : p[v] \in Thread \cup {NULL}
  BY DEF Family
<1>2. ASSUME NEW v \in a, v \in mp, p[v] # NULL
      PROVE  v \in q2[Children(p[v])]
  BY <1>1, <1>2 DEF Family, SameKin
<1>3. ASSUME NEW v \in Thread, NEW u \in Thread
      PROVE  /\ v \in q2[Children(u)] \/ v \in q2[Zombies(u)] => p[v] = u
             /\ v \in q2[Zombies(u)] => v \notin mp
  BY DEF Family, SameKin
<1>4. Family(q2, p, a, mp)
  BY <1>2, <1>3 DEF Family
<1>5. ASSUME NEW v \in a
      PROVE  One(Owned(q2, p, v)) = One(Owned(q, p, v))
  <2>1. Owned(q2, p, v) <=> Owned(q, p, v)
    BY <1>1 DEF Owned, SameKin
  <2> QED
    BY <2>1 DEF One
<1> QED
  BY <1>4, <1>5

\* No thread is on both kinds of wait list.
OneWaitList(q) == \A v \in Thread : v \in q[SleepQ] => v \notin q[SelfWait(v)]

\* Some sleepers are woken.
LEMMA GoodAwake ==
  ASSUME NEW q \in [Heads -> SUBSET Thread], NEW s \in [Thread -> States], NEW d, NEW c, NEW p,
         NEW a \in SUBSET Thread, NEW mp, NEW e, NEW x, Good(q, s, d, c, p, a, mp, e, x),
         OneWaitList(q), NEW W \in SUBSET q[SleepQ], NEW q2, q2 = Woken(q, SleepQ, W),
         NEW s2, s2 = Runnable(s, W)
  PROVE  Good(q2, s2, d, c, p, a, mp, e, x)
<1> USE DEF OneWaitList
<1>1. /\ q2[RunQ] = q[RunQ] \cup W /\ q2[SleepQ] = q[SleepQ] \ W /\ q2[DoneQ] = q[DoneQ]
      /\ \A v \in Thread : /\ q2[SelfWait(v)] = q[SelfWait(v)] /\ q2[Children(v)] = q[Children(v)]
                           /\ q2[Zombies(v)] = q[Zombies(v)]
      /\ \A h \in Heads : q2[h] \subseteq q[h] \cup W
  BY HeadsAre DEF Woken
<1>2. \A v \in Thread : s2[v] = IF v \in W THEN "RUNNABLE" ELSE s[v]
  BY DEF Runnable
<1>3. W \subseteq a /\ IdleThread \notin W /\ SleepQ \in Heads
  BY HeadsAre DEF Good, Placed
<1>4. \A v \in W : v \in a \ {IdleThread} /\ s[v] = "WAITING" /\ v \in mp /\ v \notin q[RunQ]
  BY <1>3 DEF Good, Agrees
<1>5. Placed(q2, a)
  <2>1. Placed(q, a)
    BY DEF Good
  <2>2. \A h \in Heads : q2[h] \subseteq a /\ IdleThread \notin q2[h]
    BY <1>1, <1>3, <2>1 DEF Placed
  <2> QED
    BY <1>1, <2>1, <2>2 DEF Placed
<1>6. Agrees(q2, s2, a, mp)
  <2>1. Agrees(q, s, a, mp)
    BY DEF Good
  <2>2. s2[IdleThread] = "RUNNABLE"
    BY <1>2, <1>3, <2>1, ThreadAssumption DEF Agrees
  <2>3. ASSUME NEW v \in a \ {IdleThread}
        PROVE  /\ s2[v] = "RUNNABLE" <=> v \in q2[RunQ]
               /\ s2[v] = "WAITING" <=> v \in q2[SleepQ] \/ v \in q2[SelfWait(v)]
    BY <1>1, <1>2, <1>4, <2>1 DEF Agrees
  <2>4. ASSUME NEW v \in a
        PROVE  /\ s2[v] \in {"RUNNABLE", "WAITING", "SUSPENDED", "ZOMBIE", "DONE"}
               /\ v \in mp <=> s2[v] \in {"RUNNABLE", "WAITING", "SUSPENDED"}
    BY <1>2, <1>4, <2>1 DEF Agrees
  <2> QED
    BY <2>1, <2>2, <2>3, <2>4 DEF Agrees
<1>7. Family(q2, p, a, mp) /\ \A v \in a : One(Owned(q2, p, v)) = One(Owned(q, p, v))
  <2>1. Family(q, p, a, mp) /\ SameKin(q, q2)
    BY <1>1 DEF Good, SameKin
  <2> QED
    BY <2>1, KinKept
<1>8. Counted(q2, c, p, a, e)
  <2>1. Counted(q, c, p, a, e)
    BY DEF Good
  <2>2. ASSUME NEW v \in a
        PROVE  One(Queued(q2, v)) = One(Queued(q, v))
    <3>1. Queued(q2, v) <=> Queued(q, v)
      BY <1>1 DEF Queued
    <3> QED
      BY <3>1 DEF One
  <2> QED
    BY <1>7, <2>1, <2>2 DEF Counted
<1>9. Waits(q2, d, mp, x)
  <2>1. Waits(q, d, mp, x) /\ x \subseteq Thread
    BY DEF Good, Waits, Agrees
  <2> QED
    BY <1>1, <2>1 DEF Waits
<1> QED
  BY <1>5, <1>6, <1>7, <1>8, <1>9 DEF Good

\* A living thread that does not wait is on no wait list, and on the run queue
\* when it is runnable.
LEMMA AwakeIs ==
  ASSUME NEW q, NEW s, NEW d, NEW c, NEW p, NEW a \in SUBSET Thread, NEW mp, NEW e, NEW x,
         Good(q, s, d, c, p, a, mp, e, x), NEW t \in mp, s[t] # "WAITING", t # IdleThread
  PROVE  /\ t \in a /\ t \in Thread /\ t \notin q[SleepQ] /\ t \notin q[DoneQ]
         /\ s[t] = "RUNNABLE" <=> t \in q[RunQ]
         /\ s[t] = "RUNNABLE" \/ s[t] = "SUSPENDED"
         /\ \A v \in Thread : t \notin q[SelfWait(v)]
<1>1. t \in a /\ t \in Thread
  BY DEF Good, Agrees
<1>2. t \notin q[SleepQ] /\ t \notin q[SelfWait(t)]
  BY <1>1 DEF Good, Agrees
<1>3. s[t] = "RUNNABLE" <=> t \in q[RunQ]
  BY <1>1 DEF Good, Agrees
<1>4. s[t] = "RUNNABLE" \/ s[t] = "SUSPENDED"
  BY <1>1 DEF Good, Agrees
<1> QED
  BY <1>1, <1>2, <1>3, <1>4 DEF Good, Placed

\* What is known of a thread that can run.
LEMMA RunnerIs ==
  ASSUME NEW q, NEW s, NEW d, NEW c, NEW p, NEW a \in SUBSET Thread, NEW mp, NEW e, NEW x,
         Good(q, s, d, c, p, a, mp, e, x), NEW t \in mp, s[t] = "RUNNABLE", t # IdleThread
  PROVE  /\ t \in a /\ t \in Thread /\ t \in q[RunQ] /\ t \notin q[SleepQ] /\ t \notin q[DoneQ]
         /\ \A v \in Thread : t \notin q[SelfWait(v)]
<1>1. t \in a /\ t \in Thread
  BY DEF Good, Agrees
<1>2. t \in q[RunQ] /\ t \notin q[SleepQ] /\ t \notin q[SelfWait(t)]
  BY <1>1 DEF Good, Agrees
<1> QED
  BY <1>1, <1>2 DEF Good, Placed

\* From q to q2 the thread t goes from the run queue to the sleep queue.
FallsAsleep(q, q2, t) ==
  /\ q2[RunQ] = q[RunQ] \ {t} /\ q2[SleepQ] = q[SleepQ] \cup {t} /\ q2[DoneQ] = q[DoneQ]
  /\ \A v \in Thread : q2[SelfWait(v)] = q[SelfWait(v)]
  /\ SameKin(q, q2)
  /\ \A h \in Heads : q2[h] \subseteq q[h] \cup {t}

\* The two macros of sched_wait_on for sleep.
LEMMA FallsAsleepIs ==
  ASSUME NEW q \in [Heads -> SUBSET Thread], NEW t
  PROVE  FallsAsleep(q, [q EXCEPT ![RunQ] = q[RunQ] \ {t}, ![SleepQ] = q[SleepQ] \cup {t}], t)
BY HeadsAre DEF FallsAsleep, SameKin

\* Only the entry of t differs, and is y.
Stored1(f, g, t, y) == \A v \in Thread : g[v] = IF v = t THEN y ELSE f[v]

\* A runnable thread goes to sleep.
LEMMA GoodAsleep ==
  ASSUME NEW q \in [Heads -> SUBSET Thread], NEW s \in [Thread -> States],
         NEW d, NEW c, NEW p,
         NEW a \in SUBSET Thread, NEW mp, NEW e, NEW x, Good(q, s, d, c, p, a, mp, e, x),
         NEW t \in mp, s[t] = "RUNNABLE", t # IdleThread, SomeoneBlocks, NEW y \in Nat,
         NEW q2, FallsAsleep(q, q2, t), NEW s2, Stored1(s, s2, t, "WAITING"),
         NEW d2, Stored1(d, d2, t, y)
  PROVE  Good(q2, s2, d2, c, p, a, mp, e, x)
<1>1. /\ q2[RunQ] = q[RunQ] \ {t} /\ q2[SleepQ] = q[SleepQ] \cup {t} /\ q2[DoneQ] = q[DoneQ]
      /\ \A v \in Thread : /\ q2[SelfWait(v)] = q[SelfWait(v)] /\ q2[Children(v)] = q[Children(v)]
                           /\ q2[Zombies(v)] = q[Zombies(v)]
      /\ \A h \in Heads : q2[h] \subseteq q[h] \cup {t}
  BY DEF FallsAsleep, SameKin
<1>2. /\ t \in a /\ t \in Thread /\ t \in q[RunQ] /\ t \notin q[SleepQ]
      /\ \A v \in Thread : t \notin q[SelfWait(v)]
  BY RunnerIs
<1>3. /\ \A v \in Thread : s2[v] = IF v = t THEN "WAITING" ELSE s[v]
      /\ \A v \in Thread : v # t => d2[v] = d[v]
  BY DEF Stored1
<1>4. Placed(q2, a)
  <2>1. Placed(q, a)
    BY DEF Good
  <2>2. \A h \in Heads : q2[h] \subseteq a /\ IdleThread \notin q2[h]
    BY <1>1, <1>2, <2>1 DEF Placed
  <2> QED
    BY <1>1, <2>1, <2>2 DEF Placed
<1>5. Agrees(q2, s2, a, mp)
  <2>1. Agrees(q, s, a, mp)
    BY DEF Good
  <2>2. s2[IdleThread] = "RUNNABLE"
    BY <1>3, <2>1, ThreadAssumption DEF Agrees
  <2>3. ASSUME NEW v \in a \ {IdleThread}
        PROVE  /\ s2[v] = "RUNNABLE" <=> v \in q2[RunQ]
               /\ s2[v] = "WAITING" <=> v \in q2[SleepQ] \/ v \in q2[SelfWait(v)]
    BY <1>1, <1>2, <1>3, <2>1 DEF Agrees
  <2>4. ASSUME NEW v \in a
        PROVE  /\ s2[v] \in {"RUNNABLE", "WAITING", "SUSPENDED", "ZOMBIE", "DONE"}
               /\ v \in mp <=> s2[v] \in {"RUNNABLE", "WAITING", "SUSPENDED"}
    BY <1>2, <1>3, <2>1 DEF Agrees
  <2> QED
    BY <2>1, <2>2, <2>3, <2>4 DEF Agrees
<1>6. Family(q2, p, a, mp) /\ \A v \in a : One(Owned(q2, p, v)) = One(Owned(q, p, v))
  <2>1. Family(q, p, a, mp) /\ SameKin(q, q2)
    BY <1>1 DEF Good, SameKin
  <2> QED
    BY <2>1, KinKept
<1>7. Counted(q2, c, p, a, e)
  <2>1. Counted(q, c, p, a, e)
    BY DEF Good
  <2>2. ASSUME NEW v \in a
        PROVE  One(Queued(q2, v)) = One(Queued(q, v))
    <3>1. Queued(q2, v) <=> Queued(q, v)
      BY <1>1, <1>2 DEF Queued
    <3> QED
      BY <3>1 DEF One
  <2> QED
    BY <1>6, <2>1, <2>2 DEF Counted
<1>8. Waits(q2, d2, mp, x)
  <2>1. Waits(q, d, mp, x) /\ x \subseteq Thread
    BY DEF Good, Waits, Agrees
  <2> QED
    BY <1>1, <1>2, <1>3, <2>1 DEF Waits
<1> QED
  BY <1>4, <1>5, <1>6, <1>7, <1>8 DEF Good

\* From q to q2 the thread t comes onto the run queue, or leaves it.
RunsOnly(q, q2, t) ==
  /\ q2[SleepQ] = q[SleepQ] /\ q2[DoneQ] = q[DoneQ]
  /\ \A v \in Thread : v # t => (v \in q2[RunQ] <=> v \in q[RunQ])
  /\ \A v \in Thread : q2[SelfWait(v)] = q[SelfWait(v)]
  /\ SameKin(q, q2)
  /\ \A h \in Heads : q2[h] \subseteq q[h] \cup {t}

\* The two macros of cas2i_runflag.
LEMMA RunsOnlyIs ==
  ASSUME NEW q \in [Heads -> SUBSET Thread], NEW t \in Thread
  PROVE  /\ RunsOnly(q, [q EXCEPT ![RunQ] = q[RunQ] \ {t}], t)
         /\ RunsOnly(q, [q EXCEPT ![RunQ] = q[RunQ] \cup {t}], t)
BY HeadsAre DEF RunsOnly, SameKin

\* y is the state of a thread on the run queue, or of a suspended one.
FlagFits(q, t, y) ==
  \/ y = "RUNNABLE" /\ t \in q[RunQ]
  \/ y = "SUSPENDED" /\ t \notin q[RunQ]

\* A thread that does not wait is suspended or runs again; the run queue's
\* reference to it comes and goes with its place there.
LEMMA GoodFlagged ==
  ASSUME NEW q \in [Heads -> SUBSET Thread], NEW s \in [Thread -> States],
         NEW d, NEW c \in [Thread -> Int], NEW p,
         NEW a \in SUBSET Thread, NEW mp, NEW e, NEW x, Good(q, s, d, c, p, a, mp, e, x),
         NEW t \in mp, s[t] # "WAITING", t # IdleThread, NEW y,
         NEW q2, RunsOnly(q, q2, t), NEW s2, Stored1(s, s2, t, y),
         FlagFits(q2, t, y),
         NEW c2, Stored1(c, c2, t, c[t] - One(t \in q[RunQ]) + One(t \in q2[RunQ])),
         e \in [Thread -> Nat]
  PROVE  Good(q2, s2, d, c2, p, a, mp, e, x)
<1>1. /\ q2[SleepQ] = q[SleepQ] /\ q2[DoneQ] = q[DoneQ]
      /\ \A v \in Thread : v # t => (v \in q2[RunQ] <=> v \in q[RunQ])
      /\ \A v \in Thread : /\ q2[SelfWait(v)] = q[SelfWait(v)] /\ q2[Children(v)] = q[Children(v)]
                           /\ q2[Zombies(v)] = q[Zombies(v)]
      /\ \A h \in Heads : q2[h] \subseteq q[h] \cup {t}
  BY DEF RunsOnly, SameKin
<1>2. /\ t \in a /\ t \in Thread /\ t \notin q[SleepQ]
      /\ \A v \in Thread : t \notin q[SelfWait(v)]
  BY AwakeIs
<1>3. /\ \A v \in Thread : s2[v] = IF v = t THEN y ELSE s[v]
      /\ y = "RUNNABLE" \/ y = "SUSPENDED"
      /\ y = "RUNNABLE" <=> t \in q2[RunQ]
  BY DEF Stored1, FlagFits
<1>4. Placed(q2, a)
  <2>1. Placed(q, a)
    BY DEF Good
  <2>2. \A h \in Heads : q2[h] \subseteq a /\ IdleThread \notin q2[h]
    BY <1>1, <1>2, <2>1 DEF Placed
  <2> QED
    BY <1>1, <2>1, <2>2 DEF Placed
<1>5. Agrees(q2, s2, a, mp)
  <2>1. Agrees(q, s, a, mp)
    BY DEF Good
  <2>2. s2[IdleThread] = "RUNNABLE"
    BY <1>3, <2>1, ThreadAssumption DEF Agrees
  <2>3. ASSUME NEW v \in a \ {IdleThread}
        PROVE  /\ s2[v] = "RUNNABLE" <=> v \in q2[RunQ]
               /\ s2[v] = "WAITING" <=> v \in q2[SleepQ] \/ v \in q2[SelfWait(v)]
    BY <1>1, <1>2, <1>3, <2>1 DEF Agrees
  <2>4. ASSUME NEW v \in a
        PROVE  /\ s2[v] \in {"RUNNABLE", "WAITING", "SUSPENDED", "ZOMBIE", "DONE"}
               /\ v \in mp <=> s2[v] \in {"RUNNABLE", "WAITING", "SUSPENDED"}
    BY <1>2, <1>3, <2>1 DEF Agrees
  <2> QED
    BY <2>1, <2>2, <2>3, <2>4 DEF Agrees
<1>6. Family(q2, p, a, mp) /\ \A v \in a : One(Owned(q2, p, v)) = One(Owned(q, p, v))
  <2>1. Family(q, p, a, mp) /\ SameKin(q, q2)
    BY <1>1 DEF Good, SameKin
  <2> QED
    BY <2>1, KinKept
<1>7. Counted(q2, c2, p, a, e)
  <2>1. Counted(q, c, p, a, e)
    BY DEF Good
  <2>2. ASSUME NEW v \in a
        PROVE  c2[v] = e[v] + One(Queued(q2, v)) + One(Owned(q2, p, v)) + Cardinality(Kids(p, a, v))
    <3> DEFINE kids == Cardinality(Kids(p, a, v))
               owned == One(Owned(q, p, v))
    <3>1. kids \in Nat /\ owned \in Nat /\ e[v] \in Nat /\ v \in Thread
      BY KidsFinite DEF One
    <3>2. c[v] = e[v] + One(Queued(q, v)) + owned + kids
      BY <2>1 DEF Counted
    <3>3. One(Owned(q2, p, v)) = owned
      BY <1>6
    <3> HIDE DEF kids, owned
    <3>4. CASE v = t
      <4>1. (Queued(q, v) <=> v \in q[RunQ]) /\ (Queued(q2, v) <=> v \in q2[RunQ])
        BY <1>1, <1>2, <3>4 DEF Queued
      <4>2. One(Queued(q, v)) = One(v \in q[RunQ]) /\ One(Queued(q2, v)) = One(v \in q2[RunQ])
        BY <4>1 DEF One
      <4>3. c2[v] = c[v] - One(v \in q[RunQ]) + One(v \in q2[RunQ])
        BY <3>1, <3>4 DEF Stored1
      <4> DEFINE i == One(v \in q[RunQ])
                 j == One(v \in q2[RunQ])
      <4>4. i \in Nat /\ j \in Nat
        BY DEF One
      <4>5. c[v] = e[v] + i + owned + kids /\ c2[v] = c[v] - i + j
        BY <3>2, <4>2, <4>3
      <4>6. One(Queued(q2, v)) = j
        BY <4>2
      <4> HIDE DEF i, j
      <4>7. c2[v] = e[v] + j + owned + kids
        BY <3>1, <4>4, <4>5
      <4> QED
        BY <3>3, <4>6, <4>7 DEF kids
    <3>5. CASE v # t
      <4>1. Queued(q, v) <=> Queued(q2, v)
        BY <1>1, <3>1, <3>5 DEF Queued
      <4>2. One(Queued(q, v)) = One(Queued(q2, v)) /\ c2[v] = c[v]
        BY <3>1, <3>5, <4>1 DEF One, Stored1
      <4> QED
        BY <3>2, <3>3, <4>2 DEF kids
    <3> QED
      BY <3>4, <3>5
  <2> QED
    BY <2>2 DEF Counted
<1>8. Waits(q2, d, mp, x)
  <2>1. Waits(q, d, mp, x) /\ x \subseteq Thread
    BY DEF Good, Waits, Agrees
  <2> QED
    BY <1>1, <2>1 DEF Waits
<1> QED
  BY <1>4, <1>5, <1>6, <1>7, <1>8 DEF Good

\* From q to q2 the thread t goes from the run queue to its self_wait_list.
FallsWaiting(q, q2, t) ==
  /\ q2[RunQ] = q[RunQ] \ {t} /\ q2[SleepQ] = q[SleepQ] /\ q2[DoneQ] = q[DoneQ]
  /\ \A v \in Thread : q2[SelfWait(v)] = IF v = t THEN q[SelfWait(v)] \cup {t} ELSE q[SelfWait(v)]
  /\ SameKin(q, q2)
  /\ \A h \in Heads : q2[h] \subseteq q[h] \cup {t}

\* The two macros of sched_wait_on for thread_wait.
LEMMA FallsWaitingIs ==
  ASSUME NEW q \in [Heads -> SUBSET Thread], NEW t \in Thread
  PROVE  FallsWaiting(q, [q EXCEPT ![RunQ] = q[RunQ] \ {t},
                                   ![SelfWait(t)] = q[SelfWait(t)] \cup {t}], t)
<1> DEFINE r == [q EXCEPT ![RunQ] = q[RunQ] \ {t}, ![SelfWait(t)] = q[SelfWait(t)] \cup {t}]
<1>1. \A h \in Heads : r[h] = IF h = SelfWait(t) THEN q[h] \cup {t}
                              ELSE IF h = RunQ THEN q[h] \ {t} ELSE q[h]
  BY HeadsAre
<1> HIDE DEF r
<1>2. /\ r[RunQ] = q[RunQ] \ {t} /\ r[SleepQ] = q[SleepQ] /\ r[DoneQ] = q[DoneQ]
      /\ \A h \in Heads : r[h] \subseteq q[h] \cup {t}
  BY <1>1, HeadsAre
<1>3. ASSUME NEW v \in Thread
      PROVE  /\ r[SelfWait(v)] = IF v = t THEN q[SelfWait(v)] \cup {t} ELSE q[SelfWait(v)]
             /\ r[Children(v)] = q[Children(v)] /\ r[Zombies(v)] = q[Zombies(v)]
  BY <1>1, HeadsAre
<1> QED
  BY <1>2, <1>3 DEF FallsWaiting, SameKin, r

\* A runnable thread with a child and without a zombie blocks in thread_wait.
LEMMA GoodInWait ==
  ASSUME NEW q \in [Heads -> SUBSET Thread], NEW s \in [Thread -> States],
         NEW d, NEW c \in [Thread -> Int], NEW p,
         NEW a \in SUBSET Thread, NEW mp, NEW e \in [Thread -> Nat], NEW x,
         Good(q, s, d, c, p, a, mp, e, x),
         NEW t \in mp, s[t] = "RUNNABLE", t # IdleThread, SomeoneBlocks,
         q[Children(t)] # {}, q[Zombies(t)] = {},
         NEW q2, FallsWaiting(q, q2, t), NEW s2, Stored1(s, s2, t, "WAITING"),
         NEW d2, Stored1(d, d2, t, 0), NEW c2, Stored1(c, c2, t, c[t] + 1),
         NEW e2, Stored1(e, e2, t, e[t] + 1), NEW x2, x2 = x \cup {t}
  PROVE  Good(q2, s2, d2, c2, p, a, mp, e2, x2)
<1>1. /\ q2[RunQ] = q[RunQ] \ {t} /\ q2[SleepQ] = q[SleepQ] /\ q2[DoneQ] = q[DoneQ]
      /\ \A v \in Thread : /\ q2[Children(v)] = q[Children(v)] /\ q2[Zombies(v)] = q[Zombies(v)]
                           /\ q2[SelfWait(v)] = IF v = t THEN q[SelfWait(v)] \cup {t}
                                                ELSE q[SelfWait(v)]
      /\ \A h \in Heads : q2[h] \subseteq q[h] \cup {t}
  BY DEF FallsWaiting, SameKin
<1>2. /\ t \in a /\ t \in Thread /\ t \in q[RunQ] /\ t \notin q[SleepQ]
      /\ \A v \in Thread : t \notin q[SelfWait(v)]
  BY RunnerIs
<1>3. /\ \A v \in Thread : s2[v] = IF v = t THEN "WAITING" ELSE s[v]
      /\ \A v \in Thread : d2[v] = IF v = t THEN 0 ELSE d[v]
  BY DEF Stored1
<1>4. Placed(q2, a)
  <2>1. Placed(q, a)
    BY DEF Good
  <2>2. \A h \in Heads : q2[h] \subseteq a /\ IdleThread \notin q2[h]
    BY <1>1, <1>2, <2>1 DEF Placed
  <2>3. ASSUME NEW v \in Thread
        PROVE  q2[SelfWait(v)] \subseteq {v}
    <3>1. q[SelfWait(v)] \subseteq {v}
      BY <2>1 DEF Placed
    <3>2. q2[SelfWait(v)] = IF v = t THEN q[SelfWait(v)] \cup {t} ELSE q[SelfWait(v)]
      BY <1>1
    <3> QED
      BY <3>1, <3>2
  <2>4. \A v \in Thread \ a : q2[SelfWait(v)] = {} /\ q2[Children(v)] = {} /\ q2[Zombies(v)] = {}
    BY <1>1, <1>2, <2>1 DEF Placed
  <2>5. q2[DoneQ] = {}
    BY <1>1, <2>1 DEF Placed
  <2> QED
    BY <2>2, <2>3, <2>4, <2>5 DEF Placed
<1>5. Agrees(q2, s2, a, mp)
  <2>1. Agrees(q, s, a, mp)
    BY DEF Good
  <2>2. s2[IdleThread] = "RUNNABLE"
    BY <1>3, <2>1, ThreadAssumption DEF Agrees
  <2>3. ASSUME NEW v \in a \ {IdleThread}
        PROVE  /\ s2[v] = "RUNNABLE" <=> v \in q2[RunQ]
               /\ s2[v] = "WAITING" <=> v \in q2[SleepQ] \/ v \in q2[SelfWait(v)]
    <3>1. CASE v = t
      <4>1. s2[v] = "WAITING" /\ v \notin q2[RunQ] /\ v \in q2[SelfWait(v)]
        BY <1>1, <1>2, <1>3, <3>1
      <4> QED
        BY <4>1
    <3>2. CASE v # t
      <4>1. /\ s2[v] = s[v] /\ q2[SelfWait(v)] = q[SelfWait(v)] /\ q2[SleepQ] = q[SleepQ]
            /\ v \in q2[RunQ] <=> v \in q[RunQ]
        BY <1>1, <1>3, <3>2
      <4> QED
        BY <2>1, <4>1 DEF Agrees
    <3> QED
      BY <3>1, <3>2
  <2>4. ASSUME NEW v \in a
        PROVE  /\ s2[v] \in {"RUNNABLE", "WAITING", "SUSPENDED", "ZOMBIE", "DONE"}
               /\ v \in mp <=> s2[v] \in {"RUNNABLE", "WAITING", "SUSPENDED"}
    BY <1>2, <1>3, <2>1 DEF Agrees
  <2> QED
    BY <2>1, <2>2, <2>3, <2>4 DEF Agrees
<1>6. Family(q2, p, a, mp) /\ \A v \in a : One(Owned(q2, p, v)) = One(Owned(q, p, v))
  <2>1. Family(q, p, a, mp) /\ SameKin(q, q2)
    BY <1>1 DEF Good, SameKin
  <2> QED
    BY <2>1, KinKept
<1>7. Counted(q2, c2, p, a, e2)
  <2>1. ASSUME NEW v \in a
        PROVE  c2[v] = e2[v] + One(Queued(q2, v)) + One(Owned(q2, p, v)) + Cardinality(Kids(p, a, v))
    <3>1. Queued(q2, v) <=> Queued(q, v)
      BY <1>1, <1>2 DEF Queued
    <3> DEFINE k0 == Cardinality(Kids(p, a, v))
               i == One(Queued(q, v))
               j == One(Owned(q, p, v))
    <3>2. c[v] = e[v] + i + j + k0
      BY DEF Good, Counted
    <3>3. k0 \in Nat /\ e[v] \in Nat /\ (i = 0 \/ i = 1) /\ (j = 0 \/ j = 1)
      BY KidsFinite DEF One
    <3>4. /\ c2[v] = IF v = t THEN c[v] + 1 ELSE c[v]
          /\ e2[v] = IF v = t THEN e[v] + 1 ELSE e[v]
      BY DEF Stored1
    <3>5. One(Queued(q2, v)) = i /\ One(Owned(q2, p, v)) = j
      BY <1>6, <3>1 DEF One
    <3> HIDE DEF k0, i, j
    <3>6. c2[v] = e2[v] + i + j + k0
      BY <3>2, <3>3, <3>4
    <3> QED
      BY <3>5, <3>6 DEF k0
  <2> QED
    BY <2>1 DEF Counted
<1>8. Waits(q2, d2, mp, x2)
  <2>1. Waits(q, d, mp, x) /\ x \subseteq Thread
    BY DEF Good, Waits, Agrees
  <2> QED
    BY <1>1, <1>2, <1>3, <2>1 DEF Waits
<1> QED
  BY <1>4, <1>5, <1>6, <1>7, <1>8 DEF Good

\* From q to q2 the new thread t is a child of u and on the run queue.
Born(q, q2, t, u) ==
  /\ q2[RunQ] = q[RunQ] \cup {t} /\ q2[SleepQ] = q[SleepQ] /\ q2[DoneQ] = q[DoneQ]
  /\ \A v \in Thread :
       /\ q2[SelfWait(v)] = q[SelfWait(v)] /\ q2[Zombies(v)] = q[Zombies(v)]
       /\ q2[Children(v)] = IF v = u THEN q[Children(v)] \cup {t} ELSE q[Children(v)]
  /\ \A h \in Heads : q2[h] \subseteq q[h] \cup {t}

\* The two insertions of fork: the parent's list and the run queue.
LEMMA BornIs ==
  ASSUME NEW q \in [Heads -> SUBSET Thread], NEW u \in Thread, NEW t
  PROVE  Born(q, [q EXCEPT ![Children(u)] = q[Children(u)] \cup {t},
                           ![RunQ] = q[RunQ] \cup {t}], t, u)
<1> DEFINE r == [q EXCEPT ![Children(u)] = q[Children(u)] \cup {t}, ![RunQ] = q[RunQ] \cup {t}]
<1>1. \A h \in Heads : r[h] = IF h = Children(u) \/ h = RunQ THEN q[h] \cup {t} ELSE q[h]
  BY HeadsAre
<1> HIDE DEF r
<1>2. /\ r[RunQ] = q[RunQ] \cup {t} /\ r[SleepQ] = q[SleepQ] /\ r[DoneQ] = q[DoneQ]
      /\ \A h \in Heads : r[h] \subseteq q[h] \cup {t}
  BY <1>1, HeadsAre
<1>3. ASSUME NEW v \in Thread
      PROVE  /\ r[SelfWait(v)] = q[SelfWait(v)] /\ r[Zombies(v)] = q[Zombies(v)]
             /\ r[Children(v)] = IF v = u THEN q[Children(v)] \cup {t} ELSE q[Children(v)]
  BY <1>1, HeadsAre
<1> QED
  BY <1>2, <1>3 DEF Born, r

\* A new thread t, the child of u, is allocated, mapped and on the run queue.
LEMMA GoodBorn ==
  ASSUME NEW q \in [Heads -> SUBSET Thread], NEW s, NEW d, NEW c \in [Thread -> Int],
         NEW p \in [Thread -> Ptr], NEW a \in SUBSET Thread, NEW mp, NEW e \in [Thread -> Nat],
         NEW x, Good(q, s, d, c, p, a, mp, e, x), NEW t \in Thread, t \notin a, NEW u \in mp,
         NEW q2, Born(q, q2, t, u), NEW s2, Stored1(s, s2, t, "RUNNABLE"),
         NEW d2, Stored1(d, d2, t, 0), NEW c2,
         \A v \in Thread : c2[v] = IF v = t THEN 4 ELSE IF v = u THEN c[u] + 1 ELSE c[v],
         NEW p2, Stored1(p, p2, t, u), NEW e2, Stored1(e, e2, t, 2)
  PROVE  Good(q2, s2, d2, c2, p2, a \cup {t}, mp \cup {t}, e2, x)
<1>1. /\ q2[RunQ] = q[RunQ] \cup {t} /\ q2[SleepQ] = q[SleepQ] /\ q2[DoneQ] = q[DoneQ]
      /\ \A v \in Thread :
           /\ q2[SelfWait(v)] = q[SelfWait(v)] /\ q2[Zombies(v)] = q[Zombies(v)]
           /\ q2[Children(v)] = IF v = u THEN q[Children(v)] \cup {t} ELSE q[Children(v)]
      /\ \A h \in Heads : q2[h] \subseteq q[h] \cup {t}
  BY DEF Born
<1>2. u \in a /\ u \in Thread /\ u # t /\ t # IdleThread /\ t # NULL /\ u # NULL /\ t \notin mp
  <2>1. mp \subseteq a /\ IdleThread \in a
    BY DEF Good, Agrees
  <2> QED
    BY <2>1, ThreadAssumption
<1>3. \A h \in Heads : t \notin q[h]
  BY DEF Good, Placed
<1>4. /\ t \notin q[SleepQ] /\ q[SelfWait(t)] = {} /\ q[Children(t)] = {} /\ q[Zombies(t)] = {}
      /\ t \notin q[RunQ]
      /\ \A v \in Thread : t \notin q[Children(v)] /\ t \notin q[Zombies(v)]
  BY <1>3, HeadsAre DEF Good, Placed
<1>5. \A v \in Thread : /\ s2[v] = IF v = t THEN "RUNNABLE" ELSE s[v]
                        /\ d2[v] = IF v = t THEN 0 ELSE d[v]
                        /\ p2[v] = IF v = t THEN u ELSE p[v]
                        /\ e2[v] = IF v = t THEN 2 ELSE e[v]
  BY DEF Stored1
<1>6. ASSUME NEW z \in Thread, NEW v, v # t
       PROVE  v \in q2[Children(z)] <=> v \in q[Children(z)]
  <2>1. q2[Children(z)] = IF z = u THEN q[Children(z)] \cup {t} ELSE q[Children(z)]
    BY <1>1
  <2> QED
    BY <1>6, <2>1
<1> DEFINE a2 == a \cup {t}
           mp2 == mp \cup {t}
<1>7. a2 \subseteq Thread /\ t \in a2 /\ t \in mp2
  OBVIOUS
<1>8. \A v \in Thread : /\ v \in a2 <=> v \in a \/ v = t
                        /\ v \in mp2 <=> v \in mp \/ v = t
  OBVIOUS
<1> HIDE DEF a2, mp2
<1>9. Placed(q2, a2)
  <2>1. Placed(q, a) /\ a \subseteq a2
    BY DEF Good, a2
  <2>2. \A h \in Heads : q2[h] \subseteq a2 /\ IdleThread \notin q2[h]
    BY <1>1, <1>2, <1>7, <2>1 DEF Placed
  <2>3. \A v \in Thread \ a2 : q2[SelfWait(v)] = {} /\ q2[Children(v)] = {} /\ q2[Zombies(v)] = {}
    BY <1>1, <1>2, <1>8, <2>1 DEF Placed
  <2> QED
    BY <1>1, <2>1, <2>2, <2>3 DEF Placed
<1>10. Agrees(q2, s2, a2, mp2)
  <2>1. Agrees(q, s, a, mp)
    BY DEF Good
  <2>2. s2[IdleThread] = "RUNNABLE" /\ IdleThread \in mp2 /\ mp2 \subseteq a2
    BY <1>2, <1>5, <1>8, <2>1, ThreadAssumption DEF Agrees, mp2, a2
  <2>3. ASSUME NEW v \in a2 \ {IdleThread}
        PROVE  /\ s2[v] = "RUNNABLE" <=> v \in q2[RunQ]
               /\ s2[v] = "WAITING" <=> v \in q2[SleepQ] \/ v \in q2[SelfWait(v)]
    <3>1. CASE v = t
      <4>1. s2[v] = "RUNNABLE" /\ v \in q2[RunQ] /\ v \notin q2[SelfWait(v)] /\ v \notin q2[SleepQ]
        BY <1>1, <1>4, <1>5, <3>1
      <4> QED
        BY <4>1
    <3>2. CASE v # t
      <4>1. /\ s2[v] = s[v] /\ q2[SelfWait(v)] = q[SelfWait(v)] /\ q2[SleepQ] = q[SleepQ]
            /\ v \in q2[RunQ] <=> v \in q[RunQ]
            /\ v \in a \ {IdleThread}
        BY <1>1, <1>5, <1>7, <1>8, <3>2
      <4> QED
        BY <2>1, <4>1 DEF Agrees
    <3> QED
      BY <3>1, <3>2
  <2>4. ASSUME NEW v \in a2
        PROVE  /\ s2[v] \in {"RUNNABLE", "WAITING", "SUSPENDED", "ZOMBIE", "DONE"}
               /\ v \in mp2 <=> s2[v] \in {"RUNNABLE", "WAITING", "SUSPENDED"}
    <3>1. CASE v = t
      BY <1>5, <1>7, <3>1
    <3>2. CASE v # t
      <4>1. s2[v] = s[v] /\ v \in a /\ (v \in mp2 <=> v \in mp)
        BY <1>5, <1>7, <1>8, <3>2
      <4> QED
        BY <2>1, <4>1 DEF Agrees
    <3> QED
      BY <3>1, <3>2
  <2> QED
    BY <2>2, <2>3, <2>4 DEF Agrees
<1>11. Family(q2, p2, a2, mp2)
  <2>1. Family(q, p, a, mp)
    BY DEF Good
  <2>2. ASSUME NEW v \in a2
        PROVE  /\ p2[v] \in a2 \cup {NULL} /\ p2[v] # v
               /\ p2[v] = NULL => v \in {IdleThread, InitThread}
               /\ v \in mp2 /\ p2[v] # NULL => v \in q2[Children(p2[v])]
    <3>1. CASE v = t
      <4>1. p2[v] = u /\ v \in q2[Children(u)]
        BY <1>1, <1>2, <1>5, <3>1
      <4> QED
        BY <1>2, <1>8, <3>1, <4>1
    <3>2. CASE v # t
      <4>1. p2[v] = p[v] /\ v \in a /\ (v \in mp2 <=> v \in mp)
        BY <1>5, <1>7, <1>8, <3>2
      <4>2. \A z \in Thread : q[Children(z)] \subseteq q2[Children(z)]
        BY <1>1
      <4> QED
        BY <1>8, <2>1, <4>1, <4>2 DEF Family
    <3> QED
      BY <3>1, <3>2
  <2>3. ASSUME NEW v \in Thread, NEW z \in Thread
        PROVE  /\ v \in q2[Children(z)] \/ v \in q2[Zombies(z)] => p2[v] = z
               /\ v \in q2[Zombies(z)] => v \notin mp2
    <3>1. CASE v = t
      BY <1>1, <1>4, <1>5, <3>1
    <3>2. CASE v # t
      <4>1. p2[v] = p[v] /\ (v \in mp2 <=> v \in mp) /\ q2[Zombies(z)] = q[Zombies(z)]
        BY <1>1, <1>5, <1>8, <3>2
      <4>2. v \in q2[Children(z)] <=> v \in q[Children(z)]
        BY <1>6, <3>2
      <4> QED
        BY <2>1, <4>1, <4>2 DEF Family
    <3> QED
      BY <3>1, <3>2
  <2> QED
    BY <2>2, <2>3 DEF Family
<1>12. Counted(q2, c2, p2, a2, e2)
  <2>1. \A v \in a : p[v] \in a \cup {NULL}
    BY DEF Good, Family
  <2>2. ASSUME NEW v \in a, v # t
        PROVE  c2[v] = e2[v] + One(Queued(q2, v)) + One(Owned(q2, p2, v))
                         + Cardinality(Kids(p2, a2, v))
    <3>1. v \in Thread /\ p2[v] = p[v] /\ (p[v] \in Thread \/ p[v] = NULL)
      BY <1>5, <2>1, <2>2
    <3>2. Queued(q2, v) <=> Queued(q, v)
      BY <1>1, <2>2, <3>1 DEF Queued
    <3>3. Owned(q2, p2, v) <=> Owned(q, p, v)
      <4>1. CASE p[v] = NULL
        BY <3>1, <4>1 DEF Owned
      <4>2. CASE p[v] \in Thread
        <5>1. v \in q2[Children(p[v])] <=> v \in q[Children(p[v])]
          BY <1>6, <2>2, <4>2
        <5>2. q2[Zombies(p[v])] = q[Zombies(p[v])]
          BY <1>1, <4>2
        <5> QED
          BY <3>1, <5>1, <5>2 DEF Owned
      <4> QED
        BY <3>1, <4>1, <4>2
    <3>4. Kids(p2, a2, v) = IF v = u THEN Kids(p, a, v) \cup {t} ELSE Kids(p, a, v)
      BY <1>2, <1>5, <1>7, <1>8 DEF Kids
    <3>5. t \notin Kids(p, a, v) /\ IsFiniteSet(Kids(p, a, v))
      <4>1. IsFiniteSet(Kids(p, a, v))
        BY KidsFinite
      <4>2. t \notin Kids(p, a, v)
        BY DEF Kids
      <4> QED
        BY <4>1, <4>2
    <3>6. Cardinality(Kids(p, a, v) \cup {t}) = Cardinality(Kids(p, a, v)) + 1
      BY <3>5, FS_AddElement
    <3> DEFINE n == Cardinality(Kids(p, a, v))
               i == One(Queued(q, v))
               j == One(Owned(q, p, v))
    <3>7. c[v] = e[v] + i + j + n
      BY DEF Good, Counted
    <3>8. n \in Nat /\ e[v] \in Nat /\ (i = 0 \/ i = 1) /\ (j = 0 \/ j = 1)
      BY <3>1, KidsFinite DEF One
    <3>9. One(Queued(q2, v)) = i /\ One(Owned(q2, p2, v)) = j
      BY <3>2, <3>3 DEF One
    <3>10. Cardinality(Kids(p2, a2, v)) = IF v = u THEN n + 1 ELSE n
      BY <3>4, <3>6
    <3>11. e2[v] = e[v] /\ c2[v] = IF v = u THEN c[v] + 1 ELSE c[v]
      BY <1>5, <2>2, <3>1
    <3> HIDE DEF n, i, j
    <3> QED
      BY <3>7, <3>8, <3>9, <3>10, <3>11
  <2>3. c2[t] = e2[t] + One(Queued(q2, t)) + One(Owned(q2, p2, t)) + Cardinality(Kids(p2, a2, t))
    <3>1. Queued(q2, t) /\ Owned(q2, p2, t)
      BY <1>1, <1>2, <1>5 DEF Queued, Owned
    <3>2. Kids(p2, a2, t) = {}
      <4>1. ASSUME NEW v \in a2
            PROVE  p2[v] # t
        BY <1>2, <1>5, <1>7, <1>8, <2>1
      <4> QED
        BY <4>1 DEF Kids
    <3>3. Cardinality({}) = 0
      BY FS_EmptySet
    <3> QED
      BY <1>5, <3>1, <3>2, <3>3 DEF One
  <2> QED
    BY <1>7, <1>8, <2>2, <2>3 DEF Counted
<1>13. Waits(q2, d2, mp2, x)
  <2>1. Waits(q, d, mp, x) /\ x \subseteq Thread
    BY DEF Good, Waits, Agrees
  <2>2. ASSUME NEW v \in x
        PROVE  v \in mp2 /\ (v \in q2[SelfWait(v)] \/ q2[Zombies(v)] # {})
    BY <1>1, <1>8, <2>1 DEF Waits
  <2>3. ASSUME NEW v \in Thread, v \in q2[SelfWait(v)]
        PROVE  v \in x /\ d2[v] = 0 /\ q2[Children(v)] # {} /\ q2[Zombies(v)] = {}
    <3>1. v # t /\ v \in q[SelfWait(v)]
      BY <1>1, <1>4, <2>3
    <3>2. d2[v] = d[v] /\ q[Children(v)] \subseteq q2[Children(v)] /\ q2[Zombies(v)] = q[Zombies(v)]
      BY <1>1, <1>5, <3>1
    <3> QED
      BY <2>1, <3>1, <3>2 DEF Waits
  <2> QED
    BY <1>1, <2>1, <2>2, <2>3 DEF Waits
<1> QED
  BY <1>9, <1>10, <1>11, <1>12, <1>13 DEF Good, a2, mp2

\* From q to q2 the thread t vanishes, and the threads in W, which wait for a
\* child of its parent u, wake up.
Vanished(q, q2, t, u, W) ==
  /\ q2[RunQ] = (q[RunQ] \ {t}) \cup W /\ q2[SleepQ] = q[SleepQ] /\ q2[DoneQ] = q[DoneQ]
  /\ \A v \in Thread :
       /\ v = u => /\ q2[SelfWait(v)] = {} /\ q2[Children(v)] = q[Children(v)] \ {t}
                   /\ q2[Zombies(v)] = q[Zombies(v)] \cup {t}
       /\ v # u => /\ q2[SelfWait(v)] = q[SelfWait(v)] /\ q2[Children(v)] = q[Children(v)]
                   /\ q2[Zombies(v)] = q[Zombies(v)]
  /\ \A h \in Heads : q2[h] \subseteq q[h] \cup {t} \cup W

\* From s to s2 the threads in W wake up and t becomes a zombie.
WokenBy(s, s2, t, W) ==
  \A v \in Thread : s2[v] = IF v \in W THEN "RUNNABLE" ELSE IF v = t THEN "ZOMBIE" ELSE s[v]

\* A thread that does not wait becomes a zombie of its parent; its task's reference to
\* it is put later.
LEMMA GoodVanished ==
  ASSUME NEW q \in [Heads -> SUBSET Thread], NEW s, NEW d, NEW c \in [Thread -> Int],
         NEW p \in [Thread -> Ptr], NEW a \in SUBSET Thread, NEW mp, NEW e \in [Thread -> Nat],
         NEW x, Good(q, s, d, c, p, a, mp, e, x),
         OneWaitList(q), NEW t \in mp, s[t] # "WAITING", t # IdleThread, t \notin x, e[t] = 2,
         NEW u \in a, p[t] = u, NEW W, W = q[SelfWait(u)],
         NEW q2, Vanished(q, q2, t, u, W), NEW s2, WokenBy(s, s2, t, W),
         NEW c2, Stored1(c, c2, t, c[t] - 1 - One(t \in q[RunQ])), NEW e2, Stored1(e, e2, t, 1)
  PROVE  Good(q2, s2, d, c2, p, a, mp \ {t}, e2, x)
<1> USE DEF WokenBy, OneWaitList
<1>1. /\ q2[RunQ] = (q[RunQ] \ {t}) \cup W /\ q2[SleepQ] = q[SleepQ] /\ q2[DoneQ] = q[DoneQ]
      /\ \A v \in Thread :
           v # u => /\ q2[SelfWait(v)] = q[SelfWait(v)] /\ q2[Children(v)] = q[Children(v)]
                    /\ q2[Zombies(v)] = q[Zombies(v)]
      /\ \A h \in Heads : q2[h] \subseteq q[h] \cup {t} \cup W
  BY DEF Vanished
<1>2. /\ t \in a /\ t \in Thread /\ t \notin q[SleepQ] /\ t \notin q[DoneQ]
      /\ \A v \in Thread : t \notin q[SelfWait(v)]
  BY AwakeIs
<1>3. /\ u \in Thread /\ u # NULL /\ t \in q[Children(u)] /\ t # u
  <2>1. u \in Thread /\ u # NULL
    BY ThreadAssumption
  <2> QED
    BY <1>2, <2>1 DEF Good, Family
<1>4. /\ q2[SelfWait(u)] = {} /\ q2[Children(u)] = q[Children(u)] \ {t}
      /\ q2[Zombies(u)] = q[Zombies(u)] \cup {t}
  BY <1>3 DEF Vanished
<1>5. W \subseteq {u} /\ IdleThread \notin W /\ t \notin W
  BY <1>2, <1>3, HeadsAre DEF Good, Placed
<1>6. \A v \in W : /\ v = u /\ v \in a /\ s[v] = "WAITING" /\ v \in mp /\ v \notin q[RunQ]
                   /\ v \notin q[SleepQ] /\ v \in q[SelfWait(v)] /\ v # IdleThread
  <2>1. ASSUME NEW v \in W
        PROVE  /\ v = u /\ v \in a /\ s[v] = "WAITING" /\ v \in mp /\ v \notin q[RunQ]
               /\ v \notin q[SleepQ] /\ v \in q[SelfWait(v)] /\ v # IdleThread
    <3>1. v = u /\ v \in q[SelfWait(v)] /\ v # IdleThread /\ v \in a /\ v \in Thread
      BY <1>3, <1>5
    <3>2. s[v] = "WAITING" /\ v \notin q[SleepQ]
      BY <3>1 DEF Good, Agrees
    <3>3. v \in mp /\ v \notin q[RunQ]
      BY <3>1, <3>2 DEF Good, Agrees
    <3> QED
      BY <3>1, <3>2, <3>3
  <2> QED
    BY <2>1
<1> DEFINE mp2 == mp \ {t}
<1>7. mp2 \subseteq mp /\ t \notin mp2 /\ \A v \in Thread : v # t => (v \in mp2 <=> v \in mp)
  OBVIOUS
<1> HIDE DEF mp2
<1>8. Placed(q2, a)
  <2>1. Placed(q, a)
    BY DEF Good
  <2>2. \A h \in Heads : q2[h] \subseteq a /\ IdleThread \notin q2[h]
    <3>1. W \subseteq a /\ IdleThread # t
      BY <1>6
    <3> QED
      BY <1>1, <1>2, <1>5, <2>1, <3>1 DEF Placed
  <2>3. ASSUME NEW v \in Thread
        PROVE  q2[SelfWait(v)] \subseteq {v}
    <3>1. CASE v = u
      BY <1>4, <3>1
    <3>2. CASE v # u
      BY <1>1, <2>1, <3>2 DEF Placed
    <3> QED
      BY <3>1, <3>2
  <2>4. \A v \in Thread \ a : q2[SelfWait(v)] = {} /\ q2[Children(v)] = {} /\ q2[Zombies(v)] = {}
    BY <1>1, <2>1 DEF Placed
  <2>5. q2[DoneQ] = {}
    BY <1>1, <2>1 DEF Placed
  <2> QED
    BY <2>2, <2>3, <2>4, <2>5 DEF Placed
<1>9. Agrees(q2, s2, a, mp2)
  <2>1. Agrees(q, s, a, mp)
    BY DEF Good
  <2>2. s2[IdleThread] = "RUNNABLE" /\ IdleThread \in mp2 /\ mp2 \subseteq a
    BY <1>5, <1>7, <2>1, ThreadAssumption DEF Agrees
  <2>3. ASSUME NEW v \in a \ {IdleThread}
        PROVE  /\ s2[v] = "RUNNABLE" <=> v \in q2[RunQ]
               /\ s2[v] = "WAITING" <=> v \in q2[SleepQ] \/ v \in q2[SelfWait(v)]
    <3>1. CASE v \in W
      <4>1. /\ s2[v] = "RUNNABLE" /\ v \in q2[RunQ] /\ v \notin q2[SleepQ]
            /\ v \notin q2[SelfWait(v)]
        BY <1>1, <1>4, <1>6, <3>1
      <4> QED
        BY <4>1
    <3>2. CASE v = t
      <4>1. /\ s2[v] = "ZOMBIE" /\ v \notin q2[RunQ] /\ v \notin q2[SleepQ]
            /\ v \notin q2[SelfWait(v)]
        BY <1>1, <1>2, <1>3, <1>5, <3>2
      <4> QED
        BY <4>1
    <3>3. CASE v # t /\ v \notin W
      <4>1. /\ s2[v] = s[v] /\ (v \in q2[RunQ] <=> v \in q[RunQ]) /\ q2[SleepQ] = q[SleepQ]
        BY <1>1, <3>3
      <4>2. v \in q2[SelfWait(v)] <=> v \in q[SelfWait(v)]
        <5>1. CASE v = u
          BY <1>4, <3>3, <5>1
        <5>2. CASE v # u
          BY <1>1, <5>2
        <5> QED
          BY <5>1, <5>2
      <4> QED
        BY <2>1, <4>1, <4>2 DEF Agrees
    <3> QED
      BY <3>1, <3>2, <3>3
  <2>4. ASSUME NEW v \in a
        PROVE  /\ s2[v] \in {"RUNNABLE", "WAITING", "SUSPENDED", "ZOMBIE", "DONE"}
               /\ v \in mp2 <=> s2[v] \in {"RUNNABLE", "WAITING", "SUSPENDED"}
    <3>1. CASE v \in W
      BY <1>5, <1>6, <1>7, <3>1
    <3>2. CASE v = t
      BY <1>2, <1>5, <1>7, <3>2
    <3>3. CASE v # t /\ v \notin W
      <4>1. s2[v] = s[v] /\ (v \in mp2 <=> v \in mp)
        BY <1>7, <3>3
      <4> QED
        BY <2>1, <4>1 DEF Agrees
    <3> QED
      BY <3>1, <3>2, <3>3
  <2> QED
    BY <2>2, <2>3, <2>4 DEF Agrees
<1>10. \A v, z \in Thread :
         /\ v # t => (v \in q2[Children(z)] <=> v \in q[Children(z)])
                     /\ (v \in q2[Zombies(z)] <=> v \in q[Zombies(z)])
         /\ v \in q2[Children(z)] => v \in q[Children(z)]
         /\ v = t => (v \in q2[Zombies(z)] => z = u \/ v \in q[Zombies(z)])
  <2>1. ASSUME NEW v \in Thread, NEW z \in Thread
        PROVE  /\ v # t => (v \in q2[Children(z)] <=> v \in q[Children(z)])
                           /\ (v \in q2[Zombies(z)] <=> v \in q[Zombies(z)])
               /\ v \in q2[Children(z)] => v \in q[Children(z)]
               /\ v = t => (v \in q2[Zombies(z)] => z = u \/ v \in q[Zombies(z)])
    <3>1. CASE z = u
      BY <1>4, <3>1
    <3>2. CASE z # u
      BY <1>1, <3>2
    <3> QED
      BY <3>1, <3>2
  <2> QED
    BY <2>1
<1>11. Family(q2, p, a, mp2)
  <2>1. Family(q, p, a, mp)
    BY DEF Good
  <2>2. ASSUME NEW v \in a, v \in mp2, p[v] # NULL
        PROVE  v \in q2[Children(p[v])]
    <3>1. v # t /\ v \in mp /\ p[v] \in Thread
      BY <1>7, <2>1, <2>2 DEF Family
    <3> QED
      BY <1>10, <2>1, <2>2, <3>1 DEF Family
  <2>3. ASSUME NEW v \in Thread, NEW z \in Thread
        PROVE  /\ v \in q2[Children(z)] \/ v \in q2[Zombies(z)] => p[v] = z
               /\ v \in q2[Zombies(z)] => v \notin mp2
    BY <1>7, <1>10, <2>1 DEF Family
  <2> QED
    BY <2>1, <2>2, <2>3 DEF Family
<1>12. Counted(q2, c2, p, a, e2)
  <2>1. \A v \in a : p[v] \in a \cup {NULL}
    BY DEF Good, Family
  <2>2. ASSUME NEW v \in a
        PROVE  c2[v] = e2[v] + One(Queued(q2, v)) + One(Owned(q2, p, v)) + Cardinality(Kids(p, a, v))
    <3>1. Owned(q2, p, v) <=> Owned(q, p, v)
      <4>1. CASE v = t
        BY <1>3, <1>4, <4>1 DEF Owned
      <4>2. CASE v # t
        BY <1>10, <2>1, <4>2 DEF Owned
      <4> QED
        BY <4>1, <4>2
    <3>2. /\ v = t => (Queued(q, v) <=> t \in q[RunQ]) /\ ~Queued(q2, v)
          /\ v # t => (Queued(q2, v) <=> Queued(q, v))
      <4>1. CASE v = t
        <5>1. t \notin q2[RunQ] /\ t \notin q2[SleepQ] /\ t \notin q2[SelfWait(t)]
          BY <1>1, <1>2, <1>3, <1>5
        <5> QED
          BY <1>2, <4>1, <5>1 DEF Queued
      <4>2. CASE v # t /\ v \in W
        BY <1>1, <1>6, <4>2 DEF Queued
      <4>3. CASE v # t /\ v \notin W
        <5>1. v \in q2[SelfWait(v)] <=> v \in q[SelfWait(v)]
          <6>1. CASE v = u
            BY <1>4, <4>3, <6>1
          <6>2. CASE v # u
            BY <1>1, <6>2
          <6> QED
            BY <6>1, <6>2
        <5> QED
          BY <1>1, <4>3, <5>1 DEF Queued
      <4> QED
        BY <4>1, <4>2, <4>3
    <3> DEFINE n == Cardinality(Kids(p, a, v))
               i == One(Queued(q, v))
               j == One(Owned(q, p, v))
               i2 == One(Queued(q2, v))
               j2 == One(Owned(q2, p, v))
    <3>3. c[v] = e[v] + i + j + n
      BY DEF Good, Counted
    <3>4. n \in Nat /\ e[v] \in Nat /\ (i = 0 \/ i = 1) /\ (j = 0 \/ j = 1) /\ c[v] \in Int
      BY KidsFinite DEF One
    <3>5. j2 = j /\ (v = t => i = One(t \in q[RunQ]) /\ i2 = 0) /\ (v # t => i2 = i)
      BY <3>1, <3>2 DEF One
    <3>6. /\ v = t => c2[v] = c[v] - 1 - One(t \in q[RunQ]) /\ e2[v] = 1 /\ e[v] = 2
          /\ v # t => c2[v] = c[v] /\ e2[v] = e[v]
      BY DEF Stored1
    <3> HIDE DEF n, i, j, i2, j2
    <3>7. c2[v] = e2[v] + i2 + j2 + n
      BY <3>3, <3>4, <3>5, <3>6
    <3> QED
      BY <3>7 DEF n, i2, j2
  <2> QED
    BY <2>2 DEF Counted
<1>13. Waits(q2, d, mp2, x)
  <2>1. Waits(q, d, mp, x) /\ x \subseteq Thread
    BY DEF Good, Waits, Agrees
  <2>2. ASSUME NEW v \in x
        PROVE  v \in mp2 /\ (v \in q2[SelfWait(v)] \/ q2[Zombies(v)] # {})
    <3>1. v \in mp2 /\ v \in Thread
      BY <1>7, <2>1 DEF Waits
    <3>2. CASE v = u
      BY <1>4, <3>1, <3>2
    <3>3. CASE v # u
      BY <1>1, <2>1, <3>1, <3>3 DEF Waits
    <3> QED
      BY <3>2, <3>3
  <2>3. ASSUME NEW v \in Thread, v \in q2[SelfWait(v)]
        PROVE  v \in x /\ d[v] = 0 /\ q2[Children(v)] # {} /\ q2[Zombies(v)] = {}
    <3>1. v # u
      BY <1>4, <2>3
    <3> QED
      BY <1>1, <2>1, <2>3, <3>1 DEF Waits
  <2> QED
    BY <1>1, <2>1, <2>2, <2>3 DEF Waits
<1> QED
  BY <1>8, <1>9, <1>11, <1>12, <1>13 DEF Good, mp2

\* The queues that the stores of a vanishing thread leave.
LEMMA VanishedIs ==
  ASSUME NEW q \in [Heads -> SUBSET Thread], NEW t \in Thread, NEW u \in Thread, t \notin q[RunQ],
         NEW q1, q1 \in [Heads -> SUBSET Thread],
         \A h \in Heads : q1[h] = IF h = Zombies(u) THEN q[h] \cup {t}
                                  ELSE IF h = Children(u) THEN q[h] \ {t} ELSE q[h],
         NEW W, W = q[SelfWait(u)], NEW q0, q0 \in [Heads -> SUBSET Thread],
         q = [q0 EXCEPT ![RunQ] = q0[RunQ] \ {t}],
         NEW q2, q2 = Woken(q1, SelfWait(u), W)
  PROVE  Vanished(q0, q2, t, u, W)
<1>1. \A h \in Heads : q[h] = IF h = RunQ THEN q0[h] \ {t} ELSE q0[h]
  OBVIOUS
<1>2. \A h \in Heads : q2[h] = IF h = SelfWait(u) THEN q1[h] \ W
                               ELSE IF h = RunQ THEN q1[h] \cup W ELSE q1[h]
  BY DEF Woken
<1>3. /\ q2[RunQ] = (q0[RunQ] \ {t}) \cup W /\ q2[SleepQ] = q0[SleepQ] /\ q2[DoneQ] = q0[DoneQ]
  BY <1>1, <1>2, HeadsAre
<1>4. /\ q2[SelfWait(u)] = {} /\ q2[Children(u)] = q0[Children(u)] \ {t}
      /\ q2[Zombies(u)] = q0[Zombies(u)] \cup {t}
  <2>1. q1[SelfWait(u)] = W /\ q2[SelfWait(u)] = q1[SelfWait(u)] \ W
    BY <1>2, HeadsAre
  <2>2. q2[Children(u)] = q1[Children(u)] /\ q2[Zombies(u)] = q1[Zombies(u)]
    BY <1>2, HeadsAre
  <2>3. q1[Children(u)] = q[Children(u)] \ {t} /\ q1[Zombies(u)] = q[Zombies(u)] \cup {t}
    BY HeadsAre
  <2>4. q[Children(u)] = q0[Children(u)] /\ q[Zombies(u)] = q0[Zombies(u)]
    BY <1>1, HeadsAre
  <2> QED
    BY <2>1, <2>2, <2>3, <2>4
<1>5. ASSUME NEW v \in Thread, v # u
      PROVE  /\ q2[SelfWait(v)] = q0[SelfWait(v)] /\ q2[Children(v)] = q0[Children(v)]
             /\ q2[Zombies(v)] = q0[Zombies(v)]
  <2>1. ASSUME NEW h \in Heads, h # RunQ, h # SelfWait(u), h # Children(u), h # Zombies(u)
        PROVE  q2[h] = q0[h]
    BY <1>1, <1>2, <2>1
  <2> QED
    BY <1>5, <2>1, HeadsAre
<1>6. \A h \in Heads : q2[h] \subseteq q0[h] \cup {t} \cup W
  <2>1. \A h \in Heads : q1[h] \subseteq q0[h] \cup {t}
    BY <1>1
  <2>2. ASSUME NEW h \in Heads
        PROVE  q2[h] \subseteq q1[h] \cup W
    <3>1. q2[h] = q1[h] \ W \/ q2[h] = q1[h] \cup W \/ q2[h] = q1[h]
      BY <1>2
    <3> QED
      BY <3>1
  <2> QED
    BY <2>1, <2>2
<1> QED
  BY <1>3, <1>4, <1>5, <1>6 DEF Vanished

\* The threads in W can be woken.
MayWake(q, s, d, W) == \A v \in W : s[v] = "WAITING" /\ v \notin q[RunQ] /\ d[v] = 0

\* The memory n is the one that a vanishing thread t leaves.
Vanishing(n, q, s, d, c, p, a, mp, t, u, W) ==
  \E q2, s2, c2 :
    /\ Is(n, q2, s2, d, c2, p, a, mp \ {t}) /\ Vanished(q, q2, t, u, W)
    /\ WokenBy(s, s2, t, W) /\ Stored1(c, c2, t, c[t] - 1 - One(t \in q[RunQ]))

\* thread_vanish_noyield up to the parent's part.
Unqueued(m, t) ==
  LET unmapped == sched_remove_thread(m, t)
  IN  CASE unmapped.state[t] = "RUNNABLE" -> sched_remove_runnable_thread(unmapped, t)
        [] unmapped.state[t] = "WAITING"  -> sched_remove_waiting_thread(unmapped, t)
        [] OTHER -> unmapped

\* A vanishing thread leaves the map and, when it is runnable, the run queue.
LEMMA IsUnqueued ==
  ASSUME NEW m, NEW q, NEW s, NEW d, NEW c, NEW p, NEW a, NEW mp, Is(m, q, s, d, c, p, a, mp),
         NEW t \in Thread, s[t] = "RUNNABLE" <=> t \in q[RunQ],
         s[t] = "RUNNABLE" \/ s[t] = "SUSPENDED",
         c[t] - 1 # 0, NEW r, r = c[t] - 1 - One(t \in q[RunQ]), r # 0
  PROVE  Is(Unqueued(m, t), [q EXCEPT ![RunQ] = q[RunQ] \ {t}], s, d, [c EXCEPT ![t] = r], p, a,
            mp \ {t})
<1> DEFINE m1 == [m EXCEPT !.map = mp \ {t}]
           m2 == thread_put(m1, t)
           m3 == Q_REMOVE(m2, RunQ, t, "runnable_link")
           c1 == [c EXCEPT ![t] = c[t] - 1]
           c2 == [c1 EXCEPT ![t] = c1[t] - 1]
           q3 == [q EXCEPT ![RunQ] = q[RunQ] \ {t}]
<1>1. /\ m.map = mp /\ mp \subseteq Thread /\ c \in [Thread -> Int] /\ s \in [Thread -> States]
      /\ q \in [Heads -> SUBSET Thread] /\ RunQ \in Heads /\ LinkOf[RunQ] = "runnable_link"
  BY IsFields, HeadsAre DEF Typed
<1>2. Is(m1, q, s, d, c, p, a, mp \ {t})
  BY <1>1, IsMapped
<1>3. sched_remove_thread(m, t) = m2
  BY <1>1 DEF sched_remove_thread
<1> HIDE DEF m1
<1>4. Is(m2, q, s, d, c1, p, a, mp \ {t}) /\ m2.state = s
  <2>1. c[t] # 1
    BY <1>1
  <2>2. Is(m2, q, s, d, c1, p, a, mp \ {t})
    BY <1>1, <1>2, <2>1, IsPut
  <2> HIDE DEF c1, m2
  <2> QED
    BY <2>2, IsFields
<1> HIDE DEF m2
<1>5. c1 \in [Thread -> Int] /\ c1[t] = c[t] - 1
  BY <1>1
<1>6. CASE s[t] = "RUNNABLE"
  <2>1. t \in q[RunQ] /\ r = c[t] - 2 /\ r \in Int
    BY <1>1, <1>6 DEF One
  <2>2. c2 = [c EXCEPT ![t] = r]
    BY <1>1, <1>5, <2>1
  <2> HIDE DEF c1
  <2>3. Is(m3, q3, s, d, c1, p, a, mp \ {t})
    BY <1>1, <1>4, <2>1, IsRemoved
  <2> HIDE DEF m3, q3
  <2>4. Is(thread_put(m3, t), q3, s, d, c2, p, a, mp \ {t})
    <3>1. c1[t] # 1
      BY <1>1, <1>5, <2>1
    <3> QED
      BY <1>1, <2>3, <3>1, IsPut
  <2>5. Unqueued(m, t) = thread_put(m3, t)
    BY <1>3, <1>4, <1>6 DEF Unqueued, sched_remove_runnable_thread, m3
  <2> QED
    BY <2>2, <2>4, <2>5 DEF q3
<1>7. CASE s[t] = "SUSPENDED"
  <2>1. t \notin q[RunQ] /\ r = c[t] - 1
    BY <1>1, <1>7 DEF One
  <2>2. q3 = q /\ c1 = [c EXCEPT ![t] = r]
    BY <1>1, <2>1
  <2>3. Unqueued(m, t) = m2
    BY <1>3, <1>4, <1>7 DEF Unqueued
  <2> QED
    BY <1>4, <2>2, <2>3
<1> QED
  BY <1>6, <1>7

\* A vanishing thread leaves the map and the run queue, becomes a zombie of
\* its parent u, and wakes the threads W that wait for a child of u.
LEMMA IsVanishing ==
  ASSUME NEW m, NEW q, NEW s, NEW d, NEW c, NEW p, NEW a, NEW mp, Is(m, q, s, d, c, p, a, mp),
         NEW t \in Thread, s[t] = "RUNNABLE" <=> t \in q[RunQ],
         s[t] = "RUNNABLE" \/ s[t] = "SUSPENDED", t \notin q[DoneQ],
         c[t] - 1 # 0, NEW r, r = c[t] - 1 - One(t \in q[RunQ]), r # 0,
         NEW u \in Thread, p[t] = u, u # t, t \in q[Children(u)],
         NEW W, W = q[SelfWait(u)], q[DoneQ] = {}, MayWake(q, s, d, W),
         NEW n, n = BecomeZombie(Unqueued(m, t), t)
  PROVE  Vanishing(n, q, s, d, c, p, a, mp, t, u, W)
<1> DEFINE m4 == Unqueued(m, t)
           m5 == Move(m4, Children(u), Zombies(u), t, "child_link")
           m6 == [m5 EXCEPT !.state[t] = "ZOMBIE"]
           m7 == sched_wakeup_threads(m6, SelfWait(u))
           c2 == [c EXCEPT ![t] = r]
           q3 == [q EXCEPT ![RunQ] = q[RunQ] \ {t}]
           q5 == [h \in Heads |-> IF h = Zombies(u) THEN q3[h] \cup {t}
                                  ELSE IF h = Children(u) THEN q3[h] \ {t} ELSE q3[h]]
           s6 == [s EXCEPT ![t] = "ZOMBIE"]
           q7 == Woken(q5, SelfWait(u), W)
           s7 == Runnable(s6, W)
<1>1. /\ m.map = mp /\ mp \subseteq Thread /\ c \in [Thread -> Int] /\ s \in [Thread -> States]
      /\ q \in [Heads -> SUBSET Thread] /\ RunQ \in Heads /\ LinkOf[RunQ] = "runnable_link"
      /\ t \in Thread /\ Children(u) \in Heads /\ Zombies(u) \in Heads
      /\ LinkOf[Children(u)] = "child_link" /\ LinkOf[Zombies(u)] = "child_link"
      /\ SelfWait(u) \in Heads /\ LinkOf[SelfWait(u)] = "wait_link"
      /\ Children(u) # RunQ /\ Zombies(u) # RunQ /\ SelfWait(u) # RunQ /\ Children(u) # Zombies(u)
      /\ SelfWait(u) # Children(u) /\ SelfWait(u) # Zombies(u)
  BY IsFields, HeadsAre DEF Typed
<1>2. /\ q3 \in [Heads -> SUBSET Thread] /\ q5 \in [Heads -> SUBSET Thread]
      /\ q3[Children(u)] = q[Children(u)] /\ q3[SelfWait(u)] = W /\ t \notin q3[RunQ]
  BY <1>1
<1>3. Stored1(c, c2, t, c[t] - 1 - One(t \in q[RunQ]))
  BY <1>1 DEF Stored1
<1>4. Is(m4, q3, s, d, c2, p, a, mp \ {t})
  BY IsUnqueued
<1> HIDE DEF m4, c2, q3
<1>5. Is(m5, q5, s, d, c2, p, a, mp \ {t})
  <2>1. MovedTo(q3, q5, Children(u), Zombies(u), t)
    BY <1>1, <1>2 DEF MovedTo
  <2> HIDE DEF q5
  <2> QED
    BY <1>1, <1>2, <1>4, <2>1, IsMoved
<1> HIDE DEF m5
<1>6. Is(m6, q5, s6, d, c2, p, a, mp \ {t})
  <2>1. "ZOMBIE" \in States
    BY DEF States
  <2> HIDE DEF q5
  <2> QED
    BY <1>1, <1>5, <2>1, IsState
<1> HIDE DEF m6
<1>7. WaitList(q5, s6, SelfWait(u)) /\ W = {v \in q5[SelfWait(u)] : d[v] = 0}
  <2> USE DEF MayWake
  <2>1. q5[SelfWait(u)] = W /\ q5[RunQ] \subseteq q[RunQ] /\ q5[DoneQ] \subseteq q[DoneQ]
    BY <1>1, <1>2, HeadsAre DEF q3
  <2>2. \A v \in W : v # t /\ v \in Thread
    BY <1>1
  <2>3. \A v \in W : s6[v] = "WAITING"
    BY <1>1, <2>2
  <2> HIDE DEF q5, s6
  <2> QED
    BY <1>1, <2>1, <2>3 DEF WaitList
<1>8. Is(m7, q7, s7, d, c2, p, a, mp \ {t})
  <2> HIDE DEF q5, s6
  <2> QED
    BY <1>6, <1>7, IsWoken
<1>9. n = m7
  <2>1. m4.parent[t] = u /\ u # NULL
    BY <1>4, IsFields, ThreadAssumption
  <2> QED
    BY <2>1 DEF BecomeZombie, m6, m5, m4
<1> HIDE DEF m7
<1>10. Vanished(q, q7, t, u, W)
  <2>1. \A h \in Heads : q5[h] = IF h = Zombies(u) THEN q3[h] \cup {t}
                                 ELSE IF h = Children(u) THEN q3[h] \ {t} ELSE q3[h]
    OBVIOUS
  <2>2. q3 = [q EXCEPT ![RunQ] = q[RunQ] \ {t}]
    BY DEF q3
  <2> HIDE DEF q5
  <2> QED
    BY <1>1, <1>2, <2>1, <2>2, VanishedIs
<1>11. WokenBy(s, s7, t, W)
  BY <1>1 DEF Runnable, WokenBy
<1> HIDE DEF q7, s7
<1>12. Is(n, q7, s7, d, c2, p, a, mp \ {t})
  BY <1>8, <1>9
<1> QED
  BY <1>3, <1>10, <1>11, <1>12 DEF Vanishing

\* The memory n is good with the deadlines d and the map mp; the threads in S
\* have kept their states s, and t is a zombie.
LeftBy(n, s, d, mp, e, x, t, S) ==
  \E q2, s2, c2, p2, a2 :
    /\ Is(n, q2, s2, d, c2, p2, a2, mp) /\ Good(q2, s2, d, c2, p2, a2, mp, e, x)
    /\ s2[t] = "ZOMBIE" /\ \A v \in S : s2[v] = s[v]

\* The threads that the death of t leaves as they are.
Others(q, s, mp, t) == q[SleepQ] \cup {v \in mp \ {t} : s[v] # "WAITING"}

\* thread_vanish_noyield of a thread that does not wait.
LEMMA ThreadVanished ==
  ASSUME NEW m, NEW q, NEW s, NEW d, NEW c, NEW p, NEW a, NEW mp, Is(m, q, s, d, c, p, a, mp),
         NEW e \in [Thread -> Nat], NEW x, Good(q, s, d, c, p, a, mp, e, x),
         NEW t \in mp, s[t] # "WAITING", t # IdleThread, t \notin x, p[t] # NULL, e[t] = 2,
         \A z \in Thread : z \notin mp => e[z] = 0,
         NEW e2, e2 = [e EXCEPT ![t] = 0]
  PROVE  LeftBy(thread_vanish_noyield(m, t), s, d, mp \ {t}, e2, x, t, Others(q, s, mp, t))
<1>1. /\ m.map = mp /\ mp \subseteq Thread /\ c \in [Thread -> Int] /\ s \in [Thread -> States]
      /\ q \in [Heads -> SUBSET Thread] /\ p \in [Thread -> Ptr] /\ a \in SUBSET Thread
      /\ m.state = s
  BY IsFields DEF Typed
<1>2. /\ t \in a /\ t \in Thread /\ t \notin q[SleepQ] /\ t \notin q[DoneQ]
      /\ s[t] = "RUNNABLE" <=> t \in q[RunQ]
      /\ s[t] = "RUNNABLE" \/ s[t] = "SUSPENDED"
      /\ \A v \in Thread : t \notin q[SelfWait(v)]
  <2>1. a \in SUBSET Thread
    BY <1>1
  <2> QED
    BY <2>1, AwakeIs
<1> DEFINE u == p[t]
           W == q[SelfWait(u)]
           e1 == [e EXCEPT ![t] = 1]
           r == c[t] - 1 - One(t \in q[RunQ])
           n1 == BecomeZombie(Unqueued(m, t), t)
           n2 == ReleaseZombies(n1, t)
<1>3. u \in a /\ u \in Thread /\ u # t /\ t \in q[Children(u)]
  BY <1>1, <1>2 DEF Good, Family
<1>4. OneWaitList(q)
  BY HeadsAre, OnlyThere DEF OneWaitList
<1>5. c[t] - 1 # 0 /\ r # 0
  <2> DEFINE n == Cardinality(Kids(p, a, t))
             i == One(Queued(q, t))
             j == One(Owned(q, p, t))
             h == One(t \in q[RunQ])
  <2>1. c[t] = e[t] + i + j + n
    BY <1>2 DEF Good, Counted
  <2>2. i = h /\ j = 1
    BY <1>2, <1>3 DEF One, Queued, Owned
  <2>3. h \in {0, 1} /\ n \in Nat
    BY <1>1, KidsFinite DEF One
  <2>4. r = c[t] - 1 - h
    OBVIOUS
  <2> HIDE DEF n, i, j, h, r
  <2> QED
    BY <2>1, <2>2, <2>3, <2>4
<1>6. MayWake(q, s, d, W)
  <2>1. ASSUME NEW v \in W
        PROVE  s[v] = "WAITING" /\ v \notin q[RunQ] /\ d[v] = 0
    <3>1. v \in a /\ v # IdleThread /\ v = u
      BY <1>3, HeadsAre DEF Good, Placed
    <3>2. s[v] = "WAITING" /\ d[v] = 0
      BY <1>3, <3>1 DEF Good, Agrees, Waits
    <3> QED
      BY <3>1, <3>2 DEF Good, Agrees
  <2> QED
    BY <2>1 DEF MayWake
<1>7. q[DoneQ] = {}
  BY DEF Good, Placed
<1>8. PICK q1, s1, c1 :
        /\ Is(n1, q1, s1, d, c1, p, a, mp \ {t}) /\ Vanished(q, q1, t, u, W)
        /\ WokenBy(s, s1, t, W) /\ Stored1(c, c1, t, c[t] - 1 - One(t \in q[RunQ]))
  <2> HIDE DEF n1, W, u
  <2>1. p[t] = u /\ W = q[SelfWait(u)]
    BY DEF u, W
  <2>2. n1 = BecomeZombie(Unqueued(m, t), t) /\ r = c[t] - 1 - One(t \in q[RunQ])
    BY DEF n1
  <2> HIDE DEF r
  <2>3. Vanishing(n1, q, s, d, c, p, a, mp, t, u, W)
    BY <1>2, <1>3, <1>5, <1>6, <1>7, <2>1, <2>2, IsVanishing
  <2> QED
    BY <2>3 DEF Vanishing
<1>9. Good(q1, s1, d, c1, p, a, mp \ {t}, e1, x)
  <2>1. Stored1(e, e1, t, 1) /\ W = q[SelfWait(u)] /\ p[t] = u
    BY <1>2 DEF Stored1
  <2> HIDE DEF W, u, e1
  <2> QED
    BY <1>1, <1>3, <1>4, <1>8, <2>1, GoodVanished
<1>10. e1 \in [Thread -> Nat] /\ e1[t] = 1 /\ \A v \in Thread : v # t => e1[v] = e[v]
  BY <1>2
<1>11. q1[Zombies(t)] = q[Zombies(t)] /\ t \in q1[Zombies(u)] /\ q1 \in [Heads -> SUBSET Thread]
  BY <1>2, <1>3, <1>8, IsFields DEF Vanished
<1>12. \A z \in q1[Zombies(t)] : z \in Thread /\ z \notin mp /\ e1[z] = 0
  <2>1. ASSUME NEW z \in q1[Zombies(t)]
        PROVE  z \in Thread /\ z \notin mp /\ e1[z] = 0
    <3>1. z \in Thread
      BY <1>2, <1>11, HeadsAre
    <3>2. z \notin mp /\ z # t
      BY <1>2, <1>11, <3>1 DEF Good, Family
    <3> QED
      BY <1>10, <3>1, <3>2
  <2> QED
    BY <2>1
<1> HIDE DEF n1
<1>13. GoodBut(n2, [q1 EXCEPT ![Zombies(t)] = {}], s1, d, mp \ {t}, e1, x, q1[Zombies(t)])
  <2> HIDE DEF e1
  <2>1. e1[t] # 0 /\ \A z \in q1[Zombies(t)] : e1[z] = 0
    BY <1>10, <1>12
  <2> QED
    BY <1>2, <1>8, <1>9, <1>10, <2>1, ZombiesReleased
<1> HIDE DEF n2
<1> DEFINE q2 == [q1 EXCEPT ![Zombies(t)] = {}]
<1>14. PICK s2, c2, p2, a2 :
         /\ Is(n2, q2, s2, d, c2, p2, a2, mp \ {t}) /\ Good(q2, s2, d, c2, p2, a2, mp \ {t}, e1, x)
         /\ \A v \in Thread \ q1[Zombies(t)] : s2[v] = s1[v]
  BY <1>13 DEF GoodBut
<1>15. t \in q2[Zombies(u)]
  BY <1>2, <1>3, <1>11, HeadsAre
<1> HIDE DEF q2
<1>16. t \in a2 /\ Owned(q2, p2, t)
  <2>1. t \in a2
    BY <1>3, <1>14, <1>15, HeadsAre DEF Good, Placed
  <2>2. p2[t] = u
    BY <1>2, <1>3, <1>14, <1>15 DEF Good, Family
  <2> QED
    BY <1>15, <2>1, <2>2 DEF Owned
<1>17. GoodCounts(thread_put(n2, t), q2, s2, d, p2, a2, mp \ {t}, e2, x)
  <2>1. e2 = [e1 EXCEPT ![t] = e1[t] - 1] /\ e1[t] # 0
    BY <1>2, <1>10
  <2> HIDE DEF e1
  <2> QED
    BY <1>10, <1>14, <1>16, <2>1, HeldPut
<1>18. thread_vanish_noyield(m, t) = thread_put(n2, t)
  BY DEF thread_vanish_noyield, Unqueued, n1, n2
<1>19. s2[t] = "ZOMBIE" /\ \A v \in Others(q, s, mp, t) : s2[v] = s[v]
  <2>1. t \notin q1[Zombies(t)]
    BY <1>2, <1>11 DEF Good, Family
  <2>2. s2[t] = "ZOMBIE"
    BY <1>2, <1>3, <1>8, <1>14, <2>1 DEF WokenBy
  <2>3. ASSUME NEW v \in Others(q, s, mp, t)
        PROVE  s2[v] = s[v]
    <3>1. CASE v \in q[SleepQ]
      <4>1. v \in Thread /\ v \in a /\ v # t /\ v # IdleThread
        BY <1>1, <1>2, <3>1, HeadsAre DEF Good, Placed
      <4>2. v \in mp
        BY <3>1, <4>1 DEF Good, Agrees
      <4>3. v \notin W
        <5>1. W \subseteq {u}
          BY <1>3 DEF Good, Placed
        <5> QED
          BY <1>4, <3>1, <4>1, <5>1 DEF OneWaitList
      <4>4. v \notin q1[Zombies(t)]
        BY <1>12, <4>2
      <4> QED
        BY <1>8, <1>14, <4>1, <4>3, <4>4 DEF WokenBy
    <3>2. CASE v \in mp /\ v # t /\ s[v] # "WAITING"
      <4>1. v \in Thread /\ v \notin q1[Zombies(t)]
        BY <1>1, <1>12, <3>2
      <4>2. v \notin W
        <5>1. ASSUME v \in W
              PROVE  v \in a /\ v # IdleThread /\ v = u
          BY <1>3, <5>1, HeadsAre DEF Good, Placed
        <5>2. ASSUME v \in W
              PROVE  s[v] = "WAITING"
          BY <1>3, <5>1, <5>2 DEF Good, Agrees
        <5> QED
          BY <3>2, <5>2
      <4> QED
        BY <1>8, <1>14, <3>2, <4>1, <4>2 DEF WokenBy
    <3> QED
      BY <3>1, <3>2 DEF Others
  <2> QED
    BY <2>2, <2>3
<1> QED
  BY <1>14, <1>17, <1>18, <1>19 DEF GoodCounts, LeftBy

\* A thread that is on no wait list may leave thread_wait.
LEMMA LeavesWait ==
  ASSUME NEW q, NEW s, NEW d, NEW c, NEW p, NEW a, NEW mp, NEW e, NEW x,
         Good(q, s, d, c, p, a, mp, e, x), NEW t \in Thread, t \notin q[SelfWait(t)]
  PROVE  Good(q, s, d, c, p, a, mp, e, x \ {t})
<1>1. Waits(q, d, mp, x)
  BY DEF Good
<1>2. Waits(q, d, mp, x \ {t})
  BY <1>1 DEF Waits
<1> QED
  BY <1>2 DEF Good

-----------------------------------------------------------------------------
(***************************************************************************)
(* The inductive invariant of the system.  A thread in the map is held by  *)
(* the map and by its task; one inside thread_wait holds itself.           *)
(***************************************************************************)
Conts == {"none", "exit_kernel", "thread_yield", "sched_yield", "thread_wait"}

InWait(ct) == {t \in Thread : ct[t] = "thread_wait"}

Held(mp, x) == [t \in Thread |-> 2 * One(t \in mp) + One(t \in x)]

Sound(n, cur, md, ct) ==
  /\ ct \in [Thread -> Conts]
  /\ md # "kernel" => ct[cur] # "thread_wait"
  /\ \E q, s, d, c, p, a, mp :
       /\ Is(n, q, s, d, c, p, a, mp)
       /\ Good(q, s, d, c, p, a, mp, Held(mp, InWait(ct)), InWait(ct))
       /\ cur \in mp /\ s[cur] = "RUNNABLE"

IInv == Sound(k, current, mode, cont)

\* The threads asleep in memory m that run in n have slept long enough.
SleptOut(m, n) ==
  \A v \in Members(m, SleepQ, "wait_link") : n.state[v] = "RUNNABLE" => m.deadline[v] = 0

\* Whether any thread's code acts on the state of other threads.
SomeoneControls == \E t \in Thread : "task_vanish" \in Program[t] \/ "cas2i" \in Program[t]

\* The programs for which the proofs are: idle.c spins, init.c never
\* vanishes, nobody kills either, and task_vanish and cas2i_runflag, which
\* break the queues of threads that wait, are not called where threads do.
SoundPrograms ==
  /\ Program[IdleThread] = {} /\ "vanish" \notin Program[InitThread]
  /\ IdleThread \notin Victims /\ InitThread \notin Victims
  /\ ~(SomeoneBlocks /\ SomeoneControls)

\* The references that no structure shows, when a thread leaves the map.
LEMMA HeldUnmapped ==
  ASSUME NEW mp, NEW x, NEW e, e = Held(mp, x), NEW t \in Thread, t \notin x
  PROVE  Held(mp \ {t}, x) = [e EXCEPT ![t] = 0]
<1> DEFINE g == Held(mp \ {t}, x)
<1>1. /\ e = [v \in Thread |-> e[v]] /\ g = [v \in Thread |-> g[v]]
      /\ \A v \in Thread : /\ e[v] = 2 * One(v \in mp) + One(v \in x)
                          /\ g[v] = 2 * One(v \in mp \ {t}) + One(v \in x)
  BY DEF Held
<1> HIDE DEF g
<1>2. ASSUME NEW v \in Thread
      PROVE  g[v] = IF v = t THEN 0 ELSE e[v]
  BY <1>1 DEF One
<1>3. g = [e EXCEPT ![t] = 0]
  BY <1>1, <1>2
<1> QED
  BY <1>3 DEF g

\* The same when it leaves thread_wait.
LEMMA HeldUnwaited ==
  ASSUME NEW mp, NEW x, NEW e, e = Held(mp, x), NEW t \in Thread, t \in mp
  PROVE  Held(mp, x \ {t}) = [e EXCEPT ![t] = 2]
<1> DEFINE g == Held(mp, x \ {t})
<1>1. /\ e = [v \in Thread |-> e[v]] /\ g = [v \in Thread |-> g[v]]
      /\ \A v \in Thread : /\ e[v] = 2 * One(v \in mp) + One(v \in x)
                          /\ g[v] = 2 * One(v \in mp) + One(v \in x \ {t})
  BY DEF Held
<1> HIDE DEF g
<1>2. ASSUME NEW v \in Thread
      PROVE  g[v] = IF v = t THEN 2 ELSE e[v]
  BY <1>1 DEF One
<1>3. g = [e EXCEPT ![t] = 2]
  BY <1>1, <1>2
<1> QED
  BY <1>3 DEF g

\* The same when it enters the map or thread_wait.
LEMMA HeldMore ==
  ASSUME NEW mp, NEW x, NEW e, e = Held(mp, x), NEW t \in Thread, t \notin x
  PROVE  /\ Stored1(e, Held(mp, x \cup {t}), t, e[t] + 1)
         /\ Stored1(e, Held(mp \cup {t}, x), t, 2)
BY DEF Held, One, Stored1

\* After sched_yield's switch.
LEMMA Switched ==
  ASSUME NEW m, NEW q, NEW s, NEW d, NEW c, NEW p, NEW a, NEW mp, Is(m, q, s, d, c, p, a, mp),
         NEW ct \in [Thread -> Conts], NEW x, x = InWait(ct),
         Good(q, s, d, c, p, a, mp, Held(mp, x), x),
         NEW old, MayYield(s, q[RunQ], old), NEW n, n = Skim(Requeue(m, old))
  PROVE  Sound(n, NextThread(n), "kernel", ct) /\ n.state = s
<1>1. RunQ \in Heads /\ q \in [Heads -> SUBSET Thread]
  BY IsFields, HeadsAre
<1>2. \A t \in q[RunQ] : s[t] = "RUNNABLE" /\ t \in mp
  <2>1. \A t \in q[RunQ] : t \in a \ {IdleThread}
    BY <1>1 DEF Good, Placed
  <2> QED
    BY <2>1 DEF Good, Agrees
<1>3. Is(n, q, s, d, c, p, a, mp) /\ NextThread(n) \in q[RunQ] \cup {IdleThread}
  BY <1>2, IsYielded
<1>4. NextThread(n) \in mp /\ s[NextThread(n)] = "RUNNABLE"
  <2>1. IdleThread \in mp /\ s[IdleThread] = "RUNNABLE"
    BY DEF Good, Agrees
  <2> QED
    BY <1>2, <1>3, <2>1
<1>5. Sound(n, NextThread(n), "kernel", ct)
  BY <1>3, <1>4 DEF Sound
<1> QED
  BY <1>3, <1>5, IsFields

-----------------------------------------------------------------------------
\* The values of the first kernel memory.
InitQ == [h \in Heads |-> IF h = RunQ THEN {InitThread} ELSE {}]
InitS == [t \in Thread |-> IF t \in {IdleThread, InitThread} THEN "RUNNABLE" ELSE "FREE"]
InitD == [t \in Thread |-> 0]
InitC == [t \in Thread |-> IF t = IdleThread THEN 3 ELSE IF t = InitThread THEN 4 ELSE 0]
InitP == [t \in Thread |-> NULL]
InitA == {IdleThread, InitThread}

\* The first kernel memory: init is on the run queue.
LEMMA InitIs ==
  ASSUME Init
  PROVE  Is(k, InitQ, InitS, InitD, InitC, InitP, InitA, InitA)
<1> DEFINE E == [h \in Heads |-> IF h = RunQ THEN InitThread ELSE NULL]
           L == [l \in Links |-> [t \in Thread |-> NULL]]
<1>1. k = Fields10(E, E, L, L, InitS, InitD, InitC, InitP, InitA, InitA)
  BY DEF Init, Fields10, InitS, InitD, InitC, InitP, InitA
<1>2. /\ k.first = E /\ k.last = E /\ k.next = L /\ k.prev = L
      /\ DOMAIN k = {"first", "last", "next", "prev", "state", "deadline", "count",
                     "parent", "alloc", "map"}
      /\ k = [y \in DOMAIN k |-> k[y]]
  BY <1>1 DEF Fields10
<1>3. Typed(InitS, InitD, InitC, InitP, InitA, InitA)
  BY ThreadAssumption DEF Typed, InitS, InitD, InitC, InitP, InitA, States, Ptr
<1>4. LinkOf \in [Heads -> Links] /\ InitQ \in [Heads -> SUBSET Thread] /\ RunQ \in Heads
      /\ LinkOf[RunQ] = "runnable_link"
  BY HeadsAre, ThreadAssumption DEF LinkOf, Links, InitQ
<1>5. QL!IsMemory(k)
  <2>1. E \in [Heads -> Ptr] /\ L \in [Links -> [Thread -> Ptr]] /\ QL!Ptr = Ptr
    BY ThreadAssumption DEF Ptr, QL!Ptr
  <2> HIDE DEF E, L
  <2> QED
    BY <1>2, <2>1 DEF QL!IsMemory, QL!Fields
<1>6. ASSUME NEW h \in Heads
      PROVE  QL!IsSet(k, h, LinkOf[h], InitQ[h])
  <2>1. \A t \in Thread : k.next[LinkOf[h]][t] = NULL /\ k.prev[LinkOf[h]][t] = NULL
    BY <1>2, <1>4
  <2>2. CASE h = RunQ
    <3> DEFINE w == <<InitThread>>
    <3>1. w \in Seq(Thread) /\ Len(w) = 1 /\ w[1] = InitThread /\ InitThread \in Thread
      BY ThreadAssumption
    <3>2. k.first[h] = InitThread /\ k.last[h] = InitThread /\ InitQ[h] = {InitThread}
      BY <1>2, <1>4, <2>2 DEF InitQ
    <3> HIDE DEF w
    <3>3. \A i \in 1 .. Len(w) : i = 1
      BY <3>1
    <3>4. QL!IsList(k, h, LinkOf[h], w)
      BY <2>1, <3>1, <3>2, <3>3 DEF QL!IsList, QL!Chain, QL!Distinct
    <3>5. \A y \in Thread : y \in InitQ[h] <=> QL!Holds(w, y)
      <4>1. 1 \in 1 .. Len(w)
        BY <3>1
      <4> QED
        BY <3>1, <3>2, <3>3, <4>1 DEF QL!Holds
    <3> QED
      BY <3>4, <3>5 DEF QL!IsSet
  <2>3. CASE h # RunQ
    <3> DEFINE w == <<>>
    <3>1. w \in Seq(Thread) /\ Len(w) = 0
      OBVIOUS
    <3>2. k.first[h] = NULL /\ k.last[h] = NULL /\ InitQ[h] = {}
      BY <1>2, <2>3 DEF InitQ
    <3> HIDE DEF w
    <3>3. 1 .. Len(w) = {}
      BY <3>1
    <3>4. QL!IsList(k, h, LinkOf[h], w) /\ \A y \in Thread : y \in InitQ[h] <=> QL!Holds(w, y)
      BY <3>1, <3>2, <3>3 DEF QL!IsList, QL!Chain, QL!Distinct, QL!Holds
    <3> QED
      BY <3>4 DEF QL!IsSet
  <2> QED
    BY <2>2, <2>3
<1>7. QL!Apart(LinkOf, InitQ)
  BY DEF QL!Apart, InitQ
<1>8. QL!Linked(k, LinkOf, InitQ)
  BY <1>4, <1>5, <1>6, <1>7 DEF QL!Linked
<1> HIDE DEF E, L
<1> QED
  BY <1>1, <1>2, <1>3, <1>8 DEF Is

\* The invariant holds at first.
LEMMA InitSound ==
  ASSUME Init
  PROVE  IInv
<1>1. cont \in [Thread -> Conts] /\ InWait(cont) = {} /\ mode = "kernel" /\ current = InitThread
  BY DEF Init, Conts, InWait
<1>2. \A v \in Thread : InitQ[SelfWait(v)] = {} /\ InitQ[Children(v)] = {} /\ InitQ[Zombies(v)] = {}
  BY HeadsAre DEF InitQ
<1>3. InitQ[RunQ] = {InitThread} /\ InitQ[SleepQ] = {} /\ InitQ[DoneQ] = {}
  BY HeadsAre DEF InitQ
<1>4. IdleThread \in Thread /\ InitThread \in Thread /\ IdleThread # InitThread /\ NULL \notin Thread
  BY ThreadAssumption
<1>5. Placed(InitQ, InitA)
  <2>1. \A h \in Heads : InitQ[h] \subseteq InitA /\ IdleThread \notin InitQ[h]
    BY <1>4 DEF InitQ, InitA
  <2> QED
    BY <1>2, <1>3, <2>1 DEF Placed
<1>6. \A t \in InitA : InitS[t] = "RUNNABLE" /\ InitP[t] = NULL /\ t \in Thread
  BY <1>4 DEF InitA, InitS, InitP
<1>7. Agrees(InitQ, InitS, InitA, InitA)
  BY <1>2, <1>3, <1>6 DEF Agrees, InitA
<1>8. Family(InitQ, InitP, InitA, InitA)
  BY <1>2, <1>4, <1>6 DEF Family, InitA
<1>9. Counted(InitQ, InitC, InitP, InitA, Held(InitA, {}))
  <2>1. ASSUME NEW t \in InitA
        PROVE  InitC[t] = Held(InitA, {})[t] + One(Queued(InitQ, t)) + One(Owned(InitQ, InitP, t))
                            + Cardinality(Kids(InitP, InitA, t))
    <3>1. Kids(InitP, InitA, t) = {} /\ Cardinality({}) = 0
      BY <1>4, <1>6, FS_EmptySet DEF Kids
    <3>2. Held(InitA, {})[t] = 2
      BY <1>6 DEF Held, One
    <3>3. Owned(InitQ, InitP, t) /\ (Queued(InitQ, t) <=> t = InitThread)
      BY <1>2, <1>3, <1>6 DEF Owned, Queued
    <3>4. InitC[t] = IF t = InitThread THEN 4 ELSE 3
      BY <1>4 DEF InitC, InitA
    <3> QED
      BY <3>1, <3>2, <3>3, <3>4 DEF One
  <2> QED
    BY <2>1 DEF Counted
<1>10. Waits(InitQ, InitD, InitA, {})
  BY <1>2, <1>3 DEF Waits
<1>11. Good(InitQ, InitS, InitD, InitC, InitP, InitA, InitA, Held(InitA, {}), {})
  BY <1>5, <1>7, <1>8, <1>9, <1>10 DEF Good
<1>12. InitThread \in InitA /\ InitS[InitThread] = "RUNNABLE"
  BY <1>6 DEF InitA
<1> QED
  BY <1>1, <1>11, <1>12, InitIs DEF IInv, Sound

-----------------------------------------------------------------------------
\* A thread on the sleep queue is in the map and waits.
LEMMA SleepersWait ==
  ASSUME NEW m, NEW q, NEW s, NEW d, NEW c, NEW p, NEW a, NEW mp, Is(m, q, s, d, c, p, a, mp),
         NEW e, NEW x, Good(q, s, d, c, p, a, mp, e, x)
  PROVE  \A v \in q[SleepQ] : v \in Thread /\ v \in a /\ v \in mp /\ s[v] = "WAITING"
<1>1. SleepQ \in Heads /\ a \subseteq Thread
  BY IsFields, HeadsAre DEF Typed
<1>2. \A v \in q[SleepQ] : v \in a \ {IdleThread}
  BY <1>1 DEF Good, Placed
<1> QED
  BY <1>1, <1>2 DEF Good, Agrees

\* How SleptOut is shown.
LEMMA SleptOutIs ==
  ASSUME NEW m, NEW q, NEW s, NEW d, NEW c, NEW p, NEW a, NEW mp, Is(m, q, s, d, c, p, a, mp),
         NEW n, \A v \in q[SleepQ] : n.state[v] = "RUNNABLE" => d[v] = 0
  PROVE  SleptOut(m, n)
<1>1. SleepQ \in Heads /\ LinkOf[SleepQ] = "wait_link" /\ m.deadline = d
  BY IsFields, HeadsAre
<1>2. Members(m, SleepQ, "wait_link") = q[SleepQ]
  BY <1>1, IsWalk
<1> QED
  BY <1>1, <1>2 DEF SleptOut

\* A step that leaves the states of the sleepers as they are wakes no one.
LEMMA NobodyWoken ==
  ASSUME NEW m, NEW q, NEW s, NEW d, NEW c, NEW p, NEW a, NEW mp, Is(m, q, s, d, c, p, a, mp),
         NEW e, NEW x, Good(q, s, d, c, p, a, mp, e, x),
         NEW n, \A v \in q[SleepQ] : n.state[v] = s[v]
  PROVE  SleptOut(m, n)
<1>1. \A v \in q[SleepQ] : s[v] = "WAITING"
  BY SleepersWait
<1>2. \A v \in q[SleepQ] : n.state[v] = "RUNNABLE" => d[v] = 0
  BY <1>1
<1> QED
  BY <1>2, SleptOutIs

\* The running thread may give up the processor.
LEMMA RunnerYields ==
  ASSUME NEW q, NEW s, NEW d, NEW c, NEW p, NEW a \in SUBSET Thread, NEW mp, NEW e, NEW x,
         Good(q, s, d, c, p, a, mp, e, x), NEW t \in mp, s[t] = "RUNNABLE"
  PROVE  MayYield(s, q[RunQ], t)
<1>1. t # IdleThread => t \in q[RunQ]
  BY RunnerIs
<1> QED
  BY <1>1 DEF MayYield

\* sched_yield of the current thread, with memory m.
LEMMA SchedYield ==
  ASSUME NEW m, NEW q, NEW s, NEW d, NEW c, NEW p, NEW a, NEW mp, Is(m, q, s, d, c, p, a, mp),
         cont \in [Thread -> Conts], current \in Thread, current \notin InWait(cont),
         Good(q, s, d, c, p, a, mp, Held(mp, InWait(cont)), InWait(cont)),
         MayYield(s, q[RunQ], current), sched_yield(m, "sched_yield")
  PROVE  IInv' /\ k'.state = s
<1>1. /\ mode' = "kernel" /\ k' = Skim(Requeue(m, current))
      /\ current' = NextThread(k') /\ cont' = [cont EXCEPT ![current] = "sched_yield"]
  BY DEF sched_yield, sched_thread_yield
<1>2. cont' \in [Thread -> Conts] /\ InWait(cont') = InWait(cont)
  <2>1. "sched_yield" \in Conts /\ "sched_yield" # "thread_wait"
    BY DEF Conts
  <2>2. cont' \in [Thread -> Conts] /\ InWait(cont') = InWait(cont) \ {current}
    BY <1>1, <2>1 DEF InWait
  <2> QED
    BY <2>2
<1> DEFINE x == InWait(cont)
           n == k'
           ct == cont'
<1>3. x = InWait(ct) /\ Good(q, s, d, c, p, a, mp, Held(mp, x), x) /\ ct \in [Thread -> Conts]
  BY <1>2
<1>4. n = Skim(Requeue(m, current))
  BY <1>1
<1> HIDE DEF x, n, ct
<1>5. Sound(n, NextThread(n), "kernel", ct) /\ n.state = s
  BY <1>3, <1>4, Switched
<1> QED
  BY <1>1, <1>5 DEF IInv, n, ct

\* EnterKernel: only the mode changes.
LEMMA EnterKernelSound ==
  ASSUME IInv, EnterKernel
  PROVE  IInv' /\ SleptOut(k, k')
<1>1. k' = k /\ current' = current /\ cont' = cont /\ mode # "kernel"
  BY DEF EnterKernel
<1>2. IInv'
  BY <1>1 DEF IInv, Sound
<1>3. PICK q, s, d, c, p, a, mp :
        /\ Is(k, q, s, d, c, p, a, mp)
        /\ Good(q, s, d, c, p, a, mp, Held(mp, InWait(cont)), InWait(cont))
  BY DEF IInv, Sound
<1>4. \A v \in q[SleepQ] : k'.state[v] = s[v]
  BY <1>1, <1>3, IsFields
<1> QED
  BY <1>2, <1>3, <1>4, NobodyWoken

\* KernelTick: the deadlines come closer.
LEMMA KernelTickSound ==
  ASSUME IInv, KernelTick
  PROVE  IInv' /\ SleptOut(k, k')
<1>1. k' = Ticked(k) /\ current' = current /\ cont' = cont /\ mode' = mode
  BY DEF KernelTick
<1>2. PICK q, s, d, c, p, a, mp :
        /\ Is(k, q, s, d, c, p, a, mp)
        /\ Good(q, s, d, c, p, a, mp, Held(mp, InWait(cont)), InWait(cont))
        /\ current \in mp /\ s[current] = "RUNNABLE"
  BY DEF IInv, Sound
<1> DEFINE d2 == [t \in Thread |-> IF d[t] > 0 THEN d[t] - 1 ELSE 0]
           e == Held(mp, InWait(cont))
           x == InWait(cont)
<1>3. Is(k', q, s, d2, c, p, a, mp)
  BY <1>1, <1>2, IsTicked
<1>4. Good(q, s, d2, c, p, a, mp, e, x)
  <2> HIDE DEF e, x
  <2>1. Good(q, s, d, c, p, a, mp, e, x)
    BY <1>2 DEF e, x
  <2> QED
    BY <2>1, GoodTicked
<1> HIDE DEF d2
<1>5. IInv'
  BY <1>1, <1>2, <1>3, <1>4 DEF IInv, Sound
<1>6. \A v \in q[SleepQ] : k'.state[v] = s[v]
  BY <1>3, IsFields
<1> QED
  BY <1>2, <1>5, <1>6, NobodyWoken

\* UserTick: a tick, and the thread that runs yields.
LEMMA UserTickSound ==
  ASSUME IInv, UserTick
  PROVE  IInv' /\ SleptOut(k, k')
<1>1. mode = "user" /\ sched_yield(Ticked(k), "sched_yield")
  BY DEF UserTick
<1>2. PICK q, s, d, c, p, a, mp :
        /\ Is(k, q, s, d, c, p, a, mp)
        /\ Good(q, s, d, c, p, a, mp, Held(mp, InWait(cont)), InWait(cont))
        /\ current \in mp /\ s[current] = "RUNNABLE"
  BY DEF IInv, Sound
<1>3. a \in SUBSET Thread /\ mp \in SUBSET Thread /\ cont \in [Thread -> Conts]
      /\ current \in Thread /\ current \notin InWait(cont)
  BY <1>1, <1>2, IsFields DEF Typed, IInv, Sound, InWait
<1> DEFINE d2 == [v \in Thread |-> IF d[v] > 0 THEN d[v] - 1 ELSE 0]
           m == Ticked(k)
           e == Held(mp, InWait(cont))
           x == InWait(cont)
<1>4. Is(m, q, s, d2, c, p, a, mp)
  BY <1>2, IsTicked
<1>5. Good(q, s, d2, c, p, a, mp, e, x)
  <2> HIDE DEF e, x
  <2>1. Good(q, s, d, c, p, a, mp, e, x)
    BY <1>2 DEF e, x
  <2> QED
    BY <2>1, GoodTicked
<1>6. MayYield(s, q[RunQ], current)
  <2> HIDE DEF e, x, d2
  <2> QED
    BY <1>2, <1>3, <1>5, RunnerYields
<1> HIDE DEF d2, m
<1>7. IInv' /\ k'.state = s
  BY <1>1, <1>3, <1>4, <1>5, <1>6, SchedYield DEF m
<1>8. \A v \in q[SleepQ] : k'.state[v] = s[v]
  BY <1>7
<1> QED
  BY <1>2, <1>7, <1>8, NobodyWoken

\* The memory of a system call, and what is known of its caller.
Serving(q, s, d, c, p, a, mp) ==
  /\ Is(k, q, s, d, c, p, a, mp)
  /\ Good(q, s, d, c, p, a, mp, Held(mp, InWait(cont)), InWait(cont))
  /\ current \in mp /\ s[current] = "RUNNABLE" /\ current \notin InWait(cont)
  /\ cont \in [Thread -> Conts] /\ current \in Thread
  /\ a \in SUBSET Thread /\ mp \in SUBSET Thread /\ q \in [Heads -> SUBSET Thread]
  /\ s \in [Thread -> States] /\ c \in [Thread -> Int] /\ p \in [Thread -> Ptr]

\* A system call is served from a sound memory.
LEMMA ServingIs ==
  ASSUME IInv, mode # "kernel"
  PROVE  \E q, s, d, c, p, a, mp : Serving(q, s, d, c, p, a, mp)
<1>1. PICK q, s, d, c, p, a, mp :
        /\ Is(k, q, s, d, c, p, a, mp)
        /\ Good(q, s, d, c, p, a, mp, Held(mp, InWait(cont)), InWait(cont))
        /\ current \in mp /\ s[current] = "RUNNABLE"
  BY DEF IInv, Sound
<1>2. /\ a \in SUBSET Thread /\ mp \in SUBSET Thread /\ q \in [Heads -> SUBSET Thread]
      /\ s \in [Thread -> States] /\ c \in [Thread -> Int] /\ p \in [Thread -> Ptr]
  BY <1>1, IsFields DEF Typed
<1>3. cont \in [Thread -> Conts] /\ current \in Thread /\ current \notin InWait(cont)
  BY <1>1, <1>2 DEF IInv, Sound, InWait
<1> QED
  BY <1>1, <1>2, <1>3 DEF Serving

\* A call that returns to its caller.
LEMMA Returned ==
  ASSUME NEW m, NEW q, NEW s, NEW d, NEW c, NEW p, NEW a, NEW mp, Is(m, q, s, d, c, p, a, mp),
         cont \in [Thread -> Conts], current \notin InWait(cont), current \in Thread,
         Good(q, s, d, c, p, a, mp, Held(mp, InWait(cont)), InWait(cont)),
         current \in mp, s[current] = "RUNNABLE", Return(m)
  PROVE  IInv' /\ k'.state = s
<1>1. k' = m /\ current' = current /\ cont' = cont /\ mode' = "user"
  BY DEF Return
<1>2. cont[current] # "thread_wait"
  BY DEF InWait
<1>3. IInv'
  BY <1>1, <1>2 DEF IInv, Sound
<1> QED
  BY <1>1, <1>3, IsFields

\* A call that returns and has changed nothing.
LEMMA ReturnedSame ==
  ASSUME NEW q, NEW s, NEW d, NEW c, NEW p, NEW a, NEW mp, Serving(q, s, d, c, p, a, mp), Return(k)
  PROVE  IInv' /\ SleptOut(k, k')
<1>1. IInv' /\ k'.state = s
  BY Returned DEF Serving
<1>2. \A v \in q[SleepQ] : k'.state[v] = s[v]
  BY <1>1
<1> QED
  BY <1>1, <1>2, NobodyWoken DEF Serving

\* yield(-1).
LEMMA YieldSound ==
  ASSUME IInv, sys_yield
  PROVE  IInv' /\ SleptOut(k, k')
<1>1. mode # "kernel" /\ sched_yield(k, "sched_yield")
  BY DEF sys_yield, Calling
<1>2. PICK q, s, d, c, p, a, mp : Serving(q, s, d, c, p, a, mp)
  BY <1>1, ServingIs
<1>3. MayYield(s, q[RunQ], current)
  BY <1>2, RunnerYields DEF Serving
<1>4. IInv' /\ k'.state = s
  BY <1>1, <1>2, <1>3, SchedYield DEF Serving
<1>5. \A v \in q[SleepQ] : k'.state[v] = s[v]
  BY <1>4
<1> QED
  BY <1>2, <1>4, <1>5, NobodyWoken DEF Serving

\* yield(tid): the target is in the map and runnable.
LEMMA ThreadYieldSound ==
  ASSUME IInv, thread_yield
  PROVE  IInv' /\ SleptOut(k, k')
<1>1. mode # "kernel"
  BY DEF thread_yield, Calling
<1>2. PICK q, s, d, c, p, a, mp : Serving(q, s, d, c, p, a, mp)
  BY <1>1, ServingIs
<1>3. CASE Return(k)
  BY <1>2, <1>3, ReturnedSame
<1>4. CASE \E t \in Thread : /\ t \in k.map /\ k.state[t] = "RUNNABLE"
                             /\ sched_thread_yield(t, "thread_yield") /\ k' = k
  <2>1. PICK t \in Thread : /\ t \in k.map /\ k.state[t] = "RUNNABLE" /\ k' = k
                            /\ sched_thread_yield(t, "thread_yield")
    BY <1>4
  <2>2. t \in mp /\ s[t] = "RUNNABLE"
    BY <1>2, <2>1, IsFields DEF Serving
  <2>3. current' = t /\ mode' = "kernel" /\ cont' = [cont EXCEPT ![current] = "thread_yield"]
    BY <2>1 DEF sched_thread_yield
  <2>4. cont' \in [Thread -> Conts] /\ InWait(cont') = InWait(cont)
    BY <1>2, <2>3 DEF Serving, InWait, Conts
  <2>5. IInv'
    BY <1>2, <2>1, <2>2, <2>3, <2>4 DEF IInv, Sound, Serving
  <2>6. \A v \in q[SleepQ] : k'.state[v] = s[v]
    BY <1>2, <2>1, IsFields DEF Serving
  <2> QED
    BY <1>2, <2>5, <2>6, NobodyWoken DEF Serving
<1> QED
  BY <1>3, <1>4 DEF thread_yield

\* A thread that runs is on no wait list.
LEMMA RunnerFree ==
  ASSUME NEW q, NEW s, NEW d, NEW c, NEW p, NEW a \in SUBSET Thread, NEW mp, NEW e, NEW x,
         Good(q, s, d, c, p, a, mp, e, x), NEW t \in mp, s[t] = "RUNNABLE", t # IdleThread,
         NEW list \in Heads, LinkOf[list] = "wait_link"
  PROVE  Free(q, list, t)
<1>1. t \notin q[SleepQ] /\ \A v \in Thread : t \notin q[SelfWait(v)]
  BY RunnerIs
<1>2. ASSUME NEW g \in Heads, LinkOf[g] = "wait_link"
      PROVE  t \notin q[g]
  <2>1. g = SleepQ \/ \E v \in Thread : g = SelfWait(v)
    BY <1>2, HeadsAre, HeadIs
  <2> QED
    BY <1>1, <2>1
<1> QED
  BY <1>2 DEF Free

\* sleep: the caller, which is not idle, goes to the sleep queue.
LEMMA SleepSound ==
  ASSUME IInv, sys_sleep, SoundPrograms
  PROVE  IInv' /\ SleptOut(k, k')
<1> DEFINE t == current
<1>1. mode # "kernel" /\ t # IdleThread
  BY DEF sys_sleep, Calling, SoundPrograms
<1>2. PICK q, s, d, c, p, a, mp : Serving(q, s, d, c, p, a, mp)
  BY <1>1, ServingIs
<1>3. PICK y \in SleepArgs : sched_wait_on(k, SleepQ, y, "sched_yield")
  BY DEF sys_sleep
<1> DEFINE m1 == [k EXCEPT !.deadline[t] = y, !.state[t] = "WAITING"]
           m2 == Q_INSERT_TAIL(Q_REMOVE(m1, RunQ, t, "runnable_link"), SleepQ, t, "wait_link")
           q2 == [q EXCEPT ![RunQ] = q[RunQ] \ {t}, ![SleepQ] = q[SleepQ] \cup {t}]
           s2 == [s EXCEPT ![t] = "WAITING"]
           d2 == [d EXCEPT ![t] = y]
<1>4. k.state = s /\ y \in Nat /\ d \in [Thread -> Nat]
  BY <1>2, <1>3, IsFields, ThreadAssumption DEF Serving, Typed
<1>5. sched_yield(m2, "sched_yield")
  BY <1>2, <1>3, <1>4 DEF sched_wait_on, Serving
<1>6. t \in q[RunQ] /\ t \notin q[SleepQ]
  <2> HIDE DEF m1, m2, q2, s2, d2, t
  <2>1. /\ Good(q, s, d, c, p, a, mp, Held(mp, InWait(cont)), InWait(cont))
        /\ a \in SUBSET Thread /\ t \in mp /\ s[t] = "RUNNABLE"
    BY <1>2 DEF Serving, t
  <2> QED
    BY <1>1, <2>1, RunnerIs
<1>7. Is(m2, q2, s2, d2, c, p, a, mp)
  <2>1. Free(q, SleepQ, t) /\ SleepQ \in Heads /\ LinkOf[SleepQ] = "wait_link"
    BY <1>1, <1>2, HeadsAre, RunnerFree DEF Serving
  <2> QED
    BY <1>2, <1>4, <1>6, <2>1, IsBlocked DEF Serving
<1>8. FallsAsleep(q, q2, t) /\ Stored1(s, s2, t, "WAITING") /\ Stored1(d, d2, t, y)
  <2>1. FallsAsleep(q, q2, t)
    BY <1>2, FallsAsleepIs DEF Serving
  <2> QED
    BY <1>2, <1>4, <2>1 DEF Serving, Stored1
<1> HIDE DEF m2, q2, s2, d2
<1>9. SomeoneBlocks
  BY <1>2 DEF sys_sleep, Calling, Serving, SomeoneBlocks
<1>10. Good(q2, s2, d2, c, p, a, mp, Held(mp, InWait(cont)), InWait(cont))
  BY <1>1, <1>2, <1>4, <1>8, <1>9, GoodAsleep DEF Serving
<1>11. MayYield(s2, q2[RunQ], t)
  BY <1>2, <1>8 DEF MayYield, Stored1, Serving
<1>12. IInv' /\ k'.state = s2
  BY <1>2, <1>5, <1>7, <1>10, <1>11, SchedYield DEF Serving
<1>13. \A v \in q[SleepQ] : k'.state[v] = s[v]
  <2>1. \A v \in q[SleepQ] : v \in Thread /\ v # t
    BY <1>2, <1>6, SleepersWait DEF Serving
  <2> QED
    BY <1>8, <1>12, <2>1 DEF Stored1
<1> QED
  BY <1>2, <1>12, <1>13, NobodyWoken DEF Serving

\* The thread t, which does not wait, becomes a zombie and the caller yields.
LEMMA DeathSound ==
  ASSUME NEW q, NEW s, NEW d, NEW c, NEW p, NEW a, NEW mp, Serving(q, s, d, c, p, a, mp),
         NEW t \in mp, s[t] # "WAITING", t # IdleThread, t # InitThread, t \notin InWait(cont),
         sched_yield(thread_vanish_noyield(k, t), "sched_yield")
  PROVE  IInv' /\ SleptOut(k, k')
<1> DEFINE m == thread_vanish_noyield(k, t)
           x == InWait(cont)
           e == Held(mp, x)
           e2 == Held(mp \ {t}, x)
<1>1. sched_yield(m, "sched_yield") /\ t # IdleThread /\ t # InitThread
  OBVIOUS
<1>2. Is(k, q, s, d, c, p, a, mp) /\ Good(q, s, d, c, p, a, mp, e, x)
  BY DEF Serving
<1>3. t \in mp /\ t \in Thread /\ s[t] # "WAITING" /\ t \notin x /\ mp \subseteq Thread
  BY DEF Serving
<1> HIDE DEF m, x
<1>4. e \in [Thread -> Nat] /\ e[t] = 2 /\ e2 = [e EXCEPT ![t] = 0]
  <2>1. e = Held(mp, x) /\ e2 = Held(mp \ {t}, x)
    OBVIOUS
  <2> HIDE DEF e, e2
  <2>2. e \in [Thread -> Nat] /\ e[t] = 2
    BY <1>3, <2>1 DEF Held, One
  <2>3. e2 = [e EXCEPT ![t] = 0]
    BY <1>3, <2>1, HeldUnmapped
  <2> QED
    BY <2>2, <2>3
<1>5. p[t] # NULL
  BY <1>1, <1>2, <1>3 DEF Good, Family, Agrees
<1>6. \A z \in Thread : z \notin mp => e[z] = 0
  <2>1. \A z \in x : z \in mp
    BY <1>2 DEF Good, Waits
  <2>2. e = Held(mp, x)
    OBVIOUS
  <2> HIDE DEF e
  <2> QED
    BY <2>1, <2>2 DEF Held, One
<1> HIDE DEF e, e2
<1>7. LeftBy(m, s, d, mp \ {t}, e2, x, t, Others(q, s, mp, t))
  BY <1>1, <1>2, <1>3, <1>4, <1>5, <1>6, ThreadVanished DEF m
<1>8. PICK q2, s2, c2, p2, a2 :
        /\ Is(m, q2, s2, d, c2, p2, a2, mp \ {t}) /\ Good(q2, s2, d, c2, p2, a2, mp \ {t}, e2, x)
        /\ s2[t] = "ZOMBIE" /\ \A v \in Others(q, s, mp, t) : s2[v] = s[v]
  BY <1>7 DEF LeftBy
<1>9. MayYield(s2, q2[RunQ], current)
  <2>1. CASE current = t
    BY <1>8, <2>1 DEF MayYield
  <2>2. CASE current # t
    <3>1. current \in mp \ {t} /\ s2[current] = "RUNNABLE"
      BY <1>8, <2>2 DEF Serving, Others
    <3>2. a2 \in SUBSET Thread
      BY <1>8, IsFields DEF Typed
    <3> QED
      BY <1>8, <3>1, <3>2, RunnerYields
  <2> QED
    BY <2>1, <2>2
<1>10. IInv' /\ k'.state = s2
  <2>1. /\ Good(q2, s2, d, c2, p2, a2, mp \ {t}, Held(mp \ {t}, InWait(cont)), InWait(cont))
        /\ cont \in [Thread -> Conts] /\ current \in Thread /\ current \notin InWait(cont)
    BY <1>8 DEF Serving, e2, x
  <2> QED
    BY <1>1, <1>8, <1>9, <2>1, SchedYield
<1>11. \A v \in q[SleepQ] : k'.state[v] = s[v]
  BY <1>8, <1>10 DEF Others
<1> QED
  BY <1>2, <1>10, <1>11, NobodyWoken

\* vanish: the caller, which is neither idle nor init, becomes a zombie.
LEMMA VanishSound ==
  ASSUME IInv, sys_vanish, SoundPrograms
  PROVE  IInv' /\ SleptOut(k, k')
<1>1. /\ mode # "kernel" /\ current # IdleThread /\ current # InitThread
      /\ sched_yield(thread_vanish_noyield(k, current), "sched_yield")
  BY DEF sys_vanish, Calling, SoundPrograms
<1>2. PICK q, s, d, c, p, a, mp : Serving(q, s, d, c, p, a, mp)
  BY <1>1, ServingIs
<1>3. current \in mp /\ s[current] # "WAITING" /\ current \notin InWait(cont)
  BY <1>2 DEF Serving
<1> QED
  BY <1>1, <1>2, <1>3, DeathSound

\* Where threads control one another, nobody waits.
LEMMA NobodyWaits ==
  ASSUME NEW q, NEW s, NEW d, NEW c, NEW p, NEW a, NEW mp, Serving(q, s, d, c, p, a, mp),
         "task_vanish" \in Program[current] \/ "cas2i" \in Program[current], SoundPrograms,
         NEW t \in mp
  PROVE  t \in Thread /\ t \notin InWait(cont) /\ s[t] # "WAITING" /\ s[t] # "DONE"
<1>1. ~SomeoneBlocks
  BY DEF Serving, SoundPrograms, SomeoneControls
<1> DEFINE x == InWait(cont)
<1>2. /\ q[SleepQ] = {} /\ x = {} /\ t \in a /\ t \in Thread
      /\ Good(q, s, d, c, p, a, mp, Held(mp, x), x)
  BY <1>1 DEF Serving, Good, Waits, Agrees
<1> HIDE DEF x
<1>3. s[t] # "WAITING"
  <2>1. t \notin q[SelfWait(t)]
    BY <1>2 DEF Good, Waits
  <2>2. t = IdleThread => s[t] # "WAITING"
    BY <1>2 DEF Good, Agrees
  <2> QED
    BY <1>2, <2>1, <2>2 DEF Good, Agrees
<1>4. s[t] # "DONE"
  BY <1>2 DEF Good, Agrees
<1> QED
  BY <1>2, <1>3, <1>4 DEF x

\* task_vanish: the victim is neither idle nor init.
LEMMA KillSound ==
  ASSUME IInv, sys_task_vanish, SoundPrograms
  PROVE  IInv' /\ SleptOut(k, k')
<1>1. mode # "kernel" /\ "task_vanish" \in Program[current]
  BY DEF sys_task_vanish, Calling
<1>2. PICK q, s, d, c, p, a, mp : Serving(q, s, d, c, p, a, mp)
  BY <1>1, ServingIs
<1>3. CASE Return(k)
  BY <1>2, <1>3, ReturnedSame
<1>4. CASE \E t \in Victims :
             /\ t \in k.map
             /\ sched_yield(IF k.state[t] = "DONE" THEN k ELSE thread_vanish_noyield(k, t),
                            "sched_yield")
  <2>1. PICK t \in Victims :
             /\ t \in k.map
             /\ sched_yield(IF k.state[t] = "DONE" THEN k ELSE thread_vanish_noyield(k, t),
                            "sched_yield")
    BY <1>4
  <2>2. t \in mp /\ k.state = s /\ t # IdleThread /\ t # InitThread
    BY <1>2, <2>1, IsFields DEF Serving, SoundPrograms
  <2>3. s[t] # "WAITING" /\ s[t] # "DONE" /\ t \notin InWait(cont)
    BY <1>1, <1>2, <2>2, NobodyWaits
  <2>4. sched_yield(thread_vanish_noyield(k, t), "sched_yield")
    BY <2>1, <2>2, <2>3
  <2> QED
    BY <1>2, <2>2, <2>3, <2>4, DeathSound
<1> QED
  BY <1>3, <1>4 DEF sys_task_vanish

\* A living thread is referenced at least twice.
LEMMA CountHeld ==
  ASSUME NEW q, NEW s, NEW d, NEW c, NEW p, NEW a, NEW mp, Serving(q, s, d, c, p, a, mp),
         NEW t \in mp
  PROVE  c[t] # 1
<1> DEFINE e == Held(mp, InWait(cont))
           n == Cardinality(Kids(p, a, t))
           i == One(Queued(q, t))
           j == One(Owned(q, p, t))
           h == One(t \in InWait(cont))
<1>1. t \in Thread /\ t \in a /\ a \in SUBSET Thread
  BY DEF Serving, Good, Agrees
<1>2. c[t] = e[t] + i + j + n
  BY <1>1 DEF Serving, Good, Counted
<1>3. e[t] = 2 + h
  BY <1>1 DEF Held, One
<1>4. n \in Nat /\ i \in Nat /\ j \in Nat /\ h \in Nat
  BY <1>1, KidsFinite DEF One
<1> HIDE DEF e, n, i, j, h
<1> QED
  BY <1>2, <1>3, <1>4

\* cas2i_runflag suspends its caller.
LEMMA SuspendSound ==
  ASSUME NEW q, NEW s, NEW d, NEW c, NEW p, NEW a, NEW mp, Serving(q, s, d, c, p, a, mp),
         NEW t, t = current, t # IdleThread,
         sched_yield([sched_remove_runnable_thread(k, t) EXCEPT !.state[t] = "SUSPENDED"],
                     "sched_yield")
  PROVE  IInv' /\ SleptOut(k, k')
<1> DEFINE m1 == Q_REMOVE(k, RunQ, t, "runnable_link")
           m2 == thread_put(m1, t)
           m3 == [m2 EXCEPT !.state[t] = "SUSPENDED"]
           q2 == [q EXCEPT ![RunQ] = q[RunQ] \ {t}]
           s2 == [s EXCEPT ![t] = "SUSPENDED"]
           c2 == [c EXCEPT ![t] = c[t] - 1]
           x == InWait(cont)
           e == Held(mp, x)
<1>1. /\ Is(k, q, s, d, c, p, a, mp) /\ Good(q, s, d, c, p, a, mp, e, x)
      /\ t \in mp /\ t \in Thread /\ s[t] = "RUNNABLE" /\ t # IdleThread /\ t \notin x
      /\ q \in [Heads -> SUBSET Thread] /\ s \in [Thread -> States] /\ c \in [Thread -> Int]
      /\ a \in SUBSET Thread /\ cont \in [Thread -> Conts] /\ c[t] # 1
  BY CountHeld DEF Serving
<1>2. e \in [Thread -> Nat]
  BY DEF Held, One
<1>3. sched_yield(m3, "sched_yield")
  BY DEF sched_remove_runnable_thread
<1> HIDE DEF m3, q2, s2, c2, x, e
<1>4. t \in q[RunQ]
  BY <1>1, RunnerIs
<1>5. Is(m3, q2, s2, d, c2, p, a, mp)
  <2> HIDE DEF m1, m2
  <2>1. Is(m1, q2, s, d, c, p, a, mp)
    BY <1>1, <1>4, HeadsAre, IsRemoved DEF m1, q2
  <2>2. Is(m2, q2, s, d, c2, p, a, mp)
    BY <1>1, <2>1, IsPut DEF m2, c2
  <2> QED
    BY <1>1, <2>2, IsState DEF States, m3, s2
<1>6. RunsOnly(q, q2, t) /\ Stored1(s, s2, t, "SUSPENDED") /\ t \notin q2[RunQ]
  BY <1>1, RunsOnlyIs, HeadsAre DEF q2, s2, Stored1
<1>7. Stored1(c, c2, t, c[t] - One(t \in q[RunQ]) + One(t \in q2[RunQ]))
  BY <1>1, <1>4, <1>6 DEF c2, One, Stored1
<1>8. Good(q2, s2, d, c2, p, a, mp, e, x)
  BY <1>1, <1>2, <1>6, <1>7, GoodFlagged DEF FlagFits
<1>9. MayYield(s2, q2[RunQ], current)
  BY <1>1, <1>6 DEF MayYield, Stored1
<1>10. IInv' /\ k'.state = s2
  BY <1>1, <1>3, <1>5, <1>8, <1>9, SchedYield DEF x, e
<1>11. \A v \in q[SleepQ] : k'.state[v] = s[v]
  <2>1. \A v \in q[SleepQ] : v \in Thread /\ v # t
    BY <1>1, SleepersWait
  <2> QED
    BY <1>6, <1>10, <2>1 DEF Stored1
<1> QED
  BY <1>1, <1>10, <1>11, NobodyWoken

\* cas2i_runflag lets a suspended thread run.
LEMMA RunAgainSound ==
  ASSUME NEW q, NEW s, NEW d, NEW c, NEW p, NEW a, NEW mp, Serving(q, s, d, c, p, a, mp),
         NEW t \in mp, s[t] = "SUSPENDED", t # IdleThread,
         Return(sched_add_runnable_thread(k, t))
  PROVE  IInv' /\ SleptOut(k, k')
<1> DEFINE m1 == thread_get(k, t)
           m2 == [m1 EXCEPT !.state[t] = "RUNNABLE"]
           m3 == Q_INSERT_TAIL(m2, RunQ, t, "runnable_link")
           q2 == [q EXCEPT ![RunQ] = q[RunQ] \cup {t}]
           s2 == [s EXCEPT ![t] = "RUNNABLE"]
           c2 == [c EXCEPT ![t] = c[t] + 1]
           x == InWait(cont)
           e == Held(mp, x)
<1>1. /\ Is(k, q, s, d, c, p, a, mp) /\ Good(q, s, d, c, p, a, mp, e, x)
      /\ t \in mp /\ t \in Thread /\ s[t] = "SUSPENDED" /\ t # IdleThread
      /\ q \in [Heads -> SUBSET Thread] /\ s \in [Thread -> States] /\ c \in [Thread -> Int]
      /\ a \in SUBSET Thread /\ cont \in [Thread -> Conts]
      /\ current \in mp /\ current \in Thread /\ s[current] = "RUNNABLE" /\ current \notin x
  BY DEF Serving, Good, Agrees
<1>2. e \in [Thread -> Nat]
  BY DEF Held, One
<1>3. Return(m3)
  BY DEF sched_add_runnable_thread
<1> HIDE DEF m1, m2, m3, q2, s2, c2, x, e
<1>4. t \notin q[RunQ] /\ t \notin q[DoneQ] /\ t \notin q[SleepQ]
  BY <1>1, AwakeIs
<1>5. Free(q, RunQ, t)
  <2>1. \A h \in Heads : LinkOf[h] = "runnable_link" => h = RunQ \/ h = DoneQ
    BY HeadsAre, HeadIs
  <2> QED
    BY <1>4, <2>1, HeadsAre DEF Free
<1>6. Is(m3, q2, s2, d, c2, p, a, mp)
  <2>1. Is(m1, q, s, d, c2, p, a, mp)
    BY <1>1, IsGet DEF m1, c2
  <2>2. Is(m2, q, s2, d, c2, p, a, mp)
    BY <1>1, <2>1, IsState DEF States, m2, s2
  <2> QED
    BY <1>1, <1>5, <2>2, HeadsAre, IsInserted DEF m3, q2
<1>7. RunsOnly(q, q2, t) /\ Stored1(s, s2, t, "RUNNABLE") /\ t \in q2[RunQ]
  BY <1>1, RunsOnlyIs, HeadsAre DEF q2, s2, Stored1
<1>8. Stored1(c, c2, t, c[t] - One(t \in q[RunQ]) + One(t \in q2[RunQ]))
  BY <1>1, <1>4, <1>7 DEF c2, One, Stored1
<1>9. Good(q2, s2, d, c2, p, a, mp, e, x)
  BY <1>1, <1>2, <1>7, <1>8, GoodFlagged DEF FlagFits
<1>10. s2[current] = "RUNNABLE"
  BY <1>1, <1>7 DEF Stored1
<1>11. IInv' /\ k'.state = s2
  BY <1>1, <1>3, <1>6, <1>9, <1>10, Returned DEF x, e
<1>12. \A v \in q[SleepQ] : k'.state[v] = s[v]
  <2>1. \A v \in q[SleepQ] : v \in Thread /\ v # t
    BY <1>1, SleepersWait
  <2> QED
    BY <1>7, <1>11, <2>1 DEF Stored1
<1> QED
  BY <1>1, <1>11, <1>12, NobodyWoken

\* cas2i_runflag: a caller suspends itself, or lets a suspended thread run.
LEMMA RunFlagSound ==
  ASSUME IInv, sys_cas2i_runflag, SoundPrograms
  PROVE  IInv' /\ SleptOut(k, k')
<1>1. mode # "kernel" /\ "cas2i" \in Program[current] /\ current # IdleThread
  BY DEF sys_cas2i_runflag, Calling, SoundPrograms
<1>2. PICK q, s, d, c, p, a, mp : Serving(q, s, d, c, p, a, mp)
  BY <1>1, ServingIs
<1>3. PICK t \in Thread, ev1, nv1, ev2, nv2 \in {-1, 0, 1} :
        LET st  == k.state[t]
            new == NewRunState(st, ev1, nv1, ev2, nv2)
        IN  IF \/ t \notin k.map \/ st \in {"ZOMBIE", "DONE"} \/ new = st
               \/ new = "SUSPENDED" /\ (t # current \/ st # "RUNNABLE")
            THEN Return(k)
            ELSE IF new = "SUSPENDED"
            THEN sched_yield([sched_remove_runnable_thread(k, t)
                                EXCEPT !.state[t] = "SUSPENDED"], "sched_yield")
            ELSE Return(sched_add_runnable_thread(k, t))
  BY DEF sys_cas2i_runflag
<1> DEFINE new == NewRunState(k.state[t], ev1, nv1, ev2, nv2)
<1>4. new = "SUSPENDED" \/ new = "RUNNABLE"
  BY DEF NewRunState
<1>5. k.map = mp /\ k.state = s
  BY <1>2, IsFields DEF Serving
<1> HIDE DEF new
<1>6. CASE Return(k)
  BY <1>2, <1>6, ReturnedSame
<1>7. CASE /\ t = current
           /\ sched_yield([sched_remove_runnable_thread(k, t) EXCEPT !.state[t] = "SUSPENDED"],
                          "sched_yield")
  BY <1>1, <1>2, <1>7, SuspendSound
<1>8. CASE t \in mp /\ s[t] # "RUNNABLE" /\ Return(sched_add_runnable_thread(k, t))
  <2>1. t # IdleThread
    BY <1>2, <1>8 DEF Serving, Good, Agrees
  <2>2. s[t] # "WAITING"
    BY <1>1, <1>2, <1>8, NobodyWaits
  <2>3. s[t] = "SUSPENDED"
    <3>1. Good(q, s, d, c, p, a, mp, Held(mp, InWait(cont)), InWait(cont)) /\ a \in SUBSET Thread
      BY <1>2 DEF Serving
    <3> QED
      BY <1>8, <2>1, <2>2, <3>1, AwakeIs
  <2> QED
    BY <1>2, <1>8, <2>1, <2>3, RunAgainSound
<1> QED
  BY <1>3, <1>4, <1>5, <1>6, <1>7, <1>8 DEF new

\* CleanUp: there are no dead threads, and the sleepers W wake up.
LEMMA CleanedUp ==
  ASSUME NEW m, NEW q, NEW s, NEW d, NEW c, NEW p, NEW a, NEW mp, Is(m, q, s, d, c, p, a, mp),
         NEW e, NEW x, Good(q, s, d, c, p, a, mp, e, x),
         NEW W, W = {v \in q[SleepQ] : d[v] = 0},
         NEW q2, q2 = Woken(q, SleepQ, W),
         NEW s2, s2 = Runnable(s, W)
  PROVE  Is(CleanUp(m), q2, s2, d, c, p, a, mp) /\ Good(q2, s2, d, c, p, a, mp, e, x)
<1>1. /\ q \in [Heads -> SUBSET Thread] /\ s \in [Thread -> States] /\ a \in SUBSET Thread
      /\ SleepQ \in Heads /\ LinkOf[SleepQ] = "wait_link" /\ q[DoneQ] = {}
  BY IsFields, HeadsAre DEF Typed, Good, Placed
<1>2. PutDead(m) = m
  BY <1>1, NothingPut
<1>3. \A v \in q[SleepQ] : s[v] = "WAITING" /\ v \notin q[RunQ] /\ v \notin q[DoneQ]
  <2>1. \A v \in q[SleepQ] : v \in a \ {IdleThread}
    BY <1>1 DEF Good, Placed
  <2> QED
    BY <1>1, <2>1, SleepersWait DEF Good, Agrees
<1>4. WaitList(q, s, SleepQ)
  BY <1>1, <1>3 DEF WaitList
<1>5. Is(CleanUp(m), q2, s2, d, c, p, a, mp)
  BY <1>2, <1>4, IsWoken DEF CleanUp
<1>6. OneWaitList(q)
  BY HeadsAre, OnlyThere DEF OneWaitList
<1>7. W \in SUBSET q[SleepQ]
  OBVIOUS
<1> QED
  BY <1>1, <1>5, <1>6, <1>7, GoodAwake

\* The end of thread_wait, for the caller t: x is left, the reference is put.
LEMMA WaitLeft ==
  ASSUME NEW m, NEW q, NEW s, NEW d, NEW c, NEW p, NEW a, NEW mp, Is(m, q, s, d, c, p, a, mp),
         NEW x, NEW t \in mp, t \notin q[SelfWait(t)], NEW e, e = Held(mp, x \cup {t}),
         Good(q, s, d, c, p, a, mp, e, x \ {t}), x \subseteq mp,
         NEW y, y = x \ {t}
  PROVE  StatesKept(FinishWait(m, t), s, d, mp, Held(mp, y), y)
<1>1. t \in Thread /\ mp \subseteq Thread
  BY IsFields DEF Typed
<1>2. e \in [Thread -> Nat] /\ e[t] = 3
  BY <1>1 DEF Held, One
<1>3. Unheld(e, mp, y)
  BY DEF Held, One, Unheld
<1>4. Held(mp, y) = [e EXCEPT ![t] = 2]
  <2>1. y = (x \cup {t}) \ {t}
    OBVIOUS
  <2> QED
    BY <1>1, <2>1, HeldUnwaited
<1>5. Good(q, s, d, c, p, a, mp, e, y) /\ t \notin y
  OBVIOUS
<1> DEFINE e2 == Held(mp, y)
<1> HIDE DEF e2
<1>6. e2 = [e EXCEPT ![t] = 2]
  BY <1>4 DEF e2
<1>7. StatesKept(FinishWait(m, t), s, d, mp, e2, y)
  BY <1>2, <1>3, <1>5, <1>6, WaitFinished
<1> QED
  BY <1>7 DEF e2

\* A thread that was switched in runs its continuation.
LEMMA ResumeSound ==
  ASSUME IInv, Resume
  PROVE  IInv' /\ SleptOut(k, k')
<1> DEFINE t == current
           x == InWait(cont)
           y == x \ {t}
<1>1. /\ mode' = "user" /\ current' = t /\ cont' = [cont EXCEPT ![t] = "none"]
      /\ k' = CASE cont[t] \in {"exit_kernel", "thread_yield"} -> k
                [] cont[t] = "thread_wait" -> FinishWait(CleanUp(k), t)
                [] OTHER -> CleanUp(k)
  BY DEF Resume
<1>2. PICK q, s, d, c, p, a, mp :
        /\ Is(k, q, s, d, c, p, a, mp)
        /\ Good(q, s, d, c, p, a, mp, Held(mp, x), x)
        /\ t \in mp /\ s[t] = "RUNNABLE"
  BY DEF IInv, Sound
<1>3. /\ t \in Thread /\ mp \subseteq Thread /\ cont \in [Thread -> Conts] /\ x \subseteq Thread
      /\ a \in SUBSET Thread
  BY <1>2, IsFields DEF Typed, IInv, Sound, InWait
<1>4. /\ cont' \in [Thread -> Conts] /\ InWait(cont') = y /\ cont'[t] # "thread_wait"
      /\ t \in x <=> cont[t] = "thread_wait"
  BY <1>1, <1>3 DEF InWait, Conts
<1>5. t \notin q[SelfWait(t)] /\ x \subseteq mp
  <2>1. x \subseteq mp
    BY <1>2 DEF Good, Waits
  <2>2. t \notin q[SelfWait(t)]
    <3>1. CASE t = IdleThread
      BY <1>2, <1>3, <3>1, HeadsAre DEF Good, Placed
    <3>2. CASE t # IdleThread
      BY <1>2, <1>3, <3>2 DEF Good, Agrees
    <3> QED
      BY <3>1, <3>2
  <2> QED
    BY <2>1, <2>2
<1> HIDE DEF t, x, y
\* What is left to show, for memory n with values q2, s2, c2, p2, a2.
<1>6. ASSUME NEW q2, NEW s2, NEW c2, NEW p2, NEW a2, Is(k', q2, s2, d, c2, p2, a2, mp),
             Good(q2, s2, d, c2, p2, a2, mp, Held(mp, y), y),
             \A v \in mp : s2[v] = IF v \in q[SleepQ] /\ d[v] = 0 THEN "RUNNABLE" ELSE s[v]
      PROVE  IInv' /\ SleptOut(k, k')
  <2>1. s2[t] = "RUNNABLE"
    BY <1>2, <1>6
  <2>2. IInv'
    BY <1>1, <1>2, <1>4, <1>6, <2>1 DEF IInv, Sound
  <2>3. \A v \in q[SleepQ] : k'.state[v] = "RUNNABLE" => d[v] = 0
    <3>1. k'.state = s2
      BY <1>6, IsFields
    <3>2. \A v \in q[SleepQ] : v \in mp /\ s[v] = "WAITING"
      BY <1>2, SleepersWait
    <3> QED
      BY <1>6, <3>1, <3>2
  <2> QED
    BY <1>2, <2>2, <2>3, SleptOutIs
<1>7. CASE cont[t] \in {"exit_kernel", "thread_yield"}
  <2>1. k' = k /\ y = x
    BY <1>1, <1>4, <1>7 DEF y
  <2>2. IInv'
    BY <1>1, <1>2, <1>4, <2>1 DEF IInv, Sound
  <2>3. \A v \in q[SleepQ] : k'.state[v] = s[v]
    BY <1>2, <2>1, IsFields
  <2> QED
    BY <1>2, <2>2, <2>3, NobodyWoken
<1> DEFINE W == {v \in q[SleepQ] : d[v] = 0}
           q1 == Woken(q, SleepQ, W)
           s1 == Runnable(s, W)
           n == CleanUp(k)
           e == Held(mp, x)
<1>8. Is(n, q1, s1, d, c, p, a, mp) /\ Good(q1, s1, d, c, p, a, mp, e, x)
  BY <1>2, CleanedUp
<1>9. \A v \in mp : s1[v] = IF v \in q[SleepQ] /\ d[v] = 0 THEN "RUNNABLE" ELSE s[v]
  BY <1>3 DEF Runnable
<1>10. q1[SelfWait(t)] = q[SelfWait(t)]
  BY <1>3, HeadsAre DEF Woken
<1> HIDE DEF q1, s1, n, W
<1>11. CASE cont[t] = "thread_wait"
  <2>1. k' = FinishWait(n, t) /\ t \in x
    BY <1>1, <1>4, <1>11 DEF n
  <2>2. Good(q1, s1, d, c, p, a, mp, e, y)
    <3> HIDE DEF e
    <3>1. t \notin q1[SelfWait(t)]
      BY <1>5, <1>10
    <3> QED
      BY <1>3, <1>8, <3>1, LeavesWait DEF y
  <2>3. StatesKept(FinishWait(n, t), s1, d, mp, Held(mp, y), y)
    <3>1. e = Held(mp, x \cup {t})
      <4>1. x \cup {t} = x
        BY <2>1
      <4> QED
        BY <4>1
    <3> HIDE DEF e
    <3>2. y = x \ {t} /\ Good(q1, s1, d, c, p, a, mp, e, x \ {t})
      BY <2>2 DEF y
    <3> QED
      BY <1>2, <1>5, <1>8, <1>10, <3>1, <3>2, WaitLeft
  <2>4. PICK q2, s2, c2, p2, a2 :
          /\ Is(FinishWait(n, t), q2, s2, d, c2, p2, a2, mp)
          /\ Good(q2, s2, d, c2, p2, a2, mp, Held(mp, y), y)
          /\ \A v \in mp : s2[v] = s1[v]
    BY <2>3 DEF StatesKept
  <2>5. \A v \in mp : s2[v] = IF v \in q[SleepQ] /\ d[v] = 0 THEN "RUNNABLE" ELSE s[v]
    BY <1>9, <2>4
  <2> QED
    BY <1>6, <2>1, <2>4, <2>5
<1>12. CASE cont[t] # "thread_wait" /\ cont[t] \notin {"exit_kernel", "thread_yield"}
  <2>1. k' = n /\ y = x
    BY <1>1, <1>4, <1>12 DEF n, y
  <2> QED
    BY <1>6, <1>8, <1>9, <2>1
<1> QED
  BY <1>7, <1>11, <1>12

\* A thread takes a reference to itself.
LEMMA GoodHeld ==
  ASSUME NEW q, NEW s, NEW d, NEW c \in [Thread -> Int], NEW p, NEW a \in SUBSET Thread, NEW mp,
         NEW e \in [Thread -> Nat], NEW x, Good(q, s, d, c, p, a, mp, e, x), NEW t,
         NEW c2, Stored1(c, c2, t, c[t] + 1), NEW e2, Stored1(e, e2, t, e[t] + 1)
  PROVE  Good(q, s, d, c2, p, a, mp, e2, x)
<1>1. ASSUME NEW v \in a
      PROVE  c2[v] = e2[v] + One(Queued(q, v)) + One(Owned(q, p, v)) + Cardinality(Kids(p, a, v))
  <2> DEFINE n == Cardinality(Kids(p, a, v))
             i == One(Queued(q, v))
             j == One(Owned(q, p, v))
  <2>1. c[v] = e[v] + i + j + n
    BY DEF Good, Counted
  <2>2. n \in Nat /\ e[v] \in Nat /\ (i = 0 \/ i = 1) /\ (j = 0 \/ j = 1)
    BY KidsFinite DEF One
  <2>3. /\ c2[v] = IF v = t THEN c[v] + 1 ELSE c[v]
        /\ e2[v] = IF v = t THEN e[v] + 1 ELSE e[v]
    BY DEF Stored1
  <2> HIDE DEF n, i, j
  <2>4. c2[v] = e2[v] + i + j + n
    BY <2>1, <2>2, <2>3
  <2> QED
    BY <2>4 DEF n, i, j
<1>2. Counted(q, c2, p, a, e2)
  BY <1>1 DEF Counted
<1> QED
  BY <1>2 DEF Good

\* wait, when there is a zombie to reap.
LEMMA WaitReaps ==
  ASSUME IInv, mode # "kernel", Return(FinishWait(thread_get(k, current), current))
  PROVE  IInv' /\ SleptOut(k, k')
<1> DEFINE t == current
           x == InWait(cont)
<1>1. PICK q, s, d, c, p, a, mp : Serving(q, s, d, c, p, a, mp)
  BY ServingIs
<1> DEFINE m == thread_get(k, t)
           c2 == [c EXCEPT ![t] = c[t] + 1]
           e == Held(mp, x)
           e2 == Held(mp, x \cup {t})
<1>2. t \in mp /\ t \in Thread /\ t \notin x /\ s[t] = "RUNNABLE" /\ mp \subseteq Thread
  BY <1>1 DEF Serving
<1>3. Is(m, q, s, d, c2, p, a, mp)
  BY <1>1, <1>2, IsGet DEF Serving
<1>4. Good(q, s, d, c2, p, a, mp, e2, x)
  <2>1. Stored1(e, e2, t, e[t] + 1)
    <3>1. e = Held(mp, x)
      OBVIOUS
    <3> HIDE DEF e
    <3> QED
      BY <1>2, <3>1, HeldMore
  <2>2. Stored1(c, c2, t, c[t] + 1)
    BY <1>1 DEF Serving, Stored1
  <2>3. e \in [Thread -> Nat]
    BY DEF Held, One
  <2>4. Good(q, s, d, c, p, a, mp, e, x)
    BY <1>1 DEF Serving
  <2> HIDE DEF e, e2, c2, t, x
  <2> QED
    BY <1>1, <2>1, <2>2, <2>3, <2>4, GoodHeld DEF Serving
<1>5. t \notin q[SelfWait(t)] /\ x \subseteq mp
  <2>1. x \subseteq mp
    BY <1>4 DEF Good, Waits
  <2>2. t \notin q[SelfWait(t)]
    <3>1. CASE t = IdleThread
      BY <1>2, <1>4, <3>1, HeadsAre DEF Good, Placed
    <3>2. CASE t # IdleThread
      BY <1>2, <1>4, <3>2 DEF Good, Agrees
    <3> QED
      BY <3>1, <3>2
  <2> QED
    BY <2>1, <2>2
<1>6. x \ {t} = x
  BY <1>2
<1> HIDE DEF m, c2, x, t
<1>7. StatesKept(FinishWait(m, t), s, d, mp, Held(mp, x), x)
  <2>1. e2 = Held(mp, x \cup {t})
    OBVIOUS
  <2> HIDE DEF e2
  <2>2. Good(q, s, d, c2, p, a, mp, e2, x \ {t}) /\ x = x \ {t}
    BY <1>4, <1>6
  <2> QED
    BY <1>2, <1>3, <1>5, <2>1, <2>2, WaitLeft
<1>8. PICK q2, s2, c3, p2, a2 :
        /\ Is(FinishWait(m, t), q2, s2, d, c3, p2, a2, mp)
        /\ Good(q2, s2, d, c3, p2, a2, mp, Held(mp, x), x)
        /\ \A v \in mp : s2[v] = s[v]
  BY <1>7 DEF StatesKept
<1>9. IInv' /\ k'.state = s2
  <2>1. s2[t] = "RUNNABLE"
    BY <1>2, <1>8
  <2> QED
    BY <1>1, <1>8, <2>1, Returned DEF Serving, m, t, x
<1>10. \A v \in q[SleepQ] : k'.state[v] = s[v]
  BY <1>1, <1>8, <1>9, SleepersWait DEF Serving
<1> QED
  BY <1>1, <1>9, <1>10, NobodyWoken DEF Serving

\* wait, when there are children and no zombie.
LEMMA WaitBlocks ==
  ASSUME IInv, mode # "kernel", current # IdleThread, SomeoneBlocks,
         Q_GET_FRONT(k, Children(current)) # NULL, Q_GET_FRONT(k, Zombies(current)) = NULL,
         sched_wait_on(thread_get(k, current), SelfWait(current), 0, "thread_wait")
  PROVE  IInv' /\ SleptOut(k, k')
<1> DEFINE t == current
           x == InWait(cont)
           m == thread_get(k, t)
           m1 == [m EXCEPT !.deadline[t] = 0, !.state[t] = "WAITING"]
           m2 == Q_INSERT_TAIL(Q_REMOVE(m1, RunQ, t, "runnable_link"), SelfWait(t), t, "wait_link")
<1>1. PICK q, s, d, c, p, a, mp : Serving(q, s, d, c, p, a, mp)
  BY ServingIs
<1>2. /\ t \in mp /\ t \in Thread /\ t \notin x /\ s[t] = "RUNNABLE" /\ mp \subseteq Thread
      /\ d \in [Thread -> Nat]
  BY <1>1, IsFields DEF Serving, Typed
<1> DEFINE c2 == [c EXCEPT ![t] = c[t] + 1]
           q2 == [q EXCEPT ![RunQ] = q[RunQ] \ {t}, ![SelfWait(t)] = q[SelfWait(t)] \cup {t}]
           s2 == [s EXCEPT ![t] = "WAITING"]
           d2 == [d EXCEPT ![t] = 0]
           e == Held(mp, x)
           e2 == Held(mp, x \cup {t})
           x2 == x \cup {t}
<1>3. Is(m, q, s, d, c2, p, a, mp)
  BY <1>1, <1>2, IsGet DEF Serving
<1>4. sched_yield(m2, "thread_wait")
  <2>1. m.state[t] = "RUNNABLE"
    BY <1>2, <1>3, IsFields
  <2> QED
    BY <2>1 DEF sched_wait_on
<1> HIDE DEF m
<1>5. Is(m2, q2, s2, d2, c2, p, a, mp)
  <2> HIDE DEF c2, e, e2, x, t
  <2>1. t \in q[RunQ]
    <3> HIDE DEF m1, m2, q2, s2, d2, x2
    <3>1. /\ Good(q, s, d, c, p, a, mp, Held(mp, InWait(cont)), InWait(cont))
          /\ a \in SUBSET Thread /\ t # IdleThread
      BY <1>1 DEF Serving, t
    <3> QED
      BY <1>2, <3>1 DEF Good, Agrees
  <2>2. SelfWait(t) \in Heads /\ LinkOf[SelfWait(t)] = "wait_link"
    BY <1>2, HeadsAre
  <2>3. Free(q, SelfWait(t), t)
    BY <1>1, <1>2, <2>2, RunnerFree DEF Serving, t
  <2> QED
    BY <1>3, <2>1, <2>2, <2>3, IsBlocked
<1>6. q[Children(t)] # {} /\ q[Zombies(t)] = {}
  BY <1>1, <1>2, HeadsAre, IsFront DEF Serving
<1>7. /\ FallsWaiting(q, q2, t) /\ Stored1(s, s2, t, "WAITING") /\ Stored1(d, d2, t, 0)
      /\ Stored1(c, c2, t, c[t] + 1)
  <2>1. FallsWaiting(q, q2, t)
    BY <1>1, <1>2, FallsWaitingIs DEF Serving
  <2> QED
    BY <1>1, <1>2, <2>1 DEF Serving, Stored1
<1>8. Stored1(e, e2, t, e[t] + 1) /\ e \in [Thread -> Nat]
  <2>1. e = Held(mp, x) /\ e \in [Thread -> Nat]
    BY DEF Held, One
  <2> HIDE DEF e
  <2> QED
    BY <1>2, <2>1, HeldMore
<1> HIDE DEF m2, q2, s2, d2, c2
<1>9. Good(q2, s2, d2, c2, p, a, mp, e2, x2)
  <2>1. Good(q, s, d, c, p, a, mp, e, x) /\ t # IdleThread
    BY <1>1 DEF Serving
  <2> HIDE DEF e, e2, x, t
  <2>2. x2 = x \cup {t}
    OBVIOUS
  <2> HIDE DEF x2
  <2> QED
    BY <1>1, <1>2, <1>6, <1>7, <1>8, <2>1, <2>2, GoodInWait DEF Serving
<1>10. MayYield(s2, q2[RunQ], t)
  BY <1>2, <1>7 DEF MayYield, Stored1
<1>11. /\ mode' = "kernel" /\ k' = Skim(Requeue(m2, t))
       /\ current' = NextThread(k') /\ cont' = [cont EXCEPT ![t] = "thread_wait"]
  BY <1>4 DEF sched_yield, sched_thread_yield
<1>12. cont' \in [Thread -> Conts] /\ InWait(cont') = x2
  BY <1>1, <1>11 DEF Serving, InWait, Conts
<1> DEFINE n == k'
           ct == cont'
<1>13. /\ x2 = InWait(ct) /\ Good(q2, s2, d2, c2, p, a, mp, Held(mp, x2), x2)
       /\ ct \in [Thread -> Conts] /\ n = Skim(Requeue(m2, t))
  BY <1>9, <1>11, <1>12
<1> HIDE DEF n, ct, x2, t
<1>14. Sound(n, NextThread(n), "kernel", ct) /\ n.state = s2
  BY <1>5, <1>10, <1>13, Switched
<1>15. IInv' /\ k'.state = s2
  BY <1>11, <1>14 DEF IInv, n, ct
<1>16. \A v \in q[SleepQ] : k'.state[v] = s[v]
  <2>1. \A v \in q[SleepQ] : v \in Thread /\ s[v] = "WAITING"
    BY <1>1, SleepersWait DEF Serving
  <2> QED
    BY <1>2, <1>7, <1>15, <2>1 DEF Stored1
<1> QED
  BY <1>1, <1>15, <1>16, NobodyWoken DEF Serving

\* wait: the three ways out of thread_wait's first half.
LEMMA WaitSound ==
  ASSUME IInv, sys_wait, SoundPrograms
  PROVE  IInv' /\ SleptOut(k, k')
<1>1. mode # "kernel" /\ current # IdleThread /\ SomeoneBlocks
  <2>1. mode # "kernel" /\ current # IdleThread /\ "wait" \in Program[current]
    BY DEF sys_wait, Calling, SoundPrograms
  <2>2. current \in Thread
    BY <2>1, ServingIs DEF Serving
  <2> QED
    BY <2>1, <2>2 DEF SomeoneBlocks
<1>2. \/ Return(k)
      \/ Return(FinishWait(thread_get(k, current), current))
      \/ /\ Q_GET_FRONT(k, Children(current)) # NULL /\ Q_GET_FRONT(k, Zombies(current)) = NULL
         /\ sched_wait_on(thread_get(k, current), SelfWait(current), 0, "thread_wait")
  BY DEF sys_wait
<1>3. CASE Return(k)
  BY <1>1, <1>3, ServingIs, ReturnedSame
<1> QED
  BY <1>1, <1>2, <1>3, WaitReaps, WaitBlocks

\* fork, when there is memory for the child t.
LEMMA ChildBorn ==
  ASSUME IInv, mode # "kernel", NEW t \in Thread, t \notin k.alloc,
         NEW m, m = sched_add_runnable_thread(thread_get(thread_copy(k, t, current), t), t),
         k' = Skim(Requeue(m, current)), current' = NextThread(k'), mode' = "kernel",
         cont' = [cont EXCEPT ![current] = "sched_yield", ![t] = "exit_kernel"]
  PROVE  IInv' /\ SleptOut(k, k')
<1> DEFINE u == current
           x == InWait(cont)
<1>1. PICK q, s, d, c, p, a, mp : Serving(q, s, d, c, p, a, mp)
  BY ServingIs
<1>2. /\ u \in mp /\ u \in Thread /\ u \notin x /\ s[u] = "RUNNABLE" /\ mp \subseteq Thread
      /\ d \in [Thread -> Nat] /\ t \notin a /\ t \notin mp /\ t \notin x /\ u # t
  <2>1. k.alloc = a /\ d \in [Thread -> Nat]
    BY <1>1, IsFields DEF Serving, Typed
  <2>2. mp \subseteq a /\ x \subseteq mp
    BY <1>1 DEF Serving, Good, Agrees, Waits
  <2> QED
    BY <1>1, <2>1, <2>2 DEF Serving
<1> DEFINE c2 == [c EXCEPT ![t] = 4, ![u] = c[u] + 1]
           q2 == [q EXCEPT ![Children(u)] = q[Children(u)] \cup {t}, ![RunQ] = q[RunQ] \cup {t}]
           s2 == [s EXCEPT ![t] = "RUNNABLE"]
           d2 == [d EXCEPT ![t] = 0]
           p2 == [p EXCEPT ![t] = u]
           e == Held(mp, x)
           e2 == Held(mp \cup {t}, x)
           a2 == a \cup {t}
           mp2 == mp \cup {t}
<1>3. Is(m, q2, s2, d2, c2, p2, a2, mp2)
  <2>1. Unused(q, t)
    <3>1. \A h \in Heads : t \notin q[h]
      BY <1>1, <1>2 DEF Serving, Good, Placed
    <3>2. q[SelfWait(t)] = {} /\ q[Children(t)] = {} /\ q[Zombies(t)] = {}
      BY <1>1, <1>2 DEF Serving, Good, Placed
    <3> QED
      BY <3>1, <3>2 DEF Unused
  <2>2. Is(k, q, s, d, c, p, a, mp)
    BY <1>1 DEF Serving
  <2> HIDE DEF x
  <2> QED
    BY <1>2, <2>1, <2>2, IsForked
<1>4. /\ Born(q, q2, t, u) /\ Stored1(s, s2, t, "RUNNABLE") /\ Stored1(d, d2, t, 0)
      /\ Stored1(p, p2, t, u)
      /\ \A v \in Thread : c2[v] = IF v = t THEN 4 ELSE IF v = u THEN c[u] + 1 ELSE c[v]
  <2>1. Born(q, q2, t, u)
    BY <1>1, <1>2, BornIs DEF Serving
  <2>2. Stored1(s, s2, t, "RUNNABLE") /\ Stored1(d, d2, t, 0) /\ Stored1(p, p2, t, u)
    BY <1>1, <1>2 DEF Serving, Stored1
  <2>3. \A v \in Thread : c2[v] = IF v = t THEN 4 ELSE IF v = u THEN c[u] + 1 ELSE c[v]
    BY <1>1, <1>2 DEF Serving
  <2> QED
    BY <2>1, <2>2, <2>3
<1>5. Stored1(e, e2, t, 2) /\ e \in [Thread -> Nat]
  <2>1. e = Held(mp, x) /\ e \in [Thread -> Nat]
    BY DEF Held, One
  <2> HIDE DEF e
  <2> QED
    BY <1>2, <2>1, HeldMore
<1> HIDE DEF q2, s2, d2, c2, p2
<1>6. Good(q2, s2, d2, c2, p2, a2, mp2, e2, x)
  <2>1. /\ Good(q, s, d, c, p, a, mp, e, x) /\ q \in [Heads -> SUBSET Thread]
        /\ c \in [Thread -> Int] /\ p \in [Thread -> Ptr] /\ a \in SUBSET Thread
    BY <1>1 DEF Serving
  <2> HIDE DEF e, e2, x, u
  <2> QED
    BY <1>2, <1>4, <1>5, <2>1, GoodBorn
<1>7. MayYield(s2, q2[RunQ], u)
  <2>1. a2 \in SUBSET Thread /\ u \in mp2 /\ s2[u] = "RUNNABLE"
    BY <1>1, <1>2, <1>4 DEF Serving, Stored1
  <2> HIDE DEF e2, x, u, a2, mp2
  <2> QED
    BY <1>6, <2>1, RunnerYields
<1>8. cont' \in [Thread -> Conts] /\ InWait(cont') = x
  BY <1>1, <1>2 DEF Serving, InWait, Conts
<1> DEFINE n == k'
           ct == cont'
<1>9. /\ x = InWait(ct) /\ Good(q2, s2, d2, c2, p2, a2, mp2, Held(mp2, x), x)
      /\ ct \in [Thread -> Conts] /\ n = Skim(Requeue(m, u))
  BY <1>6, <1>8
<1> HIDE DEF n, ct, x, u, a2, mp2
<1>10. Sound(n, NextThread(n), "kernel", ct) /\ n.state = s2
  BY <1>3, <1>7, <1>9, Switched
<1>11. IInv' /\ k'.state = s2
  BY <1>10 DEF IInv, n, ct
<1>12. \A v \in q[SleepQ] : k'.state[v] = s[v]
  <2>1. \A v \in q[SleepQ] : v \in Thread /\ v \in a
    BY <1>1, SleepersWait DEF Serving
  <2> QED
    BY <1>2, <1>4, <1>11, <2>1 DEF Stored1
<1> QED
  BY <1>1, <1>11, <1>12, NobodyWoken DEF Serving

\* fork.
LEMMA ForkSound ==
  ASSUME IInv, sys_fork
  PROVE  IInv' /\ SleptOut(k, k')
<1>1. mode # "kernel"
  BY DEF sys_fork, Calling
<1>2. CASE Return(k)
  BY <1>1, <1>2, ServingIs, ReturnedSame
<1>3. CASE \E t \in Thread \ k.alloc :
             LET m == sched_add_runnable_thread(thread_get(thread_copy(k, t, current), t), t)
                 n == Skim(Requeue(m, current))
             IN  /\ k' = n /\ current' = NextThread(n) /\ mode' = "kernel"
                 /\ cont' = [cont EXCEPT ![current] = "sched_yield", ![t] = "exit_kernel"]
  <2>1. PICK t \in Thread \ k.alloc :
          LET m == sched_add_runnable_thread(thread_get(thread_copy(k, t, current), t), t)
              n == Skim(Requeue(m, current))
          IN  /\ k' = n /\ current' = NextThread(n) /\ mode' = "kernel"
              /\ cont' = [cont EXCEPT ![current] = "sched_yield", ![t] = "exit_kernel"]
    BY <1>3
  <2> DEFINE m == sched_add_runnable_thread(thread_get(thread_copy(k, t, current), t), t)
  <2>2. /\ k' = Skim(Requeue(m, current)) /\ current' = NextThread(k') /\ mode' = "kernel"
        /\ cont' = [cont EXCEPT ![current] = "sched_yield", ![t] = "exit_kernel"]
    BY <2>1
  <2>3. t \in Thread /\ t \notin k.alloc
    OBVIOUS
  <2> HIDE DEF m
  <2> QED
    BY <1>1, <2>2, <2>3, ChildBorn DEF m
<1> QED
  BY <1>2, <1>3 DEF sys_fork

-----------------------------------------------------------------------------
\* Every step keeps the invariant and wakes no sleeper early.
LEMMA StepSound ==
  ASSUME IInv, [Next]_vars, SoundPrograms
  PROVE  IInv' /\ SleptOut(k, k')
<1>1. CASE UNCHANGED vars
  <2>1. k' = k /\ current' = current /\ mode' = mode /\ cont' = cont
    BY <1>1 DEF vars
  <2>2. IInv'
    BY <2>1 DEF IInv
  <2>3. PICK q, s, d, c, p, a, mp :
          /\ Is(k, q, s, d, c, p, a, mp)
          /\ Good(q, s, d, c, p, a, mp, Held(mp, InWait(cont)), InWait(cont))
    BY DEF IInv, Sound
  <2>4. \A v \in q[SleepQ] : k'.state[v] = s[v]
    BY <2>1, <2>3, IsFields
  <2> QED
    BY <2>2, <2>3, <2>4, NobodyWoken
<1>2. CASE EnterKernel
  BY <1>2, EnterKernelSound
<1>3. CASE Syscall
  BY <1>3, ForkSound, VanishSound, WaitSound, SleepSound, YieldSound, ThreadYieldSound, KillSound,
     RunFlagSound DEF Syscall
<1>4. CASE Resume
  BY <1>4, ResumeSound
<1>5. CASE UserTick
  BY <1>5, UserTickSound
<1>6. CASE KernelTick
  BY <1>6, KernelTickSound
<1> QED
  BY <1>1, <1>2, <1>3, <1>4, <1>5, <1>6 DEF Next

-----------------------------------------------------------------------------
(***************************************************************************)
(* What the invariant says of the queues as SchedulerProps reads them.     *)
(***************************************************************************)
\* The queues of kernel memory are the sets q.
LEMMA QueuesAre ==
  ASSUME NEW q, NEW s, NEW d, NEW c, NEW p, NEW a, NEW mp, Is(k, q, s, d, c, p, a, mp),
         NEW e, NEW x, Good(q, s, d, c, p, a, mp, e, x)
  PROVE  /\ RunQueue = q[RunQ] /\ Sleepers = q[SleepQ] /\ DoneQueue = {}
         /\ \A t \in Thread : ChildrenOf(t) = q[Children(t)] /\ ZombiesOf(t) = q[Zombies(t)]
         /\ \A t : t \in Waiters <=> t \in a /\ t \in q[SelfWait(t)]
<1>1. RunQueue = q[RunQ] /\ Sleepers = q[SleepQ] /\ DoneQueue = q[DoneQ]
  BY HeadsAre, IsWalk DEF RunQueue, Sleepers, DoneQueue
<1>2. ASSUME NEW t \in Thread
      PROVE  /\ ChildrenOf(t) = q[Children(t)] /\ ZombiesOf(t) = q[Zombies(t)]
             /\ Members(k, SelfWait(t), "wait_link") = q[SelfWait(t)]
  BY HeadsAre, IsWalk DEF ChildrenOf, ZombiesOf
<1>3. k.alloc = a /\ a \subseteq Thread
  BY IsFields DEF Typed
<1>4. /\ q[DoneQ] = {} /\ \A t \in Thread : q[SelfWait(t)] \subseteq {t}
  BY DEF Good, Placed
<1>5. ASSUME NEW t
      PROVE  t \in Waiters <=> t \in a /\ t \in q[SelfWait(t)]
  <2>1. t \in Waiters <=> \E u \in a : t \in q[SelfWait(u)]
    BY <1>2, <1>3 DEF Waiters
  <2>2. \A u \in a : t \in q[SelfWait(u)] => t = u
    BY <1>3, <1>4
  <2> QED
    BY <2>1, <2>2
<1> QED
  BY <1>1, <1>2, <1>4, <1>5

\* A state and its queue agree.
LEMMA SoundQueues ==
  ASSUME IInv
  PROVE  StateMatchesQueue /\ CurrentIsRunnable /\ NoLostWakeup /\ WaitFindsZombie
<1>1. PICK q, s, d, c, p, a, mp :
        /\ Is(k, q, s, d, c, p, a, mp)
        /\ Good(q, s, d, c, p, a, mp, Held(mp, InWait(cont)), InWait(cont))
        /\ current \in mp /\ s[current] = "RUNNABLE"
  BY DEF IInv, Sound
<1>2. /\ RunQueue = q[RunQ] /\ Sleepers = q[SleepQ]
      /\ \A t \in Thread : ChildrenOf(t) = q[Children(t)] /\ ZombiesOf(t) = q[Zombies(t)]
      /\ \A t : t \in Waiters <=> t \in a /\ t \in q[SelfWait(t)]
  BY <1>1, QueuesAre
<1>3. k.state = s /\ k.map = mp /\ k.alloc = a /\ a \subseteq Thread /\ mp \subseteq Thread
  BY <1>1, IsFields DEF Typed
<1>4. CurrentIsRunnable
  BY <1>1, <1>3 DEF CurrentIsRunnable
<1>5. NoLostWakeup
  BY <1>1, <1>2, <1>3 DEF NoLostWakeup, Good, Waits
<1>6. WaitFindsZombie
  <2> SUFFICES ASSUME cont[current] = "thread_wait"
               PROVE  ZombiesOf(current) # {}
    BY DEF WaitFindsZombie
  <2>1. current \in InWait(cont) /\ current \in Thread /\ current \in a
    BY <1>1, <1>3 DEF InWait, Good, Agrees
  <2>2. current \in q[SelfWait(current)] => s[current] = "WAITING"
    <3>1. current \in q[SelfWait(current)] => current # IdleThread
      BY <1>1, <2>1, HeadsAre DEF Good, Placed
    <3> QED
      BY <1>1, <2>1, <3>1 DEF Good, Agrees
  <2> QED
    BY <1>1, <1>2, <2>1, <2>2 DEF Good, Waits
<1>7. StateMatchesQueue
  <2>1. Sleepers \cap Waiters = {}
    <3>1. OneWaitList(q)
      BY <1>1, HeadsAre, OnlyThere DEF OneWaitList
    <3>2. q[SleepQ] \subseteq Thread
      BY <1>1, IsFields, HeadsAre
    <3> QED
      BY <1>2, <3>1, <3>2 DEF OneWaitList
  <2>2. \A t \in a \ {IdleThread} :
          /\ s[t] = "RUNNABLE" <=> t \in q[RunQ]
          /\ s[t] = "WAITING" <=> t \in q[SleepQ] \/ t \in q[SelfWait(t)]
          /\ s[t] \in {"ZOMBIE", "DONE"} <=> t \notin mp
    BY <1>1 DEF Good, Agrees
  <2> QED
    BY <1>2, <1>3, <2>1, <2>2 DEF StateMatchesQueue
<1> QED
  BY <1>4, <1>5, <1>6, <1>7

\* The counts are the references that exist.
LEMMA SoundCounts ==
  ASSUME IInv
  PROVE  RefCountsExact
<1>1. PICK q, s, d, c, p, a, mp :
        /\ Is(k, q, s, d, c, p, a, mp)
        /\ Good(q, s, d, c, p, a, mp, Held(mp, InWait(cont)), InWait(cont))
  BY DEF IInv, Sound
<1>2. /\ RunQueue = q[RunQ] /\ Sleepers = q[SleepQ] /\ DoneQueue = {}
      /\ \A t \in Thread : ChildrenOf(t) = q[Children(t)] /\ ZombiesOf(t) = q[Zombies(t)]
      /\ \A t : t \in Waiters <=> t \in a /\ t \in q[SelfWait(t)]
  BY <1>1, QueuesAre
<1>3. /\ k.count = c /\ k.map = mp /\ k.alloc = a /\ k.parent = p
      /\ a \subseteq Thread /\ c \in [Thread -> Int] /\ p \in [Thread -> Ptr]
  BY <1>1, IsFields DEF Typed
<1> DEFINE queued == RunQueue \cup DoneQueue \cup Sleepers \cup Waiters
<1>4. ASSUME NEW t \in a
      PROVE  c[t] = RefCount(t, queued)
  <2> DEFINE n == Cardinality(Kids(p, a, t))
             r == Cardinality({u \in k.alloc : k.parent[u] = t})
  <2>1. n = r
    BY <1>3 DEF Kids
  <2>2. n \in Nat
    BY <1>3, KidsFinite
  <2>3. t \in queued <=> Queued(q, t)
    BY <1>2, <1>4 DEF Queued
  <2>4. (\/ k.parent[t] = NULL
         \/ t \in ChildrenOf(k.parent[t]) \cup ZombiesOf(k.parent[t])) <=> Owned(q, p, t)
    <3>1. p[t] = NULL \/ p[t] \in Thread
      BY <1>3, <1>4 DEF Ptr
    <3> QED
      BY <1>2, <1>3, <3>1 DEF Owned
  <2>5. /\ c[t] = Held(mp, InWait(cont))[t] + One(Queued(q, t)) + One(Owned(q, p, t)) + n
        /\ Held(mp, InWait(cont))[t] = 2 * One(t \in mp) + One(t \in InWait(cont))
        /\ t \in InWait(cont) <=> cont[t] = "thread_wait"
    BY <1>1, <1>3, <1>4 DEF Good, Counted, Held, InWait
  <2>6. RefCount(t, queued) = 2 * One(t \in mp) + One(Queued(q, t)) + One(Owned(q, p, t)) + r
                                + One(cont[t] = "thread_wait")
    <3> HIDE DEF queued
    <3> QED
      BY <1>3, <2>3, <2>4 DEF RefCount, One
  <2>7. /\ One(t \in mp) \in Nat /\ One(Queued(q, t)) \in Nat /\ One(Owned(q, p, t)) \in Nat
        /\ One(t \in InWait(cont)) = One(cont[t] = "thread_wait")
        /\ One(t \in InWait(cont)) \in Nat
    BY <2>5 DEF One
  <2> HIDE DEF n, r, queued
  <2> QED
    BY <2>1, <2>2, <2>5, <2>6, <2>7
<1> QED
  BY <1>3, <1>4 DEF RefCountsExact

\* Pointers refer to threads that are allocated.
LEMMA SoundPointers ==
  ASSUME IInv
  PROVE  NoDanglingThread
<1>1. PICK q, s, d, c, p, a, mp :
        /\ Is(k, q, s, d, c, p, a, mp)
        /\ Good(q, s, d, c, p, a, mp, Held(mp, InWait(cont)), InWait(cont))
        /\ current \in mp
  BY DEF IInv, Sound
<1>2. /\ RunQueue = q[RunQ] /\ Sleepers = q[SleepQ] /\ DoneQueue = {}
      /\ \A t \in Thread : ChildrenOf(t) = q[Children(t)] /\ ZombiesOf(t) = q[Zombies(t)]
      /\ \A t : t \in Waiters <=> t \in a /\ t \in q[SelfWait(t)]
  BY <1>1, QueuesAre
<1>3. /\ k.count = c /\ k.map = mp /\ k.alloc = a /\ k.parent = p
      /\ a \subseteq Thread /\ mp \subseteq a /\ Typed(s, d, c, p, a, mp)
      /\ k = Fields10(k.first, k.last, k.next, k.prev, s, d, c, p, a, mp)
  BY <1>1, IsFields DEF Typed, Good, Agrees
<1>4. k \in KernelMemory
  <2>1. /\ k.first \in [Heads -> Ptr] /\ k.last \in [Heads -> Ptr]
        /\ k.next \in [Links -> [Thread -> Ptr]] /\ k.prev \in [Links -> [Thread -> Ptr]]
    BY <1>1 DEF Is, QL!Linked, QL!IsMemory, Ptr, QL!Ptr
  <2>2. Fields10(k.first, k.last, k.next, k.prev, s, d, c, p, a, mp) \in KernelMemory
    BY <1>3, <2>1 DEF Fields10, KernelMemory, Typed
  <2> QED
    BY <1>3, <2>2
<1>5. RunQueue \cup DoneQueue \cup Sleepers \cup Waiters \cup k.map \cup {current} \subseteq k.alloc
  <2>1. q[RunQ] \subseteq a /\ q[SleepQ] \subseteq a
    BY <1>1, HeadsAre DEF Good, Placed
  <2> QED
    BY <1>1, <1>2, <1>3, <2>1
<1>6. ASSUME NEW t \in k.alloc
      PROVE  k.parent[t] \in k.alloc \cup {NULL} /\ ChildrenOf(t) \cup ZombiesOf(t) \subseteq k.alloc
  <2>1. t \in a /\ t \in Thread /\ p[t] \in a \cup {NULL}
    BY <1>1, <1>3 DEF Good, Family
  <2>2. q[Children(t)] \subseteq a /\ q[Zombies(t)] \subseteq a
    BY <1>1, <2>1, HeadsAre DEF Good, Placed
  <2> QED
    BY <1>2, <1>3, <2>1, <2>2
<1> QED
  BY <1>4, <1>5, <1>6 DEF NoDanglingThread

-----------------------------------------------------------------------------
(* The theorems *)

\* A thread is on the run queue when it is runnable, asleep or inside
\* thread_wait when it waits, and nowhere when it has vanished: sched_yield and
\* sched_wakeup_threads find what they expect.
THEOREM StatesMatch ==
  ASSUME SoundPrograms
  PROVE  Spec => []StateMatchesQueue
<1>1. IInv /\ [Next]_vars => IInv'
  BY StepSound
<1> QED
  BY InitSound, <1>1, SoundQueues, PTL DEF Spec

\* sched_thread_yield never switches to a thread that sleeps, waits or has
\* vanished.
THEOREM RunnerIsRunnable ==
  ASSUME SoundPrograms
  PROVE  Spec => []CurrentIsRunnable
<1>1. IInv /\ [Next]_vars => IInv'
  BY StepSound
<1> QED
  BY InitSound, <1>1, SoundQueues, PTL DEF Spec

\* thread_get and thread_put keep every count equal to the references that
\* exist, through fork, vanish, wait and the wakeups.
THEOREM CountsAreExact ==
  ASSUME SoundPrograms
  PROVE  Spec => []RefCountsExact
<1>1. IInv /\ [Next]_vars => IInv'
  BY StepSound
<1> QED
  BY InitSound, <1>1, SoundCounts, PTL DEF Spec

\* No queue, parent pointer, map entry or current_thread refers to a thread_t
\* that thread_free has released, and every pointer is one (type correctness).
THEOREM NothingDangles ==
  ASSUME SoundPrograms
  PROVE  Spec => []NoDanglingThread
<1>1. IInv /\ [Next]_vars => IInv'
  BY StepSound
<1> QED
  BY InitSound, <1>1, SoundPointers, PTL DEF Spec

\* A thread blocked in thread_wait has a living child, and none to reap.
THEOREM WakeupsArrive ==
  ASSUME SoundPrograms
  PROVE  Spec => []NoLostWakeup
<1>1. IInv /\ [Next]_vars => IInv'
  BY StepSound
<1> QED
  BY InitSound, <1>1, SoundQueues, PTL DEF Spec

\* A thread that is woken in thread_wait has a zombie to reap when it runs.
THEOREM WaitersFindZombies ==
  ASSUME SoundPrograms
  PROVE  Spec => []WaitFindsZombie
<1>1. IInv /\ [Next]_vars => IInv'
  BY StepSound
<1> QED
  BY InitSound, <1>1, SoundQueues, PTL DEF Spec

\* Whatever step calls sched_wakeup_threads, a sleeper becomes runnable only
\* when the ticks it asked for have passed.
THEOREM SleepersSleepOut ==
  ASSUME SoundPrograms
  PROVE  Spec => NoEarlyWakeup
<1>1. IInv /\ [Next]_vars => IInv'
  BY StepSound
<1>2. IInv /\ [Next]_vars
        => [\A t \in Sleepers : k'.state[t] = "RUNNABLE" => k.deadline[t] = 0]_vars
  BY StepSound DEF SleptOut, Sleepers
<1> QED
  BY InitSound, <1>1, <1>2, PTL DEF Spec, NoEarlyWakeup
=============================================================================
