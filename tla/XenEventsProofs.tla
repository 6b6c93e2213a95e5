--------------------------- MODULE XenEventsProofs ---------------------------
(***************************************************************************)
(* No event is forgotten, for any threads and ports and any depth of       *)
(* nested callbacks.                                                       *)
(*                                                                         *)
(* NoEventStranded is inductive: whoever takes a mark owes a look at the   *)
(* word.  MarksAreTaken needs to know that a callback between its          *)
(* acknowledgement and its exchange is on top of the running thread's      *)
(* stack, with events off (EntryOnTop): nobody can end it there.           *)
(***************************************************************************)
EXTENDS XenEvents, TLAPS, WellFoundedInduction

Pcs == {"entry", "xchg", "scan", "clear", "tick", "bottom", "critical"}

Activations == [pc : Pcs, l1 : SUBSET Words, word : Words \cup {None}, port : Port]

TypeOK ==
  /\ pending \subseteq Port /\ masked \subseteq Port /\ sel \subseteq Words
  /\ upcall \in BOOLEAN /\ off \in BOOLEAN /\ lost \in BOOLEAN
  /\ stack \in [Thread -> Seq(Activations)]
  /\ kernel \subseteq Thread /\ cur \in Thread

\* While events are off, the running thread is in the callback, before its end
\* and outside the bottom half; and only then has a callback yet to begin.
EntryOnTop ==
  /\ off => Depth > 0 /\ Top.pc \notin {"bottom", "critical"}
  /\ \A t \in Thread : \A i \in DOMAIN stack[t] :
       stack[t][i].pc \in {"entry", "xchg"} => off /\ t = cur /\ i = Depth

\* Some callback has yet to look at p's word; some is between its acknowledgement
\* and its exchange.
Owed(p) == \E t \in Thread : \E i \in DOMAIN stack[t] : WillScan(stack[t][i], p)
Between == \E t \in Thread : \E i \in DOMAIN stack[t] : stack[t][i].pc = "xchg"

IInv == TypeOK /\ EntryOnTop /\ NoEventStranded /\ MarksAreTaken

-----------------------------------------------------------------------------
(* Numbers and stacks *)

\* Words are numbers, so None, one above the highest, is none of them.
LEMMA WordIsNat == Words \subseteq Nat
<1>1. SUFFICES ASSUME NEW p \in Port PROVE WordOf(p) \in Nat
  BY DEF Words
<1>2. p \in Nat /\ PortsPerWord \in Nat \ {0}
  BY XenEventsAssumption
<1> QED
  BY <1>2 DEF WordOf

\* Scan takes the lowest port of a word and the lowest word there is.
LEMMA MinIsIn ==
  ASSUME NEW S \in SUBSET Nat, S # {}
  PROVE  Min(S) \in S
<1> DEFINE R == {pair \in Nat \X Nat : pair[1] < pair[2]}
<1>1. IsWellFoundedOn(R, Nat)
  BY NatLessThanWellFounded DEF OpToRel
<1>2. \A x, y \in Nat : <<x, y>> \in R <=> x < y
  OBVIOUS
<1> HIDE DEF R
<1>3. PICK x \in S : \A y \in S : ~(<<y, x>> \in R)
  BY <1>1, WFMin
<1>4. ASSUME NEW y \in S PROVE x <= y
  <2>1. x \in Nat /\ y \in Nat
    OBVIOUS
  <2>2. ~(y < x)
    BY <1>2, <1>3, <2>1
  <2> QED
    BY <2>1, <2>2
<1> QED
  BY <1>4 DEF Min

\* Types of what is on the top.
LEMMA TopIsTyped ==
  ASSUME TypeOK, Depth > 0
  PROVE  /\ Top \in Activations /\ Depth \in DOMAIN stack[cur]
         /\ Top = stack[cur][Depth] /\ Depth \in Nat
BY DEF TypeOK, Depth, Top

SetTop(a) == stack' = [stack EXCEPT ![cur] = [stack[cur] EXCEPT ![Depth] = a]]

\* The top activation becomes a, the others stay.
LEMMA TopChanges ==
  ASSUME TypeOK, Depth > 0, NEW a \in Activations, SetTop(a)
  PROVE  /\ stack' \in [Thread -> Seq(Activations)]
         /\ \A t \in Thread : Len(stack'[t]) = Len(stack[t]) /\ DOMAIN stack'[t] = DOMAIN stack[t]
         /\ stack'[cur][Depth] = a
         /\ \A t \in Thread : \A i \in DOMAIN stack[t] :
              ~(t = cur /\ i = Depth) => stack'[t][i] = stack[t][i]
         /\ Depth \in DOMAIN stack[cur]
BY DEF TypeOK, Depth, SetTop

\* Goto keeps the variables of the activation.
LEMMA GotoSets ==
  ASSUME TypeOK, Depth > 0, NEW q \in Pcs, Goto(q)
  PROVE  \E a \in Activations : SetTop(a) /\ a = [Top EXCEPT !.pc = q]
<1>1. \A b \in Activations : [b EXCEPT !.pc = q] \in Activations
  BY DEF Activations
<1>2. SetTop([Top EXCEPT !.pc = q])
  BY DEF Goto, SetTop, Top
<1> QED
  BY <1>1, <1>2, TopIsTyped

\* What is owed stays owed when the top activation becomes one that owes as much.
LEMMA TopOwes ==
  ASSUME TypeOK, Depth > 0, NEW a \in Activations, SetTop(a)
  PROVE  /\ \A p : Owed(p) /\ (WillScan(Top, p) => WillScan(a, p)) => Owed(p)'
         /\ \A p : WillScan(a, p) => Owed(p)'
         /\ Between /\ Top.pc # "xchg" => Between'
         /\ a.pc = "xchg" => Between'
<1>1. /\ cur \in Thread /\ Depth \in DOMAIN stack[cur] /\ Top = stack[cur][Depth]
      /\ \A t \in Thread : DOMAIN stack'[t] = DOMAIN stack[t]
      /\ stack'[cur][Depth] = a
      /\ \A t \in Thread : \A i \in DOMAIN stack[t] :
           ~(t = cur /\ i = Depth) => stack'[t][i] = stack[t][i]
  BY TopChanges, TopIsTyped DEF TypeOK
<1>2. \A p : WillScan(a, p) => Owed(p)'
  BY <1>1 DEF Owed
<1>3. a.pc = "xchg" => Between'
  BY <1>1 DEF Between
<1>4. ASSUME NEW p, Owed(p), WillScan(Top, p) => WillScan(a, p) PROVE Owed(p)'
  <2>1. PICK t \in Thread : \E i \in DOMAIN stack[t] : WillScan(stack[t][i], p)
    BY <1>4 DEF Owed
  <2>2. PICK i \in DOMAIN stack[t] : WillScan(stack[t][i], p)
    BY <2>1
  <2>3. CASE t = cur /\ i = Depth
    BY <1>1, <1>2, <1>4, <2>2, <2>3
  <2>4. CASE ~(t = cur /\ i = Depth)
    BY <1>1, <2>2, <2>4 DEF Owed
  <2> QED
    BY <2>3, <2>4
<1>5. ASSUME Between, Top.pc # "xchg" PROVE Between'
  BY <1>1, <1>5 DEF Between
<1> QED
  BY <1>2, <1>3, <1>4, <1>5

\* Where callbacks may begin, when the top activation becomes a.
LEMMA TopBegins ==
  ASSUME TypeOK, EntryOnTop, Depth > 0, NEW a \in Activations, SetTop(a),
         off' => cur' = cur /\ a.pc \notin {"bottom", "critical"},
         a.pc \in {"entry", "xchg"} => off'
  PROVE  EntryOnTop'
<1>1. /\ cur \in Thread /\ Depth \in DOMAIN stack[cur] /\ Top = stack[cur][Depth]
      /\ \A t \in Thread : Len(stack'[t]) = Len(stack[t]) /\ DOMAIN stack'[t] = DOMAIN stack[t]
      /\ stack'[cur][Depth] = a
      /\ \A t \in Thread : \A i \in DOMAIN stack[t] :
           ~(t = cur /\ i = Depth) => stack'[t][i] = stack[t][i]
  BY TopChanges, TopIsTyped DEF TypeOK
<1>2. cur' = cur => Depth' = Depth /\ Top' = a
  BY <1>1 DEF Depth, Top
<1>3. off' => Depth' > 0 /\ Top'.pc \notin {"bottom", "critical"}
  BY <1>2
<1>4. ASSUME NEW t \in Thread, NEW i \in DOMAIN stack'[t], stack'[t][i].pc \in {"entry", "xchg"}
      PROVE  off' /\ t = cur' /\ i = Depth'
  <2>1. t = cur /\ i = Depth
    BY <1>1, <1>4 DEF EntryOnTop
  <2> QED
    BY <1>1, <1>2, <1>4, <2>1
<1> QED
  BY <1>3, <1>4 DEF EntryOnTop

\* A new activation on the running thread's stack owes nothing and takes nothing
\* from the others.
LEMMA PushKeeps ==
  ASSUME TypeOK, NEW a \in Activations, stack' = [stack EXCEPT ![cur] = Append(stack[cur], a)]
  PROVE  /\ stack' \in [Thread -> Seq(Activations)]
         /\ Len(stack'[cur]) = Depth + 1 /\ stack'[cur][Depth + 1] = a
         /\ DOMAIN stack'[cur] = DOMAIN stack[cur] \cup {Depth + 1}
         /\ \A i \in DOMAIN stack[cur] : stack'[cur][i] = stack[cur][i]
         /\ \A t \in Thread \ {cur} : stack'[t] = stack[t]
         /\ \A p : Owed(p) => Owed(p)'
         /\ Between => Between'
<1>1. /\ cur \in Thread /\ stack[cur] \in Seq(Activations)
      /\ stack \in [Thread -> Seq(Activations)] /\ Depth = Len(stack[cur])
  BY DEF TypeOK, Depth
<1> DEFINE s == Append(stack[cur], a)
<1>2. /\ s \in Seq(Activations) /\ Len(s) = Depth + 1 /\ s[Depth + 1] = a
      /\ DOMAIN s = DOMAIN stack[cur] \cup {Depth + 1}
      /\ \A i \in DOMAIN stack[cur] : s[i] = stack[cur][i]
  BY <1>1
<1>3. stack' = [stack EXCEPT ![cur] = s]
  OBVIOUS
<1> HIDE DEF s
<1>4. stack'[cur] = s /\ \A t \in Thread \ {cur} : stack'[t] = stack[t]
  BY <1>1, <1>3
<1>5. \A t \in Thread : \A i \in DOMAIN stack[t] :
        i \in DOMAIN stack'[t] /\ stack'[t][i] = stack[t][i]
  BY <1>2, <1>4
<1>6. stack' \in [Thread -> Seq(Activations)]
  BY <1>1, <1>2, <1>3
<1> QED
  BY <1>2, <1>4, <1>5, <1>6 DEF Owed, Between

\* An activation that ends takes nothing from the others.
LEMMA PopKeeps ==
  ASSUME TypeOK, At("critical"), stack' = [stack EXCEPT ![cur] = SubSeq(stack[cur], 1, Depth - 1)]
  PROVE  /\ stack' \in [Thread -> Seq(Activations)]
         /\ \A t \in Thread : \A i \in DOMAIN stack'[t] :
              i \in DOMAIN stack[t] /\ stack'[t][i] = stack[t][i]
         /\ \A p : Owed(p) => Owed(p)'
         /\ Between => Between'
<1>1. /\ cur \in Thread /\ stack[cur] \in Seq(Activations)
      /\ stack \in [Thread -> Seq(Activations)] /\ Depth = Len(stack[cur]) /\ Depth > 0
      /\ Depth \in Nat /\ DOMAIN stack[cur] = 1 .. Depth /\ Top = stack[cur][Depth]
  BY DEF TypeOK, Depth, At, Top
<1> DEFINE s == SubSeq(stack[cur], 1, Depth - 1)
<1>2. /\ s \in Seq(Activations) /\ DOMAIN s = 1 .. (Depth - 1)
      /\ \A i \in 1 .. (Depth - 1) : s[i] = stack[cur][i]
  BY <1>1
<1>3. stack' = [stack EXCEPT ![cur] = s]
  OBVIOUS
<1> HIDE DEF s
<1>4. stack'[cur] = s /\ \A t \in Thread \ {cur} : stack'[t] = stack[t]
  BY <1>1, <1>3
<1>5. 1 .. (Depth - 1) \subseteq 1 .. Depth /\ 1 .. Depth = (1 .. (Depth - 1)) \cup {Depth}
  BY <1>1
<1>6. \A t \in Thread : \A i \in DOMAIN stack[t] :
        ~(t = cur /\ i = Depth) => i \in DOMAIN stack'[t] /\ stack'[t][i] = stack[t][i]
  BY <1>1, <1>2, <1>4, <1>5
<1>7. \A t \in Thread : \A i \in DOMAIN stack'[t] :
        i \in DOMAIN stack[t] /\ stack'[t][i] = stack[t][i]
  BY <1>1, <1>2, <1>4, <1>5
<1>8. stack' \in [Thread -> Seq(Activations)]
  BY <1>1, <1>2, <1>3
<1>9. stack[cur][Depth].pc = "critical" /\ \A p : ~WillScan(stack[cur][Depth], p)
  BY <1>1 DEF At, WillScan
<1>10. \A p : Owed(p) => Owed(p)'
  BY <1>6, <1>9 DEF Owed
<1>11. ASSUME Between PROVE Between'
  <2>0. PICK t \in Thread : \E i \in DOMAIN stack[t] : stack[t][i].pc = "xchg"
    BY <1>11 DEF Between
  <2>1. PICK i \in DOMAIN stack[t] : stack[t][i].pc = "xchg"
    BY <2>0
  <2>2. ~(t = cur /\ i = Depth)
    BY <1>9, <2>1
  <2>3. i \in DOMAIN stack'[t] /\ stack'[t][i].pc = "xchg"
    BY <1>6, <2>1, <2>2
  <2> QED
    BY <2>3 DEF Between
<1> QED
  BY <1>7, <1>8, <1>10, <1>11

-----------------------------------------------------------------------------
(* The invariant *)

\* At boot nothing is pending and no callback runs.
LEMMA InitInv == Init => IInv
<1> SUFFICES ASSUME Init PROVE IInv
  OBVIOUS
<1>1. /\ pending = {} /\ masked = Port /\ sel = {} /\ upcall = FALSE /\ off = FALSE
      /\ stack = [t \in Thread |-> <<>>] /\ kernel = {} /\ cur \in Thread /\ lost = FALSE
  BY DEF Init
<1>2. <<>> \in Seq(Activations) /\ DOMAIN <<>> = {}
  OBVIOUS
<1>3. \A t \in Thread : stack[t] = <<>> /\ DOMAIN stack[t] = {}
  BY <1>1, <1>2
<1>4. TypeOK
  BY <1>1, <1>2 DEF TypeOK
<1>5. EntryOnTop
  BY <1>1, <1>3 DEF EntryOnTop
<1>6. NoEventStranded /\ MarksAreTaken
  BY <1>1 DEF NoEventStranded, MarksAreTaken
<1> QED
  BY <1>4, <1>5, <1>6 DEF IInv

\* The invariant in terms of what is owed.
LEMMA Stranded ==
  /\ NoEventStranded <=> \A p \in pending \ masked : WordOf(p) \in sel \/ lost \/ Owed(p)
  /\ MarksAreTaken <=> (sel # {} => upcall \/ lost \/ Between)
BY DEF NoEventStranded, MarksAreTaken, Owed, Between

\* The same in the next state.
LEMMA StrandedNext ==
  /\ NoEventStranded' <=> \A p \in pending' \ masked' : WordOf(p) \in sel' \/ lost' \/ Owed(p)'
  /\ MarksAreTaken' <=> (sel' # {} => upcall' \/ lost' \/ Between')
BY DEF NoEventStranded, MarksAreTaken, Owed, Between

\* Every port has a word.
LEMMA WordOfPort == ASSUME NEW p \in Port PROVE WordOf(p) \in Words
BY DEF Words

\* The hypervisor announces: the word is marked, and a callback due or on its way.
LEMMA AnnounceInv ==
  ASSUME IInv, NEW p \in Port, Announce(p), stack' = stack, UNCHANGED <<off, threads>>,
         pending' \subseteq pending \cup {p}, masked' \subseteq masked, pending' \subseteq Port,
         \A q \in pending' \ masked' : q \in pending \ masked \/ q = p
  PROVE  IInv'
<1>1. TypeOK /\ EntryOnTop /\ NoEventStranded /\ MarksAreTaken
  BY DEF IInv
<1>2. TypeOK'
  BY <1>1, WordOfPort DEF TypeOK, Announce, threads
<1>3. EntryOnTop'
  BY <1>1 DEF EntryOnTop, threads, Depth, Top
<1>4. (\A q : Owed(q)' <=> Owed(q)) /\ (Between' <=> Between) /\ lost' = lost
  BY DEF Owed, Between, threads
<1>5. NoEventStranded'
  BY <1>1, <1>4, Stranded, StrandedNext DEF Announce
<1>6. MarksAreTaken'
  BY <1>1, <1>4, Stranded, StrandedNext DEF Announce
<1> QED
  BY <1>2, <1>3, <1>5, <1>6 DEF IInv

\* Steps of the threads that leave the stacks and the marks.
LEMMA QuietInv ==
  ASSUME IInv, stack' = stack, UNCHANGED <<sel, upcall, off, lost>>,
         pending' \subseteq Port, masked' \subseteq Port,
         pending' \ masked' \subseteq pending \ masked,
         kernel' \subseteq Thread, cur' \in Thread, Depth = 0 \/ cur' = cur
  PROVE  IInv'
<1>1. TypeOK /\ EntryOnTop /\ NoEventStranded /\ MarksAreTaken
  BY DEF IInv
<1>2. TypeOK'
  BY <1>1 DEF TypeOK
<1>3. EntryOnTop'
  <2>1. CASE cur' = cur
    BY <1>1, <2>1 DEF EntryOnTop, Depth, Top
  <2>2. CASE Depth = 0
    BY <1>1, <2>2 DEF EntryOnTop
  <2> QED
    BY <2>1, <2>2
<1>4. (\A q : Owed(q)' <=> Owed(q)) /\ (Between' <=> Between)
  BY DEF Owed, Between
<1> QED
  BY <1>1, <1>2, <1>3, <1>4, Stranded, StrandedNext DEF IInv

\* A step of the callback that sets the top activation to a.
LEMMA TopInv ==
  ASSUME IInv, Depth > 0, NEW a \in Activations, SetTop(a),
         pending' \subseteq pending, masked' = masked, kernel' = kernel, lost' = lost,
         sel' \subseteq Words, upcall' \in BOOLEAN, off' \in BOOLEAN, cur' \in Thread,
         off' => cur' = cur /\ a.pc \notin {"bottom", "critical"},
         a.pc \in {"entry", "xchg"} => off',
         \A p \in pending' \ masked :
           (WordOf(p) \in sel \ sel') \/ WillScan(Top, p) => WillScan(a, p),
         (sel' # {} => (sel # {} /\ (upcall => upcall') /\ Top.pc # "xchg") \/ a.pc = "xchg")
  PROVE  IInv'
<1>1. TypeOK /\ EntryOnTop /\ NoEventStranded /\ MarksAreTaken
  BY DEF IInv
<1>2. TypeOK'
  BY <1>1, TopChanges DEF TypeOK
<1>3. EntryOnTop'
  BY <1>1, TopBegins
<1>4. NoEventStranded'
  <2>1. SUFFICES ASSUME NEW p \in pending' \ masked'
                 PROVE  WordOf(p) \in sel' \/ lost' \/ Owed(p)'
    BY StrandedNext
  <2>2. p \in pending \ masked /\ (WordOf(p) \in sel \/ lost \/ Owed(p))
    BY <1>1, Stranded
  <2> QED
    BY <1>1, <2>2, TopOwes
<1>5. MarksAreTaken'
  BY <1>1, TopOwes, Stranded, StrandedNext
<1> QED
  BY <1>2, <1>3, <1>4, <1>5 DEF IInv

\* What is known of the running thread's activation at point q.
LEMMA AtTop ==
  ASSUME IInv, NEW q, At(q)
  PROVE  /\ TypeOK /\ Depth > 0 /\ Top.pc = q /\ Top \in Activations /\ cur \in Thread
         /\ sel \subseteq Words /\ pending \subseteq Port /\ upcall \in BOOLEAN /\ off \in BOOLEAN
         /\ q \in {"entry", "xchg"} => off
         /\ q \in {"bottom", "critical"} => ~off
<1>1. TypeOK /\ Depth > 0 /\ Top.pc = q /\ EntryOnTop
  BY DEF IInv, At
<1>2. Top = stack[cur][Depth] /\ Depth \in DOMAIN stack[cur]
  BY <1>1, TopIsTyped
<1> QED
  BY <1>1, <1>2, TopIsTyped DEF TypeOK, EntryOnTop

\* The activation moves on and keeps its variables.
LEMMA GotoInv ==
  ASSUME IInv, Depth > 0, NEW q \in Pcs, Goto(q),
         pending' \subseteq pending, UNCHANGED <<masked, kernel, lost, sel>>,
         upcall' \in BOOLEAN, off' \in BOOLEAN, cur' \in Thread,
         off' => cur' = cur /\ q \notin {"bottom", "critical"},
         q \in {"entry", "xchg"} => off',
         Top.pc \in {"entry", "critical"} \/ q \notin {"entry", "xchg", "critical"},
         Top.pc # "xchg",
         (upcall => upcall') \/ q = "xchg"
  PROVE  IInv'
<1>1. PICK a \in Activations : SetTop(a) /\ a = [Top EXCEPT !.pc = q]
  BY GotoSets DEF IInv
<1>2. Top \in Activations /\ TypeOK
  BY TopIsTyped DEF IInv
<1>3. a.pc = q /\ a.l1 = Top.l1 /\ a.word = Top.word
  BY <1>1, <1>2 DEF Activations
<1>4. \A p : WillScan(Top, p) => WillScan(a, p)
  BY <1>3 DEF WillScan
<1>5. sel' \subseteq Words
  BY <1>2 DEF TypeOK
<1> QED
  BY <1>1, <1>3, <1>4, <1>5, TopInv

\* What the callback starts with.
LEMMA ActivationTyped == Activation \in Activations
BY XenEventsAssumption DEF Activation, Activations, Pcs

\* The callback starts: on top, or again in the critical region.
LEMMA DeliverInv == IInv /\ Deliver => IInv'
<1> SUFFICES ASSUME IInv, Deliver PROVE IInv'
  OBVIOUS
<1>1. /\ TypeOK /\ EntryOnTop /\ NoEventStranded /\ MarksAreTaken
      /\ upcall /\ ~off /\ off' = TRUE
      /\ UNCHANGED <<pending, sel, upcall, masked, kernel, cur, lost>>
  BY DEF IInv, Deliver, events, threads
<1>2. CASE At("critical")
  <2>1. Goto("entry") /\ "entry" \in Pcs /\ upcall' \in BOOLEAN /\ cur' \in Thread
    BY <1>1, <1>2 DEF Deliver, Pcs, TypeOK
  <2> QED
    BY <1>1, <1>2, <2>1, AtTop, GotoInv
<1>3. CASE ~At("critical")
  <2>1. stack' = [stack EXCEPT ![cur] = Append(stack[cur], Activation)]
    BY <1>3 DEF Deliver
  <2>2. /\ stack' \in [Thread -> Seq(Activations)]
        /\ Len(stack'[cur]) = Depth + 1 /\ stack'[cur][Depth + 1] = Activation
        /\ DOMAIN stack'[cur] = DOMAIN stack[cur] \cup {Depth + 1}
        /\ \A i \in DOMAIN stack[cur] : stack'[cur][i] = stack[cur][i]
        /\ \A t \in Thread \ {cur} : stack'[t] = stack[t]
        /\ \A p : Owed(p) => Owed(p)'
        /\ Between => Between'
    BY <1>1, <2>1, PushKeeps, ActivationTyped
  <2>3. TypeOK'
    BY <1>1, <2>2 DEF TypeOK
  <2>4. Depth' = Depth + 1 /\ Top' = Activation /\ Depth \in Nat
    BY <1>1, <2>2 DEF Depth, Top, TypeOK
  <2>5. EntryOnTop'
    <3>1. Depth' > 0 /\ Top'.pc \notin {"bottom", "critical"}
      BY <2>4 DEF Activation
    <3>2. ASSUME NEW t \in Thread, NEW i \in DOMAIN stack'[t], stack'[t][i].pc \in {"entry", "xchg"}
          PROVE  t = cur /\ i = Depth'
      BY <1>1, <2>2, <2>4, <3>2 DEF EntryOnTop
    <3> QED
      BY <1>1, <3>1, <3>2 DEF EntryOnTop
  <2> QED
    BY <1>1, <2>2, <2>3, <2>5, Stranded, StrandedNext DEF IInv
<1> QED
  BY <1>2, <1>3

\* Between this and the exchange the marks wait for the running callback.
LEMMA AcknowledgeInv == IInv /\ Acknowledge => IInv'
<1> SUFFICES ASSUME IInv, Acknowledge PROVE IInv'
  OBVIOUS
<1>1. /\ At("entry") /\ Goto("xchg") /\ upcall' = FALSE
      /\ UNCHANGED <<pending, sel, masked, off, kernel, cur, lost>>
  BY DEF Acknowledge, threads
<1>2. "xchg" \in Pcs /\ upcall' \in BOOLEAN
  BY <1>1 DEF Pcs
<1>3. /\ Depth > 0 /\ Top.pc = "entry" /\ off /\ off' \in BOOLEAN /\ cur' \in Thread
  BY <1>1, AtTop
<1> QED
  BY <1>1, <1>2, <1>3, GotoInv

\* What the exchange takes is what this activation owes.
LEMMA SelectInv == IInv /\ Select => IInv'
<1> SUFFICES ASSUME IInv, Select PROVE IInv'
  OBVIOUS
<1> DEFINE a == [Top EXCEPT !.pc = "scan", !.l1 = sel, !.word = None]
<1>1. /\ At("xchg") /\ sel' = {} /\ UNCHANGED <<pending, upcall, masked, off, kernel, cur, lost>>
  BY DEF Select, threads
<1>2. SetTop(a)
  BY DEF Select, SetTop, Top
<1>3. a \in Activations /\ a.pc = "scan" /\ a.l1 = sel
  BY <1>1, AtTop DEF Activations, Pcs
<1> HIDE DEF a
<1>4. \A p : WordOf(p) \in sel => WillScan(a, p)
  BY <1>3 DEF WillScan
<1>5. \A p : ~WillScan(Top, p)
  BY <1>1, AtTop DEF WillScan
<1> QED
  BY <1>1, <1>2, <1>3, <1>4, <1>5, AtTop, TopInv

\* do_event clears one port and goes on with the same words.
LEMMA ClearInv == IInv /\ Clear => IInv'
<1> SUFFICES ASSUME IInv, Clear PROVE IInv'
  OBVIOUS
<1> DEFINE a == [Top EXCEPT !.pc = "scan", !.port = timer]
<1>1. /\ At("clear") /\ pending' \subseteq pending
      /\ UNCHANGED <<sel, upcall, masked, off, kernel, cur, lost>>
  BY DEF Clear, threads
<1>2. SetTop(a)
  BY DEF Clear, SetTop, Top
<1>3. a \in Activations /\ a.pc = "scan" /\ a.l1 = Top.l1 /\ a.word = Top.word
  BY <1>1, AtTop, XenEventsAssumption DEF Activations, Pcs
<1> HIDE DEF a
<1>4. \A p : WillScan(Top, p) => WillScan(a, p)
  BY <1>3 DEF WillScan
<1> QED
  BY <1>1, <1>2, <1>3, <1>4, AtTop, TopInv

\* A callback ends when nothing is due, owing nothing.
LEMMA ReturnInv == IInv /\ Return => IInv'
<1> SUFFICES ASSUME IInv, Return PROVE IInv'
  OBVIOUS
<1>1. /\ TypeOK /\ EntryOnTop /\ NoEventStranded /\ MarksAreTaken
      /\ At("critical") /\ UNCHANGED <<pending, sel, upcall, masked, kernel, cur, lost>>
  BY DEF IInv, Return, events, threads
<1>2. CASE upcall
  <2>1. Goto("entry") /\ off' = TRUE /\ "entry" \in Pcs
    BY <1>2 DEF Return, Pcs
  <2> QED
    BY <1>1, <2>1, AtTop, GotoInv
<1>3. CASE ~upcall
  <2>1. off' = off /\ stack' = [stack EXCEPT ![cur] = SubSeq(stack[cur], 1, Depth - 1)]
    BY <1>3 DEF Return
  <2>2. /\ stack' \in [Thread -> Seq(Activations)]
        /\ \A t \in Thread : \A i \in DOMAIN stack'[t] :
             i \in DOMAIN stack[t] /\ stack'[t][i] = stack[t][i]
        /\ \A p : Owed(p) => Owed(p)'
        /\ Between => Between'
    BY <1>1, <2>1, PopKeeps
  <2>3. ~off
    BY <1>1, AtTop
  <2>4. TypeOK'
    BY <1>1, <2>1, <2>2 DEF TypeOK
  <2>5. EntryOnTop'
    BY <1>1, <2>1, <2>2, <2>3 DEF EntryOnTop
  <2> QED
    BY <1>1, <2>2, <2>4, <2>5, Stranded, StrandedNext DEF IInv
<1> QED
  BY <1>2, <1>3

\* The timer's handler lets events in and owes what it owed.
LEMMA TickInv == IInv /\ Tick => IInv'
<1> SUFFICES ASSUME IInv, Tick PROVE IInv'
  OBVIOUS
<1>1. /\ At("tick") /\ Goto("bottom") /\ pending' \subseteq pending /\ off' = FALSE
      /\ UNCHANGED <<sel, upcall, masked, kernel, cur, lost>>
  BY DEF Tick, threads
<1>2. "bottom" \in Pcs /\ off' \in BOOLEAN /\ ~off'
  BY <1>1 DEF Pcs
<1>3. /\ Depth > 0 /\ Top.pc = "tick" /\ upcall' \in BOOLEAN /\ cur' \in Thread
  BY <1>1, AtTop
<1> QED
  BY <1>1, <1>2, <1>3, GotoInv

\* Another thread goes on, with events on.
LEMMA BottomInv == ASSUME IInv, NEW t \in Thread, Bottom(t) PROVE IInv'
<1>1. /\ At("bottom") /\ Goto("clear") /\ cur' = t
      /\ UNCHANGED <<pending, sel, upcall, masked, off, kernel, lost>>
  BY DEF Bottom, events
<1>2. "clear" \in Pcs
  BY DEF Pcs
<1> QED
  BY <1>1, <1>2, AtTop, GotoInv

\* A word is given up only when no port of it is active.
LEMMA ScanInv == IInv /\ Scan => IInv'
<1> SUFFICES ASSUME IInv, Scan PROVE IInv'
  OBVIOUS
<1> DEFINE ports == active_evtchns(Top.word)
           lowest == Min(ports)
           next == Min(Top.l1)
           served == [Top EXCEPT !.port = lowest, !.pc = IF lowest = timer THEN "tick" ELSE "clear"]
           onward == [Top EXCEPT !.word = next, !.l1 = Top.l1 \ {next}]
           ended == [Activation EXCEPT !.pc = "critical"]
<1>1. /\ At("scan") /\ UNCHANGED <<pending, sel, upcall, masked, kernel, cur, lost>>
      /\ off' = (off /\ (Top.l1 # {} \/ ports # {}))
  BY DEF Scan, events, threads
<1>2. /\ TypeOK /\ Depth > 0 /\ Top.pc = "scan" /\ Top \in Activations /\ cur \in Thread
      /\ pending \subseteq Port /\ sel \subseteq Words /\ upcall' \in BOOLEAN /\ off' \in BOOLEAN
  BY <1>1, AtTop
<1>3. ports \subseteq Port /\ Port \subseteq Nat /\ Top.l1 \subseteq Words /\ Words \subseteq Nat
  BY <1>2, WordIsNat, XenEventsAssumption DEF active_evtchns, Activations
<1>4. CASE ports # {} /\ SetTop(served)
  <2>1. lowest \in Port
    BY <1>3, <1>4, MinIsIn
  <2> HIDE DEF lowest
  <2>2. /\ served \in Activations /\ served.pc \in {"tick", "clear"}
        /\ served.l1 = Top.l1 /\ served.word = Top.word
    BY <1>2, <2>1 DEF Activations, Pcs
  <2> HIDE DEF served
  <2>3. \A p : WillScan(Top, p) => WillScan(served, p)
    BY <2>2 DEF WillScan
  <2> QED
    BY <1>1, <1>2, <1>4, <2>2, <2>3, TopInv
<1>5. CASE ports = {} /\ Top.l1 # {} /\ SetTop(onward)
  <2>1. next \in Words
    BY <1>3, <1>5, MinIsIn
  <2> HIDE DEF next
  <2>2. /\ onward \in Activations /\ onward.pc = "scan"
        /\ onward.l1 = Top.l1 \ {next} /\ onward.word = next
    BY <1>2, <1>3, <2>1 DEF Activations, Pcs
  <2> HIDE DEF onward
  <2>3. \A p \in pending' \ masked : WillScan(Top, p) => WillScan(onward, p)
    BY <1>1, <1>5, <2>2 DEF WillScan, active_evtchns
  <2> QED
    BY <1>1, <1>2, <1>5, <2>2, <2>3, TopInv
<1>6. CASE ports = {} /\ Top.l1 = {} /\ SetTop(ended)
  <2>1. ended \in Activations /\ ended.pc = "critical"
    BY ActivationTyped DEF Activations, Pcs
  <2> HIDE DEF ended
  <2>2. \A p \in pending' \ masked : ~WillScan(Top, p)
    BY <1>1, <1>6 DEF WillScan, active_evtchns
  <2> QED
    BY <1>1, <1>2, <1>6, <2>1, <2>2, TopInv
<1>7. \/ ports # {} /\ SetTop(served)
      \/ ports = {} /\ Top.l1 # {} /\ SetTop(onward)
      \/ ports = {} /\ Top.l1 = {} /\ SetTop(ended)
  BY DEF Scan, SetTop, Top
<1> QED
  BY <1>4, <1>5, <1>6, <1>7

\* A thread that is killed was not between acknowledgement and exchange; what its
\* callbacks still owed is the loss that the history records.
LEMMA VanishInv == ASSUME IInv, ~lost, NEW t \in Thread, task_vanish(t) PROVE IInv'
<1>1. /\ TypeOK /\ EntryOnTop /\ NoEventStranded /\ MarksAreTaken
      /\ Depth = 0 /\ t # cur /\ stack' = [stack EXCEPT ![t] = <<>>] /\ kernel' = kernel \ {t}
      /\ UNCHANGED <<pending, sel, upcall, masked, off, cur>>
  BY DEF IInv, task_vanish, events
<1>2. lost' <=> \E i \in DOMAIN stack[t] :
                  stack[t][i].l1 # {} \/ active_evtchns(stack[t][i].word) # {}
  BY DEF task_vanish
<1>3. /\ stack' \in [Thread -> Seq(Activations)] /\ DOMAIN stack'[t] = {}
      /\ \A u \in Thread \ {t} : stack'[u] = stack[u]
  <2>1. <<>> \in Seq(Activations) /\ DOMAIN <<>> = {}
    OBVIOUS
  <2> QED
    BY <1>1, <2>1 DEF TypeOK
<1>4. TypeOK'
  <2>1. lost' \in BOOLEAN
    BY DEF task_vanish
  <2> QED
    BY <1>1, <1>3, <2>1 DEF TypeOK
<1>5. ~off
  BY <1>1 DEF EntryOnTop
<1>6. EntryOnTop'
  BY <1>1, <1>3, <1>5 DEF EntryOnTop
<1>7. NoEventStranded'
  <2>1. SUFFICES ASSUME NEW p \in pending \ masked, ~lost', WordOf(p) \notin sel PROVE Owed(p)'
    BY <1>1, StrandedNext
  <2>2. PICK u \in Thread : \E i \in DOMAIN stack[u] : WillScan(stack[u][i], p)
    BY <1>1, <2>1, Stranded DEF Owed
  <2>3. PICK i \in DOMAIN stack[u] : WillScan(stack[u][i], p)
    BY <2>2
  <2>4. u # t
    BY <1>2, <2>1, <2>3 DEF WillScan, active_evtchns
  <2> QED
    BY <1>3, <2>3, <2>4 DEF Owed
<1>8. ~Between
  <2>1. SUFFICES ASSUME NEW u \in Thread, NEW i \in DOMAIN stack[u], stack[u][i].pc = "xchg"
                 PROVE  FALSE
    BY DEF Between
  <2> QED
    BY <1>1, <1>5, <2>1 DEF EntryOnTop
<1>9. MarksAreTaken'
  BY <1>1, <1>8, Stranded, StrandedNext
<1> QED
  BY <1>4, <1>6, <1>7, <1>9 DEF IInv

\* The page fault handler may throw the hypervisor's word away; the history says so.
LEMMA FaultInv == ASSUME IInv, ~lost, xen_get_cr2 PROVE IInv'
<1>1. /\ TypeOK /\ EntryOnTop /\ NoEventStranded /\ MarksAreTaken
      /\ upcall' = FALSE /\ lost' = upcall
      /\ UNCHANGED <<pending, sel, masked, off, stack, kernel, cur>>
  BY DEF IInv, xen_get_cr2
<1>2. TypeOK'
  BY <1>1 DEF TypeOK
<1>3. EntryOnTop'
  BY <1>1 DEF EntryOnTop, Depth, Top
<1>4. (\A q : Owed(q)' <=> Owed(q)) /\ (Between' <=> Between)
  BY <1>1 DEF Owed, Between
<1> QED
  BY <1>1, <1>2, <1>3, <1>4, Stranded, StrandedNext DEF IInv

\* Every step keeps the invariant.
LEMMA StepInv == IInv /\ [Next]_vars => IInv'
<1> SUFFICES ASSUME IInv, [Next]_vars PROVE IInv'
  OBVIOUS
<1>0. /\ TypeOK /\ pending \subseteq Port /\ masked \subseteq Port
      /\ kernel \subseteq Thread /\ cur \in Thread
  BY DEF IInv, TypeOK
<1>1. ASSUME NEW p \in Port, Send(p) PROVE IInv'
  <2>1. /\ pending' = pending \cup {p} /\ UNCHANGED <<masked, off, stack, threads>>
    BY <1>1 DEF Send
  <2>2. CASE p \in pending \cup masked
    <3>1. /\ pending' \ masked' \subseteq pending \ masked
          /\ UNCHANGED <<sel, upcall, kernel, cur, lost>>
      BY <1>1, <2>1, <2>2 DEF Send, threads
    <3> QED
      BY <1>0, <2>1, <3>1, QuietInv
  <2>3. CASE p \notin pending \cup masked
    BY <1>0, <1>1, <2>1, <2>3, AnnounceInv DEF Send
  <2> QED
    BY <2>2, <2>3
<1>2. ASSUME NEW p \in Port, unmask_evtchn(p) PROVE IInv'
  <2>1. masked' = masked \ {p} /\ UNCHANGED <<pending, off, stack, threads>>
    BY <1>2 DEF unmask_evtchn
  <2>2. CASE p \in pending
    BY <1>0, <1>2, <2>1, <2>2, AnnounceInv DEF unmask_evtchn
  <2>3. CASE p \notin pending
    <3>1. UNCHANGED <<sel, upcall, kernel, cur, lost>>
      BY <1>2, <2>3 DEF unmask_evtchn, threads
    <3> QED
      BY <1>0, <2>1, <2>3, <3>1, QuietInv
  <2> QED
    BY <2>2, <2>3
<1>3. ASSUME Step PROVE IInv'
  BY <1>3, AcknowledgeInv, SelectInv, ScanInv, ClearInv, ReturnInv, TickInv, BottomInv DEF Step
<1>4. ASSUME SystemCall PROVE IInv'
  <2>1. /\ kernel' \subseteq Thread
        /\ UNCHANGED <<pending, sel, upcall, masked, off, stack, cur, lost>>
    BY <1>0, <1>4 DEF SystemCall, events
  <2> QED
    BY <1>0, <2>1, QuietInv
<1>5. ASSUME NEW t \in Thread, Yield(t) PROVE IInv'
  BY <1>0, <1>5, QuietInv DEF Yield, events
<1>6. ASSUME UNCHANGED vars PROVE IInv'
  BY <1>0, <1>6, QuietInv DEF vars
<1> QED
  BY <1>1, <1>2, <1>3, <1>4, <1>5, <1>6, DeliverInv, VanishInv, FaultInv DEF Next

-----------------------------------------------------------------------------
(* The theorems *)

\* An event that is pending for a bound port is announced, or a callback has yet
\* to look at its word, or a killed thread's stack held the rest of the callback.
THEOREM NothingStranded == Spec => []NoEventStranded
<1>1. IInv => NoEventStranded
  BY DEF IInv
<1> QED
  BY InitInv, StepInv, <1>1, PTL DEF Spec

\* A marked word has a callback due or on its way, unless the page fault handler
\* has thrown the hypervisor's flag away.
THEOREM EveryMarkTaken == Spec => []MarksAreTaken
<1>1. IInv => MarksAreTaken
  BY DEF IInv
<1> QED
  BY InitInv, StepInv, <1>1, PTL DEF Spec
=============================================================================
