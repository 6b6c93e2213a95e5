-------------------------- MODULE KernelLockProofs --------------------------
(***************************************************************************)
(* The kernel lock excludes, for any number of threads and any depth of    *)
(* nested ticks, up to the fault of the kernel that stops the machine.     *)
(*                                                                         *)
(* LockInv, which is OneInKernel without faults, is inductive together     *)
(* with OwnKernelStack, which tells that a trap pushes its activation on   *)
(* the stack of the running thread, and with what is below and above a     *)
(* fault (WellStacked).  The lemmas about In reduce every change of a      *)
(* stack to sets.                                                          *)
(***************************************************************************)
EXTENDS KernelLock, TLAPS

\* The activations of a stack that are at one of the points P.
In(s, P) == {i \in 1..Len(s) : s[i] \in P}

\* Those that hold the lock and have not faulted, those of a fault, and the ones
\* of a tick that do not hold it.
Orderly == Holding \ Faulting
Fault == Faulting \cup {"fault_entry"}
Ticking == {"top_half", "bottom_half", "callback_exit", "critical"}

\* The activations of a thread that hold the lock are those of its stack.
LEMMA FramesOfStack ==
  \A c : HoldingFrames(c) = In(stack[c], Holding) /\ (Faulted(c) <=> In(stack[c], Faulting) # {})
BY DEF HoldingFrames, In, Faulted

\* An activation that comes is at the points P or not.
LEMMA AppendIn ==
  ASSUME NEW s \in Seq(Points), NEW P, NEW p \in Points
  PROVE  /\ Append(s, p) \in Seq(Points)
         /\ In(Append(s, p), P) = IF p \in P THEN In(s, P) \cup {Len(s) + 1} ELSE In(s, P)
BY DEF In

\* The last activation leaves.
LEMMA PopSeq ==
  ASSUME NEW s \in Seq(Points), s # <<>>
  PROVE  LET n == SubSeq(s, 1, Len(s) - 1)
         IN  n \in Seq(Points) /\ Len(n) = Len(s) - 1 /\ \A i \in 1..Len(n) : n[i] = s[i]
<1>1. Len(s) \in Nat /\ Len(s) # 0
  OBVIOUS
<1>2. PICK m \in Nat : Len(s) = m + 1
  <2>1. Len(s) - 1 \in Nat /\ Len(s) = (Len(s) - 1) + 1
    BY <1>1
  <2> QED
    BY <2>1
<1>3. Len(s) - 1 = m /\ \A i \in 1..m : s[i] \in Points
  BY <1>1, <1>2
<1>4. /\ SubSeq(s, 1, m) \in Seq(Points) /\ Len(SubSeq(s, 1, m)) = m
      /\ \A i \in 1..m : SubSeq(s, 1, m)[i] = s[i]
  BY <1>2, <1>3
<1> QED
  BY <1>3, <1>4

\* What leaving an activation does to the ones at the points P.
LEMMA PopIn ==
  ASSUME NEW s \in Seq(Points), NEW P, s # <<>>, s[Len(s)] \notin P
  PROVE  /\ SubSeq(s, 1, Len(s) - 1) \in Seq(Points)
         /\ In(SubSeq(s, 1, Len(s) - 1), P) = In(s, P)
BY SMTT(40) DEF In

\* The last activation moves to q.
LEMMA GoToSeq ==
  ASSUME NEW s \in Seq(Points), s # <<>>, NEW q \in Points
  PROVE  LET n == [s EXCEPT ![Len(s)] = q]
         IN  /\ n \in Seq(Points) /\ Len(n) = Len(s) /\ n # <<>> /\ n[Len(n)] = q
             /\ \A i \in 1..Len(s) : i # Len(s) => n[i] = s[i]
OBVIOUS

LEMMA GoToIn ==
  ASSUME NEW s \in Seq(Points), NEW P, s # <<>>, NEW q \in Points
  PROVE  /\ In([s EXCEPT ![Len(s)] = q], P) = IF q \in P THEN In(s, P) \cup {Len(s)}
                                                         ELSE In(s, P) \ {Len(s)}
         /\ Len(s) \in In(s, P) <=> s[Len(s)] \in P
<1> DEFINE n == [s EXCEPT ![Len(s)] = q]
<1>1. /\ n \in Seq(Points) /\ Len(n) = Len(s) /\ n[Len(s)] = q /\ Len(s) \in 1..Len(s)
      /\ \A i \in 1..Len(s) : i # Len(s) => n[i] = s[i]
  BY GoToSeq
<1> HIDE DEF n
<1>2. In(n, P) = IF q \in P THEN In(s, P) \cup {Len(s)} ELSE In(s, P) \ {Len(s)}
  BY <1>1 DEF In
<1>3. Len(s) \in In(s, P) <=> s[Len(s)] \in P
  BY <1>1 DEF In
<1> QED
  BY <1>2, <1>3 DEF n

(* A stack of a thread that the machine could have: a trap is the first    *)
(* activation; below a fault is the trap that met it, above it are ticks   *)
(* only, which do not get the lock.                                        *)
WellStacked(s) ==
  /\ \A i \in 1..Len(s) : s[i] = "trap_entry" => i = 1
  /\ \A i \in In(s, Fault) :
       /\ Faults
       /\ \E j \in 1..Len(s) : j < i /\ s[j] = "trap_kernel"
       /\ \A j \in 1..Len(s) : i < j => s[j] \in Ticking

\* Of a thread whose last activation is not of a tick, only the last can be a
\* fault.
LEMMA FaultOnTop ==
  ASSUME NEW s \in Seq(Points), WellStacked(s), s # <<>>, s[Len(s)] \notin Ticking
  PROVE  \A i \in In(s, Fault) : i = Len(s)
BY DEF WellStacked, In

\* A trap comes on an empty stack; a tick or, on a trap that has the lock, a
\* fault on top.
LEMMA AppendWell ==
  ASSUME NEW s \in Seq(Points), WellStacked(s), NEW p \in Points,
         \/ p \in Ticking
         \/ p \notin Fault /\ s = <<>>
         \/ p = "fault_entry" /\ Faults /\ s # <<>> /\ s[Len(s)] = "trap_kernel"
  PROVE  WellStacked(Append(s, p))
<1> DEFINE n == Append(s, p)
<1>1. /\ n \in Seq(Points) /\ Len(n) = Len(s) + 1 /\ n[Len(s) + 1] = p
      /\ \A i \in 1..Len(s) : n[i] = s[i]
      /\ In(n, Fault) = IF p \in Fault THEN In(s, Fault) \cup {Len(s) + 1} ELSE In(s, Fault)
  BY AppendIn
<1> HIDE DEF n
<1> SUFFICES WellStacked(n)
  BY DEF n
<1>2. CASE p \in Ticking
  BY <1>1, <1>2 DEF WellStacked, In, Ticking, Fault, Faulting
<1>3. CASE p \notin Fault /\ s = <<>>
  BY <1>1, <1>3 DEF WellStacked, In
<1>4. CASE p = "fault_entry" /\ Faults /\ s # <<>> /\ s[Len(s)] = "trap_kernel"
  <2>1. \A i \in In(s, Fault) : i = Len(s)
    BY <1>4, FaultOnTop DEF Ticking
  <2>2. In(s, Fault) = {}
    BY <1>4, <2>1 DEF In, Fault, Faulting
  <2>3. In(n, Fault) = {Len(s) + 1}
    BY <1>1, <1>4, <2>2 DEF Fault
  <2>4. Len(s) \in 1..Len(s) /\ Len(s) < Len(s) + 1 /\ n[Len(s)] = "trap_kernel"
    BY <1>1, <1>4
  <2>5. \A i \in 1..Len(n) : n[i] = "trap_entry" => i = 1
    BY <1>1, <1>4 DEF WellStacked
  <2> QED
    BY <1>1, <1>4, <2>3, <2>4, <2>5 DEF WellStacked
<1> QED
  BY <1>2, <1>3, <1>4

\* The last activation, no fault, returns.
LEMMA PopWell ==
  ASSUME NEW s \in Seq(Points), WellStacked(s), s # <<>>, s[Len(s)] \notin Fault
  PROVE  WellStacked(SubSeq(s, 1, Len(s) - 1))
<1> DEFINE n == SubSeq(s, 1, Len(s) - 1)
<1>0. In(n, Fault) = In(s, Fault)
  BY PopIn
<1>1. n \in Seq(Points) /\ Len(n) = Len(s) - 1 /\ \A i \in 1..Len(n) : n[i] = s[i]
  BY PopSeq
<1> HIDE DEF n
<1>2. \A i \in In(s, Fault) : i \in 1..Len(n)
  BY <1>0, <1>1 DEF In
<1>3. \A i \in 1..Len(n) : i \in 1..Len(s)
  BY <1>1
<1>4. ASSUME NEW i \in In(n, Fault)
      PROVE  /\ Faults
             /\ \E j \in 1..Len(n) : j < i /\ n[j] = "trap_kernel"
             /\ \A j \in 1..Len(n) : i < j => n[j] \in Ticking
  <2>1. PICK j \in 1..Len(s) : j < i /\ s[j] = "trap_kernel"
    BY <1>0, <1>4 DEF WellStacked
  <2>2. j \in 1..Len(n)
    BY <1>0, <1>1, <1>2, <1>4, <2>1
  <2> QED
    BY <1>0, <1>1, <1>3, <1>4, <2>1, <2>2 DEF WellStacked
<1>5. \A i \in 1..Len(n) : n[i] = "trap_entry" => i = 1
  BY <1>1, <1>3 DEF WellStacked
<1> QED
  BY <1>4, <1>5 DEF n, WellStacked

\* The last activation moves to q: a tick with a fault below it on to another
\* point of a tick, a fault to another point of a fault.
LEMMA GoToWell ==
  ASSUME NEW s \in Seq(Points), WellStacked(s), s # <<>>, NEW q \in Points,
         q # "trap_entry",
         In(s, Fault) # {} => s[Len(s)] \notin Ticking \/ q \in Ticking,
         q \in Fault => s[Len(s)] \in Fault
  PROVE  WellStacked([s EXCEPT ![Len(s)] = q])
<1> DEFINE n == [s EXCEPT ![Len(s)] = q]
<1>1. /\ n \in Seq(Points) /\ Len(n) = Len(s) /\ n[Len(s)] = q
      /\ \A i \in 1..Len(s) : i # Len(s) => n[i] = s[i]
      /\ In(n, Fault) = IF q \in Fault THEN In(s, Fault) \cup {Len(s)}
                                       ELSE In(s, Fault) \ {Len(s)}
      /\ Len(s) \in In(s, Fault) <=> s[Len(s)] \in Fault
  BY GoToSeq, GoToIn
<1> HIDE DEF n
<1>2. ASSUME NEW i \in In(n, Fault)
      PROVE  /\ Faults
             /\ \E j \in 1..Len(n) : j < i /\ n[j] = "trap_kernel"
             /\ \A j \in 1..Len(n) : i < j => n[j] \in Ticking
  <2>0. i \in In(s, Fault) /\ i \in 1..Len(s)
    BY <1>1, <1>2 DEF In
  <2>1. /\ Faults
        /\ \A j \in 1..Len(s) : i < j => s[j] \in Ticking
    BY <2>0 DEF WellStacked
  <2>2. PICK j \in 1..Len(s) : j < i /\ s[j] = "trap_kernel"
    BY <2>0 DEF WellStacked
  <2>3. j # Len(s)
    BY <2>0, <2>2
  <2>4. ASSUME NEW k \in 1..Len(n), i < k
        PROVE  n[k] \in Ticking
    <3>1. CASE k = Len(s)
      <4>1. s[Len(s)] \in Ticking
        BY <1>1, <2>1, <2>4, <3>1
      <4> QED
        BY <1>1, <2>0, <3>1, <4>1
    <3>2. CASE k # Len(s)
      BY <1>1, <2>1, <2>4, <3>2
    <3> QED BY <3>1, <3>2
  <2> QED
    BY <1>1, <2>1, <2>2, <2>3, <2>4
<1>3. \A i \in 1..Len(n) : n[i] = "trap_entry" => i = 1
  BY <1>1 DEF WellStacked
<1> QED
  BY <1>2, <1>3 DEF n, WellStacked

\* The boot code never leaves its stack, so current_thread = NULL implies
\* that the lock is held.
BootFrame == stack[NULL] # <<>> /\ stack[NULL][1] = "boot"

\* The lock without faults: one activation holds it.
LockInv ==
  /\ Locked <=> In(stack[current], Orderly) # {}
  /\ \A c \in Context : \A i, j \in In(stack[c], Orderly) : i = j
  /\ \A c \in Context \ {current} : Len(stack[c]) \in In(stack[c], Orderly)

\* A thread that is switched out has no fault.
FaultInv ==
  /\ \A c \in Context : WellStacked(stack[c])
  /\ \A c \in Context \ {current} : In(stack[c], Fault) = {}

IInv == TypeOK /\ LockInv /\ FaultInv /\ OwnKernelStack /\ BootFrame

\* The boot code starts with the invariant.
LEMMA InitInv == Init => IInv
<1> SUFFICES ASSUME Init PROVE IInv
  OBVIOUS
<1>1. \A c \in Context : /\ stack[c] \in Seq(Points) /\ Len(stack[c]) = 1
                         /\ stack[c][1] \in {"boot", "exit_kernel"}
  <2>1. /\ <<"boot">> \in Seq(Points) /\ Len(<<"boot">>) = 1 /\ <<"boot">>[1] = "boot"
        /\ <<"exit_kernel">> \in Seq(Points) /\ Len(<<"exit_kernel">>) = 1
        /\ <<"exit_kernel">>[1] = "exit_kernel"
    BY DEF Holding, Points
  <2> QED
    BY <2>1 DEF Init
<1>2. \A c \in Context : In(stack[c], Orderly) = {1} /\ In(stack[c], Fault) = {}
  BY <1>1 DEF In, Orderly, Holding, Fault, Faulting
<1>3. TypeOK
  BY <1>1 DEF Init, TypeOK, Context
<1>4. LockInv
  BY <1>1, <1>2 DEF Init, LockInv, Locked, Context
<1>5. FaultInv
  <2>1. ASSUME NEW c \in Context PROVE WellStacked(stack[c])
    <3>0. In(stack[c], Fault) = {} /\ Len(stack[c]) = 1
      BY <1>1, <1>2
    <3>1. In(stack[c], Fault) = {} /\ \A i \in 1..Len(stack[c]) : i = 1
      BY <3>0
    <3> QED
      BY <3>1 DEF WellStacked
  <2> QED
    BY <1>2, <2>1 DEF FaultInv
<1> QED
  BY <1>3, <1>4, <1>5 DEF Init, OwnKernelStack, Locked, BootFrame, Context, IInv

\* The stack of the running thread changes as one of the lemmas says, and
\* the processor stays with it.
LEMMA StackStep ==
  ASSUME TypeOK, LockInv, FaultInv, current' = current,
         NEW n \in Seq(Points), stack' = [stack EXCEPT ![current] = n],
         \A i, j \in In(n, Orderly) : i = j,
         Locked' <=> In(n, Orderly) # {},
         WellStacked(n)
  PROVE  LockInv' /\ FaultInv'
<1>1. current \in Context /\ stack \in [Context -> Seq(Points)]
  BY DEF TypeOK
<1>2. stack'[current] = n /\ \A c \in Context \ {current} : stack'[c] = stack[c]
  BY <1>1
<1>3. LockInv'
  BY <1>1, <1>2 DEF LockInv
<1>4. FaultInv'
  BY <1>1, <1>2 DEF FaultInv
<1> QED
  BY <1>3, <1>4

\* Every step of traps, callback and handlers keeps it.
LEMMA StepInv == IInv /\ [Next]_vars => IInv'
<1> DEFINE s == stack[current]
           Good == TypeOK /\ LockInv /\ FaultInv /\ OwnKernelStack /\ BootFrame
<1> SUFFICES ASSUME Good, [Next]_vars
             PROVE  Good'
  BY DEF IInv
<1> USE KernelLockAssumption
<1>1. /\ current \in Context /\ esp0 \in Context /\ stack \in [Context -> Seq(Points)]
      /\ s \in Seq(Points) /\ WellStacked(s)
  BY DEF TypeOK, FaultInv
<1>2. /\ Locked <=> In(s, Orderly) # {}
      /\ \A i, j \in In(s, Orderly) : i = j
  BY <1>1 DEF LockInv
<1>3. s = <<>> => ~Locked /\ esp0 = current
  BY <1>2 DEF In, OwnKernelStack
\* Whoever faulted has the lock.
<1>0. In(s, Fault) # {} => Locked
  BY <1>1, <1>2 DEF WellStacked, In, Orderly, Holding, Faulting
<1>. NULL \in Context
  BY DEF Context
\* An activation without the lock comes on top.
<1>4. ASSUME NEW p \in Points \ Holding, stack' = [stack EXCEPT ![current] = Append(s, p)],
             \/ p \in Ticking
             \/ p \notin Fault /\ s = <<>>
             \/ p = "fault_entry" /\ Faults /\ s # <<>> /\ s[Len(s)] = "trap_kernel",
             UNCHANGED <<kernel_lock, current, esp0>>, upcall_mask' \in BOOLEAN
      PROVE  Good'
  <2>0. p \notin Orderly
    BY <1>4 DEF Orderly
  <2>1. /\ Append(s, p) \in Seq(Points) /\ In(Append(s, p), Orderly) = In(s, Orderly)
        /\ WellStacked(Append(s, p))
    BY <1>1, <1>4, <2>0, AppendIn, AppendWell
  <2>2. LockInv' /\ FaultInv'
    BY <1>2, <1>4, <2>1, StackStep DEF Locked
  <2>3. BootFrame'
    BY <1>1, <1>4 DEF BootFrame
  <2> QED
    BY <1>1, <1>4, <2>1, <2>2, <2>3 DEF TypeOK, OwnKernelStack, Locked
\* An activation without the lock returns.
<1>5. ASSUME NEW p \in Points \ Holding, p # "fault_entry", At(p), Pop,
             UNCHANGED <<kernel_lock, current, esp0, upcall_mask>>
      PROVE  Good'
  <2> DEFINE n == SubSeq(s, 1, Len(s) - 1)
  <2>1. n \in Seq(Points) /\ In(n, Orderly) = In(s, Orderly) /\ WellStacked(n)
    <3>1. s # <<>> /\ s[Len(s)] \notin Orderly /\ s[Len(s)] \notin Fault
      BY <1>5 DEF At, Orderly, Holding, Fault
    <3> QED
      BY <1>1, <3>1, PopIn, PopWell
  <2>2. stack' = [stack EXCEPT ![current] = n]
    BY <1>5 DEF Pop
  <2>0. BootFrame'
    <3>1. CASE current = NULL
      <4>1. s # <<>> /\ s[1] = "boot" /\ s[Len(s)] # "boot"
        BY <1>5, <3>1 DEF BootFrame, At, Holding
      <4>2. Len(s) \in Nat /\ Len(s) > 1
        BY <1>1, <4>1
      <4>3. Len(n) = Len(s) - 1 /\ n[1] = s[1]
        BY <1>1, <4>2
      <4>4. stack'[NULL] = n
        BY <1>1, <2>2, <3>1
      <4> HIDE DEF n
      <4>5. n # <<>>
        BY <4>2, <4>3
      <4> QED
        BY <4>1, <4>3, <4>4, <4>5 DEF BootFrame
    <3>2. CASE current # NULL
      BY <1>1, <2>2, <3>2 DEF BootFrame
    <3> QED BY <3>1, <3>2
  <2> HIDE DEF n
  <2>3. LockInv' /\ FaultInv'
    BY <1>2, <1>5, <2>1, <2>2, StackStep DEF Locked
  <2> QED
    BY <1>1, <1>5, <2>0, <2>1, <2>2, <2>3 DEF TypeOK, OwnKernelStack, Locked
\* The running activation moves on from p to q, and the lock with it.
<1>6. ASSUME NEW p \in Points, NEW q \in Points, p # "boot", At(p), GoTo(q), UNCHANGED current,
             kernel_lock' \in {"MUTEX_LOCKED", "MUTEX_UNLOCKED"},
             q \in Orderly => p \in Orderly \/ ~Locked,
             Locked' <=> IF p \in Orderly THEN q \in Orderly ELSE q \in Orderly \/ Locked,
             q # "trap_entry",
             In(s, Fault) # {} => p \notin Ticking \/ q \in Ticking,
             q \in Fault => p \in Fault,
             esp0' = current \/ (esp0' = esp0 /\ (Locked => Locked')),
             upcall_mask' \in BOOLEAN
      PROVE  Good'
  <2> DEFINE n == [s EXCEPT ![Len(s)] = q]
  <2>1. s # <<>> /\ s[Len(s)] = p
    BY <1>6 DEF At
  <2>2. stack' = [stack EXCEPT ![current] = n]
    BY <1>6 DEF GoTo
  <2>3. /\ n \in Seq(Points)
        /\ In(n, Orderly) = IF q \in Orderly THEN In(s, Orderly) \cup {Len(s)}
                                             ELSE In(s, Orderly) \ {Len(s)}
        /\ Len(s) \in In(s, Orderly) <=> p \in Orderly
    BY <1>1, <2>1, GoToSeq, GoToIn
  <2>6. WellStacked(n)
    BY <1>1, <1>6, <2>1, GoToWell
  <2>0. BootFrame'
    BY <1>1, <1>6, <2>1, <2>2 DEF BootFrame
  <2> HIDE DEF n
  <2>4. (\A i, j \in In(n, Orderly) : i = j) /\ (Locked' <=> In(n, Orderly) # {})
    BY <1>2, <1>6, <2>3
  <2>5. LockInv' /\ FaultInv'
    BY <1>6, <2>2, <2>3, <2>4, <2>6, StackStep
  <2> QED
    BY <1>1, <1>6, <2>0, <2>2, <2>3, <2>5 DEF TypeOK, OwnKernelStack
\* The processor goes from one activation that holds the lock to another.
<1>7. ASSUME sched_thread_yield
      PROVE  Good'
  <2>0. s # <<>> /\ s[Len(s)] \in {"boot", "trap_kernel", "bottom_kernel"}
    BY <1>7 DEF sched_thread_yield, At
  <2>1. /\ Len(s) \in In(s, Orderly) /\ In(s, Fault) = {}
    <3>1. Len(s) \in 1..Len(s) /\ s[Len(s)] \in Orderly /\ s[Len(s)] \notin Ticking \cup Fault
      BY <1>1, <2>0 DEF Orderly, Holding, Fault, Faulting, Ticking
    <3>2. \A i \in In(s, Fault) : i = Len(s)
      BY <1>1, <2>0, <3>1, FaultOnTop
    <3> QED
      BY <3>1, <3>2 DEF In
  <2>2. /\ stack' \in [Context -> Seq(Points)]
        /\ \A c \in Context : /\ Len(stack'[c]) = Len(stack[c])
                              /\ In(stack'[c], Orderly) = In(stack[c], Orderly)
                              /\ In(stack'[c], Fault) = In(stack[c], Fault)
                              /\ WellStacked(stack'[c])
        /\ BootFrame'
    <3>1. CASE stack' = stack
      BY <1>1, <3>1 DEF BootFrame, FaultInv
    <3>2. CASE At("bottom_kernel") /\ GoTo("bottom_leave")
      <4> DEFINE n == [s EXCEPT ![Len(s)] = "bottom_leave"]
      <4>1. s[Len(s)] = "bottom_kernel" /\ stack' = [stack EXCEPT ![current] = n]
        BY <3>2 DEF At, GoTo
      <4>2. "bottom_leave" \in Points /\ "bottom_leave" \in Orderly /\ "bottom_leave" \notin Fault
        BY DEF Holding, Points, Orderly, Fault, Faulting
      <4>3. /\ n \in Seq(Points) /\ Len(n) = Len(s)
            /\ In(n, Orderly) = In(s, Orderly) \cup {Len(s)}
            /\ In(n, Fault) = In(s, Fault) \ {Len(s)}
        BY <1>1, <2>0, <4>2, GoToSeq, GoToIn
      <4>4. WellStacked(n)
        BY <1>1, <2>0, <2>1, <4>2, GoToWell
      <4>5. BootFrame'
        BY <1>1, <4>1 DEF BootFrame
      <4> HIDE DEF n
      <4> QED
        BY <1>1, <2>1, <4>1, <4>3, <4>4, <4>5 DEF FaultInv
    <3> QED
      BY <1>7, <3>1, <3>2 DEF sched_thread_yield
  <2>3. Locked /\ Locked' /\ UNCHANGED <<kernel_lock, esp0, upcall_mask>> /\ current' \in Context
    BY <1>1, <1>2, <1>7, <2>1 DEF sched_thread_yield, Locked, Context
  <2>4. LockInv'
    BY <2>1, <2>2, <2>3, <1>1 DEF LockInv
  <2>5. FaultInv'
    BY <2>1, <2>2, <2>3, <1>1 DEF FaultInv
  <2> QED
    BY <2>2, <2>3, <2>4, <2>5 DEF TypeOK, OwnKernelStack
<1>8. CASE Trap
  BY <1>3, <1>4, <1>8 DEF Trap, Push, Points, Holding, Fault, Faulting, TypeOK
<1>9. CASE SupervisorFault
  <2>1. "fault_entry" \in Points \ Holding /\ s # <<>> /\ s[Len(s)] = "trap_kernel"
    BY <1>9 DEF SupervisorFault, At, Points, Holding, Faulting
  <2> QED
    BY <1>4, <1>9, <2>1 DEF SupervisorFault, Push, TypeOK
\* A trap from user mode finds the lock free.
<1>10. ASSUME At("trap_entry")
       PROVE  ~Locked /\ In(s, Fault) = {}
  <2>1. s # <<>> /\ s[Len(s)] = "trap_entry" /\ Len(s) = 1
    <3>1. s # <<>> /\ s[Len(s)] = "trap_entry"
      BY <1>10 DEF At
    <3>2. Len(s) \in 1..Len(s)
      BY <1>1, <3>1
    <3> QED
      BY <1>1, <3>1, <3>2 DEF WellStacked
  <2> QED
    BY <1>1, <1>2, <2>1 DEF In, Orderly, Holding, Fault, Faulting
<1>11. CASE lock_kernel
  <2>1. CASE At("trap_entry") /\ GoTo("trap_kernel")
    BY <1>6, <1>10, <1>11, <2>1
       DEF lock_kernel, Points, Orderly, Holding, Fault, Faulting, TypeOK, Locked
  \* A fault finds it taken, by the trap that it is on.
  <2>2. CASE At("fault_entry") /\ GoTo("fault_kernel")
    <3>1. Locked
      BY <1>0, <1>1, <2>2 DEF At, In, Fault
    <3> QED
      BY <1>6, <1>11, <2>2, <3>1
         DEF lock_kernel, Points, Orderly, Holding, Fault, Faulting, Ticking, TypeOK, Locked
  <2> QED
    BY <1>11, <2>1, <2>2 DEF lock_kernel
<1>12. CASE pgf_exception_handler
  BY <1>6, <1>12
     DEF pgf_exception_handler, Points, Orderly, Holding, Fault, Faulting, Ticking, TypeOK, Locked
<1>13. CASE unlock_kernel
  BY <1>1, <1>6, <1>13
     DEF unlock_kernel, Points, Orderly, Holding, Fault, Faulting, Ticking, TypeOK, Locked
<1>14. CASE TrapReturn
  BY <1>5, <1>14 DEF TrapReturn, Points, Holding, Faulting
<1>15. CASE hypervisor_callback
  <2>0. "top_half" \in Points \ Holding /\ "top_half" \in Ticking
    BY DEF Points, Holding, Faulting, Ticking
  <2>1. CASE s = <<>> /\ Push(esp0, "top_half")
    BY <1>3, <1>4, <1>15, <2>0, <2>1 DEF hypervisor_callback, Push
  <2>2. CASE Push(current, "top_half")
    BY <1>4, <1>15, <2>0, <2>2 DEF hypervisor_callback, Push
  <2>3. CASE At("critical") /\ GoTo("top_half")
    BY <1>6, <1>15, <2>3
       DEF hypervisor_callback, Points, Orderly, Holding, Fault, Faulting, Ticking, TypeOK, Locked
  <2> QED
    BY <1>15, <2>1, <2>2, <2>3 DEF hypervisor_callback
<1>16. CASE timer_handler
  BY <1>6, <1>16
     DEF timer_handler, Points, Orderly, Holding, Fault, Faulting, Ticking, TypeOK, Locked
<1>17. CASE sched_bottom_half
  <2>1. CASE Locked
    BY <1>6, <1>17, <2>1
       DEF sched_bottom_half, Points, Orderly, Holding, Fault, Faulting, Ticking, TypeOK, Locked
  <2>2. CASE ~Locked
    <3>1. 1 \in In(stack[NULL], Orderly)
      BY <1>1 DEF BootFrame, TypeOK, In, Orderly, Holding, Faulting
    <3>2. current # NULL /\ In(s, Fault) = {}
      BY <1>0, <1>1, <1>2, <2>2, <3>1
    <3> QED
      BY <1>6, <1>17, <2>2, <3>2
         DEF sched_bottom_half, Points, Orderly, Holding, Fault, Faulting, Ticking, TypeOK, Locked
  <2> QED BY <2>1, <2>2
<1>18. CASE safesti
  BY <1>6, <1>18
     DEF safesti, Points, Orderly, Holding, Fault, Faulting, Ticking, TypeOK, Locked
<1>19. CASE CallbackReturn
  BY <1>5, <1>19 DEF CallbackReturn, Points, Holding, Faulting
<1>20. CASE UNCHANGED vars
  BY <1>20 DEF vars, TypeOK, LockInv, FaultInv, OwnKernelStack, BootFrame, Locked
<1> QED
  BY <1>7, <1>8, <1>9, <1>11, <1>12, <1>13, <1>14, <1>15, <1>16, <1>17, <1>18, <1>19, <1>20
     DEF Next, Kernel

(* The kernel lock excludes: on every path through the wrappers, the       *)
(* bottom half and the context switch one activation owns the kernel, and  *)
(* only a fault of the kernel, which stops it, adds a second.              *)
THEOREM OneThreadInKernel == Spec => [](TypeOK /\ OneInKernel)
<1>1. ASSUME IInv PROVE OneInKernel
  <2>1. /\ current \in Context /\ \A c \in Context : stack[c] \in Seq(Points)
    BY <1>1 DEF IInv, TypeOK
  <2>2. ASSUME NEW c \in Context
        PROVE  /\ HoldingFrames(c) = In(stack[c], Orderly) \cup In(stack[c], Faulting)
               /\ In(stack[c], Faulting) \subseteq In(stack[c], Fault)
               /\ In(stack[c], Fault) # {} => In(stack[c], Orderly) # {}
    <3>1. WellStacked(stack[c])
      BY <1>1 DEF IInv, FaultInv
    <3> QED
      BY <2>1, <3>1 DEF WellStacked, HoldingFrames, In, Orderly, Fault, Holding, Faulting
  <2>3. Locked <=> HoldingFrames(current) # {}
    <3>1. Locked <=> In(stack[current], Orderly) # {}
      BY <1>1 DEF IInv, LockInv
    <3>2. /\ HoldingFrames(current) = In(stack[current], Orderly) \cup In(stack[current], Faulting)
          /\ In(stack[current], Faulting) # {} => In(stack[current], Orderly) # {}
      BY <2>1, <2>2
    <3> QED
      BY <3>1, <3>2
  <2>4. ASSUME NEW c \in Context, NEW i \in HoldingFrames(c), NEW j \in HoldingFrames(c), i < j
        PROVE  stack[c][i] = "trap_kernel" /\ stack[c][j] \in Faulting
    <3>1. /\ WellStacked(stack[c]) /\ i \in 1..Len(stack[c]) /\ j \in 1..Len(stack[c])
          /\ \A k, l \in In(stack[c], Orderly) : k = l
      BY <1>1, <2>4 DEF IInv, FaultInv, LockInv, HoldingFrames
    \* Above a fault nothing has the lock.
    <3>2. i \in In(stack[c], Orderly)
      <4>1. ASSUME i \in In(stack[c], Faulting)
            PROVE  stack[c][j] \in Ticking
        BY <2>2, <2>4, <3>1, <4>1 DEF WellStacked
      <4> QED
        BY <2>2, <2>4, <4>1 DEF HoldingFrames, Holding, Faulting, Ticking
    <3>3. j \in In(stack[c], Faulting)
      BY <2>1, <2>2, <2>4, <3>1, <3>2
    <3>4. PICK k \in 1..Len(stack[c]) : k < j /\ stack[c][k] = "trap_kernel"
      BY <2>2, <3>1, <3>3 DEF WellStacked
    <3>5. k \in In(stack[c], Orderly)
      BY <3>4 DEF In, Orderly, Holding, Faulting
    <3> QED
      BY <3>1, <3>2, <3>3, <3>4, <3>5 DEF In
  <2>5. \A c \in Context \ {current} : Len(stack[c]) \in HoldingFrames(c) /\ ~Faulted(c)
    BY <1>1, <2>2, FramesOfStack DEF IInv, LockInv, FaultInv
  <2> QED
    BY <2>3, <2>4, <2>5 DEF OneInKernel
<1> QED
  BY <1>1, InitInv, StepInv, PTL DEF Spec, IInv

(* No trap from user mode finds the kernel lock taken: it is the first     *)
(* activation of the running thread, which therefore holds nothing, and    *)
(* whoever is switched out has handed the lock over.  lock_kernel, which   *)
(* would take it from its holder, needs this.                              *)
THEOREM TrapsFindFree == Spec => []TrapsFindLockFree
<1>1. ASSUME IInv, At("trap_entry") PROVE ~Locked
  <2>1. /\ stack[current] \in Seq(Points) /\ stack[current] # <<>>
        /\ stack[current][Len(stack[current])] = "trap_entry" /\ WellStacked(stack[current])
        /\ Locked <=> In(stack[current], Orderly) # {}
    BY <1>1 DEF IInv, TypeOK, FaultInv, LockInv, At
  <2>2. Len(stack[current]) = 1
    <3>1. Len(stack[current]) \in 1..Len(stack[current])
      BY <2>1
    <3> QED
      BY <2>1, <3>1 DEF WellStacked
  <2> QED
    BY <2>1, <2>2 DEF In, Orderly, Holding, Faulting
<1>2. IInv => TrapsFindLockFree
  BY <1>1 DEF TrapsFindLockFree
<1> QED
  BY <1>2, InitInv, StepInv, PTL DEF Spec

(* As long as the kernel does not touch absent user pages, it is not       *)
(* re-entered at all, as README.dox:172-175 has it: ticks, nested to any   *)
(* depth, are kept out by trylock_kernel, traps by TrapsFindLockFree.      *)
THEOREM OnlyFaultsReenter == ~Faults => (Spec => []NonReentrant)
<1> SUFFICES ASSUME ~Faults PROVE Spec => []NonReentrant
  OBVIOUS
<1>1. ASSUME IInv PROVE NonReentrant
  <2>1. ASSUME NEW c \in Context PROVE HoldingFrames(c) = In(stack[c], Orderly)
    <3>1. In(stack[c], Fault) = {}
      BY <1>1 DEF IInv, FaultInv, WellStacked
    <3> QED
      BY <3>1 DEF HoldingFrames, In, Orderly, Fault
  <2>2. \A c \in Context : \A i, j \in In(stack[c], Orderly) : i = j
    BY <1>1 DEF IInv, LockInv
  <2> QED
    BY <2>1, <2>2 DEF NonReentrant
<1> QED
  BY <1>1, InitInv, StepInv, PTL DEF Spec

-----------------------------------------------------------------------------
\* The masked top half is the running activation: nothing interrupts it.
TopHalfOnTop ==
  \A c \in Context : \A i \in 1..Len(stack[c]) :
    stack[c][i] = "top_half" => c = current /\ i = Len(stack[c])

MaskInv == MaskedInTopHalf /\ TopHalfOnTop

\* The running thread's stack becomes n, which is masked if its end is.
LEMMA MaskStep ==
  ASSUME TypeOK, TopHalfOnTop, current' = current,
         NEW n \in Seq(Points), stack' = [stack EXCEPT ![current] = n],
         \A i \in 1..Len(n) : n[i] = "top_half" => i = Len(n),
         upcall_mask' <=> n # <<>> /\ n[Len(n)] = "top_half"
  PROVE  MaskInv'
<1>1. current \in Context /\ stack \in [Context -> Seq(Points)]
  BY DEF TypeOK
<1>2. stack'[current] = n /\ \A c \in Context \ {current} : stack'[c] = stack[c]
  BY <1>1
<1>3. MaskedInTopHalf'
  BY <1>2 DEF MaskedInTopHalf, At
<1>4. TopHalfOnTop'
  BY <1>1, <1>2 DEF TopHalfOnTop
<1> QED
  BY <1>3, <1>4 DEF MaskInv

(* Events stay masked in the top half of the callback only (__sti in       *)
(* timer_handler, safesti): nobody is switched out masked, because a       *)
(* switched-out thread is inside its locked region.                        *)
THEOREM OnlyTopHalfMasked == Spec => []MaskedInTopHalf
<1>1. Init => MaskInv
  <2> SUFFICES ASSUME Init PROVE MaskInv
    OBVIOUS
  <2>1. \A c \in Context : \A i \in 1..Len(stack[c]) : stack[c][i] # "top_half"
    BY DEF Init
  <2>2. ~At("top_half")
    BY <2>1 DEF Init, At, Context
  <2> QED
    BY <2>1, <2>2 DEF Init, MaskInv, MaskedInTopHalf, TopHalfOnTop
<1>2. IInv /\ MaskInv /\ [Next]_vars => MaskInv'
  <2> SUFFICES ASSUME IInv, MaskInv, [Next]_vars
               PROVE  MaskInv'
    OBVIOUS
  <2> DEFINE s == stack[current]
  <2>1. /\ TypeOK /\ TopHalfOnTop /\ current \in Context /\ esp0 \in Context
        /\ s \in Seq(Points) /\ upcall_mask \in BOOLEAN
        /\ \A i \in 1..Len(s) : s[i] = "top_half" => i = Len(s)
        /\ upcall_mask <=> s # <<>> /\ s[Len(s)] = "top_half"
    BY DEF IInv, TypeOK, MaskInv, MaskedInTopHalf, TopHalfOnTop, At
  <2>2. s = <<>> => esp0 = current
    BY <2>1 DEF IInv, LockInv, OwnKernelStack, In
  \* An activation comes on top of one that is not masked.
  <2>3. ASSUME NEW p \in Points, ~upcall_mask, current' = current,
               stack' = [stack EXCEPT ![current] = Append(s, p)],
               upcall_mask' <=> p = "top_half"
        PROVE  MaskInv'
    <3>1. /\ Append(s, p) \in Seq(Points) /\ Append(s, p) # <<>>
          /\ Len(Append(s, p)) = Len(s) + 1 /\ Append(s, p)[Len(s) + 1] = p
          /\ \A i \in 1..Len(s) : Append(s, p)[i] = s[i]
      BY <2>1
    <3>2. \A i \in 1..Len(Append(s, p)) :
            Append(s, p)[i] = "top_half" => i = Len(Append(s, p))
      BY <2>1, <2>3, <3>1
    <3> QED
      BY <2>1, <2>3, <3>1, <3>2, MaskStep
  \* The running activation moves on to q.
  <2>4. ASSUME NEW q \in Points, s # <<>>, current' = current, GoTo(q),
               upcall_mask' <=> q = "top_half"
        PROVE  MaskInv'
    <3> DEFINE n == [s EXCEPT ![Len(s)] = q]
    <3>1. n \in Seq(Points) /\ n # <<>> /\ Len(n) = Len(s) /\ n[Len(n)] = q
      BY <2>1, <2>4, GoToSeq
    <3>2. \A i \in 1..Len(n) : n[i] = "top_half" => i = Len(n)
      BY <2>1, <3>1
    <3>3. stack' = [stack EXCEPT ![current] = n]
      BY <2>4 DEF GoTo
    <3> HIDE DEF n
    <3> QED
      BY <2>1, <2>4, <3>1, <3>2, <3>3, MaskStep
  \* The running activation, not masked, returns.
  <2>5. ASSUME NEW p, p # "top_half", At(p), Pop, current' = current,
               upcall_mask' = upcall_mask
        PROVE  MaskInv'
    <3> DEFINE n == SubSeq(s, 1, Len(s) - 1)
    <3>1. /\ n \in Seq(Points) /\ Len(n) = Len(s) - 1
          /\ \A i \in 1..Len(n) : n[i] = s[i]
      BY <2>1, <2>5 DEF At
    <3>2. \A i \in 1..Len(n) : n[i] # "top_half"
      BY <2>1, <3>1
    <3>3. stack' = [stack EXCEPT ![current] = n] /\ ~upcall_mask
      BY <2>1, <2>5 DEF Pop, At
    <3>4. n # <<>> => Len(n) \in 1..Len(n)
      BY <3>1
    <3> HIDE DEF n
    <3> QED
      BY <2>1, <2>5, <3>1, <3>2, <3>3, <3>4, MaskStep
  <2>6. CASE Trap
    <3>1. /\ "trap_entry" \in Points /\ "trap_entry" # "top_half" /\ ~upcall_mask
          /\ stack' = [stack EXCEPT ![current] = Append(s, "trap_entry")]
          /\ UNCHANGED <<current, upcall_mask>>
      BY <2>1, <2>2, <2>6 DEF Trap, Push, Points, At
    <3> QED
      BY <2>3, <3>1
  <2>7. CASE SupervisorFault
    <3>1. /\ "fault_entry" \in Points /\ "fault_entry" # "top_half" /\ ~upcall_mask
          /\ stack' = [stack EXCEPT ![current] = Append(s, "fault_entry")]
          /\ UNCHANGED <<current, upcall_mask>>
      BY <2>1, <2>7 DEF SupervisorFault, Push, Points, At
    <3> QED
      BY <2>3, <3>1
  <2>8. CASE lock_kernel
    BY <2>1, <2>4, <2>8 DEF lock_kernel, Points, Holding, Faulting, At
  <2>9. CASE sched_thread_yield
    <3>1. ~At("top_half") /\ s # <<>>
      BY <2>9 DEF sched_thread_yield, At
    <3>2. ~upcall_mask /\ \A c \in Context : \A i \in 1..Len(stack[c]) : stack[c][i] # "top_half"
      BY <2>1, <3>1 DEF TopHalfOnTop, At
    <3>3. /\ \A c \in Context : stack'[c] \in Seq(Points)
          /\ \A c \in Context : \A i \in 1..Len(stack'[c]) : stack'[c][i] # "top_half"
      <4>1. CASE UNCHANGED stack
        BY <3>2, <4>1, <2>1 DEF TypeOK
      <4>2. CASE GoTo("bottom_leave")
        <5> DEFINE n == [s EXCEPT ![Len(s)] = "bottom_leave"]
        <5>1. n \in Seq(Points) /\ Len(n) = Len(s)
          BY <2>1, <3>1, GoToSeq DEF Points, Holding
        <5>2. \A i \in 1..Len(n) : n[i] # "top_half"
          BY <2>1, <3>2, <5>1
        <5>3. stack' = [stack EXCEPT ![current] = n]
          BY <4>2 DEF GoTo
        <5> HIDE DEF n
        <5> QED
          BY <2>1, <3>2, <5>1, <5>2, <5>3 DEF TypeOK
      <4> QED
        BY <4>1, <4>2, <2>9 DEF sched_thread_yield
    <3>4. current' \in Context /\ upcall_mask' = upcall_mask
      BY <2>9 DEF sched_thread_yield, Context
    <3>5. MaskedInTopHalf'
      BY <3>2, <3>3, <3>4 DEF MaskedInTopHalf, At
    <3> QED
      BY <3>3, <3>5 DEF MaskInv, TopHalfOnTop
  <2>10. CASE unlock_kernel
    BY <2>1, <2>4, <2>10 DEF unlock_kernel, Points, Holding, At
  <2>11. CASE TrapReturn
    BY <2>5, <2>11 DEF TrapReturn
  <2>12. CASE hypervisor_callback
    BY <2>1, <2>2, <2>3, <2>4, <2>12 DEF hypervisor_callback, Push, Points, At
  <2>13. CASE timer_handler
    BY <2>1, <2>4, <2>13 DEF timer_handler, Points, At
  <2>14. CASE sched_bottom_half
    BY <2>1, <2>4, <2>14 DEF sched_bottom_half, Points, Holding, At
  <2>15. CASE safesti
    BY <2>1, <2>4, <2>15 DEF safesti, Points, At
  <2>16. CASE CallbackReturn
    BY <2>5, <2>16 DEF CallbackReturn
  <2>17. CASE pgf_exception_handler
    BY <2>1, <2>4, <2>17 DEF pgf_exception_handler, Points, Holding, Faulting, At
  <2>18. CASE UNCHANGED vars
    BY <2>1, <2>18 DEF vars, MaskInv, MaskedInTopHalf, TopHalfOnTop, At
  <2> QED
    BY <2>6, <2>7, <2>8, <2>9, <2>10, <2>11, <2>12, <2>13, <2>14, <2>15, <2>16, <2>17, <2>18
       DEF Next, Kernel
<1>3. MaskInv => MaskedInTopHalf
  BY DEF MaskInv
<1> QED
  BY <1>1, <1>2, <1>3, InitInv, StepInv, PTL DEF Spec

\* Whatever switches ticks and system calls have made, a trap from user mode lands
\* on the kernel stack of the running thread.
THEOREM StackIsOwn == Spec => []OwnKernelStack
<1>1. IInv => OwnKernelStack
  BY DEF IInv
<1> QED
  BY <1>1, InitInv, StepInv, PTL DEF Spec

-----------------------------------------------------------------------------
(* The code implements the abstract lock: the processor changes hands only *)
(* while the lock is held and with it, and once the holder has asked for   *)
(* it again (a fault of the kernel) nobody gets either.                    *)
THEOREM LockIsHandedOver == Spec => ImplementsHandoff
<1>1. Init => Abstract!Init
  <2> SUFFICES ASSUME Init PROVE Abstract!Init
    OBVIOUS
  <2>1. ~Faulted(current)
    BY DEF Init, Faulted, Faulting, Context
  <2> QED
    BY <2>1 DEF Init, Abstract!Init, Locked
<1>2. IInv /\ [Next]_vars => [Abstract!Next]_(Abstract!vars)
  <2> SUFFICES ASSUME IInv, [Next]_vars
               PROVE  [Abstract!Next]_(Abstract!vars)
    OBVIOUS
  <2> DEFINE s == stack[current]
  <2> USE KernelLockAssumption
  <2>1. /\ current \in Context /\ esp0 \in Context /\ stack \in [Context -> Seq(Points)]
        /\ s \in Seq(Points) /\ WellStacked(s)
        /\ Locked <=> In(s, Orderly) # {}
    BY DEF IInv, TypeOK, FaultInv, LockInv
  <2>2. Faulted(current) <=> In(s, Faulting) # {}
    BY FramesOfStack
  \* Who has faulted has the lock, and all that it runs is a fault or a tick.
  <2>3. In(s, Fault) # {} => Locked
    BY <2>1 DEF WellStacked, In, Orderly, Holding, Faulting
  <2>4. /\ In(s, Faulting) \subseteq In(s, Fault)
        /\ s # <<>> /\ s[Len(s)] \notin Ticking \cup Fault => In(s, Fault) = {}
    BY <2>1, FaultOnTop DEF In, Fault
  <2>5. s = <<>> => ~Locked /\ esp0 = current /\ In(s, Faulting) = {}
    BY <2>1 DEF In, IInv, OwnKernelStack
  \* The running activation moves on, no fault before and after.
  <2>6. ASSUME NEW q \in Points \ Faulting, s # <<>>, s[Len(s)] \notin Faulting, GoTo(q),
               UNCHANGED current
        PROVE  Faulted(current)' = Faulted(current)
    <3> DEFINE n == [s EXCEPT ![Len(s)] = q]
    <3>1. In(n, Faulting) = In(s, Faulting) \ {Len(s)} /\ Len(s) \notin In(s, Faulting)
      BY <2>1, <2>6, GoToIn
    <3>2. stack'[current] = n
      BY <2>1, <2>6 DEF GoTo
    <3> HIDE DEF n
    <3>3. (Faulted(current)') <=> In(n, Faulting) # {}
      BY <2>6, <3>2 DEF Faulted, In
    <3>4. (Faulted(current)') <=> Faulted(current)
      BY <2>2, <3>1, <3>3
    <3> QED
      BY <3>4 DEF Faulted
  \* An activation that is no fault comes.
  <2>7. ASSUME NEW p \in Points \ Faulting, UNCHANGED current,
               stack' = [stack EXCEPT ![current] = Append(s, p)]
        PROVE  Faulted(current)' = Faulted(current)
    <3> DEFINE n == Append(s, p)
    <3>1. In(n, Faulting) = In(s, Faulting) /\ stack'[current] = n
      BY <2>1, <2>7, AppendIn
    <3> HIDE DEF n
    <3>2. (Faulted(current)') <=> In(n, Faulting) # {}
      BY <2>7, <3>1 DEF Faulted, In
    <3>3. (Faulted(current)') <=> Faulted(current)
      BY <2>2, <3>1, <3>2
    <3> QED
      BY <3>3 DEF Faulted
  \* One that is no fault returns.
  <2>8. ASSUME Pop, s # <<>>, s[Len(s)] \notin Faulting, UNCHANGED current
        PROVE  Faulted(current)' = Faulted(current)
    <3> DEFINE n == SubSeq(s, 1, Len(s) - 1)
    <3>1. In(n, Faulting) = In(s, Faulting) /\ stack'[current] = n
      BY <2>1, <2>8, PopIn DEF Pop
    <3> HIDE DEF n
    <3>2. (Faulted(current)') <=> In(n, Faulting) # {}
      BY <2>8, <3>1 DEF Faulted, In
    <3>3. (Faulted(current)') <=> Faulted(current)
      BY <2>2, <3>1, <3>2
    <3> QED
      BY <3>3 DEF Faulted
  <2> USE DEF Abstract!Next, Abstract!vars
  <2>9. CASE lock_kernel
    <3>1. CASE At("trap_entry") /\ GoTo("trap_kernel")
      <4>1. ~Locked /\ ~Faulted(current)
        <5>1. s # <<>> /\ Len(s) = 1 /\ s[1] = "trap_entry"
          <6>1. s # <<>> /\ s[Len(s)] = "trap_entry"
            BY <3>1 DEF At
          <6>2. Len(s) \in 1..Len(s)
            BY <2>1, <6>1
          <6> QED
            BY <2>1, <6>1, <6>2 DEF WellStacked
        <5>2. In(s, Orderly) = {} /\ In(s, Faulting) = {}
          BY <5>1 DEF In, Orderly, Holding, Faulting
        <5> QED
          BY <2>1, <2>2, <5>2
      <4>2. Faulted(current)' = Faulted(current)
        BY <2>6, <2>9, <3>1 DEF lock_kernel, At, Points, Holding, Faulting
      <4> QED
        BY <2>9, <4>1, <4>2 DEF lock_kernel, Abstract!Acquire, Locked
    <3>2. CASE At("fault_entry") /\ GoTo("fault_kernel")
      <4> DEFINE n == [s EXCEPT ![Len(s)] = "fault_kernel"]
      <4>1. s # <<>> /\ s[Len(s)] = "fault_entry" /\ stack'[current] = n /\ current' = current
        BY <2>1, <2>9, <3>2 DEF At, GoTo, lock_kernel
      <4>2. Locked /\ ~Faulted(current)
        <5>1. \A i \in In(s, Fault) : i = Len(s)
          BY <2>1, <4>1, FaultOnTop DEF Ticking
        <5>2. Len(s) \in In(s, Fault) /\ Len(s) \notin In(s, Faulting)
          BY <2>1, <4>1 DEF In, Fault, Faulting
        <5> QED
          BY <2>2, <2>3, <2>4, <5>1, <5>2
      <4>3. In(n, Faulting) # {}
        <5>1. "fault_kernel" \in Points /\ "fault_kernel" \in Faulting
          BY DEF Points, Holding, Faulting
        <5>2. In(n, Faulting) = In(s, Faulting) \cup {Len(s)}
          <6>1. s \in Seq(Points) /\ s # <<>>
            BY <2>1, <4>1
          <6> HIDE DEF s
          <6> QED
            BY <5>1, <6>1, GoToIn
        <5> QED
          BY <5>2
      <4> HIDE DEF n
      <4>4. Faulted(current)' = TRUE
        BY <4>1, <4>3 DEF Faulted, In
      <4> QED
        BY <2>9, <4>1, <4>2, <4>4 DEF lock_kernel, Abstract!Stop, Locked
    <3> QED
      BY <2>9, <3>1, <3>2 DEF lock_kernel
  <2>10. CASE sched_thread_yield
    <3>1. s # <<>> /\ s[Len(s)] \in {"boot", "trap_kernel", "bottom_kernel"}
      BY <2>10 DEF sched_thread_yield, At
    <3>2. Locked /\ ~Faulted(current)
      BY <2>1, <2>2, <2>4, <3>1 DEF In, Orderly, Holding, Faulting, Fault, Ticking
    \* Whoever it switches to has not faulted either.
    <3>3. Faulted(current)' = Faulted(current)
      <4>1. \A c \in Context : ~Faulted(c)
        BY <2>2, <2>4, <3>2, FramesOfStack DEF IInv, FaultInv, In, Fault
      <4>2. CASE UNCHANGED stack
        BY <2>1, <2>10, <4>1, <4>2 DEF sched_thread_yield, Faulted, Context
      <4>3. CASE GoTo("bottom_leave")
        <5> DEFINE n == [s EXCEPT ![Len(s)] = "bottom_leave"]
        <5>1. stack' = [stack EXCEPT ![current] = n]
          BY <4>3 DEF GoTo
        <5>2. In(n, Faulting) = {}
          <6>1. "bottom_leave" \in Points /\ "bottom_leave" \notin Faulting
            BY DEF Points, Holding, Faulting
          <6>2. s \in Seq(Points) /\ s # <<>>
            BY <2>1, <3>1
          <6>3. In(n, Faulting) = In(s, Faulting) \ {Len(s)}
            <7> HIDE DEF s
            <7> QED
              BY <6>1, <6>2, GoToIn
          <6> QED
            BY <2>2, <3>2, <6>3
        <5> HIDE DEF n
        <5>3. \A c \in Context : In(stack'[c], Faulting) = {}
          BY <2>1, <4>1, <5>1, <5>2, FramesOfStack
        <5>4. current' \in Context
          BY <2>10 DEF sched_thread_yield, Context
        <5> QED
          BY <3>2, <5>3, <5>4 DEF Faulted, In
      <4> QED
        BY <2>10, <4>2, <4>3 DEF sched_thread_yield
    <3> QED
      BY <2>10, <3>2, <3>3 DEF sched_thread_yield, Abstract!HandOver, Context, Locked
  <2>11. CASE unlock_kernel
    <3>1. s # <<>> /\ s[Len(s)] \in {"trap_kernel", "exit_kernel", "bottom_leave"}
      BY <2>11 DEF unlock_kernel, At
    <3>2. Locked /\ ~Faulted(current)
      BY <2>1, <2>2, <2>4, <3>1 DEF In, Orderly, Holding, Faulting, Fault, Ticking
    <3>3. Faulted(current)' = Faulted(current)
      BY <2>6, <2>11, <3>1 DEF unlock_kernel, Points, Holding, Faulting
    <3> QED
      BY <2>11, <3>2, <3>3 DEF unlock_kernel, Abstract!Release, Locked
  <2>12. CASE sched_bottom_half
    <3>1. Faulted(current)' = Faulted(current)
      BY <2>6, <2>12 DEF sched_bottom_half, At, Points, Holding, Faulting
    <3>2. ~Locked => ~Faulted(current)
      BY <2>2, <2>3, <2>4
    <3> QED
      BY <2>12, <3>1, <3>2 DEF sched_bottom_half, Abstract!Acquire, Locked
  <2>13. CASE pgf_exception_handler
    <3> DEFINE n == [s EXCEPT ![Len(s)] = "panic"]
    <3>1. s # <<>> /\ s[Len(s)] = "fault_kernel" /\ stack'[current] = n /\ current' = current
      BY <2>1, <2>13 DEF At, GoTo, pgf_exception_handler
    <3>2. In(n, Faulting) # {} /\ In(s, Faulting) # {}
      <4>1. "panic" \in Points /\ "panic" \in Faulting /\ "fault_kernel" \in Faulting
        BY DEF Points, Holding, Faulting
      <4>2. s \in Seq(Points) /\ s # <<>>
        BY <2>1, <3>1
      <4>3. In(n, Faulting) = In(s, Faulting) \cup {Len(s)}
        <5> HIDE DEF s
        <5> QED
          BY <4>1, <4>2, GoToIn
      <4>4. Len(s) \in In(s, Faulting)
        BY <3>1, <4>1, <4>2 DEF In
      <4> QED
        BY <4>3, <4>4
    <3> HIDE DEF n
    <3>3. Faulted(current)' = Faulted(current)
      BY <2>2, <3>1, <3>2 DEF Faulted, In
    <3> QED
      BY <2>13, <3>3 DEF pgf_exception_handler, Locked
  <2>14. CASE Trap
    <3>1. Faulted(current)' = Faulted(current)
      BY <2>5, <2>7, <2>14 DEF Trap, Push, Points, Holding, Faulting
    <3> QED
      BY <2>14, <3>1 DEF Trap, Locked
  <2>15. CASE SupervisorFault
    <3>1. Faulted(current)' = Faulted(current)
      BY <2>7, <2>15 DEF SupervisorFault, Push, Points, Holding, Faulting
    <3> QED
      BY <2>15, <3>1 DEF SupervisorFault, Locked
  <2>16. CASE hypervisor_callback
    <3>1. Faulted(current)' = Faulted(current)
      BY <2>5, <2>6, <2>7, <2>16 DEF hypervisor_callback, Push, At, Points, Holding, Faulting
    <3> QED
      BY <2>16, <3>1 DEF hypervisor_callback, Locked
  <2>17. CASE TrapReturn
    <3>1. Faulted(current)' = Faulted(current)
      BY <2>8, <2>17 DEF TrapReturn, At, Faulting
    <3> QED
      BY <2>17, <3>1 DEF TrapReturn, Locked
  <2>18. CASE timer_handler
    <3>1. Faulted(current)' = Faulted(current)
      BY <2>6, <2>18 DEF timer_handler, At, Points, Holding, Faulting
    <3> QED
      BY <2>18, <3>1 DEF timer_handler, Locked
  <2>19. CASE safesti
    <3>1. Faulted(current)' = Faulted(current)
      BY <2>6, <2>19 DEF safesti, At, Points, Holding, Faulting
    <3> QED
      BY <2>19, <3>1 DEF safesti, Locked
  <2>20. CASE CallbackReturn
    <3>1. Faulted(current)' = Faulted(current)
      BY <2>8, <2>20 DEF CallbackReturn, At, Faulting
    <3> QED
      BY <2>20, <3>1 DEF CallbackReturn, Locked
  <2>21. CASE UNCHANGED vars
    BY <2>21 DEF vars, Faulted, Locked
  <2> QED
    BY <2>9, <2>10, <2>11, <2>12, <2>13, <2>14, <2>15, <2>16, <2>17, <2>18, <2>19, <2>20, <2>21
       DEF Next, Kernel
<1> QED
  BY <1>1, <1>2, InitInv, StepInv, PTL DEF Spec, ImplementsHandoff, Abstract!Spec
=============================================================================
