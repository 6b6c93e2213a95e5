------------------------------ MODULE XenEvents ------------------------------
(***************************************************************************)
(* Event channels: how the hypervisor marks an event, how the callback     *)
(* finds its port (kern/xen_events.c, 410kern/boot/head.S), and what the   *)
(* timer's handler does in between (kern/xen_time.c): it lets further      *)
(* events in and may switch to another thread, with the rest of the        *)
(* callback left on the stack of the first.                                *)
(*                                                                         *)
(* A step is one access to what the hypervisor shares, or more where       *)
(* nobody else can tell.  Who holds the kernel lock is KernelLock's.       *)
(***************************************************************************)
EXTENDS Naturals, Sequences, FiniteSets, FiniteSetsExt

CONSTANTS Thread,
          Port, timer,  \* ports are numbers
          PortsPerWord, \* 32: the bits of a word of pending events
          MaxDepth      \* activations on one stack

ASSUME XenEventsAssumption ==
  /\ timer \in Port /\ Port \subseteq Nat /\ {PortsPerWord, MaxDepth} \subseteq Nat \ {0}
  /\ Thread # {}

VARIABLES
  pending, \* evtchn_pending, a set of ports
  masked,  \* evtchn_mask
  sel,     \* evtchn_pending_sel, a set of words
  upcall,  \* evtchn_upcall_pending
  off,     \* evtchn_upcall_mask
  stack,   \* stack[t]: the activations of the callback on t's kernel stack
  kernel,  \* the threads that are in a system call
  cur,     \* the thread that runs
  lost     \* history: the kernel has thrown away what it was told of events

events == <<pending, sel, upcall>>
threads == <<kernel, cur, lost>>
vars == <<pending, masked, sel, upcall, off, stack, kernel, cur, lost>>

WordOf(p) == p \div PortsPerWord
Words == {WordOf(p) : p \in Port}
None == Max(Words) + 1

active_evtchns(w) == {p \in pending \ masked : WordOf(p) = w}

-----------------------------------------------------------------------------
(* The hypervisor *)

\* A word that is marked already is not announced again.
Announce(p) == /\ sel' = sel \cup {WordOf(p)}
               /\ upcall' = (upcall \/ WordOf(p) \notin sel)

\* An event for port p; one that is pending already is not told twice.
Send(p) ==
  /\ pending' = pending \cup {p}
  /\ IF p \in pending \cup masked THEN UNCHANGED <<sel, upcall>> ELSE Announce(p)
  /\ UNCHANGED <<masked, off, stack, threads>>

-----------------------------------------------------------------------------
(* The callback *)

Activation == [pc |-> "entry", l1 |-> {}, word |-> None, port |-> timer]

Depth == Len(stack[cur])
Top == stack[cur][Depth]
At(pc) == Depth > 0 /\ Top.pc = pc
Goto(pc) == stack' = [stack EXCEPT ![cur][Depth].pc = pc]

\* hypervisor_callback starts wherever events are on; in the critical region
\* at its end (critical_region_fixup) the one that ends starts again.
Deliver ==
  /\ upcall /\ ~off /\ Depth < MaxDepth
  /\ off' = TRUE
  /\ IF At("critical") THEN Goto("entry")
     ELSE stack' = [stack EXCEPT ![cur] = Append(@, Activation)]
  /\ UNCHANGED <<events, masked, threads>>

\* do_hypervisor_callback, its first assignment.
Acknowledge ==
  /\ At("entry") /\ upcall' = FALSE /\ Goto("xchg")
  /\ UNCHANGED <<pending, sel, masked, off, threads>>

\* l1 = xchg(...)
Select ==
  /\ At("xchg") /\ sel' = {}
  /\ stack' = [stack EXCEPT ![cur][Depth] = [@ EXCEPT !.pc = "scan", !.l1 = sel, !.word = None]]
  /\ UNCHANGED <<pending, upcall, masked, off, threads>>

\* Mutant of Scan: one word is looked at, not all that were marked.
ScanOneWord ==
  LET ports == active_evtchns(Top.word)
  IN  /\ At("scan")
      /\ \/ /\ ports # {}
            /\ stack' = [stack EXCEPT ![cur][Depth] = [@ EXCEPT !.port = Min(ports),
                              !.pc = IF Min(ports) = timer THEN "tick" ELSE "clear"]]
         \/ /\ ports = {} /\ Top.word = None /\ Top.l1 # {}
            /\ stack' = [stack EXCEPT ![cur][Depth].word = Min(Top.l1)]
         \/ /\ ports = {} /\ (Top.word # None \/ Top.l1 = {})
            /\ stack' = [stack EXCEPT ![cur][Depth] = [Activation EXCEPT !.pc = "critical"]]
      /\ off' = (off /\ (ports # {} \/ (Top.word = None /\ Top.l1 # {})))
      /\ UNCHANGED <<events, masked, threads>>

\* The loops: the lowest active port of the word, whose handler runs then, or
\* else the next word of l1, or else the end, where head.S lets
\* events in again.
Scan ==
  LET ports == active_evtchns(Top.word)
  IN  /\ At("scan")
      /\ \/ /\ ports # {}
            /\ stack' = [stack EXCEPT ![cur][Depth] = [@ EXCEPT !.port = Min(ports),
                              !.pc = IF Min(ports) = timer THEN "tick" ELSE "clear"]]
         \/ /\ ports = {} /\ Top.l1 # {}
            /\ stack' = [stack EXCEPT ![cur][Depth] = [@ EXCEPT !.word = Min(Top.l1),
                                                                !.l1 = Top.l1 \ {Min(Top.l1)}]]
         \/ /\ ports = {} /\ Top.l1 = {}
            /\ stack' = [stack EXCEPT ![cur][Depth] = [Activation EXCEPT !.pc = "critical"]]
      /\ off' = (off /\ (Top.l1 # {} \/ ports # {}))
      /\ UNCHANGED <<events, masked, threads>>

\* do_event clears the port last.
Clear ==
  /\ At("clear") /\ pending' = pending \ {Top.port}
  /\ stack' = [stack EXCEPT ![cur][Depth] = [@ EXCEPT !.pc = "scan", !.port = timer]]
  /\ UNCHANGED <<sel, upcall, masked, off, threads>>

\* Mutant of Return: events that came in the critical region are acknowledged.
ReturnAcknowledged ==
  /\ At("critical") /\ upcall' = FALSE
  /\ stack' = [stack EXCEPT ![cur] = SubSeq(@, 1, Depth - 1)]
  /\ UNCHANGED <<pending, sel, masked, off, threads>>

\* And once more from the top if there are any.
Return ==
  /\ At("critical")
  /\ IF upcall THEN off' = TRUE /\ Goto("entry")
     ELSE UNCHANGED off /\ stack' = [stack EXCEPT ![cur] = SubSeq(@, 1, Depth - 1)]
  /\ UNCHANGED <<events, masked, threads>>

-----------------------------------------------------------------------------
(* The timer *)

\* timer_handler: the tick, and the port cleared a first time; then __sti.
Tick ==
  /\ At("tick") /\ pending' = pending \ {timer} /\ off' = FALSE /\ Goto("bottom")
  /\ UNCHANGED <<sel, upcall, masked, threads>>

\* sched_bottom_half: a switch, if the lock can be had.
Bottom(t) ==
  /\ At("bottom") /\ (cur \in kernel => t = cur)
  /\ Goto("clear") /\ cur' = t
  /\ UNCHANGED <<events, masked, off, kernel, lost>>

-----------------------------------------------------------------------------
(* Threads *)

SystemCall ==
  /\ Depth = 0
  /\ kernel' = IF cur \in kernel THEN kernel \ {cur} ELSE kernel \cup {cur}
  /\ UNCHANGED <<events, masked, off, stack, cur, lost>>

\* sched_yield in a system call.
Yield(t) ==
  /\ Depth = 0 /\ cur \in kernel /\ cur' = t
  /\ UNCHANGED <<events, masked, off, stack, kernel, lost>>

\* Mutant of unmask_evtchn: what came while the port was masked is forgotten.
UnmaskQuietly(p) ==
  /\ Depth = 0 /\ p \in masked /\ masked' = masked \ {p}
  /\ UNCHANGED <<events, off, stack, threads>>

\* bind_evtchn, in unmask_evtchn.
unmask_evtchn(p) ==
  /\ Depth = 0 /\ p \in masked /\ masked' = masked \ {p}
  /\ IF p \in pending THEN Announce(p) ELSE UNCHANGED <<sel, upcall>>
  /\ UNCHANGED <<pending, off, stack, threads>>

\* xen_get_cr2, in the page fault handler, clears evtchn_upcall_pending,
\* which another processor's hypervisor may just have set.
xen_get_cr2 ==
  /\ Depth = 0 /\ upcall' = FALSE /\ lost' = upcall
  /\ UNCHANGED <<pending, sel, masked, off, stack, kernel, cur>>

\* sys_task_vanish: thread t is gone, with what its stack had still to look at,
\* and another may come in its place.
task_vanish(t) ==
  /\ Depth = 0 /\ cur \in kernel /\ t # cur
  /\ stack' = [stack EXCEPT ![t] = <<>>] /\ kernel' = kernel \ {t}
  /\ lost' = \E i \in DOMAIN stack[t] :
                 stack[t][i].l1 # {} \/ active_evtchns(stack[t][i].word) # {}
  /\ UNCHANGED <<events, masked, off, cur>>

Init ==
  /\ pending = {} /\ masked = Port /\ sel = {} /\ upcall = FALSE /\ off = FALSE
  /\ stack = [t \in Thread |-> <<>>] /\ kernel = {} /\ cur \in Thread
  /\ lost = FALSE

\* What the processor does next, on the thread that runs.
Step ==
  \/ Acknowledge \/ Select \/ Scan \/ Clear \/ Return
  \/ Tick
  \/ \E t \in Thread : Bottom(t)

\* What follows a loss is not followed.
Next ==
  /\ ~lost
  /\ \/ \E p \in Port : Send(p) \/ unmask_evtchn(p)
     \/ Deliver \/ Step \/ SystemCall \/ xen_get_cr2
     \/ \E t \in Thread : Yield(t) \/ task_vanish(t)

Spec == Init /\ [][Next]_vars

\* In the long run, events come slower than they are handled: the devices but
\* for the timer fall silent (one that sends faster than the inner loop clears
\* keeps the callback at its word for ever), and the tick finds the callbacks of
\* the running thread done; those of other threads may be left anywhere.  The
\* timer does not stop, nor the processor, and the scheduler gives every thread
\* its turn.
Slower == \A p \in Port : Send(p) => p = timer /\ Depth = 0

FairSpec ==
  /\ Spec /\ WF_vars(Send(timer) /\ Depth = 0) /\ <>[][Slower]_vars
  /\ WF_vars(Deliver) /\ WF_vars(Step) /\ \A p \in Port : WF_vars(unmask_evtchn(p))
  /\ \A t \in Thread : SF_vars(cur # t /\ (Bottom(t) \/ Yield(t)))

-----------------------------------------------------------------------------
\* The activation will look at the word of port p again.
WillScan(a, p) == /\ a.pc \notin {"entry", "xchg", "critical"}
                  /\ WordOf(p) \in a.l1 \cup {a.word}

(* An event that is pending for a bound port is announced, or a callback   *)
(* has yet to look at its word (unmask_evtchn, do_hypervisor_callback): it *)
(* does not wait for another event, unless a killed thread's stack held    *)
(* the rest of the callback.                                               *)
NoEventStranded ==
  \A p \in pending \ masked :
    \/ WordOf(p) \in sel \/ lost
    \/ \E t \in Thread : \E i \in DOMAIN stack[t] : WillScan(stack[t][i], p)

(* A word is marked only while a callback is due or on its way to take it; *)
(* with a mark nobody takes, the hypervisor announces no more events.      *)
(* Only xen_get_cr2 in a page fault breaks this.                           *)
MarksAreTaken ==
  sel # {} => \/ upcall \/ lost
              \/ \E t \in Thread : \E i \in DOMAIN stack[t] : stack[t][i].pc = "xchg"

(* A pending event of a bound port is taken by the callback, also when the *)
(* callback that was to take it is on the stack of another thread.         *)
EventsTaken == \A p \in Port : (p \in pending \ masked) ~> (p \notin pending \/ lost)
=============================================================================
