---------------------------- MODULE LockHandoff ----------------------------
(***************************************************************************)
(* What the kernel lock promises: one holder at a time, and a processor    *)
(* that changes threads only in the hands of the holder, who passes the    *)
(* lock on with it.  A thread that is switched out inside the kernel       *)
(* neither runs nor releases the lock until it is handed both back.  A     *)
(* holder that asks for the lock again stops the machine: nobody gets the  *)
(* lock or the processor from then on.                                     *)
(***************************************************************************)
CONSTANTS Context, NULL

VARIABLES running, \* the context that has the processor
          held,    \* whether the lock is held, by the running context
          stopped  \* whether its holder has asked for it again

vars == <<running, held, stopped>>

Init == running = NULL /\ held = TRUE /\ stopped = FALSE

Acquire == ~held /\ ~stopped /\ held' = TRUE /\ UNCHANGED <<running, stopped>>

Release == held /\ ~stopped /\ held' = FALSE /\ UNCHANGED <<running, stopped>>

HandOver(c) == held /\ ~stopped /\ running' = c /\ UNCHANGED <<held, stopped>>

Stop == held /\ ~stopped /\ stopped' = TRUE /\ UNCHANGED <<running, held>>

Next == Acquire \/ Release \/ Stop \/ \E c \in Context : HandOver(c)

Spec == Init /\ [][Next]_vars
=============================================================================
