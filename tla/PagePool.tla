------------------------------ MODULE PagePool ------------------------------
(***************************************************************************)
(* What kern/inc/vmm_zone.h promises: "Allocate 2^order pages" hands out a *)
(* run of pages nobody else has, "Release pages to the free pool" ends     *)
(* that.                                                                   *)
(***************************************************************************)
EXTENDS Naturals

CONSTANTS Page, Order

VARIABLE lent   \* the runs of pages handed out

Run(p, o) == p .. (p + 2^o - 1)

Init == lent = {}

Lend(p, o) ==
  /\ Run(p, o) \subseteq Page
  /\ \A run \in lent : Run(p, o) \cap run = {}
  /\ lent' = lent \cup {Run(p, o)}

Return(run) == run \in lent /\ lent' = lent \ {run}

Next == \/ \E p \in Page, o \in Order : Lend(p, o)
        \/ \E run \in lent : Return(run)

Spec == Init /\ [][Next]_lent
=============================================================================
