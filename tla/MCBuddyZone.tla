---------------------------- MODULE MCBuddyZone ----------------------------
(***************************************************************************)
(* One zone: the page of its free_area_list, a block of order 3, and a     *)
(* page that is left over.                                                 *)
(***************************************************************************)
EXTENDS BuddyZone

MCStartPage == [z \in Zone |-> 3]
MCNumPages  == [z \in Zone |-> 10]
=============================================================================
