----------------------------- MODULE BuddyZone -----------------------------
(***************************************************************************)
(* The page allocator: the buddy zones of kern/vmm_zone.c, set up by       *)
(* vmm_page.c.                                                             *)
(*                                                                         *)
(* A page is its number (address / PAGE_SIZE), a block the 2^order pages   *)
(* from its first one.  free_list[z][o] is the list of the free blocks of  *)
(* order o, a sequence as module QueueMachine shows the queue macros to    *)
(* implement.  A call runs to its end before the next one starts; its loop *)
(* is stepped through in call, one split or one merge at a time.           *)
(***************************************************************************)
EXTENDS Naturals, Sequences, FiniteSets, SequencesExt

CONSTANTS Zone,      \* the zones, lomem_zone and himem_zone
          StartPage, \* StartPage[z]: the first page given to vmm_zone_init
          NumPages   \* NumPages[z]: the number of pages given to it

\* Every zone has a page for its free_area_list and one to lend, of the 2^20
\* pages of a 32-bit address space; vmm_page.c starts one zone after the other.
ASSUME ZoneAssumption ==
  /\ StartPage \in [Zone -> Nat]
  /\ NumPages \in [Zone -> Nat \ {0, 1}] /\ \A z \in Zone : NumPages[z] <= 2^20
  /\ \A y, z \in Zone : y = z \/ StartPage[y] + NumPages[y] <= StartPage[z]
                              \/ StartPage[z] + NumPages[z] <= StartPage[y]

\* The arithmetic of the block sizes that occur.
ASSUME PowersOfTwo ==
  2^0 = 1 /\ \A o \in 0..20 : 2^o \in Nat \ {0} /\ 2^(o + 1) = 2^o + 2^o

\* The largest o with 2^o <= n, a number of pages; 0 for 0.
vmm_floor_log2(n) ==
  IF n = 0 THEN 0 ELSE CHOOSE o \in 0..20 : 2^o <= n /\ n < 2^(o + 1)

\* The free_area_list takes the zone's first page, the rest is rounded down
\* to a block of the largest order; the pages after it stay unused.
FirstPage(z) == StartPage[z] + 1
max_order == [z \in Zone |-> vmm_floor_log2(NumPages[z] - 1)]

Pages(p, o) == p .. (p + 2^o - 1)
ZonePages(z) == Pages(FirstPage(z), max_order[z])
Page == UNION {ZonePages(z) : z \in Zone}
Order == UNION {0..max_order[z] : z \in Zone}

VARIABLES free_list, \* free_area_list[o].free_list of every zone
          num_free,  \* free_area_list[o].num_free of every zone
          lent,      \* the blocks callers hold: [zone, page, order]
          call       \* the call in progress and its node

vars == <<free_list, num_free, lent, call>>

\* A merge of two blocks of the largest order would write past the list.
Lists(z) == 0..(max_order[z] + 1)

\* vmm_buddy_init: the zone is one block of the largest order.
Init ==
  /\ free_list = [z \in Zone |-> [o \in Lists(z) |->
                    IF o = max_order[z] THEN <<FirstPage(z)>> ELSE <<>>]]
  /\ num_free = [z \in Zone |-> [o \in Lists(z) |-> IF o = max_order[z] THEN 1 ELSE 0]]
  /\ lent = {}
  /\ call = [pc |-> "idle"]

-----------------------------------------------------------------------------
\* Q_INSERT_FRONT, and Q_REMOVE of the block at place i, on a free list, and
\* the count kept with them.
Insert(z, o, p) ==
  /\ free_list' = [free_list EXCEPT ![z][o] = <<p>> \o @]
  /\ num_free' = [num_free EXCEPT ![z][o] = @ + 1]

Delete(z, o, i) ==
  /\ free_list' = [free_list EXCEPT ![z][o] = RemoveAt(@, i)]
  /\ num_free' = [num_free EXCEPT ![z][o] = @ - 1]

\* The orders a request of order o can be taken from.
Fitting(z, o) == {i \in o..max_order[z] : num_free[z][i] # 0}

\* vmm_buddy_get_free_pages takes the front block of the smallest order that
\* fits.  (With none it returns NULL and changes nothing.)
vmm_buddy_get_free_pages(z, o) ==
  /\ call.pc = "idle" /\ Fitting(z, o) # {}
  /\ LET i == Min(Fitting(z, o))
     IN  /\ Delete(z, i, 1)
         /\ call' = [pc |-> "split", zone |-> z, page |-> free_list[z][i][1],
                     order |-> i, goal |-> o]
  /\ UNCHANGED lent

\* Mutant of buddy_split_node: the upper half is looked for a block too far.
SplitTooFar ==
  /\ call.pc = "split"
  /\ IF call.order > call.goal
     THEN /\ Insert(call.zone, call.order - 1, call.page + 2^call.order)
          /\ call' = [call EXCEPT !.order = @ - 1]
          /\ UNCHANGED lent
     ELSE /\ lent' = lent \cup {[zone |-> call.zone, page |-> call.page, order |-> call.order]}
          /\ call' = [pc |-> "idle"]
          /\ UNCHANGED <<free_list, num_free>>

\* buddy_split_node: one round frees the upper half; then the node is lent.
buddy_split_node ==
  /\ call.pc = "split"
  /\ IF call.order > call.goal
     THEN /\ Insert(call.zone, call.order - 1, call.page + 2^(call.order - 1))
          /\ call' = [call EXCEPT !.order = @ - 1]
          /\ UNCHANGED lent
     ELSE /\ lent' = lent \cup {[zone |-> call.zone, page |-> call.page, order |-> call.order]}
          /\ call' = [pc |-> "idle"]
          /\ UNCHANGED <<free_list, num_free>>

\* vmm_buddy_free_pages takes a block b back, into zone z.
vmm_buddy_free_pages(z, b) ==
  /\ call.pc = "idle"
  /\ lent' = lent \ {b}
  /\ call' = [pc |-> "merge", zone |-> z, page |-> b.page, order |-> b.order]
  /\ UNCHANGED <<free_list, num_free>>

\* The blocks the scan of a free list stops at: a neighbour on either side,
\* or the node itself.
StopsAt(q, p, o) == q = p + 2^o \/ q + 2^o = p \/ q = p

\* The places of those blocks on the list of the node's order.
Stops == IF call.order > max_order[call.zone] THEN {}
         ELSE LET list == free_list[call.zone][call.order]
              IN  {i \in DOMAIN list : StopsAt(list[i], call.page, call.order)}

\* Mutant of Merge: "node = curpos" forgotten for a lower neighbour.
MergeKeepsNode ==
  /\ call.pc = "merge"
  /\ LET z == call.zone
         o == call.order
     IN  IF Stops = {}
         THEN Insert(z, o, call.page) /\ call' = [pc |-> "idle"]
         ELSE Delete(z, o, Min(Stops)) /\ call' = [call EXCEPT !.order = o + 1]
  /\ UNCHANGED lent

\* One round of the loop of vmm_buddy_free_pages: scan the list of the
\* node's order and merge with a neighbour, or insert the node.  A node that
\* is on the list already is freed twice, and dropped.
Merge ==
  /\ call.pc = "merge"
  /\ LET z == call.zone
         o == call.order
         p == call.page
         curpos == free_list[z][o][Min(Stops)]
     IN  IF Stops = {}
         THEN Insert(z, o, p) /\ call' = [pc |-> "idle"]
         ELSE IF curpos = p
         THEN call' = [pc |-> "idle"] /\ UNCHANGED <<free_list, num_free>>
         ELSE /\ Delete(z, o, Min(Stops))
              /\ call' = [call EXCEPT !.order = o + 1,
                                      !.page = IF curpos < p THEN curpos ELSE p]
  /\ UNCHANGED lent

Step == buddy_split_node \/ Merge

\* Callers give a block back to the zone it came from, once.
Next == \/ \E z \in Zone : \E o \in 0..max_order[z] : vmm_buddy_get_free_pages(z, o)
        \/ \E b \in lent : vmm_buddy_free_pages(b.zone, b)
        \/ Step

Spec == Init /\ [][Next]_vars

-----------------------------------------------------------------------------
\* The free blocks of order o that num_free counts and that hold page p.
FreeClaims(p, z, o) ==
  {<<z, o, i>> : i \in {i \in DOMAIN free_list[z][o] :
                          i <= num_free[z][o] /\ p \in Pages(free_list[z][o][i], o)}}

\* Every claim on page p: a free block, by its place; a lent block; the call.
Claims(p) ==
  (UNION {UNION {FreeClaims(p, z, o) : o \in 0..max_order[z]} : z \in Zone})
  \cup {b \in lent : p \in Pages(b.page, b.order)}
  \cup IF call.pc # "idle" /\ p \in Pages(call.page, call.order) THEN {call} ELSE {}

(* Every page is in exactly one block, however blocks are split, merged    *)
(* and freed (vmm_buddy_get_free_pages, vmm_buddy_free_pages): no page is  *)
(* lent twice, free while lent, or lost, uncounted by num_free or in a     *)
(* block larger than the zone.                                             *)
EveryPageOnce == \A p \in Page : Cardinality(Claims(p)) = 1

(* The zones implement the pool of pages of vmm_zone.h.                    *)
Pool == INSTANCE PagePool WITH lent <- {Pages(b.page, b.order) : b \in lent}

ImplementsPool == Pool!Spec
=============================================================================
