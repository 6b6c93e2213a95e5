------------------------------- MODULE XenTime -------------------------------
(***************************************************************************)
(* How the timer's handler copies the time and the wall clock from the     *)
(* page it shares with the hypervisor (kern/xen_time.c), while the         *)
(* hypervisor may be writing there: it makes a version odd, writes, and    *)
(* makes it even.  The fields of one update have its number for value.     *)
(***************************************************************************)
EXTENDS Naturals

CONSTANTS Field,     \* of both clocks: the words the processor loads one by one
          MaxUpdates \* bound

ASSUME TimeAssumption == "version" \notin Field /\ MaxUpdates \in Nat

Clock == {"time", "wallclock"} \* vcpu_time_info; wc_version, wc_sec, wc_nsec

VARIABLES src,     \* the shared page
          shadow,  \* shadow and shadow_ver, shadow_ts and shadow_ts_version
          reading, \* the clock the handler copies, or "none"
          toLoad,  \* the loads it has still to do before it looks at the version
          toStore, \* what the hypervisor has still to write
          last     \* each clock's last update when the handler was called

timeVars == <<src, shadow, reading, toLoad, toStore, last>>

Update(n) == [version |-> 2 * n, field |-> [f \in Field |-> n]]

-----------------------------------------------------------------------------
(* The hypervisor, on another processor *)

Writing(c) == src[c].version % 2 = 1

Begin(c) ==
  /\ ~Writing(c) /\ src[c].version < 2 * MaxUpdates
  /\ src' = [src EXCEPT ![c].version = @ + 1]
  /\ toStore' = [toStore EXCEPT ![c] = Field]
  /\ UNCHANGED <<shadow, reading, toLoad, last>>

Store(c, f) ==
  /\ f \in toStore[c]
  /\ src' = [src EXCEPT ![c].field[f] = (src[c].version + 1) \div 2]
  /\ toStore' = [toStore EXCEPT ![c] = @ \ {f}]
  /\ UNCHANGED <<shadow, reading, toLoad, last>>

End(c) ==
  /\ Writing(c) /\ toStore[c] = {}
  /\ src' = [src EXCEPT ![c].version = @ + 1]
  /\ UNCHANGED <<shadow, reading, toLoad, toStore, last>>

-----------------------------------------------------------------------------
(* The handler.  Its first part runs with events masked: no other begins. *)

timer_handler ==
  /\ reading = "none"
  /\ reading' = "time" /\ toLoad' = {"version"} \cup Field
  /\ last' = [c \in Clock |-> src[c].version \div 2]
  /\ UNCHANGED <<src, shadow, toStore>>

\* The version first (rmb), then the fields, in what order the compiler likes.
Load(f) ==
  /\ f \in toLoad
  /\ shadow' = IF f = "version" THEN [shadow EXCEPT ![reading].version = src[reading].version]
               ELSE [shadow EXCEPT ![reading].field[f] = src[reading].field[f]]
  /\ ("version" \in toLoad => f = "version")
  /\ toLoad' = toLoad \ {f}
  /\ UNCHANGED <<src, reading, toStore, last>>

\* Mutant of Torn: that the hypervisor was writing is not seen.
TornUnlessSame(c) == src[c].version # shadow[c].version

\* The condition of the loops in get_time_values_from_xen and update_wallclock.
Torn(c) == Writing(c) \/ src[c].version # shadow[c].version

Check ==
  /\ reading # "none" /\ toLoad = {}
  /\ IF Torn(reading)
     THEN toLoad' = {"version"} \cup Field /\ UNCHANGED reading
     ELSE /\ reading' = IF reading = "time" THEN "wallclock" ELSE "none"
          /\ toLoad' = IF reading = "time" THEN {"version"} \cup Field ELSE {}
  /\ UNCHANGED <<src, shadow, toStore, last>>

TimeInit ==
  /\ src = [c \in Clock |-> Update(0)] /\ shadow = src
  /\ reading = "none" /\ toLoad = {} /\ toStore = [c \in Clock |-> {}]
  /\ last = [c \in Clock |-> 0]

TimeNext ==
  \/ \E c \in Clock : Begin(c) \/ End(c) \/ \E f \in Field : Store(c, f)
  \/ timer_handler \/ Check \/ \E f \in {"version"} \cup Field : Load(f)

TimeSpec == TimeInit /\ [][TimeNext]_timeVars

-----------------------------------------------------------------------------
(* When the handler is done, what it copied is one update of each clock,   *)
(* no mixture of two, and none older than the one it was called after      *)
(* (get_time_values_from_xen, update_wallclock).                           *)
TimeIsWhole ==
  reading = "none" => \A c \in Clock : \E n \in last[c] .. MaxUpdates : shadow[c] = Update(n)
=============================================================================
