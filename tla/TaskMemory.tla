----------------------------- MODULE TaskMemory -----------------------------
(***************************************************************************)
(* What the address spaces promise to programs: a task has the memory it   *)
(* was given and nobody else changes it.  Fork copies it, but for the      *)
(* parts of the executable the parent has not looked at yet, and exec      *)
(* replaces it.                                                            *)
(***************************************************************************)
EXTENDS Naturals, TLC

CONSTANTS Task, Value, Zero,
          Image,  \* the memory of a program that starts, without its stack
          Stack,  \* the addresses of the stack
          Area    \* the sets of addresses that are mapped and unmapped as one

VARIABLES mem,  \* mem[t][a]: what task t reads at address a; << >>: no task
          lazy  \* lazy[t]: the addresses t's executable is still to be read for

Init ==
  \E t \in Task :
    /\ mem = [u \in Task |-> IF u = t THEN Image @@ [a \in Stack |-> Zero] ELSE << >>]
    /\ \E L \in SUBSET DOMAIN Image : lazy = [u \in Task |-> IF u = t THEN L ELSE {}]

\* Only task t sees a change.
Only(t) == mem' = [mem EXCEPT ![t] = mem'[t]] /\ lazy' = [lazy EXCEPT ![t] = lazy'[t]]

Store(t, a, x) ==
  /\ a \in DOMAIN mem[t] \ lazy[t]
  /\ mem'[t] = [mem[t] EXCEPT ![a] = x] /\ lazy'[t] = lazy[t]

\* Demand loading is not seen in memory.
Load(t) == mem'[t] = mem[t] /\ lazy'[t] \subseteq lazy[t]

\* Task c is a copy of t.
Fork(t, c) ==
  /\ mem[t] # << >> /\ mem[c] = << >>
  /\ DOMAIN mem'[c] = DOMAIN mem[t] /\ lazy'[c] = lazy[t]
  /\ \A a \in DOMAIN mem[t] \ lazy[t] : mem'[c][a] = mem[t][a]

Exec(t) == mem'[t] = Image @@ [a \in Stack |-> Zero] /\ lazy'[t] \subseteq DOMAIN Image

Vanish(t) == mem'[t] = << >> /\ lazy'[t] = {}

NewPages(t, S) ==
  /\ mem[t] # << >> /\ DOMAIN mem[t] \cap S = {}
  /\ mem'[t] = [a \in S |-> Zero] @@ mem[t] /\ lazy'[t] = lazy[t]

RemovePages(t, S) ==
  mem'[t] = [a \in DOMAIN mem[t] \ S |-> mem[t][a]] /\ lazy'[t] = lazy[t] \ S

Next == \E t \in Task :
          /\ Only(t)
          /\ \/ Load(t) \/ Exec(t) \/ Vanish(t)
             \/ \E a \in DOMAIN mem[t], x \in Value : Store(t, a, x)
             \/ \E S \in Area : NewPages(t, S) \/ RemovePages(t, S)
             \/ \E u \in Task : Fork(u, t)

Spec == Init /\ [][Next]_<<mem, lazy>>
=============================================================================
