---------------------------- MODULE MCScheduler ----------------------------
(***************************************************************************)
(* Instances of the scheduler: the idle thread, init, and the threads that *)
(* fork can create.  Each program is the set of calls the threads make.    *)
(***************************************************************************)
EXTENDS SchedulerProps, TLC

CONSTANTS idle, init, t1, t2, t3

Forked == {t1, t2, t3} \cap Thread
ForkedSymmetry == Permutations(Forked)

\* idle.c spins for ever; init.c never vanishes; yield(tid) is left to the
\* forked threads.
Runs(calls) == [t \in Thread |-> CASE t = idle -> {}
                                   [] t = init -> calls \ {"vanish", "yield_to"}
                                   [] OTHER -> calls]

BlockingProgram == Runs({"fork", "vanish", "wait", "sleep", "yield_to"})
LiveProgram     == Runs({"fork", "vanish", "wait", "sleep", "yield"})
RunFlagProgram  == Runs({"fork", "vanish", "yield", "cas2i", "task_vanish"})
KillSleepersProgram == Runs({"fork", "sleep", "task_vanish"})
=============================================================================
