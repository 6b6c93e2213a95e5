---------------------------- MODULE ExecArguments ----------------------------
(***************************************************************************)
(* The way of a program's arguments through exec: from the old program's   *)
(* memory to a buffer of the kernel's (sys_exec, usercopy.c), from there   *)
(* to the new program's stack (vmm_copy_argvec in vmm.c).                  *)
(*                                                                         *)
(* Memory is a function from addresses to bytes, where a pointer takes PTR *)
(* of them: its value is at the first.                                     *)
(***************************************************************************)
EXTENDS Integers, Sequences, SequencesExt, FiniteSets

CONSTANTS PTR,      \* sizeof(char *), sizeof(int)
          Char,     \* the characters of strings
          Arguments, \* [memory, argvec]: a program's memory, and its argument
          Buffer,   \* where malloc puts the kernel's copy
          StackTop  \* thread->esp before anything is on the stack

VARIABLES args,  \* the call
          mem, esp,
          phase  \* the progress of sys_exec

vars == <<args, mem, esp, phase>>

NULL == 0
NUL == "nul"
Rest == "rest" \* what is at the other bytes of a pointer

Word(at, x) == [a \in at .. at + PTR - 1 |-> IF a = at THEN x ELSE Rest]
Over(m, part) == [a \in DOMAIN m \cup DOMAIN part |-> IF a \in DOMAIN part THEN part[a] ELSE m[a]]

strlen(m, s) == CHOOSE n \in 0 .. Cardinality(DOMAIN m) :
                  m[s + n] = NUL /\ \A i \in 0 .. n - 1 : m[s + i] # NUL
strcpy(m, to, from) == Over(m, [a \in to .. to + strlen(m, from) |-> m[from + a - to]])

\* argc, and the room for the strings and for the pointers.
Argc(m, argvec) == CHOOSE n \in 0 .. Cardinality(DOMAIN m) :
                     m[argvec + PTR * n] = NULL /\ \A i \in 0 .. n - 1 : m[argvec + PTR * i] # NULL

\* Mutant of get_string_array_dim: no room for the NULL at the end.
DimWithoutNull(m, argvec) ==
  [argc |-> Argc(m, argvec), array_size |-> PTR * Argc(m, argvec),
   str_size |-> FoldLeft(LAMBDA n, i : n + strlen(m, m[argvec + PTR * (i - 1)]) + 1, 0,
                         [i \in 1 .. Argc(m, argvec) |-> i])]

get_string_array_dim(m, argvec) ==
  LET argc == Argc(m, argvec)
  IN  [argc |-> argc, array_size |-> PTR * (argc + 1),
       str_size |-> FoldLeft(LAMBDA n, i : n + strlen(m, m[argvec + PTR * (i - 1)]) + 1, 0,
                             [i \in 1 .. argc |-> i])]

\* copy_string_array, and the loop of vmm_copy_argvec: each string goes behind
\* the one before, its pointer into the array at "to".
Copied(m, to, strings, argvec, argc) ==
  LET CopyString(x, i) ==
        LET n == Over(x.m, Word(to + PTR * (i - 1), x.next))
            copy == strcpy(n, x.next, n[argvec + PTR * (i - 1)])
        IN  [m |-> copy, next |-> x.next + strlen(copy, x.next) + 1]
      all == FoldLeft(CopyString, [m |-> m, next |-> strings], [i \in 1 .. argc |-> i])
  IN  Over(all.m, Word(to + PTR * argc, NULL))

-----------------------------------------------------------------------------
\* sys_exec up to do_exec.
sys_exec ==
  LET dim == get_string_array_dim(mem, args.argvec)
  IN  /\ phase = "called" /\ phase' = "copied"
      /\ mem' = Copied(mem, Buffer, Buffer + dim.array_size, args.argvec, dim.argc)
      /\ UNCHANGED <<args, esp>>

\* task_reload: the stack is zeroed before, the old program goes after.
OldProgram == DOMAIN args.memory
WithoutOldProgram(m) == [a \in DOMAIN m \ OldProgram |-> m[a]]

vmm_copy_argvec ==
  LET dim == get_string_array_dim(mem, Buffer)
      argvec == StackTop - dim.str_size - dim.array_size
      m == Copied(mem, argvec, StackTop - dim.str_size, Buffer, dim.argc)
      Push(x, at, word) == Over(x, Word(at, word))
  IN  /\ phase = "copied" /\ phase' = "running"
      /\ esp' = argvec - 3 * PTR
      /\ mem' = WithoutOldProgram(Push(Push(Push(m, argvec - PTR, argvec), argvec - 2 * PTR, dim.argc),
                            argvec - 3 * PTR, 0))
      /\ UNCHANGED args

Init == /\ args \in Arguments /\ mem = args.memory /\ esp = NULL /\ phase = "called"

Next == sys_exec \/ vmm_copy_argvec

-----------------------------------------------------------------------------
StringAt(m, s) == [i \in 1 .. strlen(m, s) |-> m[s + i - 1]]
Strings(m, argvec) == [i \in 1 .. Argc(m, argvec) |-> StringAt(m, m[argvec + PTR * (i - 1)])]

Room == get_string_array_dim(args.memory, args.argvec)

(* The new program's main finds the strings the old one gave to exec, and  *)
(* their number, whether they shared memory or were empty                  *)
(* (get_string_array_dim, copy_string_array, vmm_copy_argvec); nothing     *)
(* was written but in the buffer asked of malloc and on the stack.         *)
ArgumentsArrive ==
  phase = "running" =>
    /\ Strings(mem, mem[esp + 2 * PTR]) = Strings(args.memory, args.argvec)
    /\ mem[esp + PTR] = Len(Strings(args.memory, args.argvec))
    /\ DOMAIN mem \subseteq Buffer .. Buffer + Room.array_size + Room.str_size - 1
                              \cup esp .. StackTop - 1
=============================================================================
