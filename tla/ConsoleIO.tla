------------------------------ MODULE ConsoleIO ------------------------------
(***************************************************************************)
(* The console under Xen: the rings shared with the console's daemon       *)
(* (kern/xencons_ring.c, kern/xen_console.c), the keyboard's buffer        *)
(* (kern/keyboard.c), and a thread that reads (kern/consoleio.c).  The     *)
(* daemon runs beside the kernel; the callback interrupts the thread.      *)
(*                                                                         *)
(* The callback is one step up to the port it clears at the end: the       *)
(* thread does not run meanwhile, and the daemon cannot tell.              *)
(***************************************************************************)
EXTENDS Naturals, Sequences

CONSTANTS Char,
          InSize, OutSize, \* of the rings: powers of two
          InModulus, OutModulus, \* 2^32: where their indices wrap
          KeySize,         \* SCANCODE_BUFFER_SIZE
          Size             \* the reader's buffer

ASSUME ConsoleIOAssumption ==
  /\ {InSize, OutSize, InModulus, OutModulus, KeySize, Size} \subseteq Nat \ {0}
  /\ InModulus % (2 * InSize) = 0 /\ OutModulus % (2 * OutSize) = 0 /\ KeySize > 1 /\ Size > 1
  /\ {"nl", "bs", "cr", "ff"} \cap Char # {}

VARIABLES
  ring_in, in_cons, in_prod,     \* xencons_interface
  ring_out, out_cons, out_prod,
  stalled,   \* the daemon waits for room in the ring
  pending,   \* the port of the console
  serving,   \* do_event has called handle_input and not cleared the port
  scancode_buffer, begin, end,   \* the keyboard's buffer
  pc, ch, i, buf                 \* the thread

rings == <<ring_in, in_cons, in_prod, ring_out, out_cons, out_prod>>
keys == <<scancode_buffer, begin, end>>
reader == <<pc, ch, i, buf>>
vars == <<rings, stalled, pending, serving, keys, reader>>

InCount == (in_prod + InModulus - in_cons) % InModulus
OutCount == (out_prod + OutModulus - out_cons) % OutModulus
NEXTLOC(x) == (x + 1) % KeySize
IsEmpty == begin = end

-----------------------------------------------------------------------------
(* The daemon *)

\* A key: it goes into the ring and an event is sent, unless the ring is full;
\* then the daemon sleeps until it is notified.
Type(c) ==
  /\ ~stalled
  /\ IF InCount < InSize
     THEN /\ ring_in' = [ring_in EXCEPT ![in_prod % InSize] = c]
          /\ in_prod' = (in_prod + 1) % InModulus
          /\ pending' = TRUE /\ UNCHANGED stalled
     ELSE stalled' = TRUE /\ UNCHANGED <<ring_in, in_prod, pending>>
  /\ UNCHANGED <<in_cons, ring_out, out_cons, out_prod, serving, keys, reader>>

Show ==
  /\ out_cons # out_prod /\ out_cons' = (out_cons + 1) % OutModulus
  /\ UNCHANGED <<ring_in, in_cons, in_prod, ring_out, out_prod, stalled, pending, serving,
                 keys, reader>>

-----------------------------------------------------------------------------
(* The callback *)

\* What handle_input finds in the ring, as xencons_rx translates it.
Received == [k \in 1 .. InCount |->
               LET c == ring_in[((in_cons + k - 1) % InModulus) % InSize]
               IN  IF c = "cr" THEN "nl" ELSE c]

\* Mutant of AddScancode: the buffer is not looked at for room.
AddUnchecked(keyb, c) ==
  [buffer |-> [keyb.buffer EXCEPT ![keyb.end] = c], end |-> NEXTLOC(keyb.end)]

\* keyb_add_scancode
AddScancode(keyb, c) ==
  IF NEXTLOC(keyb.end) = begin THEN keyb
  ELSE [buffer |-> [keyb.buffer EXCEPT ![keyb.end] = c], end |-> NEXTLOC(keyb.end)]

\* The loop of handle_input: one character after the other, up to in_prod.
AddReceived ==
  LET keyb[n \in 0 .. InCount] ==
        IF n = 0 THEN [buffer |-> scancode_buffer, end |-> end]
        ELSE AddScancode(keyb[n - 1], Received[n])
  IN  keyb[InCount]

\* Mutant of handle_input: the daemon is not told that there is room again.
HandleQuietly ==
  LET keyb == AddReceived
  IN  /\ pending /\ ~serving /\ serving' = TRUE
      /\ scancode_buffer' = keyb.buffer /\ end' = keyb.end
      /\ in_cons' = in_prod
      /\ UNCHANGED <<ring_in, in_prod, ring_out, out_cons, out_prod, stalled, pending, begin,
                     reader>>

handle_input ==
  LET keyb == AddReceived
  IN  /\ pending /\ ~serving /\ serving' = TRUE
      /\ scancode_buffer' = keyb.buffer /\ end' = keyb.end
      /\ in_cons' = in_prod /\ stalled' = FALSE
      /\ UNCHANGED <<ring_in, in_prod, ring_out, out_cons, out_prod, pending, begin,
                     reader>>

\* do_event clears the port last, and with it what was sent meanwhile.
ClearPort ==
  /\ serving /\ serving' = FALSE /\ pending' = FALSE
  /\ UNCHANGED <<rings, stalled, keys, reader>>

-----------------------------------------------------------------------------
(* The thread *)

\* xencons_ring_send of one byte: it is dropped if the ring is full.
Send(c) ==
  IF OutCount < OutSize
  THEN /\ ring_out' = [ring_out EXCEPT ![out_prod % OutSize] = c]
       /\ out_prod' = (out_prod + 1) % OutModulus
  ELSE UNCHANGED <<ring_out, out_prod>>

\* The thread takes its next step; the callback runs first if it has begun.
At(label) == ~serving /\ pc = label
Goto(label) == pc' = label

\* The test of the loop of sys_readline.
Loop(n) == Goto(IF n < Size - 1 THEN "empty" ELSE "user")

sys_readline ==
  /\ At("user") /\ i' = 0 /\ Loop(0)
  /\ UNCHANGED <<rings, stalled, pending, keys, serving, ch, buf>>

sys_getchar ==
  /\ At("user") /\ Goto("getchar")
  /\ UNCHANGED <<rings, stalled, pending, keys, serving, ch, i, buf>>

\* keyb_remove_scancode: the character is read, then begin moves on.
keyb_remove_scancode(from, to) ==
  /\ At(from) /\ ~IsEmpty
  /\ ch' = scancode_buffer[begin] /\ Goto(to)
  /\ UNCHANGED <<rings, stalled, pending, keys, serving, i, buf>>

Advance(from, to) ==
  /\ At(from) /\ begin' = NEXTLOC(begin) /\ Goto(to)
  /\ UNCHANGED <<rings, stalled, pending, scancode_buffer, end, serving, ch, i, buf>>

\* -1: the end of sys_getchar; sys_readline yields and asks again.
GetNothing ==
  /\ At("getchar") /\ IsEmpty /\ Goto("user")
  /\ UNCHANGED <<rings, stalled, pending, keys, serving, ch, i, buf>>

\* The character 0xff is -1 as well; a backspace that has nothing to take back
\* is ignored.
Skip ==
  /\ At("have") /\ (ch = "ff" \/ (ch = "bs" /\ i = 0)) /\ Goto("empty")
  /\ UNCHANGED <<rings, stalled, pending, keys, serving, ch, i, buf>>

\* putbyte
Echo ==
  /\ At("have") /\ ~(ch = "ff" \/ (ch = "bs" /\ i = 0))
  /\ Send(ch) /\ Goto(IF ch = "nl" THEN "return" ELSE "store")
  /\ UNCHANGED <<ring_in, in_cons, in_prod, out_cons, stalled, pending, keys, serving, ch, i, buf>>

\* xen_console_print adds a carriage return to the new line.
EchoReturn ==
  /\ At("return") /\ Send("cr") /\ Goto("store")
  /\ UNCHANGED <<ring_in, in_cons, in_prod, out_cons, stalled, pending, keys, serving, ch, i, buf>>

\* copy_char_to_user_argpkt_buf, and the end of the line.
Store ==
  /\ At("store")
  /\ CASE ch = "bs" -> i' = i - 1 /\ Loop(i - 1) /\ UNCHANGED buf
       [] ch = "nl" -> /\ buf' = [buf EXCEPT ![i] = ch, ![i + 1] = "nul"]
                       /\ i' = i + 1 /\ Goto("user")
       [] OTHER -> buf' = [buf EXCEPT ![i] = ch] /\ i' = i + 1 /\ Loop(i + 1)
  /\ UNCHANGED <<rings, stalled, pending, keys, serving, ch>>

-----------------------------------------------------------------------------
Init ==
  /\ ring_in = [k \in 0 .. InSize - 1 |-> "nul"] /\ in_cons = 0 /\ in_prod = 0
  /\ ring_out = [k \in 0 .. OutSize - 1 |-> "nul"] /\ out_cons = 0 /\ out_prod = 0
  /\ stalled = FALSE /\ pending = FALSE /\ serving = FALSE
  /\ scancode_buffer = [k \in 0 .. KeySize - 1 |-> "nul"] /\ begin = 0 /\ end = 0
  /\ pc = "user" /\ ch = "nul" /\ i = 0 /\ buf = [k \in 0 .. Size - 1 |-> "nul"]

Reader ==
  \/ keyb_remove_scancode("empty", "took") \/ Advance("took", "have")
  \/ keyb_remove_scancode("getchar", "got") \/ Advance("got", "user") \/ GetNothing
  \/ Skip \/ Echo \/ EchoReturn \/ Store

Next ==
  \/ \E c \in Char : Type(c)
  \/ Show \/ handle_input \/ ClearPort
  \/ sys_readline \/ sys_getchar \/ Reader

Spec == Init /\ [][Next]_vars

\* What is on its way to the thread.
Typed == LET n == (end + KeySize - begin) % KeySize
         IN  [k \in 1 .. n |-> scancode_buffer[(begin + k - 1) % KeySize]] \o Received

\* In the long run the user waits until a key is read before the next; no key
\* is waited for when one shows no effect.
Patient == Typed = <<>> \/ (in_prod # in_cons /\ ~pending)

\* The callback and the thread do not stop, a thread that is interrupted gets
\* on between two callbacks, and the user does not stop typing and hits Enter
\* again and again.
FairSpec ==
  /\ Spec /\ WF_vars(Show) /\ WF_vars(handle_input) /\ WF_vars(ClearPort) /\ SF_vars(Reader)
  /\ <>[][(\E c \in Char : Type(c)) => Patient]_vars
  /\ WF_vars(Patient /\ \E c \in Char : Type(c)) /\ SF_vars(Patient /\ Type("nl"))

-----------------------------------------------------------------------------
Held == IF pc \in {"have", "return", "store"} THEN <<ch>> ELSE <<>>

Line == [k \in 1 .. i |-> buf[k - 1]]

Echoed == CASE pc = "return" -> 1
            [] pc = "store" -> IF ch = "nl" THEN 2 ELSE 1
            [] OTHER -> 0

Written == [k \in 1 .. OutCount |->
              ring_out[((out_cons + k - 1) % OutModulus) % OutSize]]

Reading == pc \notin {"user", "getchar", "got"}

Promise == INSTANCE LineInput WITH
             Char <- (Char \ {"cr"}) \cup {"nl"}, Room <- KeySize - 1, Limit <- Size - 1,
             OutRoom <- OutSize, in <- Held \o Typed, line <- Line, reading <- Reading,
             echoed <- Echoed, out <- Written

(* What is typed is read once and in order through the two rings and their *)
(* interrupt (handle_input, keyb_remove_scancode), is lost only behind a   *)
(* full buffer, and the line sys_readline gives is the one it has echoed.  *)
ImplementsLineInput == Promise!Spec

\* The daemon has filled the ring between handle_input and the end of do_event:
\* it waits for room, and the kernel for the event that was cleared.
InputDead == InCount = InSize /\ ~pending

(* A line that is asked for is got (sys_readline), although do_event may   *)
(* clear the event of a key it has not seen: the next key brings both,     *)
(* unless the ring has no room for it.                                     *)
LinesReturn == Reading ~> (~Reading \/ InputDead)

\* The rings are told apart by what is in them, not by where it begins: every
\* index is taken modulo the size.
View == <<Received, Written, stalled, pending, serving, Typed,
          IF Reading THEN Line ELSE <<>>, pc, Held, IF pc \in {"took", "got"} THEN ch ELSE "">>
=============================================================================
