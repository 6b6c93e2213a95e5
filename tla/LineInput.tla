------------------------------ MODULE LineInput ------------------------------
(***************************************************************************)
(* What the keyboard, the console's rings and readline promise together:   *)
(* what is typed is read once and in order, what is lost is lost at the    *)
(* end of a full buffer, and the line a program gets is the line that its  *)
(* echo shows.                                                             *)
(***************************************************************************)
EXTENDS Naturals, Sequences, SequencesExt

CONSTANTS Char,   \* what is typed, among it "nl", "bs" and "ff"
          Room,   \* the characters the keyboard's buffer holds
          Limit,  \* the characters of a line at most
          OutRoom \* the characters of output the terminal may be behind

VARIABLES in,      \* typed and not read
          line,    \* the line that is being read
          reading, \* somebody reads it
          echoed,  \* how much of the echo of Head(in) is written
          out      \* written and not shown

vars == <<in, line, reading, echoed, out>>

Done(l) == Len(l) >= Limit \/ (l # <<>> /\ Last(l) = "nl")

Edit(l, c) == CASE c = "ff" -> l
                [] c = "bs" -> IF l = <<>> THEN l ELSE Front(l)
                [] OTHER -> Append(l, c)

Shown(l, c) == CASE c = "ff" \/ (c = "bs" /\ l = <<>>) -> <<>>
                 [] c = "nl" -> <<"nl", "cr">>
                 [] OTHER -> <<c>>

Init == in = <<>> /\ line = <<>> /\ reading = FALSE /\ echoed = 0 /\ out = <<>>

Type(c) == in' = Append(in, c) /\ UNCHANGED <<line, reading, echoed, out>>

\* Beside a full buffer, the one character that readline holds is kept.
Lose == \E k \in {Room, Room + 1} :
  /\ Len(in) > k /\ in' = SubSeq(in, 1, k)
  /\ UNCHANGED <<line, reading, echoed, out>>

Start == /\ ~reading /\ reading' = TRUE /\ line' = <<>>
         /\ UNCHANGED <<in, echoed, out>>

\* The next byte of the echo is written, or dropped when the terminal is behind.
Echo ==
  /\ reading /\ in # <<>> /\ echoed < Len(Shown(line, Head(in)))
  /\ out' = IF Len(out) < OutRoom THEN Append(out, Shown(line, Head(in))[echoed + 1]) ELSE out
  /\ echoed' = echoed + 1
  /\ UNCHANGED <<in, line, reading>>

\* The line that is done stays as it is until the next is begun.
Read ==
  LET l == Edit(line, Head(in))
  IN  /\ reading /\ in # <<>> /\ echoed = Len(Shown(line, Head(in)))
      /\ in' = Tail(in) /\ line' = l /\ echoed' = 0 /\ reading' = ~Done(l)
      /\ UNCHANGED out

GetChar == /\ ~reading /\ in # <<>> /\ in' = Tail(in)
           /\ UNCHANGED <<line, reading, echoed, out>>

Show == /\ out # <<>> /\ out' = Tail(out) /\ UNCHANGED <<in, line, reading, echoed>>

Next == \/ \E c \in Char : Type(c)
        \/ Lose \/ Start \/ Echo \/ Read \/ GetChar \/ Show

Spec == Init /\ [][Next]_vars
=============================================================================
