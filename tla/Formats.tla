------------------------------- MODULE Formats -------------------------------
(***************************************************************************)
(* The directives of printf for numbers (410kern/stdio/doprnt.c) and       *)
(* strtol, which reads them (410kern/stdlib/strtol.c).  A character is a   *)
(* digit's value or one of the four below; Blank stands for all space.     *)
(* Numbers are small: wrapping around at the width of a long is left out.  *)
(***************************************************************************)
EXTENDS Integers, Sequences, SequencesExt, FiniteSets

CONSTANTS Numbers, Widths

Bases == {8, 10, 16}
Minus == 16
Plus == 17
LetterX == 18
Blank == 19

VARIABLES directive, \* [n, base, signed, width, altfmt, ladjust, padc, sign]
          out,       \* what has been printed
          read       \* what strtol makes of it: [v, rest], once it has

vars == <<directive, out, read>>

Times(c, n) == [i \in 1 .. n |-> c]

\* The loop that builds the number from its last digit.
RECURSIVE Digits(_, _)
Digits(u, base) ==
  (IF u \div base = 0 THEN <<>> ELSE Digits(u \div base, base)) \o <<u % base>>

\* Mutant of print_num: the zeros come before sign and prefix.
ZerosFirst(d, u, sign) ==
  LET prefix == IF u = 0 \/ ~d.altfmt \/ d.base = 10 THEN <<>>
                ELSE IF d.base = 8 THEN <<0>> ELSE <<0, LetterX>>
      digits == Digits(u, d.base)
      length == d.width - Len(digits) - Len(sign) - Len(prefix)
  IN  IF d.ladjust THEN sign \o prefix \o digits \o Times(Blank, length)
      ELSE Times(d.padc, length) \o sign \o prefix \o digits

print_num(d, u, sign) ==
  LET prefix == IF u = 0 \/ ~d.altfmt \/ d.base = 10 THEN <<>>
                ELSE IF d.base = 8 THEN <<0>> ELSE <<0, LetterX>>
      digits == Digits(u, d.base)
      length == d.width - Len(digits) - Len(sign) - Len(prefix)
      blanks == IF d.padc = Blank /\ ~d.ladjust THEN length ELSE 0
      zeros == IF d.padc = 0 THEN length ELSE 0
      after == IF d.ladjust /\ d.padc # 0 THEN length ELSE 0
  IN  Times(Blank, blanks) \o sign \o prefix \o Times(0, zeros) \o digits \o Times(Blank, after)

\* print_signed and print_unsigned.
_doprnt(d) ==
  IF d.n < 0 THEN print_num(d, -d.n, <<Minus>>)
  ELSE print_num(d, d.n, IF d.signed THEN d.sign ELSE <<>>)

\* The digits from the front of p, and what is behind them.
Span(p, S) == LET Other(c) == c \notin S
                  k == SelectInSeq(p, Other)
              IN  IF k = 0 THEN Len(p) ELSE k - 1
From(p, n) == SubSeq(p, n + 1, Len(p))

\* A Plus is not passed over.
strtol(p0, base0) ==
  LET p1 == From(p0, Span(p0, {Blank}))
      is_neg == p1 # <<>> /\ Head(p1) = Minus
      p2 == IF is_neg THEN Tail(p1) ELSE p1
      hex == base0 \in {0, 16} /\ IsPrefix(<<0, LetterX>>, p2)
      p3 == IF hex THEN From(p2, 2) ELSE p2
      base == IF hex THEN 16 ELSE IF base0 # 0 THEN base0
              ELSE IF p3 # <<>> /\ Head(p3) = 0 THEN 8 ELSE 10
      n == Span(p3, 0 .. base - 1)
      v == FoldLeft(LAMBDA x, c : x * base + c, 0, SubSeq(p3, 1, n))
  IN  [v |-> IF is_neg THEN -v ELSE v, rest |-> From(p3, n)]

-----------------------------------------------------------------------------
printf ==
  /\ out = <<>> /\ out' = _doprnt(directive)
  /\ UNCHANGED <<directive, read>>

\* The reader knows the base, or lets the prefix tell it.
Read(base) == /\ out # <<>> /\ read = <<>>
              /\ base = directive.base \/ (base = 0 /\ directive.altfmt /\ directive.base # 10)
              /\ read' = <<strtol(out, base)>>
              /\ UNCHANGED <<directive, out>>

Directives ==
  [n : Numbers, base : Bases, signed : BOOLEAN, width : Widths, altfmt : BOOLEAN,
   ladjust : BOOLEAN, padc : {Blank, 0}, sign : {<<>>, <<Blank>>, <<Plus>>}]

Init == /\ directive \in {d \in Directives : d.n >= 0 \/ d.signed}
        /\ out = <<>> /\ read = <<>>

Next == printf \/ \E base \in Bases \cup {0} : Read(base)

-----------------------------------------------------------------------------
(* Whatever the flags, a number is as wide as was asked, or as it needs,   *)
(* and strtol reads it back, up to the blanks behind it: the sign, the     *)
(* prefix and the padding of _doprnt come in an order strtol understands.  *)
(* It does not understand a Plus.                                          *)
NumbersReadBack ==
  /\ out # <<>> => Len(out) >= directive.width
  /\ read # <<>> /\ ~(directive.sign = <<Plus>> /\ Plus \in Range(out)) =>
       /\ read[1].v = directive.n
       /\ Range(read[1].rest) \subseteq {Blank}
=============================================================================
