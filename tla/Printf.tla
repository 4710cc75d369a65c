------------------------------- MODULE Printf -------------------------------
(***************************************************************************)
(* Formatted output (system/libkern/printf.c and printinfo.c): the         *)
(* conversions of numbers, and the loop over a format that writes literal  *)
(* text and converted arguments to the console.  A round of the loop up to *)
(* and including a directive is one step.  int, long, size_t and ptrdiff_t *)
(* have Bits bits, long long has LongBits.                                 *)
(***************************************************************************)
EXTENDS Console, FiniteSets, FiniteSetsExt

CONSTANTS
  Bits, LongBits,
  Formats,   \* <<function, format>>: the calls that are made, formats as sequences
  Ops,       \* the consumers of the console ("lite" in ccterm_init)
  Null

VARIABLES
  fn, fmt,    \* "printf" or "printinfo", and its format
  pos, last,  \* fmt and last of the code, as positions in the format
  pc,         \* "run", "done", or "overrun" when the end of the format is passed
  count,      \* the result so far
  args,       \* the arguments consumed: [conv, val, text]
  out, con    \* all that was written, and the console

vars == <<fn, fmt, pos, last, pc, count, args, out, con>>

Digit == <<"0", "1", "2", "3", "4", "5", "6", "7", "8", "9", "a", "b", "c", "d", "e", "f">>
DigitHigh == <<"0", "1", "2", "3", "4", "5", "6", "7", "8", "9", "A", "B", "C", "D", "E", "F">>

-----------------------------------------------------------------------------
\* The conversions.  The smallest integer of a type is left out: its negation
\* overflows.

\* The do-while loop that fills the buffer from its end.
RECURSIVE Unsigned(_, _, _)
Unsigned(i, base, digit) ==
  (IF i < base THEN << >> ELSE Unsigned(i \div base, base, digit)) \o <<digit[(i % base) + 1]>>

\* Mutant: the digits of a negative number are taken before the sign is.
SignedMod(i, digit) == (IF i < 0 THEN <<"-">> ELSE << >>) \o Unsigned(i % 256, 10, digit)

Signed(i, digit) == (IF i < 0 THEN <<"-">> ELSE << >>) \o Unsigned(IF i < 0 THEN -i ELSE i, 10, digit)

\* The five families i2a .. o2a, one for each size of argument.
Family(conv, i) ==
  CASE conv \in {"d", "i"} -> Signed(i, Digit)
    [] conv = "u" -> Unsigned(i, 10, Digit)
    [] conv = "x" -> Unsigned(i, 16, Digit)
    [] conv = "X" -> Unsigned(i, 16, DigitHigh)
    [] conv = "o" -> Unsigned(i, 8, Digit)

int2a(conv, i) == IF conv = "p" THEN <<"0", "x">> \o Unsigned(i, 16, Digit) ELSE Family(conv, i)
long2a(conv, i) == Family(conv, i)
longlong2a(conv, i) == Family(conv, i)
size2a(conv, i) == Family(conv, i)
ptrdiff2a(conv, i) == Family(conv, i)

\* render_phys_* and render_virt_*: all digits of the type.
RECURSIVE Padded(_, _, _)
Padded(i, n, digit) == IF n = 0 THEN << >> ELSE Padded(i \div 16, n - 1, digit) \o <<digit[(i % 16) + 1]>>

Rendered(conv, i) ==
  IF conv \in {"u", "i", "d"} THEN Unsigned(i, 10, Digit)
  ELSE Padded(i, Bits \div 4, IF conv \in {"h", "p"} THEN Digit ELSE DigitHigh)

Text(len, conv, v) ==
  CASE fn = "printinfo" -> Rendered(conv, v)
    [] fn = "printf" /\ conv = "c" -> <<v>>
    [] fn = "printf" /\ conv = "s" -> IF v = Null THEN <<"(", "n", "u", "l", "l", ")">> ELSE v
    [] OTHER -> CASE len = "" -> int2a(conv, v) [] len = "l" -> long2a(conv, v)
                  [] len = "ll" -> longlong2a(conv, v) [] len = "z" -> size2a(conv, v)
                  [] len = "t" -> ptrdiff2a(conv, v)

-----------------------------------------------------------------------------
\* Arguments of each type, its bounds among them but for the smallest integer.

Arguments(len, conv) ==
  LET w == IF len = "ll" THEN LongBits ELSE Bits IN
  CASE fn = "printf" /\ conv = "c" -> {"c"}
    [] fn = "printf" /\ conv = "s" -> {Null, << >>, <<"s", "\n">>}
    [] fn = "printf" /\ conv \in {"d", "i"} -> {1 - 2^(w - 1), -10, 2^(w - 1) - 1}
    [] OTHER -> {0, 10, 2^w - 1}

\* Two pieces are written, each with a call of its own.
Write(lit, text) ==
  /\ out' = out \o lit \o text
  /\ con' = iopipe_write(iopipe_write(con, lit), text)

Init ==
  /\ \E f \in Formats : fn = f[1] /\ fmt = f[2]
  /\ pos = 1 /\ last = 1 /\ pc = "run" /\ count = 0
  /\ args = << >> /\ out = << >>
  /\ \E ops \in Ops : con = ConsoleInit(ops)

Char(i) == IF i <= Len(fmt) THEN fmt[i] ELSE "end"
Mark == IF fn = "printf" THEN "%" ELSE "~"
Marks == {i \in pos..Len(fmt) : fmt[i] = Mark}

\* Where the code goes on after the directive; behind the 0 it reads on.
Resume(i) == pos' = i /\ last' = i /\ pc' = IF i > Len(fmt) + 1 THEN "overrun" ELSE "run"

\* "%%" writes the text up to its first character.
Percent(p) ==
  /\ fn = "printf" /\ Char(p + 1) = "%"
  /\ Write(SubSeq(fmt, last, p), << >>)
  /\ count' = count + (p + 1 - last)
  /\ Resume(p + 2)
  /\ UNCHANGED <<fn, fmt, args>>

\* The modifier of a directive: printf knows z, t, l and ll.
Modifier(q) ==
  IF fn = "printinfo" THEN ""
  ELSE IF Char(q) \in {"z", "t"} THEN Char(q)
  ELSE IF Char(q) = "l" THEN IF Char(q + 1) = "l" THEN "ll" ELSE "l"
  ELSE ""

Known(len, conv) ==
  IF fn = "printinfo" THEN conv \in {"h", "H", "p", "P", "u", "i", "d"}
  ELSE conv \in {"d", "i", "u", "x", "X", "o"} \/ (len = "" /\ conv \in {"p", "c", "s"})

\* Mutant: the characters of a converted argument are not counted.
WrittenLiteral(lit, text) == Len(lit)

\* What a round adds to the result.
Written(lit, text) == Len(lit) + Len(text)

\* Any other directive: the text before it, then the argument, if the
\* conversion is known, else nothing.
Directive(p) ==
  LET len == Modifier(p + 1)
      q == p + 1 + Len(len)
      lit == SubSeq(fmt, last, p - 1)
  IN
  /\ ~(fn = "printf" /\ Char(p + 1) = "%")
  /\ \/ /\ Known(len, Char(q))
        /\ \E v \in Arguments(len, Char(q)) :
             LET text == Text(len, Char(q), v) IN
             /\ args' = Append(args, [conv |-> Char(q), val |-> v, text |-> text])
             /\ Write(lit, text)
             /\ count' = count + Written(lit, text)
     \/ /\ ~Known(len, Char(q))
        /\ Write(lit, << >>) /\ count' = count + Written(lit, << >>) /\ UNCHANGED args
  /\ Resume(q + 1)
  /\ UNCHANGED <<fn, fmt>>

\* The text behind the last directive.
Finish ==
  /\ Marks = {}
  /\ Write(SubSeq(fmt, last, Len(fmt)), << >>)
  /\ count' = count + (Len(fmt) + 1 - last)
  /\ pc' = "done"
  /\ UNCHANGED <<fn, fmt, pos, last, args>>

Next == pc = "run" /\ (Finish \/ (Marks # {} /\ (Percent(Min(Marks)) \/ Directive(Min(Marks)))))

Spec == Init /\ [][Next]_vars

-----------------------------------------------------------------------------

\* The value a text of digits stands for.
RECURSIVE ReadBack(_, _)
ReadBack(text, base) ==
  IF text = << >> THEN 0
  ELSE LET c == text[Len(text)]
           d == CHOOSE d \in 1..16 : c \in {Digit[d], DigitHigh[d]}
       IN  ReadBack(SubSeq(text, 1, Len(text) - 1), base) * base + d - 1

\* Every number printed reads back as itself, at the largest of its type too;
\* printf prints no leading zero, printinfo's addresses have all their digits.
NumbersReadBack ==
  \A k \in 1..Len(args) :
    LET a == args[k]
        neg == Head(a.text) = "-"
        hex == a.conv = "p" /\ fn = "printf"
        digits == IF neg THEN Tail(a.text) ELSE IF hex THEN SubSeq(a.text, 3, Len(a.text)) ELSE a.text
        base == IF a.conv \in {"x", "X", "p", "P", "h", "H"} THEN 16 ELSE IF a.conv = "o" THEN 8 ELSE 10
    IN  a.conv \notin {"c", "s"} =>
          /\ ReadBack(digits, base) = IF neg THEN -a.val ELSE a.val
          /\ digits[1] = "0" => Len(digits) = 1 \/ fn = "printinfo"
          /\ a.conv \in {"h", "H", "P"} => Len(digits) = Bits \div 4

\* The directives printf knows, without the mark.
Directives ==
  IF fn = "printinfo" THEN {<<c>> : c \in {"h", "H", "p", "P", "u", "i", "d"}}
  ELSE {m \o <<c>> : m \in {<< >>, <<"z">>, <<"t">>, <<"l">>, <<"l", "l">>},
                     c \in {"d", "i", "u", "x", "X", "o"}}
       \cup {<<"p">>, <<"c">>, <<"s">>}

\* What a format and its arguments mean, read from the left.
RECURSIVE Meaning(_, _)
Meaning(f, k) ==
  IF f = << >> THEN << >>
  ELSE IF Head(f) # Mark THEN <<Head(f)>> \o Meaning(Tail(f), k)
  ELSE IF fn = "printf" /\ Len(f) > 1 /\ f[2] = "%" THEN <<"%">> \o Meaning(SubSeq(f, 3, Len(f)), k)
  ELSE LET known == {d \in Directives : Len(d) < Len(f) /\ SubSeq(f, 2, Len(d) + 1) = d}
           skip == IF fn = "printinfo" \/ Len(f) = 1 THEN 0
                   ELSE Len(CASE f[2] \in {"z", "t"} -> "z"
                              [] f[2] = "l" /\ Len(f) > 2 /\ f[3] = "l" -> "ll"
                              [] f[2] = "l" -> "l" [] OTHER -> "")
       IN  IF known # {}
           THEN args[k].text \o Meaning(SubSeq(f, Len(CHOOSE d \in known : TRUE) + 2, Len(f)), k + 1)
           ELSE Meaning(SubSeq(f, skip + 3, Len(f)), k)

\* When a call returns it has written what its format means, argument by
\* argument, the text between the directives included, and its result is the
\* number of characters written.  Only a format that ends inside a directive
\* makes the loop pass its end.
OutputIsMeaning ==
  /\ pc = "done" => out = Meaning(fmt, 1) /\ (fn = "printf" => count = Len(out))
  /\ pc = "overrun" =>
       \E i \in 1..Len(fmt) :
         fmt[i] = Mark /\ SubSeq(fmt, i + 1, Len(fmt)) \in {<< >>, <<"z">>, <<"t">>, <<"l">>, <<"l", "l">>}

\* Whatever pieces a text is written in, however often the ring fills up and
\* the line and the screen wrap, the screen shows the characters in order, the
\* cursor stays on it, and the ring is empty between the calls.
ScreenShowsOutput ==
  /\ Screen(con) = Screen(Shown(ConsoleInit(con.ops), out))
  /\ con.begin = con.end /\ con.begin \in 0..(RingSize - 1)
  /\ con.row \in 0..(Height - 1) /\ con.col \in 0..(Width - 1)
=============================================================================
