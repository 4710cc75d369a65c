------------------------------- MODULE Console -------------------------------
(***************************************************************************)
(* The way of a string to the screen: iopipe_write (system/iopipe), the    *)
(* ring buffer of the terminal (terminal/ccterm_base.c), its two consumers *)
(* (ccterm_output.c) and the VGA text screen (platform/i686-pc).  The      *)
(* state is one record; nothing of it is locked, and one writer at a time  *)
(* is what the operators describe.                                         *)
(***************************************************************************)
EXTENDS Integers, Sequences

CONSTANTS
  RingSize,        \* sizeof(o_buffer), 1024
  Width, Height,   \* VGA_WIDTH and VGA_HEIGHT, 80 and 25
  TabWidth         \* TABWIDTH, 4

Blank == " "

\* console_init and a ccterm_buffer that is zero.
ConsoleInit(ops) ==
  [ops |-> ops, buf |-> [i \in 0..(RingSize - 1) |-> Blank], begin |-> 0, end |-> 0,
   row |-> 0, col |-> 0, cell |-> [p \in (0..(Height - 1)) \X (0..(Width - 1)) |-> Blank]]

-----------------------------------------------------------------------------
\* The screen.

console_newline(s) == [s EXCEPT !.row = (@ + 1) % Height]

console_carriage_return(s) == [s EXCEPT !.col = 0]

console_putchar(s, c) ==
  LET new == [s EXCEPT !.cell[s.row, s.col] = c, !.col = @ + 1]
  IN  IF new.col = Width THEN console_newline(console_carriage_return(new)) ELSE new

\* F(x), with x evaluated once.
Apply(F(_), x) == CHOOSE y \in {F(v) : v \in {x}} : TRUE

RECURSIVE Spaces(_, _)
Spaces(s, n) ==
  IF n = 0 THEN s ELSE Apply(LAMBDA t : Spaces(t, n - 1), console_putchar(s, Blank))

cc_tab(s) == Spaces(s, TabWidth - (s.col % TabWidth))

-----------------------------------------------------------------------------
\* The consumers.

\* ansi_charmap for the characters that are written here, and the default.
CharClass(c) ==
  CASE c = "\n" -> "NL" [] c = "\r" -> "CR" [] c = "\t" -> "TAB" [] OTHER -> "PRINT"

ccterm_lite(s, c) ==
  CASE CharClass(c) = "PRINT" -> console_putchar(s, c)
    [] CharClass(c) = "NL" -> console_newline(console_carriage_return(s))
    [] CharClass(c) = "TAB" -> cc_tab(s)
    [] OTHER -> s

ccterm_std(s, c) ==
  CASE CharClass(c) = "PRINT" -> console_putchar(s, c)
    [] CharClass(c) = "CR" -> console_carriage_return(s)
    [] CharClass(c) = "NL" -> console_newline(s)
    [] CharClass(c) = "TAB" -> cc_tab(s)
    [] OTHER -> s

Show(s, c) == IF s.ops = "lite" THEN ccterm_lite(s, c) ELSE ccterm_std(s, c)

\* A text, one character after the other.
RECURSIVE Shown(_, _)
Shown(s, text) ==
  IF text = << >> THEN s ELSE Apply(LAMBDA t : Shown(t, Tail(text)), Show(s, Head(text)))

\* What CCTB_IDX gives before CCTB_EOB ends the loop.
Pending(s) ==
  [k \in 1..((s.end - s.begin) % RingSize) |-> s.buf[(s.begin + k - 1) % RingSize]]

\* Mutant: o_begin stays where it was.
ConsumeKeeps(s) == Shown(s, Pending(s))

\* o_consume: all that is in the ring.
Consume(s) == [Shown(s, Pending(s)) EXCEPT !.begin = (@ + Len(Pending(s))) % RingSize]

-----------------------------------------------------------------------------
\* ccterm_writeraw.

\* Room for a byte: up to four times the consumer is asked for it.
RECURSIVE Room(_, _)
Room(s, j) ==
  IF s.begin # (s.end + 1) % RingSize THEN <<s, TRUE>>
  ELSE IF j > 3 THEN <<s, FALSE>>
  ELSE Apply(LAMBDA t : Room(t, j + 1), Consume(s))

\* The bytes from the i-th on; <<the console, the number of bytes taken>>.
RECURSIVE WriteFrom(_, _, _)
WriteFrom(s, str, i) ==
  IF i > Len(str)
  THEN <<IF s.begin # s.end THEN Consume(s) ELSE s, Len(str)>>
  ELSE LET Put(room) ==
             IF ~room[2] THEN <<room[1], i - 1>>
             ELSE Apply(LAMBDA t : WriteFrom(t, str, i + 1),
                        [room[1] EXCEPT !.buf[room[1].end] = str[i], !.end = (@ + 1) % RingSize])
       IN  Apply(Put, Room(s, 0))

\* iopipe_write: one vector from the kernel, which ccterm_write hands on.
iopipe_write(s, str) == WriteFrom(s, str, 1)[1]

-----------------------------------------------------------------------------

\* The part of the state that a reader of the screen sees.
Screen(s) == [row |-> s.row, col |-> s.col, cell |-> s.cell]
=============================================================================
