------------------------------ MODULE MCLibrary ------------------------------
(***************************************************************************)
(* Code that works for one caller at a time, for TLC: the rings            *)
(* (RingQueue), the firmware's tables (MpTables), formatted output to the  *)
(* console (Printf), the trees (Tree) and the string functions (Strings).  *)
(* They share no state, so a behaviour exercises one of them.              *)
(***************************************************************************)
EXTENDS RingQueue, MpTables

CONSTANTS
  RingSize, Width, Height, TabWidth, Bits, LongBits, Formats, Ops,
  TreeKeys, TreeValues, Size, Bytes

VARIABLES part, fn, fmt, pos, last, pc, count, args, out, con, root, it, removed, mem

P == INSTANCE Printf
T == INSTANCE Tree WITH Keys <- TreeKeys, Values <- TreeValues
S == INSTANCE Strings

\* All formats of up to three characters, some longer ones, every directive.
Short == UNION {[1..n -> {"%", "l", "z", "d", "s", "\n"}] : n \in 0..3}
Long == {<<"%", "l", "l", "d">>, <<"a", "%", "l", "l", "X", "b">>, <<"%", "l", "l", "%", "c">>,
         <<"\t", "%", "s", "\r", "%", "%", "b">>, <<"a", "%", "d", "\n", "%", "s", "b", "c">>,
         <<"a", "b", "c", "d", "e", "f", "g", "\t", "h">>}
Every == {<<"%", c>> : c \in {"i", "u", "x", "X", "o", "p", "c"}}
         \cup {<<"%", m, c>> : m \in {"l", "z", "t"}, c \in {"i", "u", "x", "X", "o"}}
Info == UNION {[1..n -> {"~", "a", "P"}] : n \in 0..3}
        \cup {<<"~", c, "\n">> : c \in {"h", "H", "p", "u", "i", "d"}}
Calls == ({"printf"} \X (Short \cup Long \cup Every)) \cup ({"printinfo"} \X Info)

\* Firmware with each of the errors, and tables of up to three entries.
Entry == {[type |-> "proc", id |-> i, boot |-> i = 5, addr |-> 0] : i \in {5, 6}}
         \cup {[type |-> "ioapic", id |-> 9, boot |-> FALSE, addr |-> a] : a \in {20, 30}}
         \cup {[type |-> t, id |-> 0, boot |-> FALSE, addr |-> 0] : t \in {"bus", "unknown"}}
Pointers == [Places -> {"none", "default", "table"}]
Good == [ptr |-> [p \in Places |-> IF p = "rom" THEN "table" ELSE "none"], known |-> {"ebda"}, sig |-> TRUE, version |-> 4, sumOk |-> TRUE,
         long |-> TRUE, lapic |-> 31, body |-> << >>]
Bodies == UNION {[1..n -> Entry] : n \in 0..3}
Some == CHOOSE b \in Bodies : Len(b) = 2 /\ b[1].type = "proc" /\ b[2].addr = 30
Tables == {[Good EXCEPT !.body = b, !.lapic = a] : b \in Bodies, a \in {0, 31}}
          \cup {[Good EXCEPT !.body = Some, !.ptr = w, !.known = d, !.long = l] :
                  w \in Pointers, d \in SUBSET {"ebda", "base"}, l \in BOOLEAN}
          \cup {[Good EXCEPT !.body = Some, !.sig = g, !.version = v, !.sumOk = k, !.long = l] :
                  g, k, l \in BOOLEAN, v \in {2, 4}}

printf == <<fn, fmt, pos, last, pc, count, args, out, con>>
tree == <<root, it, removed>>
parts == <<part, vars, mpvars, printf, tree, mem>>

\* What the parts that are not exercised hold.
NoCall ==
  /\ fn = "printf" /\ fmt = << >> /\ pos = 1 /\ last = 1 /\ pc = "run" /\ count = 0
  /\ args = << >> /\ out = << >> /\ con = P!ConsoleInit("lite")

MCInit ==
  /\ part \in {"ring", "mp", "printf", "tree", "string"}
  /\ Init /\ (part # "ring" => \A e \in Elems : ring.next[e] = Null)
  /\ MpInit /\ (part # "mp" => fw = Good)
  /\ IF part = "printf" THEN P!Init ELSE NoCall
  /\ T!Init /\ S!Init

MCNext ==
  /\ UNCHANGED part
  /\ \/ part = "ring" /\ Next /\ UNCHANGED <<mpvars, printf, tree, mem>>
     \/ part = "mp" /\ MpNext /\ UNCHANGED <<vars, printf, tree, mem>>
     \/ part = "printf" /\ P!Next /\ UNCHANGED <<vars, mpvars, tree, mem>>
     \/ part = "tree" /\ T!Next /\ UNCHANGED <<vars, mpvars, printf, mem>>
     \/ part = "string" /\ S!Next /\ UNCHANGED <<vars, mpvars, printf, tree>>

MCSpec == MCInit /\ [][MCNext]_parts

-----------------------------------------------------------------------------
\* The properties of the instances, as their modules state them, for the part
\* that is exercised.

\* The number conversions write what, read back, is the number.
NumbersReadBack == part = "printf" => P!NumbersReadBack

\* A call of printf or printinfo writes what its format means.
OutputIsMeaning == part = "printf" => P!OutputIsMeaning

\* The screen shows what was written to the console, although the buffer of the
\* terminal is small.
ScreenShowsOutput == part = "printf" => P!ScreenShowsOutput

\* bt_lookup, bt_floor and bt_ceiling agree with the set of keys.
SearchesAgree == part = "tree" => T!SearchesAgree

\* Stored depths are heights until bt_remove is used.
DepthsExact == part = "tree" => T!DepthsExact

\* A call changes one pair, and a node that leaves is handed to the caller.
OnlyOnePair == T!OnlyOnePair

\* The string functions copy, write and compare just what they are asked to.
StringsExact == part = "string" => S!StringsExact
=============================================================================
