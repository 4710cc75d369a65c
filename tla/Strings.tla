------------------------------- MODULE Strings -------------------------------
(***************************************************************************)
(* The loops of system/libkern/string.c over a memory of bytes, checked    *)
(* against what they are meant to compute.  Addresses are 0..Size-1, the   *)
(* byte 0 ends a string; a call that would leave the memory is not made.   *)
(***************************************************************************)
EXTENDS Integers, FiniteSets

CONSTANTS Size, Bytes   \* the bytes, 0 among them, are in 0..255

VARIABLE mem

Addr == 0..(Size - 1)

\* The string at an address ends inside the memory; the length of it.
IsString(a) == \E i \in a..(Size - 1) : mem[i] = 0

RECURSIVE strlen(_)
strlen(a) == IF mem[a] = 0 THEN 0 ELSE 1 + strlen(a + 1)

-----------------------------------------------------------------------------
\* The loops that copy; n bounds the number of bytes, stop ends at a 0.

RECURSIVE Copy(_, _, _, _, _)
Copy(m, o, i, n, stop) ==
  IF n = 0 THEN m
  ELSE LET new == [m EXCEPT ![o] = m[i]]
       IN  IF stop /\ m[i] = 0 THEN new ELSE Copy(new, o + 1, i + 1, n - 1, stop)

RECURSIVE CopyDown(_, _, _, _)
CopyDown(m, o, i, n) ==
  IF n = 0 THEN m ELSE CopyDown([m EXCEPT ![o] = m[i]], o - 1, i - 1, n - 1)

strcpy(o, i) == Copy(mem, o, i, Size, TRUE)

strncpy(o, i, n) == Copy(mem, o, i, n, TRUE)

strcat(o, i) == Copy(mem, o + strlen(o), i, Size, TRUE)

\* n is used up by the bytes of dest that are skipped as well.
strncat(o, i, n) ==
  IF strlen(o) >= n THEN mem ELSE Copy(mem, o + strlen(o), i, n - strlen(o), TRUE)

RECURSIVE memset(_, _, _, _)
memset(m, o, c, n) == IF n = 0 THEN m ELSE memset([m EXCEPT ![o] = c % 256], o + 1, c, n - 1)

memcpy(o, i, n) == Copy(mem, o, i, n, FALSE)

\* Mutant: always from the first byte on.
MemmoveUp(o, i, n) == Copy(mem, o, i, n, FALSE)

memmove(o, i, n) ==
  IF i > o THEN Copy(mem, o, i, n, FALSE) ELSE CopyDown(mem, o + n - 1, i + n - 1, n)

-----------------------------------------------------------------------------
\* The loops that compare and search.

RECURSIVE Compare(_, _, _, _)
Compare(a, b, n, stop) ==
  IF n = 0 THEN 0
  ELSE IF mem[a] = mem[b] /\ ~(stop /\ mem[a] = 0) THEN Compare(a + 1, b + 1, n - 1, stop)
  ELSE mem[a] - mem[b]

strcmp(a, b) == Compare(a, b, Size, TRUE)

memcmp(a, b, n) == Compare(a, b, n, FALSE)

\* Its result is an address; here -1 for the null pointer.
RECURSIVE memchr(_, _, _)
memchr(a, ch, n) ==
  IF n = 0 THEN -1 ELSE IF mem[a] = ch % 256 THEN a ELSE memchr(a + 1, ch, n - 1)

-----------------------------------------------------------------------------

Init == mem = [a \in Addr |-> 0]

\* The calls a program may make: strings are strings, and what is written fits.
\* restrict and the loops of strcpy and memcpy ask for ranges that are apart.
Fits(a, n) == a + n <= Size
Apart(a, b, n) == a + n <= b \/ b + n <= a

Next ==
  \E o, i \in Addr, n \in 0..Size :
    \/ IsString(i) /\ Fits(o, strlen(i) + 1) /\ Apart(o, i, strlen(i) + 1) /\ mem' = strcpy(o, i)
    \/ Fits(o, n) /\ \E c \in Bytes : mem' = memset(mem, o, c, n)
    \/ Fits(o, n) /\ Fits(i, n) /\ mem' = memmove(o, i, n)

Spec == Init /\ [][Next]_mem

-----------------------------------------------------------------------------

Range(a, n) == a..(a + n - 1)

\* Copying n bytes from i to o all at once.
AtOnce(o, i, n) == [a \in Addr |-> IF a \in Range(o, n) THEN mem[i + (a - o)] ELSE mem[a]]

\* memmove copies ranges that overlap as if all bytes were read before any is
\* written, in both directions; memcpy does so for ranges that are apart.
CopiesExact ==
  \A o, i \in Addr, n \in 0..Size :
    Fits(o, n) /\ Fits(i, n) =>
      /\ memmove(o, i, n) = AtOnce(o, i, n)
      /\ Apart(o, i, n) => memcpy(o, i, n) = AtOnce(o, i, n)

\* strcpy, strcat and their bounded forms write the bytes of the string and
\* the 0, never more than the bound, and nothing else: strncpy neither pads
\* nor ends what it has cut off, strncat counts dest within its bound.
WritesExact ==
  \A o, i \in Addr : IsString(i) =>
    LET l == strlen(i)
        d == strlen(o)
        Least(x, y) == IF x < y THEN x ELSE y
    IN  /\ Fits(o, l + 1) /\ Apart(o, i, l + 1) => strcpy(o, i) = AtOnce(o, i, l + 1)
        /\ \A n \in 0..Size :
             Fits(o, n) /\ Apart(o, i, Least(n, l + 1)) /\ Fits(o, Least(n, l + 1)) =>
               strncpy(o, i, n) = AtOnce(o, i, Least(n, l + 1))
        /\ IsString(o) /\ Fits(o, d + l + 1) /\ Apart(o + d, i, l + 1) =>
             /\ strcat(o, i) = AtOnce(o + d, i, l + 1)
             /\ \A n \in 0..Size :
                  strncat(o, i, n) = IF n <= d THEN mem ELSE AtOnce(o + d, i, Least(n - d, l + 1))

\* strcmp is 0 just for equal strings and has the sign of the first bytes that
\* differ, without reading behind the shorter one; memcmp likewise for n bytes;
\* memchr, which takes an int, finds the first byte equal to its lowest one.
ComparesExact ==
  \A a, b \in Addr :
    LET differ(n) == {k \in 0..(n - 1) : mem[a + k] # mem[b + k]}
        First(S) == CHOOSE k \in S : \A j \in S : k <= j
        delta(n) == IF differ(n) = {} THEN 0 ELSE mem[a + First(differ(n))] - mem[b + First(differ(n))]
    IN  /\ IsString(a) /\ IsString(b) =>
             LET l == IF strlen(a) < strlen(b) THEN strlen(a) ELSE strlen(b)
             IN  strcmp(a, b) = delta(l + 1)
        /\ \A n \in 0..Size : Fits(a, n) /\ Fits(b, n) =>
             /\ memcmp(a, b, n) = delta(n)
             /\ LET hits == {k \in Range(a, n) : mem[k] = mem[b]}
                IN  \A high \in {-256, 0, 512} :
                      memchr(a, mem[b] + high, n) = IF hits = {} THEN -1 ELSE First(hits)

\* Whatever the memory holds, ranges that overlap or touch the end included,
\* the functions copy, write and compare just what they are asked to.
StringsExact == CopiesExact /\ WritesExact /\ ComparesExact
=============================================================================
