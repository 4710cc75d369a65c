--------------------------- MODULE PlatformProofs ---------------------------
(***************************************************************************)
(* Safety of the i686 machine from boot to running threads, for any        *)
(* threads, device requests, loader reports and kernel sizes, whether the  *)
(* steps that may fault do so or not.                                      *)
(*                                                                         *)
(* The interrupt flag is what ties the parts together: it stays clear      *)
(* until the last step of main, and from then on it is set exactly while   *)
(* the current thread is at a place where it may be interrupted (FlagInv). *)
(* So what an interrupt saves is never itself inside an interrupt or a     *)
(* switch, and where a thread goes on (Place) says how far it has come     *)
(* with changing its interrupt stack, running or not (StackInv).           *)
(*                                                                         *)
(* The search for the multiprocessor tables, a part of the boot that       *)
(* shares no state with the others, is at the end of the module.           *)
(***************************************************************************)
EXTENDS Platform, MpTables, SequenceTheorems, TLAPS

N == Len(BootSteps)

\* Where a thread may be interrupted.
Open == {"kernel", "storage", "tss", "stuck"}

\* Where a thread goes on once it is back from its interrupt and its switch.
Place(t) ==
  IF pc[t] \in {"isr", "switch", "iret"} THEN back[t]
  ELSE IF pc[t] \in {"induced", "sti"} THEN "kernel"
  ELSE pc[t]

\* The index of the interrupt stack that the flag of t selects.
Selected(t) == IF int2[t] THEN 1 ELSE 0

\* What the variables may be.
TypeOK ==
  /\ step \in 1..(N + 1)
  /\ flag \in BOOLEAN
  /\ multiboot \in Multiboot
  /\ cur \in Threads \cup {Null}
  /\ pc \in [Threads -> Open \cup {"boot", "none", "fresh", "isr", "switch", "iret", "induced", "sti", "wedged"}]
  /\ back \in [Threads -> Open]
  /\ int2 \in [Threads -> BOOLEAN]
  /\ ist \in [Threads -> {0, 1}]

\* What is set up before step k of the boot.
MadeBefore(k) == {BootSteps[i].do : i \in 1..(k - 1)}

\* The booting thread boots alone and with interrupts disabled.
BootInv ==
  /\ made = MadeBefore(step)
  /\ "current" \in made => cur # Null
  /\ step <= N => ~flag /\ pc[IdleThread] = "boot" /\ cur \in {Null, IdleThread}
  /\ \A t \in Threads : pc[t] = "boot" => t = IdleThread /\ step <= N

\* The interrupt flag is set just where the current thread may be interrupted.
FlagInv == step > N => cur # Null /\ (flag <=> pc[cur] \in Open)

\* The TSS has the stack of the current thread's storage, unless the thread is
\* before hal_after_thread_switch, and the storage of every thread is what its
\* flag selects, unless the thread is before the assignment.  A thread lost in
\* a switch does not go on.
StackInv ==
  /\ cur # Null => esp0[1] = cur /\ (Place(cur) \notin {"tss", "wedged"} => esp0[2] = ist[cur])
  /\ \A t \in Threads : Place(t) \notin {"storage", "wedged"} => ist[t] = Selected(t)

\* The inductive invariant.
IInv == TypeOK /\ BootInv /\ FlagInv /\ StackInv /\ RangesSound

-----------------------------------------------------------------------------
\* Where the elements of two sequences are in their concatenation.
LEMMA Concatenated ==
  ASSUME NEW S, NEW s \in Seq(S), NEW t \in Seq(S)
  PROVE  /\ s \o t \in Seq(S) /\ Len(s \o t) = Len(s) + Len(t)
         /\ \A i \in 1..Len(s) : (s \o t)[i] = s[i]
         /\ \A i \in 1..Len(t) : (s \o t)[Len(s) + i] = t[i]
<1> DEFINE u == s \o t
           m == Len(s)
           n == Len(t)
<1>1. u \in Seq(S) /\ Len(u) = m + n
  BY ConcatProperties, Zenon
<1>2. \A i \in 1..(m + n) : u[i] = IF i <= m THEN s[i] ELSE t[i - m]
  BY ConcatProperties, Zenon
<1>3. m \in Nat /\ n \in Nat
  OBVIOUS
<1> HIDE DEF u, m, n
<1>4. \A i \in 1..m : u[i] = s[i]
  BY <1>2, <1>3
<1>5. ASSUME NEW i \in 1..n PROVE u[m + i] = t[i]
  <2>1. m + i \in 1..(m + n) /\ ~(m + i <= m) /\ (m + i) - m = i
    BY <1>3
  <2>2. QED BY <1>2, <2>1, Zenon
<1>6. QED BY <1>1, <1>4, <1>5 DEF u, m, n

\* The steps of the boot by their numbers.
LEMMA BootStepsAre ==
  /\ N = 34
  /\ BootSteps[1].do = "ranges" /\ BootSteps[2].do = "gdt" /\ BootSteps[3].do = "idt"
  /\ \A i \in 4..19 : BootSteps[i].do = "outb"
  /\ BootSteps[20].do = "timer" /\ BootSteps[21].do = "outb" /\ BootSteps[22].do = "outb"
  /\ BootSteps[23].do = "stacks" /\ BootSteps[24].do = "kterm" /\ BootSteps[25].do = "initmem"
  /\ BootSteps[26].do = "vm" /\ BootSteps[27].do = "cpu_stack" /\ BootSteps[28].do = "threads"
  /\ BootSteps[29].do = "thread" /\ BootSteps[30].do = "current" /\ BootSteps[31].do = "sched"
  /\ BootSteps[32].do = "instance" /\ BootSteps[33].do = "idle" /\ BootSteps[34].do = "sti"
<1> DEFINE A == <<Call("ranges"), Call("gdt"), Call("idt")>>
<1>1. Len(A) = 3 /\ A[1].do = "ranges" /\ A[2].do = "gdt" /\ A[3].do = "idt"
      /\ A = [i \in 1..3 |-> A[i]]
  BY DEF Call
<1>2. Len(PicInit) = 16 /\ \A i \in 1..16 : PicInit[i].do = "outb"
  BY DEF PicInit, Out
<1>3. Len(TimerInit) = 3 /\ TimerInit[1].do = "timer" /\ TimerInit[2].do = "outb"
      /\ TimerInit[3].do = "outb"
  BY DEF TimerInit, Call, Out
<1>4. /\ Len(Main) = 12 /\ Main[1].do = "stacks" /\ Main[2].do = "kterm"
      /\ Main[3].do = "initmem" /\ Main[4].do = "vm" /\ Main[5].do = "cpu_stack"
      /\ Main[6].do = "threads" /\ Main[7].do = "thread" /\ Main[8].do = "current"
      /\ Main[9].do = "sched" /\ Main[10].do = "instance" /\ Main[11].do = "idle"
      /\ Main[12].do = "sti"
  BY DEF Main, Call
<1>5. BootSteps = A \o PicInit \o TimerInit \o Main
  BY DEF BootSteps
<1> DEFINE S == {A[i] : i \in 1..3} \cup {PicInit[i] : i \in 1..16}
                \cup {TimerInit[i] : i \in 1..3} \cup {Main[i] : i \in 1..12}
<1>6. A \in Seq(S) /\ PicInit \in Seq(S) /\ TimerInit \in Seq(S) /\ Main \in Seq(S)
  <2>1. PicInit = [i \in 1..16 |-> PicInit[i]]
    BY DEF PicInit
  <2>2. TimerInit = [i \in 1..3 |-> TimerInit[i]]
    BY DEF TimerInit
  <2>3. Main = [i \in 1..12 |-> Main[i]]
    BY DEF Main
  <2> HIDE DEF A
  <2>4. QED BY <1>1, <2>1, <2>2, <2>3
<1> HIDE DEF A, S
<1> DEFINE B == A \o PicInit
           C == B \o TimerInit
<1>7. /\ B \in Seq(S) /\ Len(B) = 19
      /\ \A i \in 1..3 : B[i] = A[i]
      /\ \A i \in 1..16 : B[3 + i] = PicInit[i]
  <2>1. /\ B \in Seq(S) /\ Len(B) = Len(A) + Len(PicInit)
        /\ \A i \in 1..Len(A) : B[i] = A[i]
        /\ \A i \in 1..Len(PicInit) : B[Len(A) + i] = PicInit[i]
    BY <1>6, Concatenated
  <2>2. Len(A) = 3 /\ Len(PicInit) = 16
    BY <1>1, <1>2, Zenon
  <2> HIDE DEF B
  <2>3. QED BY <2>1, <2>2
<1>8. /\ C \in Seq(S) /\ Len(C) = 22
      /\ \A i \in 1..19 : C[i] = B[i]
      /\ \A i \in 1..3 : C[19 + i] = TimerInit[i]
  <2> HIDE DEF B
  <2>1. /\ C \in Seq(S) /\ Len(C) = Len(B) + Len(TimerInit)
        /\ \A i \in 1..Len(B) : C[i] = B[i]
        /\ \A i \in 1..Len(TimerInit) : C[Len(B) + i] = TimerInit[i]
    <3>1. B \in Seq(S)
      BY <1>7
    <3>2. QED BY <1>6, <3>1, Concatenated
  <2>2. Len(B) = 19 /\ Len(TimerInit) = 3
    BY <1>7, <1>3, Zenon
  <2> HIDE DEF C
  <2>3. QED BY <2>1, <2>2
<1>9. /\ BootSteps \in Seq(S) /\ Len(BootSteps) = 34
      /\ \A i \in 1..22 : BootSteps[i] = C[i]
      /\ \A i \in 1..12 : BootSteps[22 + i] = Main[i]
  <2>1. /\ BootSteps \in Seq(S) /\ Len(BootSteps) = Len(C) + Len(Main)
        /\ \A i \in 1..Len(C) : BootSteps[i] = C[i]
        /\ \A i \in 1..Len(Main) : BootSteps[Len(C) + i] = Main[i]
    <3>1. BootSteps = C \o Main
      BY <1>5
    <3> HIDE DEF C
    <3>2. C \in Seq(S)
      BY <1>8
    <3>3. QED BY <1>6, <3>1, <3>2, Concatenated
  <2>2. Len(C) = 22 /\ Len(Main) = 12
    BY <1>8, <1>4, Zenon
  <2> HIDE DEF C
  <2>3. QED BY <2>1, <2>2
<1> HIDE DEF B, C
<1>10. /\ \A i \in 1..3 : B[i] = A[i]
       /\ \A i \in 1..16 : B[3 + i].do = "outb"
       /\ \A i \in 1..19 : C[i] = B[i]
       /\ \A i \in 1..3 : C[19 + i] = TimerInit[i]
       /\ \A i \in 1..22 : BootSteps[i] = C[i]
       /\ \A i \in 1..12 : BootSteps[22 + i] = Main[i]
  BY <1>2, <1>7, <1>8, <1>9
<1>11. \A i \in 4..19 : BootSteps[i].do = "outb"
  <2> SUFFICES ASSUME NEW i \in 4..19 PROVE BootSteps[i].do = "outb"
    OBVIOUS
  <2>1. i \in 1..22 /\ i \in 1..19 /\ i - 3 \in 1..16 /\ 3 + (i - 3) = i
    OBVIOUS
  <2>2. QED BY <1>10, <2>1
<1>12. /\ BootSteps[1].do = "ranges" /\ BootSteps[2].do = "gdt" /\ BootSteps[3].do = "idt"
       /\ BootSteps[20].do = "timer" /\ BootSteps[21].do = "outb" /\ BootSteps[22].do = "outb"
  BY <1>1, <1>3, <1>10
<1>13. QED
  BY <1>4, <1>9, <1>10, <1>11, <1>12 DEF N

\* Each step of the boot has what it needs, and main has enabled interrupts
\* with its last step only, when everything is there.
LEMMA BootOrder ==
  /\ \A k \in 1..N : Needs(BootSteps[k].do) \subseteq MadeBefore(k)
  /\ {"idt", "current", "instance", "idle", "cpu_stack"} \subseteq MadeBefore(N + 1)
  /\ \A k \in 1..N : BootSteps[k].do = "sti" <=> k = N
  /\ \A k \in 1..N : MadeBefore(k + 1) = MadeBefore(k) \cup {BootSteps[k].do}
  /\ MadeBefore(1) = {}
<1>1. ASSUME NEW k \in 1..(N + 1), NEW i \in 1..N, i < k
      PROVE  BootSteps[i].do \in MadeBefore(k)
  BY <1>1, BootStepsAre DEF MadeBefore
<1>2. \A k \in 1..N : \/ k \in 4..19 \/ k \in {21, 22} \/ k \in {1, 2, 3, 20, 23, 24}
                      \/ k \in {25, 26, 27, 28, 29} \/ k \in {30, 31, 32, 33, 34}
  BY BootStepsAre
<1>3. ASSUME NEW k \in 1..N PROVE Needs(BootSteps[k].do) \subseteq MadeBefore(k)
  <2>1. CASE k \in 4..19 \/ k \in {21, 22}
    <3>1. BootSteps[k].do = "outb"
      BY <2>1, BootStepsAre
    <3>2. QED BY <3>1 DEF Needs
  <2>2. CASE k \in {1, 2, 3, 20, 23, 24}
    <3>1. ASSUME k = 3 PROVE "gdt" \in MadeBefore(k)
      <4>1. k \in 1..(N + 1) /\ 2 \in 1..N /\ 2 < k /\ BootSteps[2].do = "gdt"
        BY <3>1, BootStepsAre
      <4>2. QED BY Zenon, <1>1, <4>1
    <3>2. BootSteps[k].do \in {"ranges", "gdt", "timer", "stacks", "kterm"} \/ k = 3
      BY <2>2, BootStepsAre
    <3>3. QED BY <3>1, <3>2, BootStepsAre DEF Needs
  <2>3. CASE k = 25
    <3>1. "ranges" \in MadeBefore(k)
      <4>1. k \in 1..(N + 1) /\ 1 \in 1..N /\ 1 < k /\ BootSteps[1].do = "ranges"
        BY <2>3, BootStepsAre
      <4>2. QED BY Zenon, <1>1, <4>1
    <3>2. QED BY <2>3, <3>1, BootStepsAre DEF Needs
  <2>4. CASE k = 26
    <3>1. "initmem" \in MadeBefore(k)
      <4>1. k \in 1..(N + 1) /\ 25 \in 1..N /\ 25 < k /\ BootSteps[25].do = "initmem"
        BY <2>4, BootStepsAre
      <4>2. QED BY Zenon, <1>1, <4>1
    <3>2. QED BY <2>4, <3>1, BootStepsAre DEF Needs
  <2>5. CASE k \in {27, 28, 31}
    <3>1. "vm" \in MadeBefore(k)
      <4>1. k \in 1..(N + 1) /\ 26 \in 1..N /\ 26 < k /\ BootSteps[26].do = "vm"
        BY <2>5, BootStepsAre
      <4>2. QED BY Zenon, <1>1, <4>1
    <3>2. QED BY <2>5, <3>1, BootStepsAre DEF Needs
  <2>6. CASE k = 29
    <3>1. "threads" \in MadeBefore(k) /\ "stacks" \in MadeBefore(k)
      <4>1. /\ k \in 1..(N + 1)
            /\ 28 \in 1..N /\ 28 < k /\ BootSteps[28].do = "threads"
            /\ 23 \in 1..N /\ 23 < k /\ BootSteps[23].do = "stacks"
        BY <2>6, BootStepsAre
      <4>2. QED BY Zenon, <1>1, <4>1
    <3>2. QED BY <2>6, <3>1, BootStepsAre DEF Needs
  <2>7. CASE k = 30
    <3>1. "thread" \in MadeBefore(k) /\ "gdt" \in MadeBefore(k)
      <4>1. /\ k \in 1..(N + 1)
            /\ 29 \in 1..N /\ 29 < k /\ BootSteps[29].do = "thread"
            /\ 2 \in 1..N /\ 2 < k /\ BootSteps[2].do = "gdt"
        BY <2>7, BootStepsAre
      <4>2. QED BY Zenon, <1>1, <4>1
    <3>2. QED BY <2>7, <3>1, BootStepsAre DEF Needs
  <2>8. CASE k = 32
    <3>1. "sched" \in MadeBefore(k)
      <4>1. k \in 1..(N + 1) /\ 31 \in 1..N /\ 31 < k /\ BootSteps[31].do = "sched"
        BY <2>8, BootStepsAre
      <4>2. QED BY Zenon, <1>1, <4>1
    <3>2. QED BY <2>8, <3>1, BootStepsAre DEF Needs
  <2>9. CASE k = 33
    <3>1. "instance" \in MadeBefore(k) /\ "thread" \in MadeBefore(k)
      <4>1. /\ k \in 1..(N + 1)
            /\ 32 \in 1..N /\ 32 < k /\ BootSteps[32].do = "instance"
            /\ 29 \in 1..N /\ 29 < k /\ BootSteps[29].do = "thread"
        BY <2>9, BootStepsAre
      <4>2. QED BY Zenon, <1>1, <4>1
    <3>2. QED BY <2>9, <3>1, BootStepsAre DEF Needs
  <2>10. CASE k = 34
    BY <2>10, BootStepsAre DEF Needs
  <2>11. QED BY <1>2, <2>1, <2>2, <2>3, <2>4, <2>5, <2>6, <2>7, <2>8, <2>9, <2>10
<1>4. {"idt", "current", "instance", "idle", "cpu_stack"} \subseteq MadeBefore(N + 1)
  <2>1. N + 1 \in 1..(N + 1) /\ \A i \in {3, 27, 30, 32, 33} : i \in 1..N /\ i < N + 1
    BY BootStepsAre
  <2>2. \A i \in {3, 27, 30, 32, 33} : BootSteps[i].do \in MadeBefore(N + 1)
    BY Zenon, <1>1, <2>1
  <2>3. /\ BootSteps[3].do = "idt" /\ BootSteps[27].do = "cpu_stack" /\ BootSteps[30].do = "current"
        /\ BootSteps[32].do = "instance" /\ BootSteps[33].do = "idle"
    BY Zenon, BootStepsAre
  <2>4. /\ "idt" \in MadeBefore(N + 1) /\ "cpu_stack" \in MadeBefore(N + 1) /\ "current" \in MadeBefore(N + 1)
        /\ "instance" \in MadeBefore(N + 1) /\ "idle" \in MadeBefore(N + 1)
    BY Zenon, <2>2, <2>3
  <2>5. QED BY Zenon, <2>4
<1>5. \A k \in 1..N : BootSteps[k].do = "sti" <=> k = N
  BY <1>2, BootStepsAre
<1>6. \A k \in 1..N : MadeBefore(k + 1) = MadeBefore(k) \cup {BootSteps[k].do}
  BY BootStepsAre DEF MadeBefore
<1>7. MadeBefore(1) = {}
  BY DEF MadeBefore
<1>8. QED BY <1>3, <1>4, <1>5, <1>6, <1>7

-----------------------------------------------------------------------------
\* Rounding down to whole pages what is left of a size in the width of an
\* address: never above it, and close to it if it fits.
LEMMA Truncated ==
  ASSUME NEW x \in Nat, NEW w \in Nat \ {0}
  PROVE  LET d == (x % w) - ((x % w) % 4) IN
         d \in Nat /\ d % 4 = 0 /\ d <= x /\ (x < w => x < d + 4)
<1> DEFINE y == x % w
<1>1. y \in Nat /\ y <= x /\ (x < w => y = x)
  OBVIOUS
<1> HIDE DEF y
<1>2. y - (y % 4) \in Nat /\ (y - (y % 4)) % 4 = 0 /\ y - (y % 4) <= y /\ y < (y - (y % 4)) + 4
  BY <1>1
<1>3. QED BY <1>1, <1>2 DEF y

\* Rounding up to whole pages.
LEMMA RoundUp ==
  ASSUME NEW x \in Nat
  PROVE  LET u == (x + 3) - ((x + 3) % 4) IN
         u \in Nat /\ u % 4 = 0 /\ x <= u /\ u < x + 4 /\ (u > 1024 <=> x > 1024)
  OBVIOUS

\* The ranges of _i686_init are sound for every report of the loader.
LEMMA RangesFit ==
  ASSUME NEW m \in Multiboot, multiboot' = m, ranges' = MemRanges(m)
  PROVE  RangesSound'
<1> DEFINE Down(x) == x - (x % 4)
           end == m.upper + 1024
           begin == IF m.kend > 1024 THEN m.kend ELSE 12288
           up == Down(m.kend + 3)
           lo == IF up > 1024 THEN up ELSE 12288
           hi == Down(end % Word)
           l0 == Down(m.lower % Word)
<1>1. m.flags \in Nat /\ m.lower \in Nat /\ end \in Nat /\ m.kend \in Nat /\ Word \in Nat \ {0}
  BY PlatformConstants
<1>2. CASE m.flags % 2 = 0
  BY <1>2 DEF MemRanges, RangesSound
<1>3. CASE m.flags % 2 = 1
  <2>1. l0 \in Nat /\ l0 % 4 = 0 /\ l0 <= m.lower /\ (m.lower < Word => m.lower < l0 + 4)
    BY <1>1, Truncated
  <2>2. hi \in Nat /\ hi % 4 = 0 /\ hi <= end /\ (end < Word => end < hi + 4)
    <3> HIDE DEF end
    <3>1. QED BY <1>1, Truncated
  <2>3. lo \in Nat /\ lo % 4 = 0 /\ lo > 1024 /\ lo >= m.kend /\ lo < begin + 4
    <3>1. /\ up \in Nat /\ up % 4 = 0 /\ up >= m.kend /\ up < m.kend + 4
          /\ (up > 1024 <=> m.kend > 1024)
      BY <1>1, RoundUp
    <3> HIDE DEF up
    <3>2. QED BY <1>1, <3>1
  <2>4. ranges' = << <<0, l0>>, <<lo, hi>> >>
    BY <1>3 DEF MemRanges
  <2>5. begin \in Nat
    BY <1>1
  <2> HIDE DEF l0, lo, hi, begin, end
  <2>6. end < Word /\ begin + 8 <= end => lo <= hi
    BY <1>1, <2>2, <2>3, <2>5
  <2>7. ranges'[1][1] = 0 /\ ranges'[1][2] = l0 /\ ranges'[2][1] = lo /\ ranges'[2][2] = hi
    BY <2>4
  <2>8. QED BY <2>1, <2>2, <2>3, <2>6, <2>7 DEF RangesSound, begin, end
<1>4. QED
  BY <1>1, <1>2, <1>3

-----------------------------------------------------------------------------
\* The machine comes up in a state of the invariant.
LEMMA InitIInv == Init => IInv
<1> SUFFICES ASSUME Init PROVE IInv
  OBVIOUS
<1>1. TypeOK
  <2>1. N = 34
    BY BootStepsAre
  <2>2. step \in 1..(N + 1)
    BY <2>1 DEF Init
  <2>3. pc \in [Threads -> Open \cup {"boot", "none", "fresh", "isr", "switch", "iret", "induced", "sti", "wedged"}]
    BY DEF Init
  <2>4. QED BY <2>2, <2>3 DEF Init, TypeOK, Open
<1>2. BootInv
  BY PlatformConstants, BootStepsAre, BootOrder DEF Init, BootInv
<1>3. FlagInv
  BY BootStepsAre DEF Init, FlagInv
<1>4. StackInv
  BY DEF Init, StackInv, Selected
<1>5. RangesSound
  BY DEF Init, RangesSound
<1>6. QED BY <1>1, <1>2, <1>3, <1>4, <1>5 DEF IInv

\* One step of _i686_init or main.
LEMMA BootKeeps ==
  ASSUME IInv, Boot
  PROVE  IInv'
<1> USE DEF IInv
<1>0. /\ step \in 1..N /\ step' = step + 1 /\ N = 34
      /\ pc[IdleThread] = "boot" /\ IdleThread \in Threads /\ Null \notin Threads
      /\ ~flag /\ cur \in {Null, IdleThread}
  BY BootStepsAre, PlatformConstants DEF Boot, TypeOK, BootInv, N
<1>1. /\ pc' \in [Threads -> Open \cup {"boot", "none", "fresh", "isr", "switch", "iret", "induced", "sti", "wedged"}]
      /\ pc'[IdleThread] = IF step = N THEN "kernel" ELSE "boot"
      /\ \A t \in Threads \ {IdleThread} : pc'[t] = pc[t]
  BY <1>0 DEF Boot, TypeOK, Open, N
<1>2. flag' = (step = N)
  BY Zenon, <1>0, BootOrder DEF Boot
<1>3. \/ cur' = cur /\ esp0' = esp0
      \/ cur' = IdleThread /\ esp0' = <<IdleThread, ist[IdleThread]>>
  BY DEF Boot
<1>4. UNCHANGED <<multiboot, back, int2, ist>>
  BY DEF Boot
<1>5. TypeOK'
  <2>1. N' = N
    BY DEF N
  <2>2. step' \in 1..(N + 1) /\ flag' \in BOOLEAN /\ cur' \in Threads \cup {Null}
    BY <1>0, <1>2, <1>3
  <2>3. QED BY <1>1, <1>4, <2>1, <2>2 DEF TypeOK
<1>6. BootInv'
  <2>1. made' = MadeBefore(step')
    BY <1>0, BootOrder DEF Boot, BootInv
  <2>2. "current" \in made' => cur' # Null
    BY <1>0 DEF Boot, BootInv
  <2>3. step' <= N => ~flag' /\ pc'[IdleThread] = "boot" /\ cur' \in {Null, IdleThread}
    <3>1. step' <= N => step # N
      BY <1>0
    <3>2. QED BY <1>0, <1>1, <1>2, <1>3, <3>1
  <2>4. \A t \in Threads : pc'[t] = "boot" => t = IdleThread /\ step' <= N
    BY <1>0, <1>1 DEF BootInv
  <2>5. MadeBefore(step)' = MadeBefore(step') /\ N' = N
    BY DEF MadeBefore, N
  <2>6. QED BY <2>1, <2>2, <2>3, <2>4, <2>5 DEF BootInv
<1>7. FlagInv'
  <2>1. SUFFICES ASSUME step = N
                 PROVE  cur' # Null /\ (flag' <=> pc'[cur'] \in Open)
    BY <1>0 DEF FlagInv, N
  <2>2. cur' # Null
    <3>1. "current" \in MadeBefore(step')
      BY <1>0, <2>1, BootOrder
    <3>2. QED BY <3>1, <1>6, BootOrder DEF BootInv, MadeBefore
  <2>3. cur' = IdleThread
    BY <1>0, <1>3, <2>2
  <2>4. QED BY <1>1, <1>2, <2>1, <2>2, <2>3 DEF Open
<1>8. StackInv'
  <2>1. \A t \in Threads : Place(t)' = IF t = IdleThread THEN pc'[t] ELSE Place(t)
    BY <1>0, <1>1, <1>4 DEF Place
  <2>2. \A t \in Threads : Place(t)' \notin {"storage", "wedged"} => ist'[t] = Selected(t)'
    BY <1>0, <1>1, <1>4, <2>1 DEF StackInv, Place, Selected
  <2>3. cur' # Null => esp0'[1] = cur' /\ esp0'[2] = ist'[cur']
    BY <1>0, <1>3, <1>4 DEF StackInv, Place
  <2>4. QED BY <2>2, <2>3 DEF StackInv
<1>9. RangesSound'
  <2>1. CASE UNCHANGED ranges
    BY <1>4, <2>1 DEF RangesSound
  <2>2. CASE ranges' = MemRanges(multiboot)
    BY <1>4, <2>2, RangesFit DEF TypeOK
  <2>3. QED BY <2>1, <2>2 DEF Boot
<1>10. QED BY <1>5, <1>6, <1>7, <1>8, <1>9

-----------------------------------------------------------------------------
\* A step of the current thread behind the boot: what is left to show of it.
LEMMA Running ==
  ASSUME IInv, cur # Null, pc[cur] # "boot"
  PROVE  /\ cur \in Threads /\ step > N /\ N = 34 /\ step \in Nat
         /\ (flag <=> pc[cur] \in Open)
         /\ TypeOK /\ StackInv
  BY BootStepsAre DEF IInv, TypeOK, BootInv, FlagInv

\* No thread boots any more then.
LEMMA NoBoot ==
  ASSUME IInv, cur # Null, pc[cur] # "boot"
  PROVE  pc \in [Threads -> Open \cup {"none", "fresh", "isr", "switch", "iret", "induced", "sti", "wedged"}]
<1>1. \A t \in Threads : pc[t] # "boot"
  BY Running, BootStepsAre DEF IInv, BootInv
<1>2. QED BY <1>1 DEF IInv, TypeOK

\* A step of the current thread keeps the invariant when it keeps what it can
\* disturb: the flag, the types and the stacks.
LEMMA ThreadStep ==
  ASSUME IInv, cur # Null, pc[cur] # "boot",
         UNCHANGED <<step, made, multiboot, ranges>>,
         flag' \in BOOLEAN, cur' \in Threads,
         pc' \in [Threads -> Open \cup {"none", "fresh", "isr", "switch", "iret", "induced", "sti", "wedged"}],
         back' \in [Threads -> Open], int2' \in [Threads -> BOOLEAN], ist' \in [Threads -> {0, 1}],
         flag' <=> pc'[cur'] \in Open,
         StackInv'
  PROVE  IInv'
<1>1. step > N /\ N' = N /\ step \in Nat /\ N = 34
  BY Running DEF N
<1>2. TypeOK'
  BY <1>1 DEF IInv, TypeOK
<1>3. BootInv'
  <2>1. MadeBefore(step)' = MadeBefore(step)
    BY DEF MadeBefore
  <2>2. \A t \in Threads : pc'[t] # "boot"
    BY DEF Open
  <2>3. QED BY <1>1, <2>1, <2>2, PlatformConstants DEF IInv, BootInv
<1>4. FlagInv'
  BY PlatformConstants DEF FlagInv
<1>5. RangesSound'
  BY DEF IInv, RangesSound
<1>6. QED BY <1>2, <1>3, <1>4, <1>5 DEF IInv

\* A step that leaves every thread where it goes on, and the stacks alone,
\* keeps what holds of the stacks.
LEMMA SamePlaces ==
  ASSUME StackInv, cur \in Threads, cur' = cur, UNCHANGED <<int2, ist, esp0>>,
         \A t \in Threads : Place(t)' = Place(t)
  PROVE  StackInv'
  BY DEF StackInv, Selected

\* One lemma for each step: the handler of an interrupt runs,
LEMMA HandleKeeps == ASSUME IInv, Handle PROVE IInv'
<1>1. cur # Null /\ pc[cur] = "isr"
  BY DEF Handle
<1>2. cur \in Threads /\ TypeOK /\ StackInv /\ flag = FALSE
  BY <1>1, Running DEF Open, TypeOK
<1>3. /\ pc' \in [Threads -> Open \cup {"none", "fresh", "isr", "switch", "iret", "induced", "sti", "wedged"}]
      /\ pc'[cur] \in {"switch", "iret"}
      /\ \A t \in Threads \ {cur} : pc'[t] = pc[t]
  BY <1>1, <1>2, Running, NoBoot DEF Handle, TypeOK
<1>4. \A t \in Threads : Place(t)' = Place(t)
  BY <1>1, <1>2, <1>3 DEF Handle, Place
<1>5. StackInv'
  BY <1>2, <1>4, SamePlaces DEF Handle
<1>6. pc'[cur'] \notin Open
  BY <1>3 DEF Handle, Open
<1>7. QED BY <1>1, <1>2, <1>3, <1>5, <1>6, ThreadStep DEF Handle, TypeOK

\* the interrupted thread is returned to,
LEMMA IretKeeps == ASSUME IInv, Iret PROVE IInv'
<1>1. cur # Null /\ pc[cur] = "iret"
  BY DEF Iret
<1>2. cur \in Threads /\ TypeOK /\ StackInv
  BY <1>1, Running
<1>3. /\ pc' \in [Threads -> Open \cup {"none", "fresh", "isr", "switch", "iret", "induced", "sti", "wedged"}]
      /\ pc'[cur] = back[cur] /\ back[cur] \in Open
      /\ \A t \in Threads \ {cur} : pc'[t] = pc[t]
  BY <1>1, <1>2, Running, NoBoot DEF Iret, TypeOK
<1>4. \A t \in Threads : Place(t)' = Place(t)
  BY <1>1, <1>2, <1>3 DEF Iret, Place, Open
<1>5. StackInv'
  BY <1>2, <1>4, SamePlaces DEF Iret
<1>6. QED BY <1>1, <1>2, <1>3, <1>5, ThreadStep DEF Iret, TypeOK

\* a thread enables interrupts at the end of its switch,
LEMMA StiKeeps == ASSUME IInv, Sti PROVE IInv'
<1>1. cur # Null /\ pc[cur] \in {"sti", "fresh"}
  BY DEF Sti
<1>2. cur \in Threads /\ TypeOK /\ StackInv
  BY <1>1, Running
<1>3. /\ pc' \in [Threads -> Open \cup {"none", "fresh", "isr", "switch", "iret", "induced", "sti", "wedged"}]
      /\ pc'[cur] = "kernel"
      /\ \A t \in Threads \ {cur} : pc'[t] = pc[t]
  BY <1>1, <1>2, Running, NoBoot DEF Sti, TypeOK, Open
<1>4. /\ \A t \in Threads \ {cur} : Place(t)' = Place(t)
      /\ Place(cur)' = "kernel" /\ Place(cur) \in {"kernel", "fresh"}
  BY <1>1, <1>2, <1>3 DEF Sti, Place
<1>5. StackInv'
  BY <1>2, <1>4 DEF Sti, StackInv, Selected
<1>6. QED BY <1>1, <1>2, <1>3, <1>5, ThreadStep DEF Sti, TypeOK, Open

\* a thread is made,
LEMMA InitThreadKeeps == ASSUME IInv, NEW u \in Threads, InitThread(u) PROVE IInv'
<1>1. cur # Null /\ pc[cur] = "kernel" /\ pc[u] = "none"
  BY DEF InitThread
<1>2. cur \in Threads /\ TypeOK /\ StackInv /\ flag = TRUE
  BY <1>1, Running DEF Open, TypeOK
<1>3. /\ pc' \in [Threads -> Open \cup {"none", "fresh", "isr", "switch", "iret", "induced", "sti", "wedged"}]
      /\ pc'[cur] \in {"kernel", "stuck"} /\ pc'[u] \in {"none", "fresh"}
      /\ \A t \in Threads \ {cur, u} : pc'[t] = pc[t]
  BY <1>1, <1>2, Running, NoBoot DEF InitThread, TypeOK, Open
<1>4. /\ \A t \in Threads \ {cur, u} : Place(t)' = Place(t)
      /\ Place(cur)' \in {"kernel", "stuck"} /\ Place(cur) = "kernel" /\ Place(u) = "none"
  BY <1>1, <1>2, <1>3 DEF InitThread, Place
<1>5. StackInv'
  BY <1>1, <1>2, <1>4 DEF InitThread, StackInv, Selected
<1>6. QED BY <1>1, <1>2, <1>3, <1>5, ThreadStep DEF InitThread, TypeOK, Open, hw

\* the stacks are switched,
LEMMA SwitchKeeps == ASSUME IInv, NEW u \in Threads, Switch(u) PROVE IInv'
<1>1. cur # Null /\ pc[cur] \in {"switch", "induced"} /\ cur' = u
      /\ (u = cur \/ pc[u] \in {"iret", "sti", "fresh"})
  BY DEF Switch
<1>2. cur \in Threads /\ TypeOK /\ StackInv /\ flag = FALSE
  BY <1>1, Running DEF Open, TypeOK
<1>3. /\ pc' \in [Threads -> Open \cup {"none", "fresh", "isr", "switch", "iret", "induced", "sti", "wedged"}]
      /\ u # cur => pc'[cur] = Returns(cur)
      /\ pc'[u] \in {Returns(u), "wedged"}
      /\ \A t \in Threads \ {cur, u} : pc'[t] = pc[t]
  BY <1>1, <1>2, Running, NoBoot DEF Switch, TypeOK, Returns
<1>4. /\ \A t \in Threads \ {u} : Place(t)' = Place(t)
      /\ Place(u)' \in {Place(u), "wedged"}
  BY <1>1, <1>2, <1>3 DEF Switch, Place, Returns
<1>5. StackInv'
  <2>1. esp0' = IF u = cur THEN esp0 ELSE <<u, ist[u]>>
    BY DEF Switch
  <2>2. esp0'[1] = u /\ (Place(u) \notin {"tss", "wedged"} => esp0'[2] = ist[u])
    BY <1>1, <1>2, <2>1 DEF StackInv
  <2>3. QED BY <1>1, <1>2, <1>4, <2>2 DEF Switch, StackInv, Selected, hw
<1>6. pc'[cur'] \notin Open
  BY <1>1, <1>3 DEF Returns, Open
<1>7. QED BY <1>1, <1>2, <1>3, <1>5, <1>6, ThreadStep DEF Switch, TypeOK, hw

\* a thread asks for a preemption,
LEMMA InduceKeeps == ASSUME IInv, InducePreemption PROVE IInv'
<1>1. cur # Null /\ pc[cur] = "kernel"
  BY DEF InducePreemption
<1>2. cur \in Threads /\ TypeOK /\ StackInv
  BY <1>1, Running
<1>3. /\ pc' \in [Threads -> Open \cup {"none", "fresh", "isr", "switch", "iret", "induced", "sti", "wedged"}]
      /\ pc'[cur] = "induced"
      /\ \A t \in Threads \ {cur} : pc'[t] = pc[t]
  BY <1>1, <1>2, Running, NoBoot DEF InducePreemption, TypeOK
<1>4. \A t \in Threads : Place(t)' = Place(t)
  BY <1>1, <1>2, <1>3 DEF InducePreemption, Place
<1>5. StackInv'
  BY <1>2, <1>4, SamePlaces DEF InducePreemption
<1>6. QED BY <1>1, <1>2, <1>3, <1>5, ThreadStep DEF InducePreemption, TypeOK, Open

\* an interrupt comes,
LEMMA InterruptKeeps == ASSUME IInv, Interrupt PROVE IInv'
<1>1. cur # Null /\ flag
  BY DEF Interrupt
<1>2. pc[cur] \in Open /\ cur \in Threads /\ TypeOK /\ StackInv
  <2>1. step > N
    BY <1>1, BootStepsAre DEF IInv, BootInv, TypeOK
  <2>2. QED BY <1>1, <2>1 DEF IInv, FlagInv, TypeOK
<1>3. /\ pc' \in [Threads -> Open \cup {"none", "fresh", "isr", "switch", "iret", "induced", "sti", "wedged"}]
      /\ pc'[cur] = "isr" /\ back'[cur] = pc[cur]
      /\ back' \in [Threads -> Open]
      /\ \A t \in Threads \ {cur} : pc'[t] = pc[t] /\ back'[t] = back[t]
  <2>1. pc[cur] # "boot"
    BY <1>2 DEF Open
  <2>2. QED BY <1>1, <1>2, <2>1, Running, NoBoot DEF Interrupt, TypeOK
<1>4. \A t \in Threads : Place(t)' = Place(t)
  BY <1>1, <1>2, <1>3 DEF Place, Open
<1>5. StackInv'
  BY <1>2, <1>4, SamePlaces DEF Interrupt
<1>6. pc'[cur'] \notin Open /\ flag' = FALSE /\ pc[cur] # "boot"
  BY <1>2, <1>3 DEF Interrupt, Open
<1>7. QED BY <1>1, <1>2, <1>3, <1>5, <1>6, ThreadStep DEF Interrupt, TypeOK

\* a thread changes the flag that selects its interrupt stack,
LEMMA SyscallFlagKeeps == ASSUME IInv, SyscallFlag PROVE IInv'
<1>1. cur # Null /\ pc[cur] = "kernel"
  BY DEF SyscallFlag
<1>2. cur \in Threads /\ TypeOK /\ StackInv /\ flag = TRUE
  BY <1>1, Running DEF Open, TypeOK
<1>3. /\ pc' \in [Threads -> Open \cup {"none", "fresh", "isr", "switch", "iret", "induced", "sti", "wedged"}]
      /\ pc'[cur] = "storage" /\ int2' \in [Threads -> BOOLEAN]
      /\ \A t \in Threads \ {cur} : pc'[t] = pc[t] /\ int2'[t] = int2[t]
  BY <1>1, <1>2, Running, NoBoot DEF SyscallFlag, TypeOK, Open
<1>4. /\ \A t \in Threads \ {cur} : Place(t)' = Place(t)
      /\ Place(cur)' = "storage" /\ Place(cur) = "kernel"
  BY <1>1, <1>2, <1>3 DEF SyscallFlag, Place
<1>5. StackInv'
  BY <1>1, <1>2, <1>3, <1>4 DEF SyscallFlag, StackInv, Selected
<1>6. QED BY <1>1, <1>2, <1>3, <1>5, ThreadStep DEF SyscallFlag, TypeOK, Open, hw

\* stores the selected stack,
LEMMA SyscallStorageKeeps == ASSUME IInv, SyscallStorage PROVE IInv'
<1>1. cur # Null /\ pc[cur] = "storage"
  BY DEF SyscallStorage
<1>2. cur \in Threads /\ TypeOK /\ StackInv /\ flag = TRUE
  BY <1>1, Running DEF Open, TypeOK
<1>3. /\ pc' \in [Threads -> Open \cup {"none", "fresh", "isr", "switch", "iret", "induced", "sti", "wedged"}]
      /\ pc'[cur] = "tss" /\ ist' \in [Threads -> {0, 1}] /\ ist'[cur] = Selected(cur)
      /\ \A t \in Threads \ {cur} : pc'[t] = pc[t] /\ ist'[t] = ist[t]
  BY <1>1, <1>2, Running, NoBoot DEF SyscallStorage, TypeOK, Open, Selected
<1>4. /\ \A t \in Threads \ {cur} : Place(t)' = Place(t)
      /\ Place(cur)' = "tss" /\ Place(cur) = "storage"
  BY <1>1, <1>2, <1>3 DEF SyscallStorage, Place
<1>5. StackInv'
  BY <1>1, <1>2, <1>3, <1>4 DEF SyscallStorage, StackInv, Selected
<1>6. QED BY <1>1, <1>2, <1>3, <1>5, ThreadStep DEF SyscallStorage, TypeOK, Open, hw

\* and loads its end into the task state segment.
LEMMA SyscallTssKeeps == ASSUME IInv, SyscallTss PROVE IInv'
<1>1. cur # Null /\ pc[cur] = "tss"
  BY DEF SyscallTss
<1>2. cur \in Threads /\ TypeOK /\ StackInv /\ flag = TRUE
  BY <1>1, Running DEF Open, TypeOK
<1>3. /\ pc' \in [Threads -> Open \cup {"none", "fresh", "isr", "switch", "iret", "induced", "sti", "wedged"}]
      /\ pc'[cur] \in {"kernel", "stuck"}
      /\ \A t \in Threads \ {cur} : pc'[t] = pc[t]
  BY <1>1, <1>2, Running, NoBoot DEF SyscallTss, TypeOK, Open
<1>4. /\ \A t \in Threads \ {cur} : Place(t)' = Place(t)
      /\ Place(cur)' \in {"kernel", "stuck"} /\ Place(cur) = "tss"
  BY <1>1, <1>2, <1>3 DEF SyscallTss, Place
<1>5. StackInv'
  <2>1. esp0'[1] = cur /\ esp0'[2] = ist[cur]
    BY DEF SyscallTss
  <2>2. QED BY <1>1, <1>2, <1>3, <1>4, <2>1 DEF SyscallTss, StackInv, Selected
<1>6. QED BY <1>1, <1>2, <1>3, <1>5, ThreadStep DEF SyscallTss, TypeOK, Open, hw

\* A device, and a step that changes nothing.
LEMMA SilentKeeps ==
  ASSUME IInv, UNCHANGED <<step, made, multiboot, ranges, flag, thr>>
  PROVE  IInv'
  BY DEF IInv, TypeOK, BootInv, FlagInv, StackInv, RangesSound, Place, Selected, N, MadeBefore, thr

-----------------------------------------------------------------------------
\* Every step of the machine keeps the invariant.
LEMMA NextIInv == IInv /\ [Next]_vars => IInv'
<1> SUFFICES ASSUME IInv, [Next]_vars PROVE IInv'
  OBVIOUS
<1>1. CASE Boot
  BY <1>1, BootKeeps
<1>2. CASE Handle
  BY <1>2, HandleKeeps
<1>3. CASE Iret
  BY <1>3, IretKeeps
<1>4. CASE Sti
  BY <1>4, StiKeeps
<1>5. CASE \E u \in Threads : Switch(u)
  BY <1>5, SwitchKeeps
<1>6. CASE SyscallStorage
  BY <1>6, SyscallStorageKeeps
<1>7. CASE SyscallTss
  BY <1>7, SyscallTssKeeps
<1>8. CASE Interrupt
  BY <1>8, InterruptKeeps
<1>9. CASE InducePreemption
  BY <1>9, InduceKeeps
<1>10. CASE SyscallFlag
  BY <1>10, SyscallFlagKeeps
<1>11. CASE \E i \in Lines : Raise(i)
  BY <1>11, SilentKeeps DEF Raise
<1>12. CASE UNCHANGED vars
  BY <1>12, SilentKeeps DEF vars, hw, thr
<1>13. CASE \E u \in Threads : InitThread(u)
  BY <1>13, InitThreadKeeps
<1>14. QED
  BY <1>1, <1>2, <1>3, <1>4, <1>5, <1>6, <1>7, <1>8, <1>9, <1>10, <1>11, <1>12, <1>13 DEF Next, Kernel

\* The invariant holds from the loader's jump into _i686_init on: interrupts
\* stay disabled until main's sti, and then the flag is set exactly where the
\* current thread may be interrupted.
THEOREM Invariance == Spec => []IInv
<1>1. QED
  BY InitIInv, NextIInv, PTL DEF Spec

\* Whatever the loader reports and wherever the kernel ends, _i686_init gives
\* the allocator whole pages, nothing beyond the memory reported, nothing of the
\* kernel in the upper range, and all but the ends of what fits 32 bits.
THEOREM RangesAlwaysSound == Spec => []RangesSound
<1>1. IInv => RangesSound
  BY DEF IInv
<1>2. QED
  BY Invariance, <1>1, PTL

\* No step of _i686_init and main uses what an earlier one has not set up, and
\* no interrupt comes before all that its handler uses is there.
THEOREM BootAlwaysInOrder == Spec => []BootInOrder
<1>1. ASSUME IInv PROVE BootInOrder
  <2>1. step \in 1..(N + 1) /\ N = 34 /\ made = MadeBefore(step)
    BY <1>1, BootStepsAre DEF IInv, TypeOK, BootInv
  <2>2. step <= N => Needs(BootSteps[step].do) \subseteq made
    BY <2>1, BootOrder
  <2>3. flag => step = N + 1
    BY <1>1, <2>1 DEF IInv, BootInv
  <2>4. QED BY <2>1, <2>2, <2>3, BootOrder DEF BootInOrder, N
<1>2. QED
  BY Invariance, <1>1, PTL

\* For any number of threads, however interrupts and switches fall between the
\* steps of thread_enter_syscall and thread_exit_syscall, the TSS holds a stack
\* of the current thread, and the one its flag selects outside of these.
THEOREM StackAlwaysOfCurrent == Spec => []StackOfCurrent
<1>1. ASSUME IInv PROVE StackOfCurrent
  BY <1>1 DEF IInv, StackInv, StackOfCurrent, Place, Selected, TypeOK
<1>2. QED
  BY Invariance, <1>1, PTL

-----------------------------------------------------------------------------
(***************************************************************************)
(* The search for the multiprocessor tables, for any firmware: what is     *)
(* known of the tables at each step, and of the entries read so far.       *)
(***************************************************************************)

\* The tests that lead to a table: its pointer was found, the first one unless a
\* mapping has failed, and its header is accepted.
Searched == fw.known \cup {"rom"}
WayOK == Pointed /\ (~failed => PointedFirst)
HeaderOK == fw.sig /\ fw.version \in {1, 4}

\* At most one place is mapped, and one that has a pointer.
HeldOK == \A p, q \in held \cap Places : p = q /\ fw.ptr[p] # "none"

\* Without a failed mapping the places before this one have no pointer.
PassedOK(w) ==
  /\ w = "base" => "ebda" \notin fw.known \/ fw.ptr["ebda"] = "none"
  /\ w = "rom" => \A q \in fw.known : fw.ptr[q] = "none"

\* No processor, or all processors up to the n-th entry, are listed.
Listed(n) ==
  \E s \in [1..ncpu -> 1..n] :
    /\ ListsProcs(s, n)
    /\ \A i \in 1..ncpu : i <= MaxCpus => apics[i - 1] = fw.body[s[i]].id
    /\ bootCpu # MaxCpus => bootCpu < ncpu /\ fw.body[s[bootCpu + 1]].boot

\* The entries before this one have been read.
ScanInv ==
  /\ entry - 1 <= Len(fw.body)
  /\ \A i \in 1..(entry - 1) : fw.body[i].type # "unknown"
  /\ Listed(entry - 1)
  /\ \/ ioapic = 0 /\ \A i \in 1..(entry - 1) : fw.body[i].type # "ioapic"
     \/ LastAt("ioapic", entry - 1, ioapic)

\* What mpinit has found at its end.
ResultInv ==
  /\ ismp => Pointed /\ Usable /\ lapic = fw.lapic /\ LastAt("ioapic", Len(fw.body), ioapic) /\ Listed(Len(fw.body))
  /\ ~failed => (ismp <=> PointedFirst /\ Usable)

MpTypes ==
  /\ fw \in Firmware /\ failed \in BOOLEAN /\ ismp \in BOOLEAN
  /\ at \in {"ebda", "base", "rom", "bios", "config", "body", "entry", "finish", "done"}
  /\ entry \in Nat \ {0} /\ ncpu \in Nat /\ ioapic \in Nat /\ bootCpu \in 0..MaxCpus
  /\ apics \in [0..(MaxCpus - 1) -> Nat]

MpInv ==
  /\ MpTypes
  /\ HeldOK /\ (at \in {"ebda", "base", "rom", "bios"} => held \cap Places = {})
  /\ at \notin {"finish", "done"} => ~ismp
  /\ at \notin {"entry", "finish", "done"} => entry = 1 /\ ncpu = 0 /\ ioapic = 0
  /\ at \in {"ebda", "base"} => at \in fw.known
  /\ ~failed => PassedOK(at)
  /\ at \in {"config", "body", "entry"} => WayOK
  /\ at \in {"body", "entry"} => HeaderOK
  /\ at = "entry" => fw.sumOk /\ ScanInv
  /\ at = "finish" => ResultInv
  /\ DescribesMachine

-----------------------------------------------------------------------------
\* The fields of the tables.
LEMMA FirmwareFields ==
  ASSUME fw \in Firmware
  PROVE  /\ fw.known \subseteq {"ebda", "base"} /\ fw.ptr \in [Places -> {"none", "default", "table"}]
         /\ fw.body \in Seq(Entries) /\ fw.lapic \in Nat /\ MaxCpus \in Nat /\ High \in Nat \ {0}
         /\ Len(fw.body) \in Nat
         /\ \A i \in 1..Len(fw.body) :
              /\ fw.body[i].type \in {"proc", "ioapic", "bus", "unknown"} /\ fw.body[i].id \in Nat
              /\ fw.body[i].boot \in BOOLEAN /\ fw.body[i].addr \in Nat
<1>1. /\ fw.known \subseteq {"ebda", "base"} /\ fw.ptr \in [Places -> {"none", "default", "table"}]
      /\ fw.body \in Seq(Entries) /\ fw.lapic \in Nat /\ MaxCpus \in Nat /\ High \in Nat \ {0}
  <2>1. fw \in [ptr : [Places -> {"none", "default", "table"}], known : SUBSET {"ebda", "base"}, sig : BOOLEAN,
        version : Nat, sumOk : BOOLEAN, long : BOOLEAN, lapic : Nat, body : Seq(Entries)]
    BY Zenon, FirmwareOK
  <2>2. QED BY <2>1, FirmwareOK
<1> DEFINE b == fw.body
<1> HIDE DEF b
<1>2. Len(b) \in Nat /\ \A i \in 1..Len(b) : b[i] \in Entries
  <2>1. b \in Seq(Entries)
    BY Zenon, <1>1 DEF b
  <2>2. QED BY <2>1
<1>3. QED BY Zenon, <1>1, <1>2 DEF Entries, b

\* What only depends on the tables, and on what is mapped.
LEMMA SameTables ==
  ASSUME fw' = fw
  PROVE  /\ Pointed' = Pointed /\ PointedFirst' = PointedFirst /\ Usable' = Usable /\ HeaderOK' = HeaderOK
         /\ held' = held /\ HeldOK => HeldOK'
         /\ failed' = failed /\ WayOK => WayOK'
         /\ at' = at /\ PassedOK(at) => PassedOK(at)'
<1>1. Pointed' = Pointed /\ PointedFirst' = PointedFirst
  BY Zenon DEF Pointed, PointedFirst
<1>2. Usable' = Usable /\ HeaderOK' = HeaderOK
  BY Zenon DEF Usable, LastAt, HeaderOK
<1>3. held' = held /\ HeldOK => HeldOK'
  BY Zenon DEF HeldOK
<1>4. failed' = failed /\ WayOK => WayOK'
  BY <1>1 DEF WayOK
<1>5. at' = at /\ PassedOK(at) => PassedOK(at)'
  BY Zenon DEF PassedOK
<1>6. QED BY Zenon, <1>1, <1>2, <1>3, <1>4, <1>5

\* The search begins.
LEMMA MpInitInv == MpInit => MpInv
<1> SUFFICES ASSUME MpInit PROVE MpInv
  BY Zenon
<1>1. 0 \in 0..MaxCpus /\ 1 \in Nat \ {0} /\ 0 \in Nat
  BY FirmwareOK
<1>2. apics \in [0..(MaxCpus - 1) -> Nat]
  BY Zenon, <1>1 DEF MpInit
<1>3. MpTypes
  BY Zenon, <1>1, <1>2 DEF MpInit, MpTypes
<1>4. QED BY Zenon, <1>3 DEF MpInit, MpInv, DescribesMachine, HeldOK, PassedOK, Places

\* Before the entries nothing is known of the machine: a table that is not used
\* because of what it says is not usable.
LEMMA Unusable ==
  ASSUME ~(PointedFirst /\ HeaderOK /\ fw.sumOk)
  PROVE  ~(PointedFirst /\ Usable)
BY Zenon DEF HeaderOK, Usable

\* No entry has been read yet.
LEMMA ScanBegins ==
  ASSUME fw' = fw, fw \in Firmware, entry' = 1, ncpu' = 0, ioapic' = 0, bootCpu' = MaxCpus
  PROVE  ScanInv'
<1>1. Len(fw.body) \in Nat
  BY Zenon, FirmwareFields
<1>2. entry' - 1 = 0 /\ 0 <= Len(fw.body) /\ 1..0 = {} /\ 1..ncpu' = {}
  BY <1>1
<1> DEFINE s == [i \in {} |-> 0]
<1>3. s \in [{} -> 1..0] /\ DOMAIN s = {}
  BY Zenon
<1> HIDE DEF s
<1>4. ListsProcs(s, 0)'
  BY Zenon, <1>2, <1>3 DEF ListsProcs
<1>5. Listed(entry - 1)'
  BY Zenon, <1>2, <1>3, <1>4 DEF Listed, ListsProcs
<1>6. QED BY Zenon, <1>2, <1>5 DEF ScanInv

\* A step of the search: it goes on, it gives up, or it has a table to read.
LEMMA SearchKeeps ==
  ASSUME MpInv, at \notin {"entry", "finish", "done"}, UNCHANGED <<fw, entry, ncpu, apics, ioapic, lapic, ismp>>,
         failed' \in BOOLEAN, failed => failed', HeldOK',
         \/ /\ at' \in {"ebda", "base", "rom"} /\ bootCpu' = bootCpu /\ held' \cap Places = {}
            /\ at' \in {"ebda", "base"} => at' \in fw.known
            /\ ~failed' => PassedOK(at')
         \/ /\ at' \in {"config", "body"} /\ bootCpu' = bootCpu /\ WayOK'
            /\ at' = "body" => HeaderOK
         \/ /\ at' = "finish" /\ bootCpu' = bootCpu
            /\ ~failed' => ~(PointedFirst /\ HeaderOK /\ fw.sumOk)
         \/ at' = "entry" /\ bootCpu' = MaxCpus /\ WayOK' /\ HeaderOK /\ fw.sumOk
  PROVE  MpInv'
<1>1. ~ismp /\ entry = 1 /\ ncpu = 0 /\ ioapic = 0 /\ MpTypes
  BY Zenon DEF MpInv
<1>2. MpTypes'
  <2>1. MaxCpus \in 0..MaxCpus
    BY FirmwareOK
  <2>2. bootCpu' \in 0..MaxCpus
    BY Zenon, <1>1, <2>1 DEF MpTypes
  <2>3. QED BY Zenon, <1>1, <2>2 DEF MpTypes
<1>3. DescribesMachine'
  BY Zenon DEF DescribesMachine, HeldOK
<1>4. at' = "entry" => ScanInv'
  <2>1. ASSUME at' = "entry" PROVE bootCpu' = MaxCpus
    BY Zenon, <2>1
  <2>2. fw' = fw /\ fw \in Firmware /\ entry' = 1 /\ ncpu' = 0 /\ ioapic' = 0
    BY Zenon, <1>1 DEF MpTypes
  <2>3. QED BY Zenon, <2>1, <2>2, ScanBegins
<1>5. at' = "finish" => ResultInv'
  <2>1. ASSUME at' = "finish", ~failed' PROVE ~(PointedFirst /\ Usable)
    BY Zenon, <2>1, Unusable
  <2>2. Usable' = Usable /\ PointedFirst' = PointedFirst
    BY Zenon DEF Usable, LastAt, PointedFirst
  <2>3. QED BY Zenon, <1>1, <2>1, <2>2 DEF ResultInv
<1>6. HeaderOK' = HeaderOK
  BY Zenon DEF HeaderOK
<1>7. ~failed' => PassedOK(at)'
  BY Zenon DEF PassedOK
<1>8. at' \notin {"finish", "done"} => ~ismp'
  BY Zenon, <1>1
<1>9. at' \notin {"entry", "finish", "done"} => entry' = 1 /\ ncpu' = 0 /\ ioapic' = 0
  BY Zenon, <1>1
<1>10. /\ at' \in {"ebda", "base", "rom", "bios"} => held' \cap Places = {}
       /\ at' \in {"ebda", "base"} => at' \in fw'.known
       /\ at' \in {"config", "body", "entry"} => WayOK'
       /\ at' \in {"body", "entry"} => HeaderOK'
       /\ at' = "entry" => fw'.sumOk
  BY Zenon, <1>6
<1>11. QED BY Zenon, <1>2, <1>3, <1>4, <1>5, <1>7, <1>8, <1>9, <1>10 DEF MpInv

\* The BIOS data area.
LEMMA GetMpKeeps == ASSUME MpInv, GetMp PROVE MpInv'
<1>1. at = "bios" /\ UNCHANGED <<fw, held, entry, ncpu, apics, bootCpu, ioapic, lapic, ismp>>
  BY Zenon DEF GetMp
<1>2. fw.known \subseteq {"ebda", "base"} /\ failed \in BOOLEAN
  BY Zenon, FirmwareFields DEF MpInv, MpTypes
<1>3. HeldOK' /\ held' \cap Places = {}
  BY Zenon, <1>1 DEF MpInv, HeldOK
<1>4. CASE failed' = TRUE /\ at' = "rom"
  BY Zenon, <1>1, <1>3, <1>4, SearchKeeps
<1>5. CASE /\ at' = (IF "ebda" \in fw.known THEN "ebda" ELSE IF "base" \in fw.known THEN "base" ELSE "rom")
           /\ failed' = failed
  <2>1. /\ at' \in {"ebda", "base", "rom"} /\ (at' \in {"ebda", "base"} => at' \in fw.known)
        /\ at' = "base" => "ebda" \notin fw.known
        /\ at' = "rom" => \A q \in fw.known : fw.ptr[q] = "none"
    BY Zenon, <1>2, <1>5
  <2>2. PassedOK(at')
    BY Zenon, <2>1 DEF PassedOK
  <2>3. QED BY Zenon, <1>1, <1>2, <1>3, <1>5, <2>1, <2>2, SearchKeeps
<1>6. QED BY Zenon, <1>4, <1>5 DEF GetMp

\* Of two places that are searched one comes first.
LEMMA PlacesOrdered ==
  ASSUME fw.known \subseteq {"ebda", "base"}, NEW w \in Searched, PassedOK(w), fw.ptr[w] # "none"
  PROVE  PointedFirst <=> fw.ptr[w] = "table"
<1> DEFINE Before(q, p) == <<q, p>> \in {<<"ebda", "base">>, <<"ebda", "rom">>, <<"base", "rom">>}
<1>1. Searched \subseteq {"ebda", "base", "rom"}
  BY Zenon DEF Searched
<1>2. ASSUME NEW q \in Searched, Before(q, w) PROVE fw.ptr[q] = "none"
  <2>1. \/ q = "ebda" /\ w = "base"
        \/ q = "ebda" /\ w = "rom"
        \/ q = "base" /\ w = "rom"
    BY <1>2
  <2>2. q \in fw.known
    BY Zenon, <1>2, <2>1 DEF Searched
  <2>3. QED BY Zenon, <2>1, <2>2 DEF PassedOK
<1>3. ASSUME NEW p \in Searched, p # w PROVE Before(p, w) \/ Before(w, p)
  BY Zenon, <1>1, <1>3
<1> HIDE DEF Before
<1>4. PointedFirst <=> \E p \in Searched : fw.ptr[p] = "table" /\ \A q \in Searched : Before(q, p) => fw.ptr[q] = "none"
  BY Zenon DEF PointedFirst, Searched, Before
<1>5. ASSUME NEW p \in Searched, fw.ptr[p] = "table", \A q \in Searched : Before(q, p) => fw.ptr[q] = "none"
      PROVE  fw.ptr[w] = "table"
  <2>1. p = w \/ Before(p, w) \/ Before(w, p)
    BY Zenon, <1>3
  <2>2. QED BY Zenon, <1>2, <1>5, <2>1
<1>6. QED BY Zenon, <1>2, <1>4, <1>5

\* A place that is searched.
LEMMA MpSearchKeeps == ASSUME MpInv, MpSearch PROVE MpInv'
<1>1. PICK ok \in BOOLEAN : /\ failed' = (failed \/ ~ok)
                            /\ held' = IF ok /\ fw.ptr[at] # "none" THEN held \cup {at} ELSE held
                            /\ IF ok /\ fw.ptr[at] # "none" THEN Found ELSE NotFound
  BY Zenon DEF MpSearch
<1>2. /\ at \in Places /\ at \notin {"entry", "finish", "done"}
      /\ UNCHANGED <<fw, entry, ncpu, apics, ioapic, lapic, ismp>>
  BY Zenon DEF MpSearch, Places
<1>3. /\ failed \in BOOLEAN /\ at \in {"ebda", "base", "rom"} /\ held \cap Places = {}
      /\ at \in {"ebda", "base"} => at \in fw.known
      /\ ~failed => PassedOK(at)
      /\ fw.known \subseteq {"ebda", "base"} /\ fw.ptr \in [Places -> {"none", "default", "table"}]
  BY Zenon, <1>2, FirmwareFields DEF MpInv, MpTypes, Places
<1>4. failed' \in BOOLEAN /\ (failed => failed') /\ HeldOK'
  BY Zenon, <1>1, <1>2, <1>3 DEF HeldOK
<1>5. CASE ok /\ fw.ptr[at] # "none"
  <2>1. Found /\ at \in Searched /\ failed' = failed
    BY Zenon, <1>1, <1>3, <1>5 DEF Searched
  <2>2. ~failed => (PointedFirst <=> fw.ptr[at] = "table")
    BY Zenon, <1>3, <1>5, <2>1, PlacesOrdered
  <2>3. CASE fw.ptr[at] = "default"
    BY Zenon, <1>2, <1>4, <2>1, <2>2, <2>3, SearchKeeps DEF Found, NoConf
  <2>4. CASE fw.ptr[at] = "table"
    <3>1. at' = "config" /\ bootCpu' = bootCpu
      BY Zenon, <2>1, <2>4 DEF Found
    <3>2. WayOK'
      BY Zenon, <1>2, <2>1, <2>2, <2>4 DEF WayOK, Pointed, PointedFirst, Searched
    <3>3. QED BY Zenon, <1>2, <1>4, <3>1, <3>2, SearchKeeps
  <2>5. QED BY Zenon, <1>2, <1>3, <1>5, <2>3, <2>4
<1>6. CASE ~(ok /\ fw.ptr[at] # "none")
  <2>1. NotFound /\ held' = held /\ (~failed' => ~failed /\ fw.ptr[at] = "none")
    BY Zenon, <1>1, <1>3, <1>6
  <2>2. CASE at = "rom"
    <3>1. ~failed' => ~PointedFirst
      BY Zenon, <1>3, <2>1, <2>2 DEF PointedFirst, PassedOK
    <3>2. QED BY Zenon, <1>2, <1>4, <2>1, <2>2, <3>1, SearchKeeps DEF NotFound, NoConf
  <2>3. CASE at # "rom"
    <3>1. bootCpu' = bootCpu /\ at' = (IF at = "ebda" /\ "base" \in fw.known THEN "base" ELSE "rom")
      BY Zenon, <2>1, <2>3 DEF NotFound
    <3>2. at' \in {"ebda", "base", "rom"} /\ (at' \in {"ebda", "base"} => at' \in fw.known)
      BY Zenon, <3>1
    <3>3. ~failed' => PassedOK(at')
      <4>1. CASE at = "ebda"
        BY Zenon, <1>3, <2>1, <3>1, <4>1 DEF PassedOK
      <4>2. CASE at = "base"
        BY Zenon, <1>3, <2>1, <3>1, <4>2 DEF PassedOK
      <4>3. QED BY Zenon, <1>3, <2>3, <4>1, <4>2
    <3>4. QED BY Zenon, <1>2, <1>3, <1>4, <2>1, <3>1, <3>2, <3>3, SearchKeeps
  <2>4. QED BY Zenon, <2>2, <2>3
<1>7. QED BY Zenon, <1>5, <1>6

\* The header of the table, and its body.
LEMMA MpConfigKeeps == ASSUME MpInv, MpConfig \/ MpConfigBody PROVE MpInv'
<1>1. /\ at \in {"config", "body"} /\ at \notin {"entry", "finish", "done"}
      /\ UNCHANGED <<fw, entry, ncpu, apics, ioapic, lapic, ismp>>
  BY Zenon DEF MpConfig, MpConfigBody
<1>2. /\ failed \in BOOLEAN /\ HeldOK /\ WayOK
      /\ at = "body" => HeaderOK
  BY Zenon, <1>1 DEF MpInv, MpTypes
<1> DEFINE Goes == \/ at' = "finish" /\ bootCpu' = bootCpu /\ ~(HeaderOK /\ fw.sumOk)
                   \/ at' = "entry" /\ bootCpu' = MaxCpus /\ HeaderOK /\ fw.sumOk
                   \/ at' = "body" /\ bootCpu' = bootCpu /\ HeaderOK
<1>3. \/ failed' = TRUE /\ NoConf /\ held' = held
      \/ failed' = failed /\ held' \in {held \cup {"table"}, held \cup {"body"}} /\ Goes
  <2>1. CASE MpConfig
    BY Zenon, <2>1 DEF MpConfig, Conf, NoConf, HeaderOK
  <2>2. CASE MpConfigBody
    BY Zenon, <1>2, <2>2 DEF MpConfigBody, Conf, NoConf
  <2>3. QED BY Zenon, <2>1, <2>2
<1>4. CASE failed' = TRUE /\ NoConf /\ held' = held
  <2>1. HeldOK'
    BY Zenon, <1>1, <1>2, <1>4 DEF HeldOK
  <2>2. QED BY Zenon, <1>1, <1>2, <1>4, <2>1, SearchKeeps DEF NoConf
<1>5. CASE failed' = failed /\ held' \in {held \cup {"table"}, held \cup {"body"}} /\ Goes
  <2>0. held' \cap Places = held \cap Places
    BY Zenon, <1>5 DEF Places
  <2>1. failed' \in BOOLEAN /\ (failed => failed') /\ HeldOK' /\ WayOK'
    BY Zenon, <1>1, <1>2, <1>5, <2>0 DEF HeldOK, WayOK, Pointed, PointedFirst
  <2>2. CASE at' = "body" /\ bootCpu' = bootCpu /\ HeaderOK
    BY Zenon, <1>1, <1>2, <2>1, <2>2, SearchKeeps
  <2>3. CASE \/ at' = "finish" /\ bootCpu' = bootCpu /\ ~(HeaderOK /\ fw.sumOk)
             \/ at' = "entry" /\ bootCpu' = MaxCpus /\ HeaderOK /\ fw.sumOk
    BY Zenon, <1>1, <1>2, <2>1, <2>3, SearchKeeps
  <2>4. QED BY Zenon, <1>5, <2>2, <2>3
<1>6. QED BY Zenon, <1>3, <1>4, <1>5

-----------------------------------------------------------------------------
\* One more entry: a processor is appended to the list,
LEMMA ProcAppended ==
  ASSUME NEW n \in Nat, NEW c \in Nat, NEW s \in [1..c -> 1..n], ListsProcs(s, n),
         fw.body[n + 1].type = "proc"
  PROVE  \E t \in [1..(c + 1) -> 1..(n + 1)] :
           ListsProcs(t, n + 1) /\ t[c + 1] = n + 1 /\ \A k \in 1..c : t[k] = s[k]
<1> DEFINE t == [k \in 1..(c + 1) |-> IF k = c + 1 THEN n + 1 ELSE s[k]]
<1>1. /\ t \in [1..(c + 1) -> 1..(n + 1)] /\ t[c + 1] = n + 1 /\ DOMAIN t = 1..(c + 1) /\ DOMAIN s = 1..c
      /\ \A k \in 1..c : t[k] = s[k] /\ s[k] \in 1..n
      /\ 1..(c + 1) = 1..c \cup {c + 1} /\ 1..(n + 1) = 1..n \cup {n + 1}
  OBVIOUS
<1> HIDE DEF t
<1>2. \A i, j \in DOMAIN t : i < j => t[i] < t[j]
  <2>1. \A i, j \in 1..c : i < j => s[i] < s[j]
    BY Zenon, <1>1 DEF ListsProcs
  <2>2. ASSUME NEW i \in 1..(c + 1), NEW j \in 1..(c + 1), i < j PROVE t[i] < t[j]
    <3>1. i \in 1..c /\ (j \in 1..c \/ j = c + 1)
      BY <2>2
    <3>2. t[i] = s[i] /\ s[i] \in 1..n
      BY Zenon, <1>1, <3>1
    <3>3. s[i] < n + 1
      BY <3>2
    <3>4. QED BY Zenon, <1>1, <2>1, <2>2, <3>1, <3>2, <3>3
  <2>3. QED BY Zenon, <1>1, <2>2
<1>3. \A i \in 1..(n + 1) : fw.body[i].type = "proc" <=> \E k \in DOMAIN t : t[k] = i
  <2>1. ASSUME NEW i \in 1..n PROVE fw.body[i].type = "proc" <=> \E k \in 1..c : t[k] = i
    BY Zenon, <1>1 DEF ListsProcs
  <2>2. \A i \in 1..n : t[c + 1] # i
    BY <1>1
  <2>3. QED BY Zenon, <1>1, <2>1, <2>2
<1>4. QED BY Zenon, <1>1, <1>2, <1>3 DEF ListsProcs

\* any other entry leaves it as it is.
LEMMA ProcsKept ==
  ASSUME NEW n \in Nat, NEW c \in Nat, NEW s \in [1..c -> 1..n], ListsProcs(s, n),
         fw.body[n + 1].type # "proc"
  PROVE  s \in [1..c -> 1..(n + 1)] /\ ListsProcs(s, n + 1)
<1>1. /\ 1..(n + 1) = 1..n \cup {n + 1} /\ DOMAIN s = 1..c
      /\ \A k \in 1..c : s[k] \in 1..n /\ s[k] # n + 1
  OBVIOUS
<1>2. s \in [1..c -> 1..(n + 1)]
  BY Zenon, <1>1
<1>3. QED BY Zenon, <1>1, <1>2 DEF ListsProcs

\* The last entry of a type: a new one, or the one it was.
LEMMA LastNext ==
  ASSUME NEW n \in Nat, NEW type, NEW a
  PROVE  /\ fw.body[n + 1].type = type /\ fw.body[n + 1].addr = a => LastAt(type, n + 1, a)
         /\ fw.body[n + 1].type # type /\ LastAt(type, n, a) => LastAt(type, n + 1, a)
<1>1. /\ n + 1 \in 1..(n + 1) /\ (n + 1 + 1)..(n + 1) = {}
      /\ \A i \in 1..n : i \in 1..(n + 1) /\ (i + 1)..(n + 1) = ((i + 1)..n) \cup {n + 1}
  OBVIOUS
<1>2. QED BY Zenon, <1>1 DEF LastAt

\* There is one last entry.
LEMMA LastUnique ==
  ASSUME NEW n \in Nat, NEW type, NEW a, NEW b, LastAt(type, n, a), LastAt(type, n, b)
  PROVE  a = b
<1>1. PICK i \in 1..n : /\ fw.body[i].type = type /\ fw.body[i].addr = a
                        /\ \A j \in (i + 1)..n : fw.body[j].type # type
  BY Zenon DEF LastAt
<1>2. PICK k \in 1..n : /\ fw.body[k].type = type /\ fw.body[k].addr = b
                        /\ \A j \in (k + 1)..n : fw.body[j].type # type
  BY Zenon DEF LastAt
<1>3. i = k \/ i \in (k + 1)..n \/ k \in (i + 1)..n
  OBVIOUS
<1>4. QED BY Zenon, <1>1, <1>2, <1>3

\* The entries together say what the tables, read as a whole, say.
LEMMA ScanTells ==
  ASSUME MpInv, at = "entry", entry > Len(fw.body)
  PROVE  /\ Listed(Len(fw.body))
         /\ Usable <=> (ncpu >= 1 /\ ioapic >= High /\ fw.lapic >= High)
         /\ ioapic >= High => LastAt("ioapic", Len(fw.body), ioapic)
<1> DEFINE n == Len(fw.body)
<1>1. /\ fw \in Firmware /\ entry \in Nat /\ ncpu \in Nat /\ ioapic \in Nat /\ ScanInv /\ fw.sumOk
      /\ HeaderOK
  BY Zenon DEF MpInv, MpTypes
<1>2. n \in Nat /\ High \in Nat \ {0} /\ \A i \in 1..n : fw.body[i].addr \in Nat
  BY Zenon, <1>1, FirmwareFields
<1>3. entry - 1 = n
  <2>1. entry - 1 <= n
    BY Zenon, <1>1 DEF ScanInv
  <2>2. QED BY <1>1, <1>2, <2>1
<1>4. /\ \A i \in 1..n : fw.body[i].type # "unknown"
      /\ Listed(n)
      /\ \/ ioapic = 0 /\ \A i \in 1..n : fw.body[i].type # "ioapic"
         \/ LastAt("ioapic", n, ioapic)
  BY Zenon, <1>1, <1>3 DEF ScanInv
<1> HIDE DEF n
<1>5. ncpu >= 1 <=> \E i \in 1..n : fw.body[i].type = "proc"
  <2>1. PICK s \in [1..ncpu -> 1..n] : ListsProcs(s, n)
    BY Zenon, <1>4 DEF Listed
  <2>2. (ncpu >= 1 <=> 1 \in 1..ncpu) /\ \A k \in 1..ncpu : 1 \in 1..ncpu
    BY <1>1
  <2>3. DOMAIN s = 1..ncpu /\ \A k \in 1..ncpu : s[k] \in 1..n
    BY Zenon
  <2>4. QED BY Zenon, <2>1, <2>2, <2>3 DEF ListsProcs
<1>6. ioapic >= High => LastAt("ioapic", n, ioapic)
  <2>1. ioapic # 0 \/ ~(ioapic >= High)
    BY <1>1, <1>2
  <2>2. QED BY Zenon, <1>4, <2>1
<1>7. ioapic >= High <=> \E i \in 1..n : LastAt("ioapic", n, fw.body[i].addr) /\ fw.body[i].addr >= High
  <2>1. ASSUME ioapic >= High PROVE \E i \in 1..n : LastAt("ioapic", n, fw.body[i].addr) /\ fw.body[i].addr >= High
    BY Zenon, <1>6, <2>1 DEF LastAt
  <2>2. ASSUME NEW i \in 1..n, LastAt("ioapic", n, fw.body[i].addr), fw.body[i].addr >= High
        PROVE  ioapic >= High
    <3>1. LastAt("ioapic", n, ioapic)
      BY Zenon, <1>4, <2>2 DEF LastAt
    <3>2. QED BY Zenon, <1>2, <2>2, <3>1, LastUnique
  <2>3. QED BY Zenon, <2>1, <2>2
<1>8. Usable <=> (ncpu >= 1 /\ ioapic >= High /\ fw.lapic >= High)
  BY Zenon, <1>1, <1>4, <1>5, <1>7 DEF Usable, HeaderOK, n
<1>9. QED BY Zenon, <1>4, <1>6, <1>8 DEF n

\* A processor's entry: it is the next one of the list.
LEMMA ProcEntry ==
  ASSUME MpTypes, NEW n \in Nat, n + 1 <= Len(fw.body), Listed(n), fw.body[n + 1].type = "proc",
         fw' = fw, ncpu' = ncpu + 1,
         apics' = IF ncpu < MaxCpus THEN [apics EXCEPT ![ncpu] = fw.body[n + 1].id] ELSE apics,
         bootCpu' = IF ncpu < MaxCpus /\ fw.body[n + 1].boot THEN ncpu ELSE bootCpu
  PROVE  Listed(n + 1)'
<1> DEFINE c == ncpu
           e == fw.body[n + 1]
<1>1. /\ c \in Nat /\ bootCpu \in 0..MaxCpus /\ apics \in [0..(MaxCpus - 1) -> Nat] /\ MaxCpus \in Nat
  BY Zenon, FirmwareOK DEF MpTypes
<1>2. PICK s \in [1..c -> 1..n] :
        /\ ListsProcs(s, n)
        /\ \A i \in 1..c : i <= MaxCpus => apics[i - 1] = fw.body[s[i]].id
        /\ bootCpu # MaxCpus => bootCpu < c /\ fw.body[s[bootCpu + 1]].boot
  BY Zenon DEF Listed
<1> HIDE DEF c
<1>3. PICK t \in [1..(c + 1) -> 1..(n + 1)] :
        ListsProcs(t, n + 1) /\ t[c + 1] = n + 1 /\ \A k \in 1..c : t[k] = s[k]
  BY Zenon, <1>1, <1>2, ProcAppended
<1>4. ListsProcs(t, n + 1)'
  BY Zenon, <1>3 DEF ListsProcs
<1>5. ASSUME NEW i \in 1..(c + 1), i <= MaxCpus PROVE apics'[i - 1] = fw.body[t[i]].id
  <2>1. CASE i = c + 1
    <3>1. c < MaxCpus /\ i - 1 = c /\ c \in 0..(MaxCpus - 1)
      BY <1>1, <1>5, <2>1
    <3>2. apics' = [apics EXCEPT ![c] = e.id]
      BY Zenon, <3>1 DEF c
    <3>3. apics'[c] = e.id
      BY Zenon, <1>1, <3>1, <3>2
    <3>4. QED BY Zenon, <1>3, <2>1, <3>1, <3>3
  <2>2. CASE i # c + 1
    <3>1. i \in 1..c /\ i - 1 # c
      BY <1>1, <2>2
    <3>2. apics[i - 1] = fw.body[t[i]].id
      BY Zenon, <1>2, <1>3, <1>5, <3>1
    <3>3. i - 1 \in 0..(MaxCpus - 1)
      BY <1>1, <1>5
    <3>4. apics'[i - 1] = apics[i - 1]
      BY Zenon, <1>1, <3>1, <3>3 DEF c
    <3>5. QED BY Zenon, <3>2, <3>4
  <2>3. QED BY Zenon, <2>1, <2>2
<1>6. ASSUME bootCpu' # MaxCpus PROVE bootCpu' < c + 1 /\ fw.body[t[bootCpu' + 1]].boot
  <2>1. CASE c < MaxCpus /\ e.boot
    <3>1. bootCpu' = c
      BY Zenon, <2>1 DEF c
    <3>2. c < c + 1
      BY <1>1
    <3>3. QED BY Zenon, <1>3, <2>1, <3>1, <3>2
  <2>2. CASE ~(c < MaxCpus /\ e.boot)
    <3>1. bootCpu' = bootCpu
      BY Zenon, <2>2 DEF c
    <3>2. bootCpu < c /\ fw.body[s[bootCpu + 1]].boot
      BY Zenon, <1>2, <1>6, <3>1
    <3>3. bootCpu < c + 1 /\ bootCpu + 1 \in 1..c
      BY <1>1, <3>2
    <3>4. QED BY Zenon, <1>3, <3>1, <3>2, <3>3
  <2>3. QED BY Zenon, <2>1, <2>2
<1>7. /\ t \in [1..ncpu' -> 1..(n + 1)]
      /\ \A i \in 1..ncpu' : i <= MaxCpus => apics'[i - 1] = fw'.body[t[i]].id
      /\ bootCpu' # MaxCpus => bootCpu' < ncpu' /\ fw'.body[t[bootCpu' + 1]].boot
  <2>1. ncpu' = c + 1
    BY Zenon DEF c
  <2>2. QED BY Zenon, <1>3, <1>5, <1>6, <2>1
<1>8. QED BY Zenon, <1>4, <1>7 DEF Listed

\* One entry.
LEMMA EntryKeeps == ASSUME MpInv, MpEntry PROVE MpInv'
<1> DEFINE e == fw.body[entry]
<1>1. /\ at = "entry" /\ entry <= Len(fw.body) /\ UNCHANGED <<fw, held, failed, ismp>>
      /\ ncpu' = IF e.type = "proc" THEN ncpu + 1 ELSE ncpu
      /\ apics' = IF e.type = "proc" /\ ncpu < MaxCpus THEN [apics EXCEPT ![ncpu] = e.id] ELSE apics
      /\ bootCpu' = IF e.type = "proc" /\ ncpu < MaxCpus /\ e.boot THEN ncpu ELSE bootCpu
      /\ ioapic' = IF e.type = "ioapic" THEN e.addr ELSE ioapic
      /\ IF e.type = "unknown" THEN at' = "finish" /\ lapic' = fw.lapic /\ UNCHANGED entry
                               ELSE entry' = entry + 1 /\ UNCHANGED <<at, lapic>>
  BY Zenon DEF MpEntry
<1>2. /\ MpTypes /\ HeldOK /\ WayOK /\ ~ismp /\ ScanInv /\ fw.sumOk /\ HeaderOK
  BY Zenon, <1>1 DEF MpInv
<1>3. /\ fw \in Firmware /\ entry \in Nat \ {0} /\ ncpu \in Nat /\ ioapic \in Nat /\ bootCpu \in 0..MaxCpus
      /\ apics \in [0..(MaxCpus - 1) -> Nat] /\ MaxCpus \in Nat /\ Len(fw.body) \in Nat
  BY Zenon, <1>2, FirmwareFields DEF MpTypes
<1>n. PICK n \in Nat : n = entry - 1
  BY <1>3
<1>4. n + 1 = entry /\ n = entry - 1 /\ entry \in 1..Len(fw.body) /\ entry + 1 \in Nat \ {0} /\ ncpu + 1 \in Nat
      /\ (entry + 1) - 1 = entry /\ 1..entry = 1..n \cup {entry}
  BY <1>1, <1>3, <1>n
<1>5. e.id \in Nat /\ e.addr \in Nat /\ e.boot \in BOOLEAN
  BY Zenon, <1>3, <1>4, FirmwareFields
<1> HIDE DEF e
<1>6. MpTypes'
  <2>1. ncpu < MaxCpus => ncpu \in 0..MaxCpus
    BY <1>3
  <2>2. bootCpu' \in 0..MaxCpus
    BY Zenon, <1>1, <1>3, <2>1
  <2>3. apics' \in [0..(MaxCpus - 1) -> Nat]
    BY Zenon, <1>1, <1>3, <1>5
  <2>4. ncpu' \in Nat /\ ioapic' \in Nat /\ entry' \in Nat \ {0}
    BY Zenon, <1>1, <1>3, <1>4, <1>5
  <2>5. at' \in {"entry", "finish"}
    BY Zenon, <1>1
  <2>6. QED BY Zenon, <1>1, <1>2, <2>2, <2>3, <2>4, <2>5 DEF MpTypes
<1>7. at' \in {"entry", "finish"} /\ HeldOK' /\ WayOK' /\ HeaderOK' /\ DescribesMachine'
  <2>1. at' \in {"entry", "finish"}
    BY Zenon, <1>1
  <2>2. HeldOK' /\ WayOK' /\ HeaderOK'
    BY Zenon, <1>1, <1>2, SameTables
  <2>3. QED BY Zenon, <2>1, <2>2 DEF DescribesMachine, HeldOK
<1>8. CASE e.type = "unknown"
  <2>1. ~Usable
    BY Zenon, <1>4, <1>8 DEF Usable, e
  <2>2. Usable' = Usable
    BY Zenon, <1>1, SameTables
  <2>3. ResultInv'
    BY Zenon, <1>1, <1>2, <2>1, <2>2 DEF ResultInv
  <2>4. at' = "finish"
    BY Zenon, <1>1, <1>8
  <2>5. QED BY Zenon, <1>6, <1>7, <2>3, <2>4 DEF MpInv, PassedOK
<1>9. CASE e.type # "unknown"
  <2>1. entry' = entry + 1 /\ entry' - 1 = entry /\ at' = "entry"
    BY Zenon, <1>1, <1>4, <1>9
  <2>2. Listed(n)
    BY Zenon, <1>2, <1>4 DEF ScanInv
  <2>3. Listed(n + 1)'
    <3>1. CASE e.type = "proc"
      <4>1. /\ n + 1 <= Len(fw.body) /\ fw.body[n + 1].type = "proc" /\ fw' = fw /\ ncpu' = ncpu + 1
            /\ apics' = IF ncpu < MaxCpus THEN [apics EXCEPT ![ncpu] = fw.body[n + 1].id] ELSE apics
            /\ bootCpu' = IF ncpu < MaxCpus /\ fw.body[n + 1].boot THEN ncpu ELSE bootCpu
        BY Zenon, <1>1, <1>4, <3>1 DEF e
      <4>2. QED BY Zenon, <1>2, <2>2, <4>1, ProcEntry
    <3>2. CASE e.type # "proc"
      <4>1. PICK s \in [1..ncpu -> 1..n] :
              /\ ListsProcs(s, n)
              /\ \A i \in 1..ncpu : i <= MaxCpus => apics[i - 1] = fw.body[s[i]].id
              /\ bootCpu # MaxCpus => bootCpu < ncpu /\ fw.body[s[bootCpu + 1]].boot
        BY Zenon, <2>2 DEF Listed
      <4>2. fw.body[n + 1].type # "proc"
        BY Zenon, <1>4, <3>2 DEF e
      <4>3. s \in [1..ncpu -> 1..(n + 1)] /\ ListsProcs(s, n + 1)
        BY Zenon, <1>3, <1>4, <4>1, <4>2, ProcsKept
      <4>4. UNCHANGED <<fw, ncpu, apics, bootCpu>>
        BY Zenon, <1>1, <3>2
      <4>5. Listed(n + 1)
        BY Zenon, <4>1, <4>3 DEF Listed
      <4>6. QED BY Zenon, <4>4, <4>5 DEF Listed, ListsProcs
    <3>3. QED BY Zenon, <3>1, <3>2
  <2>4. \A i \in 1..entry : fw.body[i].type # "unknown"
    BY Zenon, <1>2, <1>4, <1>9 DEF ScanInv, e
  <2>5. \/ ioapic' = 0 /\ \A i \in 1..(n + 1) : fw.body[i].type # "ioapic"
        \/ LastAt("ioapic", n + 1, ioapic)'
    <3>1. \/ ioapic = 0 /\ \A i \in 1..n : fw.body[i].type # "ioapic"
          \/ LastAt("ioapic", n, ioapic)
      BY Zenon, <1>2, <1>4 DEF ScanInv
    <3>2. PICK a \in Nat : a = ioapic'
      BY Zenon, <1>6 DEF MpTypes
    <3>3. LastAt("ioapic", n + 1, a) => LastAt("ioapic", n + 1, ioapic)'
      BY Zenon, <1>1, <3>2 DEF LastAt
    <3>4. CASE e.type = "ioapic"
      <4>1. fw.body[n + 1].type = "ioapic" /\ fw.body[n + 1].addr = a
        BY Zenon, <1>1, <1>4, <3>2, <3>4 DEF e
      <4>2. QED BY Zenon, <3>3, <4>1, LastNext
    <3>5. CASE e.type # "ioapic"
      <4>1. fw.body[n + 1].type # "ioapic" /\ a = ioapic
        BY Zenon, <1>1, <1>4, <3>2, <3>5 DEF e
      <4>2. QED BY Zenon, <1>4, <3>1, <3>2, <3>3, <4>1, LastNext
    <3>6. QED BY Zenon, <3>4, <3>5
  <2>6. ScanInv'
    <3>1. entry' - 1 = n + 1 /\ n + 1 <= Len(fw.body) /\ fw' = fw
      BY Zenon, <1>1, <1>4, <2>1
    <3>2. QED BY Zenon, <1>4, <2>3, <2>4, <2>5, <3>1 DEF ScanInv, Listed, LastAt
  <2>7. fw'.sumOk /\ ~ismp'
    BY Zenon, <1>1, <1>2
  <2>8. QED BY Zenon, <1>6, <1>7, <2>1, <2>6, <2>7 DEF MpInv, PassedOK
<1>10. QED BY Zenon, <1>8, <1>9

\* The end of the entries.
LEMMA EntriesEndKeeps == ASSUME MpInv, MpEntriesEnd PROVE MpInv'
<1>1. /\ at = "entry" /\ entry > Len(fw.body) /\ at' = "finish" /\ lapic' = fw.lapic
      /\ ismp' = (ncpu >= 1 /\ ioapic >= High /\ fw.lapic >= High)
      /\ UNCHANGED <<fw, held, failed, entry, ncpu, apics, bootCpu, ioapic>>
  BY Zenon DEF MpEntriesEnd
<1>2. /\ Listed(Len(fw.body)) /\ (ismp' <=> Usable) /\ (ismp' => LastAt("ioapic", Len(fw.body), ioapic))
  BY Zenon, <1>1, ScanTells
<1>3. MpTypes /\ HeldOK /\ WayOK
  BY Zenon, <1>1 DEF MpInv
<1>4. ismp' \in BOOLEAN
  BY Zenon, <1>1
<1>5. MpTypes'
  BY Zenon, <1>1, <1>3, <1>4 DEF MpTypes
<1>6. ResultInv'
  <2>1. Usable' = Usable /\ Pointed' /\ (~failed' => PointedFirst')
    BY Zenon, <1>1, <1>3, SameTables DEF WayOK
  <2>2. Listed(Len(fw.body))'
    BY Zenon, <1>1, <1>2 DEF Listed, ListsProcs
  <2>3. ismp' => LastAt("ioapic", Len(fw.body), ioapic)'
    BY Zenon, <1>1, <1>2 DEF LastAt
  <2>4. QED BY Zenon, <1>1, <1>2, <2>1, <2>2, <2>3 DEF ResultInv
<1>7. HeldOK' /\ DescribesMachine'
  <2>1. HeldOK'
    BY Zenon, <1>1, <1>3, SameTables
  <2>2. QED BY Zenon, <1>1, <2>1 DEF DescribesMachine, HeldOK
<1>8. QED BY Zenon, <1>1, <1>5, <1>6, <1>7 DEF MpInv, PassedOK

\* The results.
LEMMA FinishKeeps == ASSUME MpInv, MpFinish PROVE MpInv'
<1>1. /\ at = "finish" /\ at' = "done" /\ UNCHANGED <<fw, held, failed, entry, apics, ismp>>
      /\ IF ismp THEN UNCHANGED <<ncpu, bootCpu, ioapic, lapic>>
         ELSE ncpu' = 1 /\ bootCpu' = 0 /\ ioapic' = 0 /\ lapic' = 0
  BY Zenon DEF MpFinish
<1>2. MpTypes /\ HeldOK /\ ResultInv
  BY Zenon, <1>1 DEF MpInv
<1>3. MpTypes'
  <2>1. 0 \in 0..MaxCpus /\ 0 \in Nat /\ 1 \in Nat
    BY FirmwareOK
  <2>2. QED BY Zenon, <1>1, <1>2, <2>1 DEF MpTypes
<1>4. HeldOK' /\ DescribesMachine'
  <2>1. Usable' = Usable /\ Pointed' = Pointed /\ PointedFirst' = PointedFirst /\ HeldOK'
    BY Zenon, <1>1, <1>2, SameTables
  <2>2. CASE ismp
    <3>1. /\ Pointed /\ Usable /\ (~failed => PointedFirst) /\ lapic = fw.lapic /\ LastAt("ioapic", Len(fw.body), ioapic) /\ Listed(Len(fw.body))
      BY Zenon, <1>2, <2>2 DEF ResultInv
    <3>2. UNCHANGED <<fw, apics, ncpu, bootCpu, ioapic, lapic>>
      BY Zenon, <1>1, <2>2
    <3>3. Listed(Len(fw.body))'
      BY Zenon, <3>1, <3>2 DEF Listed, ListsProcs
    <3>4. LastAt("ioapic", Len(fw.body), ioapic)'
      BY Zenon, <3>1, <3>2 DEF LastAt
    <3>5. QED BY Zenon, <1>1, <2>1, <2>2, <3>1, <3>2, <3>3, <3>4 DEF DescribesMachine, Listed, HeldOK
  <2>3. CASE ~ismp
    BY Zenon, <1>1, <1>2, <2>1, <2>3 DEF DescribesMachine, ResultInv, HeldOK
  <2>4. QED BY Zenon, <2>2, <2>3
<1>5. QED BY Zenon, <1>1, <1>3, <1>4 DEF MpInv, PassedOK

\* Every step of the search keeps the invariant.
LEMMA MpNextKeeps == ASSUME MpInv, [MpNext]_mpvars PROVE MpInv'
<1>1. CASE MpNext
  BY Zenon, <1>1, GetMpKeeps, MpSearchKeeps, MpConfigKeeps, EntryKeeps, EntriesEndKeeps, FinishKeeps DEF MpNext
<1>2. CASE UNCHANGED mpvars
  <2>1. UNCHANGED <<fw, at, held, failed, entry, ncpu, apics, bootCpu, ioapic, lapic, ismp>>
    BY Zenon, <1>2 DEF mpvars
  <2>2. /\ MpTypes' = MpTypes /\ HeaderOK' = HeaderOK /\ (HeldOK => HeldOK') /\ (WayOK => WayOK')
        /\ PassedOK(at) => PassedOK(at)'
    BY Zenon, <2>1, SameTables DEF MpTypes
  <2>3. ScanInv => ScanInv'
    <3>1. Listed(entry - 1) => Listed(entry - 1)'
      BY Zenon, <2>1 DEF Listed, ListsProcs
    <3>2. LastAt("ioapic", entry - 1, ioapic) => LastAt("ioapic", entry - 1, ioapic)'
      BY Zenon, <2>1 DEF LastAt
    <3>3. QED BY Zenon, <2>1, <3>1, <3>2 DEF ScanInv
  <2>4. ResultInv => ResultInv'
    <3>1. Usable' = Usable /\ Pointed' = Pointed /\ PointedFirst' = PointedFirst
      BY Zenon, <2>1, SameTables
    <3>2. Listed(Len(fw.body)) => Listed(Len(fw.body))'
      BY Zenon, <2>1 DEF Listed, ListsProcs
    <3>3. LastAt("ioapic", Len(fw.body), ioapic) => LastAt("ioapic", Len(fw.body), ioapic)'
      BY Zenon, <2>1 DEF LastAt
    <3>4. QED BY Zenon, <2>1, <3>1, <3>2, <3>3 DEF ResultInv
  <2>5. DescribesMachine => DescribesMachine'
    <3>1. Usable' = Usable /\ Pointed' = Pointed /\ PointedFirst' = PointedFirst
      BY Zenon, <2>1, SameTables
    <3>2. Listed(Len(fw.body)) => Listed(Len(fw.body))'
      BY Zenon, <2>1 DEF Listed, ListsProcs
    <3>3. LastAt("ioapic", Len(fw.body), ioapic) => LastAt("ioapic", Len(fw.body), ioapic)'
      BY Zenon, <2>1 DEF LastAt
    <3>4. QED BY Zenon, <2>1, <3>1, <3>2, <3>3 DEF DescribesMachine, Listed
  <2>6. QED BY Zenon, <2>1, <2>2, <2>3, <2>4, <2>5 DEF MpInv
<1>3. QED BY Zenon, <1>1, <1>2

\* mp.c, for any tables the firmware may have left, any number of CPUs and any
\* mapping that fails: the machine is described completely by the tables or is
\* one CPU without APICs, and no mapping of a place where nothing was found is
\* left (_i686_initmp).
THEOREM MachineDescribed == MpSpec => []DescribesMachine
<1>1. MpInit => MpInv
  BY MpInitInv
<1>2. MpInv /\ [MpNext]_mpvars => MpInv'
  BY MpNextKeeps
<1>3. MpInv => DescribesMachine
  BY Zenon DEF MpInv
<1>4. QED BY <1>1, <1>2, <1>3, PTL DEF MpSpec
=============================================================================
