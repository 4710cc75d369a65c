------------------------------ MODULE Platform ------------------------------
(***************************************************************************)
(* The i686 machine from boot to running threads, on its one CPU: what     *)
(* _i686_init (arch/i686/kerninit.c) and main (kern/init_main.c) do in     *)
(* order, the pair of 8259A controllers they program (irq_pic.c), the      *)
(* interrupt handler and thread switch (hal.c, switch.s, interrupt.s), and *)
(* the interrupt stacks of threads (kern/kern_thread.c).                   *)
(*                                                                         *)
(* Which thread runs next is the scheduler's choice and left open here.    *)
(* The controllers follow their data sheet as far as the kernel uses them. *)
(* System calls enter and leave by thread_enter_syscall and                *)
(* thread_exit_syscall, and threads are made by __i686_initthread; no code *)
(* calls these yet.                                                        *)
(*                                                                         *)
(* Three steps may fault, and as the handler of an exception returns to    *)
(* the instruction that faulted, fault for ever: sched_preempt, which      *)
(* follows the null pointer of an empty run queue; ltr in                  *)
(* hal_after_thread_switch, whose descriptor is busy since the boot; and   *)
(* `call 1' in __i686_initthread, which goes to address 1.  The model lets *)
(* each of them fault or not.  In a switch the CPU is lost, with           *)
(* interrupts disabled ("wedged"); elsewhere only the thread gets no       *)
(* further ("stuck").                                                      *)
(***************************************************************************)
EXTENDS Integers, Sequences, FiniteSetsExt

CONSTANTS
  Threads, IdleThread,   \* the first thread is the one that boots
  Lines,                 \* interrupt requests that devices may raise
  Multiboot,             \* [flags, lower, upper]: what the loader may report, and
                         \* kend: where the kernel it has loaded ends, in KB
  Word,                  \* 2^32 in KB
  Null

\* Nothing is assumed of the report; the kernel, linked above 3 GB, ends in the
\* first gigabyte.
ASSUME PlatformConstants ==
  /\ IdleThread \in Threads /\ Null \notin Threads
  /\ Word \in Nat \ {0}
  /\ \A m \in Multiboot :
       m.flags \in Nat /\ m.lower \in Nat /\ m.upper \in Nat /\ m.kend \in Nat /\ m.kend + 3 < Word

VARIABLES
  step,      \* the next of BootSteps
  made,      \* what has been set up
  multiboot, ranges,  \* the loader's report and the memory ranges taken from it
  pic,       \* the controllers, 0 the master and 1 the slave
  flag,      \* the interrupt flag of the CPU
  cur,       \* cpu_current_thread
  pc,        \* where each thread is
  back,      \* where a thread that was interrupted goes on
  line,      \* the request being handled, and its vector
  int2,      \* THREAD_SF_INTSTACK_2 of each thread
  ist,       \* THREAD_LOCAL_INT_STACK: the index in t_istacks
  esp0       \* tss.esp0: <<thread, index>>

hw == <<pic, flag, line>>
thr == <<cur, pc, back, int2, ist, esp0>>
vars == <<step, made, multiboot, ranges, hw, thr>>

-----------------------------------------------------------------------------
\* The 8259A.

Bits(v) == {i \in 0..7 : (v \div 2^i) % 2 = 1}

PicReset == [imr |-> {}, irr |-> {}, isr |-> {}, phase |-> 0, base |-> 0, aeoi |-> FALSE]

\* A write to the command port: ICW1 starts the initialisation, 0x20 ends the
\* interrupt of highest priority in service, OCW3 does not matter here.
PicCommand(p, v) ==
  IF 4 \in Bits(v) THEN [PicReset EXCEPT !.phase = 1]
  ELSE IF v = 32 THEN [p EXCEPT !.isr = IF @ = {} THEN @ ELSE @ \ {Min(@)}]
  ELSE p

\* A write to the data port: ICW2, ICW3 and ICW4 in this order, else the mask.
PicData(p, v) ==
  CASE p.phase = 0 -> [p EXCEPT !.imr = Bits(v)]
    [] p.phase = 1 -> [p EXCEPT !.base = v, !.phase = 2]
    [] p.phase = 2 -> [p EXCEPT !.phase = 3]
    [] p.phase = 3 -> [p EXCEPT !.aeoi = 1 \in Bits(v), !.phase = 0]

Outb(s) ==
  pic' = [pic EXCEPT ![s.pic] = IF s.port = 0 THEN PicCommand(@, s.val) ELSE PicData(@, s.val)]

\* The request a controller passes on.
Request(p) ==
  LET ready == {i \in p.irr \ p.imr : \A j \in p.isr : i < j}
  IN  IF p.phase # 0 \/ ready = {} THEN Null ELSE Min(ready)

Raise(i) ==
  /\ pic' = [pic EXCEPT ![i \div 8].irr = @ \cup {i % 8}]
  /\ UNCHANGED <<step, made, multiboot, ranges, flag, line, thr>>

-----------------------------------------------------------------------------
\* Boot.

\* Mutant: the end of memory is not rounded down.
MemRangesUneven(m) ==
  IF m.flags % 2 = 0 THEN << >>
  ELSE LET up == (m.kend + 3) - ((m.kend + 3) % 4) IN
       << <<0, (m.lower % Word) - ((m.lower % Word) % 4)>>, <<IF up > 1024 THEN up ELSE 12288, (m.upper + 1024) % Word>> >>

\* The two ranges of _i686_init, page aligned, the second behind the kernel.
MemRanges(m) ==
  LET Down(x) == x - (x % 4)
      up == Down(m.kend + 3)
  IN  IF m.flags % 2 = 0 THEN << >>
      ELSE << <<0, Down(m.lower % Word)>>,
              <<IF up > 1024 THEN up ELSE 12288, Down((m.upper + 1024) % Word)>> >>

Out(p, port, v) == [do |-> "outb", pic |-> p, port |-> port, val |-> v]
Call(name) == [do |-> name]

\* __i686_picinit: mask everything, ICW1 to ICW4 of both, OCW3, and the mask
\* 0xFFFB of picsetmask.
PicInit ==
  <<Out(0, 1, 255), Out(1, 1, 255),
    Out(0, 0, 17), Out(0, 1, 32), Out(0, 1, 4), Out(0, 1, 3),
    Out(1, 0, 17), Out(1, 1, 40), Out(1, 1, 2), Out(1, 1, 3),
    Out(0, 0, 104), Out(0, 0, 10), Out(1, 0, 104), Out(1, 0, 10),
    Out(0, 1, 251), Out(1, 1, 255)>>

\* __i686_timerinit: picenable(IRQ_TIMER).
TimerInit == <<Call("timer"), Out(0, 1, 250), Out(1, 1, 255)>>

\* Mutant: interrupts are enabled before the scheduler is there.
MainEarly ==
  <<Call("stacks"), Call("kterm"), Call("initmem"), Call("vm"), Call("cpu_stack"), Call("threads"),
    Call("thread"), Call("current"), Call("sti"), Call("sched"), Call("instance"), Call("idle")>>

Main ==
  <<Call("stacks"), Call("kterm"), Call("initmem"), Call("vm"), Call("cpu_stack"), Call("threads"),
    Call("thread"), Call("current"), Call("sched"), Call("instance"), Call("idle"), Call("sti")>>

BootSteps == <<Call("ranges"), Call("gdt"), Call("idt")>> \o PicInit \o TimerInit \o Main

\* What each of them uses without looking.
Needs(name) ==
  CASE name = "initmem" -> {"ranges"} [] name = "vm" -> {"initmem"}
    [] name = "cpu_stack" -> {"vm"} [] name = "threads" -> {"vm"}
    [] name = "thread" -> {"threads", "stacks"} [] name = "current" -> {"thread", "gdt"}
    [] name = "sched" -> {"vm"} [] name = "instance" -> {"sched"}
    [] name = "idle" -> {"instance", "thread"} [] name = "idt" -> {"gdt"} [] OTHER -> {}

\* One step of the boot, the interrupt flag still clear.
Boot ==
  LET s == BootSteps[step] IN
  /\ pc[IdleThread] = "boot" /\ step <= Len(BootSteps)
  /\ step' = step + 1
  /\ made' = made \cup {s.do}
  /\ IF s.do = "outb" THEN Outb(s) ELSE UNCHANGED pic
  /\ flag' = (flag \/ s.do = "sti")
  /\ ranges' = IF s.do = "ranges" THEN MemRanges(multiboot) ELSE ranges
  /\ IF s.do = "current" THEN cur' = IdleThread /\ esp0' = <<IdleThread, ist[IdleThread]>>
                         ELSE UNCHANGED <<cur, esp0>>
  /\ pc' = [pc EXCEPT ![IdleThread] = IF step' > Len(BootSteps) THEN "kernel" ELSE @]
  /\ UNCHANGED <<multiboot, line, back, int2, ist>>

-----------------------------------------------------------------------------
\* Interrupts.

\* The CPU takes a request: the controller puts it in service, unless it ends
\* interrupts by itself, and the gate clears the flag.
Interrupt ==
  LET m == pic[0]
      s == pic[1]
      cascade == Request(m) = 2
      Taken(p) == [p EXCEPT !.irr = @ \ {Request(p)}, !.isr = IF p.aeoi THEN @ ELSE @ \cup {Request(p)}]
  IN
  /\ flag /\ cur # Null /\ Request(m) # Null
  /\ ~cascade \/ Request(s) # Null
  /\ pic' = [pic EXCEPT ![0] = Taken(m), ![1] = IF cascade THEN Taken(s) ELSE s]
  /\ line' = IF cascade THEN <<8 + Request(s), s.base + Request(s)>> ELSE <<Request(m), m.base + Request(m)>>
  /\ flag' = FALSE
  /\ back' = [back EXCEPT ![cur] = pc[cur]]
  /\ pc' = [pc EXCEPT ![cur] = "isr"]
  /\ UNCHANGED <<step, made, multiboot, ranges, cur, int2, ist, esp0>>

\* __i686_interrupt: the local APIC is not there, the number handed to piceoi is
\* the vector, and so both controllers are told; then the timer switches threads.
Handle ==
  /\ cur # Null /\ pc[cur] = "isr"
  /\ pic' = [i \in 0..1 |-> IF i = 0 \/ line[2] >= 8 THEN PicCommand(pic[i], 32) ELSE pic[i]]
  /\ pc' = [pc EXCEPT ![cur] = IF line[2] = 32 THEN "switch" ELSE "iret"]
  /\ UNCHANGED <<step, made, multiboot, ranges, flag, line, cur, back, int2, ist, esp0>>

\* The return from the interrupt restores the flags.
Iret ==
  /\ cur # Null /\ pc[cur] = "iret"
  /\ flag' = TRUE
  /\ pc' = [pc EXCEPT ![cur] = back[cur]]
  /\ UNCHANGED <<step, made, multiboot, ranges, pic, line, cur, back, int2, ist, esp0>>

\* hal_induce_preemption: cli, then the switch.
InducePreemption ==
  /\ cur # Null /\ pc[cur] = "kernel"
  /\ flag' = FALSE
  /\ pc' = [pc EXCEPT ![cur] = "induced"]
  /\ UNCHANGED <<step, made, multiboot, ranges, pic, line, cur, back, int2, ist, esp0>>

\* What a thread returns to from __i686_switch.
Returns(t) == IF pc[t] = "switch" THEN "iret" ELSE IF pc[t] = "induced" THEN "sti" ELSE pc[t]

\* Mutant: the TSS keeps the stack of the old thread.
SwitchKeepsTss(u) ==
  /\ cur # Null /\ pc[cur] \in {"switch", "induced"}
  /\ u = cur \/ pc[u] \in {"iret", "sti", "fresh"}
  /\ cur' = u
  /\ \E returns \in BOOLEAN :
       pc' = [pc EXCEPT ![cur] = Returns(cur), ![u] = IF returns THEN Returns(u) ELSE "wedged"]
  /\ UNCHANGED <<step, made, multiboot, ranges, hw, back, int2, ist, esp0>>

\* __i686_switch: the context is saved, sched_preempt keeps the thread or sets
\* another (kernel_set_current_thread, hal_after_thread_switch), whose context
\* is loaded; or it does not return, from the choice or from the ltr.
Switch(u) ==
  /\ cur # Null /\ pc[cur] \in {"switch", "induced"}
  /\ u = cur \/ pc[u] \in {"iret", "sti", "fresh"}
  /\ cur' = u
  /\ \E returns \in BOOLEAN :
       pc' = [pc EXCEPT ![cur] = Returns(cur), ![u] = IF returns THEN Returns(u) ELSE "wedged"]
  /\ esp0' = IF u = cur THEN esp0 ELSE <<u, ist[u]>>
  /\ UNCHANGED <<step, made, multiboot, ranges, hw, back, int2, ist>>

\* Mutant: the flag stays clear behind the switch.
StiMasked ==
  /\ cur # Null /\ pc[cur] \in {"sti", "fresh"}
  /\ pc' = [pc EXCEPT ![cur] = "kernel"]
  /\ UNCHANGED <<step, made, multiboot, ranges, hw, cur, back, int2, ist, esp0>>

\* The sti behind the switch, in hal_induce_preemption and in the first
\* instructions of a thread that __i686_initthread has made.
Sti ==
  /\ cur # Null /\ pc[cur] \in {"sti", "fresh"}
  /\ flag' = TRUE
  /\ pc' = [pc EXCEPT ![cur] = "kernel"]
  /\ UNCHANGED <<step, made, multiboot, ranges, pic, line, cur, back, int2, ist, esp0>>

\* __i686_initthread: the context of a new thread is made on its stack, unless
\* the call in it leads away.
InitThread(t) ==
  /\ cur # Null /\ pc[cur] = "kernel" /\ pc[t] = "none"
  /\ \/ pc' = [pc EXCEPT ![t] = "fresh"]
     \/ pc' = [pc EXCEPT ![cur] = "stuck"]
  /\ UNCHANGED <<step, made, multiboot, ranges, hw, cur, back, int2, ist, esp0>>

-----------------------------------------------------------------------------
\* thread_enter_syscall and thread_exit_syscall, interrupts allowed: first the
\* flag, then the thread's storage, then the TSS.

SyscallFlag ==
  /\ cur # Null /\ pc[cur] = "kernel"
  /\ int2' = [int2 EXCEPT ![cur] = ~@]
  /\ pc' = [pc EXCEPT ![cur] = "storage"]
  /\ UNCHANGED <<step, made, multiboot, ranges, hw, cur, back, ist, esp0>>

SyscallStorage ==
  /\ cur # Null /\ pc[cur] = "storage"
  /\ ist' = [ist EXCEPT ![cur] = IF int2[cur] THEN 1 ELSE 0]
  /\ pc' = [pc EXCEPT ![cur] = "tss"]
  /\ UNCHANGED <<step, made, multiboot, ranges, hw, cur, back, int2, esp0>>

\* hal_after_thread_switch: tss.esp0, then ltr.
SyscallTss ==
  /\ cur # Null /\ pc[cur] = "tss"
  /\ esp0' = <<cur, ist[cur]>>
  /\ \E next \in {"kernel", "stuck"} : pc' = [pc EXCEPT ![cur] = next]
  /\ UNCHANGED <<step, made, multiboot, ranges, hw, cur, back, int2, ist>>

Init ==
  /\ step = 1 /\ made = {} /\ ranges = << >>
  /\ multiboot \in Multiboot
  /\ pic = [i \in 0..1 |-> PicReset] /\ flag = FALSE /\ line = <<0, 32>>
  /\ cur = Null /\ esp0 = Null
  /\ pc = [t \in Threads |-> IF t = IdleThread THEN "boot" ELSE "none"]
  /\ back = [t \in Threads |-> "kernel"]
  /\ int2 = [t \in Threads |-> FALSE] /\ ist = [t \in Threads |-> 0]

Kernel == Handle \/ Iret \/ Sti \/ (\E u \in Threads : Switch(u)) \/ SyscallStorage \/ SyscallTss

Next ==
  \/ Boot \/ Kernel \/ Interrupt \/ InducePreemption \/ SyscallFlag
  \/ \E t \in Threads : InitThread(t)
  \/ \E i \in Lines : Raise(i)

\* The CPU goes on with what it is doing, if only by a fault.  It looks for a
\* request after every instruction that finds the flag set, so it does not miss
\* it for ever.
Spec == Init /\ [][Next]_vars /\ WF_vars(Boot) /\ WF_vars(Kernel) /\ SF_vars(Interrupt)

-----------------------------------------------------------------------------

\* Whatever the loader reports, the ranges given to the allocator consist of
\* whole pages, have nothing beyond the memory that was reported, and nothing
\* of the kernel when low memory ends below it.  Sizes that fit 32 bits lose
\* less than a page, and with two pages behind the kernel (or behind 12 MB, for
\* a kernel that seems to end too low) the upper range is not inverted.
RangesSound ==
  LET m == multiboot
      end == m.upper + 1024
      begin == IF m.kend > 1024 THEN m.kend ELSE 12288
  IN
  ranges # << >> =>
    /\ \A k \in 1..2 : ranges[k][1] % 4 = 0 /\ ranges[k][2] % 4 = 0
    /\ ranges[1][2] <= m.lower /\ ranges[2][2] <= end
    /\ ranges[2][1] > 1024 /\ ranges[2][1] >= m.kend
    /\ m.lower < Word => m.lower < ranges[1][2] + 4
    /\ end < Word => end < ranges[2][2] + 4
    /\ end < Word /\ begin + 8 <= end => ranges[2][1] <= ranges[2][2]

\* Every step of the boot finds what it uses, and the first timer interrupt,
\* which may come with the sti, finds a thread, a scheduler, its idle thread
\* and the stack of the CPU.
BootInOrder ==
  /\ step <= Len(BootSteps) => Needs(BootSteps[step].do) \subseteq made
  /\ flag => {"idt", "current", "instance", "idle", "cpu_stack"} \subseteq made

\* An interrupt out of user mode finds a stack of the current thread, and the
\* one its flag selects unless the thread is just changing it: preemption
\* between the steps of thread_enter_syscall does not leave the TSS behind.
StackOfCurrent ==
  cur # Null =>
    /\ esp0[1] = cur
    /\ pc[cur] = "kernel" => esp0[2] = IF int2[cur] THEN 1 ELSE 0

\* A timer request that is pending is taken at last unless a switch does not
\* return: the flag comes back after every switch that does, no end of
\* interrupt is missing, and a thread that faults for ever outside of one does
\* not hold up the timer.
TimerServed ==
  (0 \in pic[0].irr /\ step > Len(BootSteps)) ~> (0 \notin pic[0].irr \/ \E t \in Threads : pc[t] = "wedged")
=============================================================================
