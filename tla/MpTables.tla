------------------------------ MODULE MpTables ------------------------------
(***************************************************************************)
(* The search for the firmware's multiprocessor tables, _i686_initmp of    *)
(* system/arch/i686/mp.c: a floating pointer is looked for in three places *)
(* (of the ROM only in the upper half), the configuration table it leads   *)
(* to is mapped, in one piece or in two, and its entries are read.  Every  *)
(* mapping may fail, as the window may be full.  (The call of              *)
(* _i686_initmp is commented out in kerninit.c.)                           *)
(***************************************************************************)
EXTENDS Integers, Sequences, FiniteSets, TLC

CONSTANTS
  Firmware,   \* what the firmware may have left
  MaxCpus,    \* entries of __i686_cpu_apics (256)
  High        \* the lowest address accepted for an APIC (0xfe000000)

\* Where a floating pointer may be: the EBDA, the end of base memory, and the
\* ROM, "romlow" from 0xE0000 and "rom" from 0xF0000 on.
Places == {"ebda", "base", "romlow", "rom"}

\* What the tables may be: what each place holds ("default": a pointer whose
\* physaddr is 0), which addresses the BIOS data area has, the fields that are
\* tested, and the entries.
Entries == [type : {"proc", "ioapic", "bus", "unknown"}, id : Nat, boot : BOOLEAN, addr : Nat]

ASSUME FirmwareOK ==
  /\ MaxCpus \in Nat /\ High \in Nat \ {0}
  /\ Firmware \subseteq
       [ptr : [Places -> {"none", "default", "table"}], known : SUBSET {"ebda", "base"}, sig : BOOLEAN,
        version : Nat, sumOk : BOOLEAN, long : BOOLEAN, lapic : Nat, body : Seq(Entries)]

VARIABLES
  fw,       \* the tables
  at,       \* the step: "bios", one of Places, "config", "body", "entry", "finish", "done"
  held,     \* what is mapped: places, "table" and "body"
  failed,   \* a mapping has failed
  entry,    \* the entry mpinit looks at
  ncpu, apics, bootCpu, ioapic, lapic, ismp  \* the results

mpvars == <<fw, at, held, failed, entry, ncpu, apics, bootCpu, ioapic, lapic, ismp>>

MpInit ==
  /\ fw \in Firmware
  /\ at = "bios" /\ held = {} /\ failed = FALSE /\ entry = 1
  /\ ncpu = 0 /\ apics = [i \in 0..(MaxCpus - 1) |-> 0] /\ bootCpu = 0
  /\ ioapic = 0 /\ lapic = 0 /\ ismp = FALSE

\* mpconfig returns null, or a table; then _i686_initmp sets boot_cpu to a
\* number that is none and calls mpinit.
NoConf == at' = "finish" /\ UNCHANGED bootCpu
Conf == at' = "entry" /\ bootCpu' = MaxCpus

\* The floating pointer is at this place, or mpsearch goes on.
Found == IF fw.ptr[at] = "default" THEN NoConf ELSE at' = "config" /\ UNCHANGED bootCpu
NotFound ==
  IF at = "rom" THEN NoConf
  ELSE at' = (IF at = "ebda" /\ "base" \in fw.known THEN "base" ELSE "rom") /\ UNCHANGED bootCpu

\* _i686_get_mp: the addresses of the first two places from the BIOS data area;
\* a place without an address is skipped, both are when it cannot be mapped.
GetMp ==
  /\ at = "bios"
  /\ \/ failed' = TRUE /\ at' = "rom"
     \/ /\ at' = (IF "ebda" \in fw.known THEN "ebda" ELSE IF "base" \in fw.known THEN "base" ELSE "rom")
        /\ UNCHANGED failed
  /\ UNCHANGED <<fw, held, entry, ncpu, apics, bootCpu, ioapic, lapic, ismp>>

\* mpsearch1 of a place: it stays mapped when the pointer is there.
MpSearch ==
  /\ at \in Places
  /\ \E ok \in BOOLEAN :
       /\ failed' = (failed \/ ~ok)
       /\ held' = IF ok /\ fw.ptr[at] # "none" THEN held \cup {at} ELSE held
       /\ IF ok /\ fw.ptr[at] # "none" THEN Found ELSE NotFound
  /\ UNCHANGED <<fw, entry, ncpu, apics, ioapic, lapic, ismp>>

\* mpconfig: the header is mapped and tested; a table that does not end on the
\* page of its header is mapped a second time from its body on.
MpConfig ==
  /\ at = "config"
  /\ \/ failed' = TRUE /\ NoConf /\ UNCHANGED held
     \/ /\ held' = held \cup {"table"}
        /\ IF ~fw.sig \/ fw.version \notin {1, 4} THEN NoConf
           ELSE IF fw.long THEN at' = "body" /\ UNCHANGED bootCpu
           ELSE IF fw.sumOk THEN Conf ELSE NoConf
        /\ UNCHANGED failed
  /\ UNCHANGED <<fw, entry, ncpu, apics, ioapic, lapic, ismp>>

MpConfigBody ==
  /\ at = "body"
  /\ \/ failed' = TRUE /\ NoConf /\ UNCHANGED held
     \/ /\ held' = held \cup {"body"}
        /\ IF fw.sumOk THEN Conf ELSE NoConf
        /\ UNCHANGED failed
  /\ UNCHANGED <<fw, entry, ncpu, apics, ioapic, lapic, ismp>>

\* One entry of mpinit; an unknown one ends it.
MpEntry ==
  LET e == fw.body[entry]
      listed == e.type = "proc" /\ ncpu < MaxCpus
  IN
  /\ at = "entry" /\ entry <= Len(fw.body)
  /\ ncpu' = IF e.type = "proc" THEN ncpu + 1 ELSE ncpu
  /\ apics' = IF listed THEN [apics EXCEPT ![ncpu] = e.id] ELSE apics
  /\ bootCpu' = IF listed /\ e.boot THEN ncpu ELSE bootCpu
  /\ ioapic' = IF e.type = "ioapic" THEN e.addr ELSE ioapic
  /\ IF e.type = "unknown" THEN at' = "finish" /\ lapic' = fw.lapic /\ UNCHANGED entry
                           ELSE entry' = entry + 1 /\ UNCHANGED <<at, lapic>>
  /\ UNCHANGED <<fw, held, failed, ismp>>

\* The end of the entries.
MpEntriesEnd ==
  /\ at = "entry" /\ entry > Len(fw.body)
  /\ at' = "finish"
  /\ lapic' = fw.lapic
  /\ ismp' = (ncpu >= 1 /\ ioapic >= High /\ fw.lapic >= High)
  /\ UNCHANGED <<fw, held, failed, entry, ncpu, apics, bootCpu, ioapic>>

\* Mutant: the number of CPUs is left as it was counted.
MpFinishKeepsCount ==
  /\ at = "finish"
  /\ at' = "done"
  /\ IF ismp THEN UNCHANGED <<ncpu, bootCpu, ioapic, lapic>>
     ELSE ncpu' = ncpu /\ bootCpu' = 0 /\ ioapic' = 0 /\ lapic' = 0
  /\ UNCHANGED <<fw, held, failed, entry, apics, ismp>>

\* Without multiprocessor tables that can be used: one CPU and no APIC.
MpFinish ==
  /\ at = "finish"
  /\ at' = "done"
  /\ IF ismp THEN UNCHANGED <<ncpu, bootCpu, ioapic, lapic>>
     ELSE ncpu' = 1 /\ bootCpu' = 0 /\ ioapic' = 0 /\ lapic' = 0
  /\ UNCHANGED <<fw, held, failed, entry, apics, ismp>>

MpNext == GetMp \/ MpSearch \/ MpConfig \/ MpConfigBody \/ MpEntry \/ MpEntriesEnd \/ MpFinish

MpSpec == MpInit /\ [][MpNext]_mpvars

-----------------------------------------------------------------------------

\* The last entry of this type among the first n has the address a.
LastAt(type, n, a) ==
  \E i \in 1..n : /\ fw.body[i].type = type /\ fw.body[i].addr = a
                  /\ \A j \in (i + 1)..n : fw.body[j].type # type

\* s lists the processors among the first n entries, in their order.
ListsProcs(s, n) ==
  /\ \A i, j \in DOMAIN s : i < j => s[i] < s[j]
  /\ \A i \in 1..n : fw.body[i].type = "proc" <=> \E k \in DOMAIN s : s[k] = i

\* The places that are searched hold a pointer to the table.
Pointed == \E p \in fw.known \cup {"rom"} : fw.ptr[p] = "table"

\* The first pointer there is in them leads to the table.
PointedFirst ==
  \E p \in fw.known \cup {"rom"} :
    /\ fw.ptr[p] = "table"
    /\ \A q \in fw.known \cup {"rom"} :
         <<q, p>> \in {<<"ebda", "base">>, <<"ebda", "rom">>, <<"base", "rom">>} => fw.ptr[q] = "none"

\* What the table says, read as a whole.
Usable ==
  /\ fw.sig /\ fw.version \in {1, 4} /\ fw.sumOk
  /\ \A i \in 1..Len(fw.body) : fw.body[i].type # "unknown"
  /\ \E i \in 1..Len(fw.body) : fw.body[i].type = "proc"
  /\ fw.lapic >= High
  /\ \E i \in 1..Len(fw.body) : LastAt("ioapic", Len(fw.body), fw.body[i].addr) /\ fw.body[i].addr >= High

\* However far the search came, whichever mapping failed and wherever the
\* entries broke off, the machine is described completely by the tables or is
\* one CPU without APICs; without a failed mapping the first pointer in the
\* places that are searched and its table alone decide, whether or not the
\* table crosses a page.  The windows of places where nothing was found have
\* been given back.
DescribesMachine ==
  /\ \A p, q \in held \cap Places : p = q /\ fw.ptr[p] # "none"
  /\ at = "done" =>
       /\ ismp => Pointed /\ Usable
       /\ ~failed => (ismp <=> PointedFirst /\ Usable)
       /\ IF ismp
          THEN /\ lapic = fw.lapic /\ LastAt("ioapic", Len(fw.body), ioapic)
               /\ \E s \in [1..ncpu -> 1..Len(fw.body)] :
                    /\ ListsProcs(s, Len(fw.body))
                    /\ \A i \in 1..ncpu : i <= MaxCpus => apics[i - 1] = fw.body[s[i]].id
                    /\ bootCpu # MaxCpus => bootCpu < ncpu /\ fw.body[s[bootCpu + 1]].boot
          ELSE ncpu = 1 /\ bootCpu = 0 /\ lapic = 0 /\ ioapic = 0

-----------------------------------------------------------------------------
\* mp.c:102-107 says the floating pointer is "in one of the following three
\* locations", the third "in the BIOS ROM between 0xE0000 and 0xFFFFF": a usable
\* table with its only pointer in one of them is found when no mapping fails.
FoundWherePromised ==
  \A p \in fw.known \cup {"romlow", "rom"} :
    /\ at = "done" /\ ~failed /\ Usable
    /\ fw.ptr = [q \in Places |-> IF q = p THEN "table" ELSE "none"]
    => ismp
=============================================================================
