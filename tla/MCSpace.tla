------------------------------ MODULE MCSpace -------------------------------
(***************************************************************************)
(* PhysMem and RegionMapper for TLC; they share no state, and a behaviour  *)
(* exercises one of them.                                                  *)
(*                                                                         *)
(* Pages: a few words of two bits, two maps, and all lists of up to three  *)
(* ranges of up to Longest pages each, with gaps between them.             *)
(*                                                                         *)
(* Regions: a mapper with two objects, so that it may be in the kernel's   *)
(* twice, in itself or in a ring, dataspaces with fewer pages or bytes     *)
(* than their objects, one object without a type, a page without a page    *)
(* table, and addresses at the borders of the domain and of the regions.   *)
(***************************************************************************)
EXTENDS PhysMem, RegionMapper

CONSTANTS c1, c2, Longest, sub

RangeAt(n, size) ==
  [begin |-> n * (Longest + 1), end |-> n * (Longest + 1) + size]

Lists ==
  UNION {{[i \in 1..n |-> RangeAt(i - 1, s[i])] : s \in [1..n -> 0..Longest]} : n \in 0..3}

Subs == [m \in {sub} |-> 10]
Objs == {"first", "small", "empty", "map", "back", "a"}
Sizes == [small |-> 4, empty |-> 2, map |-> 8, back |-> 6, a |-> 6]
Types == [first |-> "dataspace", small |-> "dataspace", empty |-> "undefined",
          map |-> "mapper", back |-> "mapper", a |-> "dataspace"]
Targets == [first |-> "first", small |-> "small", empty |-> Null, map |-> sub, back |-> sub, a |-> "a"]
Frames == [first |-> <<1, 2, 0>>, small |-> <<3>>, a |-> <<10, 11, 12>>]
Bytes == [small |-> 4, a |-> 4]
Tables == (0..(W \div P - 1)) \ {20}
Faults == {31, 41, 46, 50, 56}

VARIABLE part

parts == <<part, physVars, vars>>

\* The allocator of a machine without memory, which has nothing to do.
NoMemory ==
  /\ rng = << >> /\ maps = << >> /\ words = 0 /\ boot = "0" /\ Pi = 0 /\ Pt = 0
  /\ used = {} /\ lock = None /\ pc = [c \in Callers |-> "idle"]
  /\ found = [c \in Callers |-> None] /\ arg = [c \in Callers |-> None]
  /\ owned = [c \in Callers |-> {}]

MCInit ==
  /\ part \in {"pages", "regions"}
  /\ IF part = "pages" THEN PhysInit ELSE NoMemory
  /\ Init

MCNext ==
  /\ UNCHANGED part
  /\ \/ part = "pages" /\ PhysNext /\ UNCHANGED vars
     \/ part = "regions" /\ Next /\ UNCHANGED physVars

MCSpec == MCInit /\ [][MCNext]_parts /\ PhysFairness /\ Fairness
=============================================================================
