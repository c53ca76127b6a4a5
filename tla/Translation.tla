---------------------------- MODULE Translation ----------------------------
(***************************************************************************)
(* Address translation through a linear page table and the memory behind   *)
(* it (machine/translate.cc).  The TLB of a USE_TLB build is left out:     *)
(* nothing in this repository would fill it.                               *)
(***************************************************************************)
EXTENDS Word

CONSTANTS PageSize, NumPhysPages

ASSUME TranslationAssumption ==
    PageSize \in Nat \ {0} /\ PageSize % 4 = 0 /\ NumPhysPages \in Nat \ {0}

MemorySize == NumPhysPages * PageSize

(* Mutant of Misaligned: half words are not checked. *)
Misaligned_WordsOnly(virtAddr, size) == size = 4 /\ virtAddr % 4 # 0

Misaligned(virtAddr, size) ==
    \/ size = 4 /\ virtAddr % 4 # 0
    \/ size = 2 /\ virtAddr % 2 # 0

(* Machine::Translate, the checks in the code's order.  "table" is a       *)
(* function on 0..(currentPageTableSize - 1).                              *)
Fault(table, virtAddr, size, writing) ==
    LET vpn == virtAddr \div PageSize
    IN  CASE Misaligned(virtAddr, size) -> "AddressError"
          [] ~Misaligned(virtAddr, size) /\ vpn \notin DOMAIN table -> "AddressError"
          [] OTHER ->
               CASE ~table[vpn].valid -> "PageFault"
                 [] table[vpn].valid /\ table[vpn].readOnly /\ writing -> "ReadOnly"
                 [] OTHER -> IF table[vpn].physicalPage >= NumPhysPages
                               THEN "BusError" ELSE "None"

PhysAddr(table, virtAddr) ==
    table[virtAddr \div PageSize].physicalPage * PageSize + (virtAddr % PageSize)

(* The use and dirty bits after a successful translation. *)
Touched(table, virtAddr, writing) ==
    [table EXCEPT ![virtAddr \div PageSize].use = TRUE,
                  ![virtAddr \div PageSize].dirty = @ \/ writing]

(* What ReadMem reads, once translated: the lowest byte comes first. *)
ValueAt(memory, physAddr, size) ==
    LET sum[n \in 0..size] ==
          IF n = 0 THEN 0 ELSE sum[n - 1] + memory[physAddr + n - 1] * ByteBase^(n - 1)
    IN  sum[size]

(* The memory after WriteMem wrote size bytes of value. *)
Stored(memory, physAddr, size, value) ==
    [p \in DOMAIN memory |-> IF p \in physAddr..(physAddr + size - 1)
                               THEN ByteOf(value, p - physAddr) ELSE memory[p]]

=============================================================================
