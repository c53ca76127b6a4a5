-------------------------------- MODULE Mips --------------------------------
(***************************************************************************)
(* The simulated processor: Machine::OneInstruction and DelayedLoad        *)
(* (machine/mipssim.cc), RaiseException (machine/machine.cc) and the       *)
(* kernel's ExceptionHandler (userprog/exception.cc).                      *)
(*                                                                         *)
(* The registers are numbered as in machine/machine.h; GPRegs are those of *)
(* the 32 general ones that the programs of an instance use.               *)
(***************************************************************************)
EXTENDS Instruction, Mult, Translation, TLC

CONSTANTS
    GPRegs,
    JumpBits        \* bits of a jump's target (26 in the code)

ASSUME MipsAssumption ==
    /\ {0, 2, 29, 31} \subseteq GPRegs /\ GPRegs \subseteq 0..31
    /\ JumpBits \in Nat /\ JumpBits + 2 <= WordBits

StackReg == 29
RetAddrReg == 31
HiReg == 32
LoReg == 33
PCReg == 34
NextPCReg == 35
PrevPCReg == 36
LoadReg == 37
LoadValueReg == 38
BadVAddrReg == 39
Registers == GPRegs \cup HiReg..BadVAddrReg

SC_Halt == 0

VARIABLES
    status,         \* "user" while the program runs; how it ended after that
    which,          \* the last exception, "None" before
    registers,
    mainMemory,     \* physical address -> byte
    pageTable       \* currentPageTable, a function on virtual pages

mvars == <<status, which, registers, mainMemory, pageTable>>

-----------------------------------------------------------------------------
(* What an instruction computes: i is decoded, r are the registers.        *)

(* The sum of two words of the same sign has the other sign. *)
SameSignOverflow(a, b, sum) == Negative(a) = Negative(b) /\ Negative(a) # Negative(sum)

Overflows(i, r) ==
    LET a == r[i.rs]
        b == r[i.rt]
    IN  \/ i.opCode = "ADD"  /\ SameSignOverflow(a, b, AsWord(a + b))
        \/ i.opCode = "ADDI" /\ SameSignOverflow(i.extra, a, AsWord(a + i.extra))
        \/ i.opCode = "SUB"  /\ Negative(a) # Negative(b) /\ Negative(a) # Negative(AsWord(a - b))

Flag(condition) == IF condition THEN 1 ELSE 0

(* The instructions that leave a value in rd.  A variable shift takes the  *)
(* low bits of rs (& 0x1f).                                                *)
ToRd == {"ADD", "ADDU", "SUB", "SUBU", "AND", "OR", "XOR", "NOR", "SLT", "SLTU", "SLL", "SLLV",
         "SRA", "SRAV", "SRL", "SRLV", "MFHI", "MFLO"}

RdValue(i, r) ==
    LET a == r[i.rs]
        b == r[i.rt]
        amount == a % WordBits
    IN  CASE i.opCode \in {"ADD", "ADDU"} -> AsWord(a + b)
          [] i.opCode \in {"SUB", "SUBU"} -> AsWord(a - b)
          [] i.opCode = "AND"  -> And(a, b)
          [] i.opCode = "OR"   -> Or(a, b)
          [] i.opCode = "XOR"  -> Xor(a, b)
          [] i.opCode = "NOR"  -> Not(Or(a, b))
          [] i.opCode = "SLT"  -> Flag(Signed(a) < Signed(b))
          [] i.opCode = "SLTU" -> Flag(a < b)
          [] i.opCode = "SLL"  -> ShiftLeft(b, i.extra)
          [] i.opCode = "SLLV" -> ShiftLeft(b, amount)
          [] i.opCode = "SRA"  -> ShiftRightSigned(b, i.extra)
          [] i.opCode = "SRAV" -> ShiftRightSigned(b, amount)
          [] i.opCode = "SRL"  -> ShiftRight(b, i.extra)
          [] i.opCode = "SRLV" -> ShiftRight(b, amount)
          [] i.opCode = "MFHI" -> r[HiReg]
          [] i.opCode = "MFLO" -> r[LoReg]

(* The instructions that leave a value in rt.  The logical ones use the    *)
(* immediate without its sign (extra & 0xffff).                            *)
ToRt == {"ADDI", "ADDIU", "ANDI", "ORI", "XORI", "SLTI", "SLTIU", "LUI"}

RtValue(i, r) ==
    LET a == r[i.rs]
        unsigned == i.extra % 2^HalfBits
    IN  CASE i.opCode \in {"ADDI", "ADDIU"} -> AsWord(a + i.extra)
          [] i.opCode = "ANDI"  -> And(a, unsigned)
          [] i.opCode = "ORI"   -> Or(a, unsigned)
          [] i.opCode = "XORI"  -> Xor(a, unsigned)
          [] i.opCode = "SLTI"  -> Flag(Signed(a) < Signed(i.extra))
          [] i.opCode = "SLTIU" -> Flag(a < i.extra)
          [] i.opCode = "LUI"   -> ShiftLeft(i.extra, HalfBits)

(* The / of C, which rounds towards 0. *)
Quotient(a, b) ==
    LET abs(n) == IF n < 0 THEN -n ELSE n
        q == abs(a) \div abs(b)
    IN  IF (a < 0) = (b < 0) THEN q ELSE -q

ToHiLo == {"DIV", "DIVU", "MULT", "MULTU", "MTHI", "MTLO"}

HiLoValue(i, r) ==
    LET a == r[i.rs]
        b == r[i.rt]
        same == [hi |-> r[HiReg], lo |-> r[LoReg]]
        divided(x, y) == [hi |-> AsWord(x - y * Quotient(x, y)), lo |-> AsWord(Quotient(x, y))]
    IN  CASE i.opCode = "MTHI"  -> [same EXCEPT !.hi = a]
          [] i.opCode = "MTLO"  -> [same EXCEPT !.lo = a]
          [] i.opCode = "MULT"  -> Mult(a, b, TRUE)
          [] i.opCode = "MULTU" -> Mult(a, b, FALSE)
          [] i.opCode \in {"DIV", "DIVU"} /\ b = 0 -> [hi |-> 0, lo |-> 0]
          [] i.opCode = "DIV"  /\ b # 0 -> divided(Signed(a), Signed(b))
          [] i.opCode = "DIVU" /\ b # 0 -> divided(a, b)

(* The host's division instruction traps: the process is killed. *)
HostTraps(i, r) ==
    i.opCode = "DIV" /\ r[i.rs] = Base \div 2 /\ Signed(r[i.rt]) = -1

(* The registers after the switch over the opcodes, before DelayedLoad. *)
Computed(i, r) ==
    CASE i.opCode \in ToRd -> [r EXCEPT ![i.rd] = RdValue(i, r)]
      [] i.opCode \in ToRt -> [r EXCEPT ![i.rt] = RtValue(i, r)]
      [] i.opCode \in ToHiLo -> [r EXCEPT ![HiReg] = HiLoValue(i, r).hi, ![LoReg] = HiLoValue(i, r).lo]
      [] i.opCode \in {"JAL", "BGEZAL", "BLTZAL"} -> [r EXCEPT ![RetAddrReg] = AsWord(r[NextPCReg] + 4)]
      [] i.opCode = "JALR" -> [r EXCEPT ![i.rd] = AsWord(r[NextPCReg] + 4)]
      [] OTHER -> r

Taken(i, r) ==
    LET a == r[i.rs]
    IN  \/ i.opCode = "BEQ" /\ a = r[i.rt]
        \/ i.opCode = "BNE" /\ a # r[i.rt]
        \/ i.opCode \in {"BGEZ", "BGEZAL"} /\ ~Negative(a)
        \/ i.opCode \in {"BLTZ", "BLTZAL"} /\ Negative(a)
        \/ i.opCode = "BGTZ" /\ Signed(a) > 0
        \/ i.opCode = "BLEZ" /\ Signed(a) <= 0

(* pcAfter: where the program continues after the next instruction.  The   *)
(* link register has been written when a branch reads its own registers.   *)
PcAfter(i, r) ==
    LET next == AsWord(r[NextPCReg] + 4)
    IN  CASE Taken(i, r) -> AsWord(r[NextPCReg] + 4 * i.extra)
          [] i.opCode \in {"J", "JAL"} -> (next - (next % 2^(JumpBits + 2))) + 4 * i.extra
          [] i.opCode \in {"JR", "JALR"} -> r[i.rs]
          [] OTHER -> next

-----------------------------------------------------------------------------
(* Loads and stores.                                                       *)

Partial == {"LWL", "LWR", "SWL", "SWR"}
Loads   == {"LB", "LBU", "LH", "LHU", "LW", "LWL", "LWR"}
Stores  == {"SB", "SH", "SW", "SWL", "SWR"}

Size(opCode) ==
    CASE opCode \in {"LB", "LBU", "SB"} -> 1
      [] opCode \in {"LH", "LHU", "SH"} -> 2
      [] OTHER                          -> 4

Effective(i, r) == AsWord(r[i.rs] + i.extra)

(* The address given to ReadMem or WriteMem: the partial ones access the   *)
(* whole word around theirs.                                               *)
Accessed(i, r) ==
    IF i.opCode \in Partial THEN Effective(i, r) - (Effective(i, r) % 4) ELSE Effective(i, r)

(* rt merged with the part of the word, value, that the address selects. *)
LwrMerged(old, value, k) == HighBytes(old, 4 - k) + (value \div ByteBase^k)

LwlMerged(old, value, k) ==
    IF k = 3 THEN value ELSE LowBytes(old, k + 1) + AsWord(value * ByteBase^(k + 1))

(* nextLoadValue.  A partial load merges with a load still under way. *)
LoadValue(i, r, memory, table) ==
    LET k == Effective(i, r) % 4
        value == ValueAt(memory, PhysAddr(table, Accessed(i, r)), Size(i.opCode))
        old == IF r[LoadReg] = i.rt THEN r[LoadValueReg] ELSE r[i.rt]
    IN  CASE i.opCode = "LB"  -> SignExtended(value, ByteBits)
          [] i.opCode = "LH"  -> SignExtended(value, HalfBits)
          [] i.opCode = "LWR" -> LwrMerged(old, value, k)
          [] i.opCode = "LWL" -> LwlMerged(old, value, k)
          [] OTHER            -> value

(* Mutant of SwlMerged: one byte too few. *)
SwlMerged_Short(reg, value, k) == HighBytes(value, k) + (reg \div ByteBase^(4 - k))

SwlMerged(reg, value, k) == HighBytes(value, k + 1) + (reg \div ByteBase^(3 - k))

SwrMerged(reg, value, k) == LowBytes(value, k) + AsWord(reg * ByteBase^k)

(* The value a store gives to WriteMem. *)
StoreValue(i, r, memory, table) ==
    LET k == Effective(i, r) % 4
        value == ValueAt(memory, PhysAddr(table, Accessed(i, r)), 4)
    IN  CASE i.opCode = "SWL" -> SwlMerged(r[i.rt], value, k)
          [] i.opCode = "SWR" -> SwrMerged(r[i.rt], value, k)
          [] OTHER            -> r[i.rt]

-----------------------------------------------------------------------------

(* Machine::DelayedLoad: the load under way ends, another one may start. *)
DelayedLoad(r, nextReg, nextValue) ==
    [[r EXCEPT ![r[LoadReg]] = r[LoadValueReg]]
        EXCEPT ![LoadReg] = nextReg, ![LoadValueReg] = nextValue, ![0] = 0]

(* ExceptionHandler: Powerdown never returns, and neither does ASSERT, so  *)
(* the PC is never moved past the instruction (UpdatePC).                  *)
ExceptionHandler(exception, type) ==
    IF exception = "Syscall" /\ type = SC_Halt THEN "halted" ELSE "aborted"

(* Mutant of RaiseException: the load under way is not finished. *)
RaiseException_LoadPending(exception, badVAddr, table) ==
    /\ registers' = [registers EXCEPT ![BadVAddrReg] = badVAddr]
    /\ status' = ExceptionHandler(exception, registers'[2])
    /\ which' = exception
    /\ pageTable' = table
    /\ UNCHANGED mainMemory

(* Machine::RaiseException. *)
RaiseException(exception, badVAddr, table) ==
    /\ registers' = DelayedLoad([registers EXCEPT ![BadVAddrReg] = badVAddr], 0, 0)
    /\ status' = ExceptionHandler(exception, registers'[2])
    /\ which' = exception
    /\ pageTable' = table
    /\ UNCHANGED mainMemory

(* The exception an instruction raises.  LH and LW test the alignment      *)
(* themselves, with the outcome Translate gives; a partial store reads     *)
(* the word first, for which Translate tests less than for writing.        *)
ExceptionOf(i, r, table) ==
    CASE i.opCode \in Loads \cup Stores ->
           Fault(table, Accessed(i, r), Size(i.opCode), i.opCode \in Stores)
      [] Overflows(i, r) -> "Overflow"
      [] i.opCode = "SYSCALL" -> "Syscall"
      [] i.opCode \in {"RES", "UNIMP"} -> "IllegalInstr"
      [] OTHER -> "None"

FetchFault == Fault(pageTable, registers[PCReg], 4, FALSE)
Fetched == Touched(pageTable, registers[PCReg], FALSE)

FetchTraps ==
    /\ status = "user"
    /\ FetchFault # "None"
    /\ RaiseException(FetchFault, registers[PCReg], pageTable)

(* The instruction, once fetched, raises an exception. *)
Traps(i) ==
    LET exception == ExceptionOf(i, registers, Fetched)
    IN  /\ status = "user"
        /\ FetchFault = "None" /\ exception # "None"
        /\ RaiseException(exception, IF i.opCode \in Loads \cup Stores
                                       THEN Accessed(i, registers) ELSE 0, Fetched)

Crashes(i) ==
    /\ status = "user"
    /\ FetchFault = "None" /\ HostTraps(i, registers)
    /\ status' = "crashed"
    /\ UNCHANGED <<which, registers, mainMemory>>
    /\ pageTable' = Fetched

(* Mutant of Advanced: the branch takes effect at once. *)
Advanced_NoSlot(r, pcAfter) ==
    [r EXCEPT ![PrevPCReg] = r[PCReg], ![PCReg] = pcAfter, ![NextPCReg] = AsWord(pcAfter + 4)]

(* The program counters after an instruction. *)
Advanced(r, pcAfter) ==
    [r EXCEPT ![PrevPCReg] = r[PCReg], ![PCReg] = r[NextPCReg], ![NextPCReg] = pcAfter]

Completes(i) ==
    LET loads == i.opCode \in Loads
        stores == i.opCode \in Stores
        done == Computed(i, registers)
        loaded == DelayedLoad(done, IF loads THEN i.rt ELSE 0,
                    IF loads THEN LoadValue(i, registers, mainMemory, pageTable) ELSE 0)
        addr == Accessed(i, registers)
    IN  /\ status = "user"
        /\ FetchFault = "None"
        /\ ExceptionOf(i, registers, Fetched) = "None"
        /\ ~HostTraps(i, registers)
        /\ registers' = Advanced(loaded, PcAfter(i, done))
        /\ mainMemory' = IF stores
                           THEN Stored(mainMemory, PhysAddr(pageTable, addr), Size(i.opCode),
                                       StoreValue(i, registers, mainMemory, pageTable))
                           ELSE mainMemory
        /\ pageTable' = IF loads \/ stores THEN Touched(Fetched, addr, stores) ELSE Fetched
        /\ UNCHANGED <<status, which>>

(* Machine::OneInstruction, called for ever by Machine::Run, on the word   *)
(* that is fetched.                                                        *)
OneInstruction(word) ==
    \/ FetchTraps
    \/ Traps(Decode(word))
    \/ Crashes(Decode(word))
    \/ Completes(Decode(word))

=============================================================================
