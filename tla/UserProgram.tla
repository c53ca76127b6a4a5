----------------------------- MODULE UserProgram -----------------------------
(***************************************************************************)
(* A user program from its COFF file to its end: converted by coff2noff,   *)
(* loaded by StartProcess and executed by the simulated processor.         *)
(*                                                                         *)
(* The words that are fetched are left open: at step n of a program, any   *)
(* of the source instructions of program[n].  Every execution of a program *)
(* of such instructions is among the behaviours, whatever its code.        *)
(***************************************************************************)
EXTENDS Coff2noff, AddrSpace, FiniteSets

(* The source instructions: every field fits its bits in the word, and no  *)
(* instruction reads the register it links, which the manual leaves open.  *)
Sources ==
    {s \in [name : Names, rs : GPRegs, rt : GPRegs, rd : GPRegs, k : Nat] :
        /\ s.k < (CASE s.name \in {"J", "JAL"} -> 2^JumpBits
                    [] s.name \in DOMAIN SpecialNumber -> WordBits
                    [] OTHER -> 2^HalfBits)
        /\ s.name \in {"BLTZAL", "BGEZAL"} => s.rs # RetAddrReg
        /\ s.name = "JALR" => s.rs # s.rd}

CONSTANT Cases          \* pairs of an image and a program: a sequence of sets
                        \* of source instructions; bound: a behaviour has as
                        \* many steps as its program is long
ASSUME CasesAssumption ==
    /\ Cases \subseteq Images \X Seq(SUBSET Sources)
    /\ \A image \in Images : \A j \in DOMAIN image.sections :
          image.sections[j].data \in Seq(0..(ByteBase - 1))

VARIABLES
    program,
    steps,          \* instructions executed or attempted
    \* History, by the manual of the processor and not by its simulation:
    ran,            \* the last instruction
    due,            \* the load it made: the register and the bytes loaded
    goes,           \* the address that follows its delay slot
    written         \* the pages the program stored into

hvars == <<program, steps, ran, due, goes, written>>
uvars == <<cvars, mvars, hvars>>

NoLoad == [reg |-> 0, value |-> 0]
Nop == [name |-> "SLL", rs |-> 0, rt |-> 0, rd |-> 0, k |-> 0]

Init ==
    /\ ConvertInit
    /\ MachineInit /\ status = "start" /\ which = "None"
    /\ \E case \in Cases : coff = case[1] /\ program = case[2]
    /\ steps = 0 /\ ran = Nop /\ due = NoLoad /\ goes = 0 /\ written = {}

-----------------------------------------------------------------------------
(* The reference: the processor by the bytes and the integers of a source  *)
(* instruction, little-endian.                                             *)

Immediate(s) == IF s.k >= 2^(HalfBits - 1) THEN s.k - 2^HalfBits ELSE s.k
Address(s, r) == AsWord(r[s.rs] + Immediate(s))

(* The bytes a load or store names. *)
Named(s, r) ==
    LET a == Address(s, r)
        word == a - (a % 4)
    IN  CASE s.name \in {"LB", "LBU", "SB"} -> {a}
          [] s.name \in {"LH", "LHU", "SH"} -> {a, a + 1}
          [] s.name \in {"LW", "SW"}        -> a..(a + 3)
          [] s.name \in {"LWL", "SWL"}      -> word..a
          [] s.name \in {"LWR", "SWR"}      -> a..(word + 3)
          [] OTHER                          -> {}

(* The byte of the register that goes with byte b of memory: the left part *)
(* of an unaligned word ends in the register's highest byte.               *)
RegisterByte(s, r, b) == IF s.name \in {"LWL", "SWL"} THEN 3 - (Address(s, r) - b) ELSE b - Address(s, r)

FromBytes(f) == f[0] + f[1] * ByteBase + f[2] * ByteBase^2 + f[3] * ByteBase^3

(* The register after a load.  Bytes that are not named are those of the   *)
(* register for LWL and LWR, and copies of the sign or zeros for others.   *)
Loaded(s, r, memory) ==
    LET bytes == Named(s, r)
        old == IF due.reg = s.rt THEN r[LoadValueReg] ELSE r[s.rt]
        top == memory[CHOOSE b \in bytes : \A c \in bytes : c <= b]
        fill(k) == CASE s.name \in {"LWL", "LWR"} -> ByteOf(old, k)
                     [] s.name \in {"LB", "LH"} /\ top >= ByteBase \div 2 -> ByteBase - 1
                     [] OTHER -> 0
    IN  FromBytes([k \in 0..3 |->
            IF \E b \in bytes : RegisterByte(s, r, b) = k
              THEN memory[CHOOSE b \in bytes : RegisterByte(s, r, b) = k] ELSE fill(k)])

(* The condition of a branch on the integer in rs. *)
Branches(s, r) ==
    LET n == Signed(r[s.rs])
    IN  \/ s.name = "BEQ" /\ n = Signed(r[s.rt])
        \/ s.name = "BNE" /\ n # Signed(r[s.rt])
        \/ s.name \in {"BGEZ", "BGEZAL"} /\ n >= 0
        \/ s.name \in {"BLTZ", "BLTZAL"} /\ n < 0
        \/ s.name = "BGTZ" /\ n > 0
        \/ s.name = "BLEZ" /\ n <= 0

(* Where an instruction at address pc sends the program, after its delay   *)
(* slot.                                                                   *)
Destination(s, r, pc) ==
    CASE Branches(s, r) -> AsWord(pc + 4 + 4 * Immediate(s))
      [] s.name \in {"J", "JAL"} -> ((pc + 4) \div 2^(JumpBits + 2)) * 2^(JumpBits + 2) + 4 * s.k
      [] s.name \in {"JR", "JALR"} -> r[s.rs]
      [] OTHER -> AsWord(pc + 8)

-----------------------------------------------------------------------------

Converts == status = "start" /\ Convert /\ UNCHANGED <<mvars, hvars>>

Starts ==
    /\ conversion \in {"done", "failed", "killed"}
    /\ StartProcess(noffFile)
    /\ UNCHANGED <<cvars, hvars>>

Remembers(s) ==
    /\ steps' = steps + 1
    /\ ran' = s
    /\ due' = IF status' = "user" /\ s.name \in Loads
                THEN [reg |-> s.rt, value |-> Loaded(s, registers, mainMemory)] ELSE NoLoad
    /\ goes' = Destination(s, registers, registers[PCReg])
    /\ written' = IF status' = "user" /\ s.name \in Stores
                    THEN written \cup {b \div PageSize : b \in Named(s, registers)} ELSE written
    /\ UNCHANGED program

Step(s) ==
    /\ OneInstruction(Assembled(s))
    /\ Remembers(s)
    /\ UNCHANGED cvars

Runs == steps < Len(program) /\ \E s \in program[steps + 1] : Step(s)

(* Run's OneTick after an instruction, when an interrupt is due: before it *)
(* calls the handler CheckIfDue finishes the load under way.  The handlers *)
(* and a yield leave nothing changed for the program.                      *)
Interrupted ==
    /\ status = "user" /\ steps > 0
    /\ registers' = DelayedLoad(registers, 0, 0)
    /\ due' = NoLoad
    /\ UNCHANGED <<cvars, status, which, mainMemory, pageTable, program, steps, ran, goes, written>>

Next == Converts \/ Starts \/ Runs \/ Interrupted

Spec == Init /\ [][Next]_uvars

-----------------------------------------------------------------------------

Exceptions == {"None", "Syscall", "PageFault", "ReadOnly", "BusError", "AddressError", "Overflow",
               "IllegalInstr"}

(* The page table has an entry for every page; the registers hold words.   *)
TypeOK ==
    /\ status \in {"start", "cannot_open", "bad_alloc", "user", "halted", "aborted", "crashed"}
    /\ which \in Exceptions
    /\ \A g \in Registers : registers[g] \in Word
    /\ registers[LoadReg] \in GPRegs /\ registers[0] = 0
    /\ \A p \in DOMAIN mainMemory : mainMemory[p] \in 0..(ByteBase - 1)
    /\ \A v \in DOMAIN pageTable : v \in 0..(NumPhysPages - 1)

numPages == Cardinality(DOMAIN pageTable)

Extent(s) == s.paddr..(s.paddr + s.size - 1)

(* coff2noff and AddrSpace::AddrSpace, "leave room for the stack": a       *)
(* program starts only from a conversion that came to its end; memory then *)
(* holds every section's bytes at its address and zeros elsewhere, bss and *)
(* stack included; the stack pointer is aligned, and the stack can grow by *)
(* its area, less 16 bytes, before it meets a section.  A conversion that  *)
(* failed leaves no output file.                                           *)
ImageLoaded ==
    /\ TypeOK
    /\ conversion = "failed" => ~noffFile.exists
    /\ status = "user" =>
          /\ conversion = "done"
          /\ steps = 0 =>
                LET filled == {j \in DOMAIN coff.sections :
                                  coff.sections[j].name \in {".text", ".data", ".rdata"}}
                    all == {j \in DOMAIN coff.sections : coff.sections[j].name \notin {".drop", ".debug"}}
                IN  /\ \A j \in filled : \A p \in Extent(coff.sections[j]) :
                          mainMemory[p] = coff.sections[j].data[p - coff.sections[j].paddr + 1]
                    /\ \A p \in DOMAIN mainMemory :
                          (\A j \in filled : p \notin Extent(coff.sections[j])) => mainMemory[p] = 0
                    /\ \A j \in all : \A p \in Extent(coff.sections[j]) :
                          p <= registers[StackReg] - (UserStacksAreaSize - 16)
                    /\ registers[StackReg] % 4 = 0
                    /\ registers[StackReg] < numPages * PageSize
                    /\ numPages * PageSize <= MemorySize

(* An address the program may use: not in page 0, and in its own space. *)
Accessible(addr) == addr \in PageSize..(numPages * PageSize - 1)

Aligned(s, r) ==
    CASE s.name \in {"LH", "LHU", "SH"} -> Address(s, r) % 2 = 0
      [] s.name \in {"LW", "SW"} -> Address(s, r) % 4 = 0
      [] OTHER -> TRUE

(* Machine::Translate: a fetch, load or store goes through exactly when    *)
(* all its bytes are aligned addresses of the program's own space; the     *)
(* dirty bits say exactly which pages were stored into, and no access      *)
(* changes the mapping.                                                    *)
AccessConfined ==
    [][steps' # steps =>
        LET pc == registers[PCReg]
            allowed == /\ pc % 4 = 0 /\ Accessible(pc)
                       /\ Aligned(ran', registers)
                       /\ \A b \in Named(ran', registers) : Accessible(b)
        IN  /\ which' \in {"AddressError", "PageFault"} <=> ~allowed
            /\ which' \notin {"BusError", "ReadOnly"}
            /\ \A v \in DOMAIN pageTable : /\ pageTable'[v].dirty <=> v \in written'
                                           /\ pageTable'[v].use <=> v # 0
                                           /\ pageTable'[v].physicalPage = v]_uvars

(* The exact integer an instruction stands for; 0 for the others. *)
Exact(s, r) ==
    LET a == Signed(r[s.rs])
        b == Signed(r[s.rt])
    IN  CASE s.name \in {"ADD", "ADDU"} -> a + b
          [] s.name \in {"SUB", "SUBU"} -> a - b
          [] s.name \in {"ADDI", "ADDIU"} -> a + Immediate(s)
          [] s.name = "MULT" -> a * b
          [] s.name = "MULTU" -> r[s.rs] * r[s.rt]
          [] OTHER -> 0

Fits(n) == n \in (-(Base \div 2))..(Base \div 2 - 1)

(* The instruction completes, and no load ends with it. *)
Completed == steps' # steps /\ status' = "user" /\ due.reg = 0

(* What a step leaves of the exact result of its instruction. *)
ExactStep ==
    LET s == ran'
        n == Exact(s, registers)
        a == Signed(registers[s.rs])
        b == Signed(registers[s.rt])
        dest(g) == IF g = 0 THEN 0 ELSE Signed(registers'[g])
        zeroOr(g, value) == IF g = 0 THEN 0 ELSE value
        hi == registers'[HiReg]
        lo == registers'[LoReg]
    IN  /\ steps' # steps /\ which' \notin {"AddressError", "PageFault"} =>
              (which' = "Overflow" <=> s.name \in {"ADD", "ADDI", "SUB"} /\ ~Fits(n))
        /\ status' = "crashed" /\ status # status' => s.name = "DIV" /\ b # 0 /\ ~Fits(Quotient(a, b))
        /\ Completed =>
              /\ s.name \in {"ADD", "SUB"} => dest(s.rd) = zeroOr(s.rd, n)
              /\ s.name \in {"ADDU", "SUBU"} => (dest(s.rd) - zeroOr(s.rd, n)) % Base = 0
              /\ s.name \in {"ADDI", "ADDIU"} => (dest(s.rt) - zeroOr(s.rt, n)) % Base = 0
              /\ s.name \in {"MULT", "MULTU"} => hi * Base + lo = n % (Base * Base)
              /\ s.name = "DIV" /\ b # 0 =>
                    LET rem == Signed(hi)
                    IN  /\ a = Signed(lo) * b + rem
                        /\ rem * rem < b * b /\ rem * a >= 0
              /\ s.name = "DIVU" /\ b # 0 =>
                    registers[s.rs] = lo * registers[s.rt] + hi /\ hi < registers[s.rt]
              /\ s.name = "SLT" => dest(s.rd) = zeroOr(s.rd, Flag(a < b))
              /\ s.name = "SLTI" => dest(s.rt) = zeroOr(s.rt, Flag(a < Immediate(s)))
              /\ s.name = "SRA" => LET q == dest(s.rd) IN s.rd # 0 => q * 2^s.k <= b /\ b < (q + 1) * 2^s.k
              /\ s.name = "ORI" /\ s.rt # 0 =>
                    HighBytes(registers'[s.rt], 2) = HighBytes(registers[s.rs], 2)

(* Machine::OneInstruction and Mult: ADD, ADDI and SUB raise an overflow   *)
(* exactly when the integer result has no word, and otherwise hold it; HI  *)
(* and LO hold the exact product, or a quotient and remainder of C; SLT,   *)
(* SLTI and SRA compare and shift the signed integers; ADDI and ADDIU add  *)
(* a signed immediate, and ORI one that leaves the high half alone.  Only  *)
(* a division with no quotient in a word kills the process.  (Nothing is   *)
(* said of the unsigned comparisons, the other shifts and ANDI, XORI, LUI.)*)
ResultExact == [][ExactStep]_uvars

(* Machine::OneInstruction and DelayedLoad, "RaiseException/               *)
(* CheckInterrupts must also call DelayedLoad": a load shows the bytes of  *)
(* memory at the end of the instruction after it, trap or not, unless the  *)
(* host kills the process, or already before that instruction when an      *)
(* interrupt comes in between, which changes no other register and happens *)
(* at most once; and never in the instruction that loads.  A branch takes  *)
(* effect after the instruction behind it, interrupted or not.  (LWL is    *)
(* the subject of UnalignedLoad; a branch in a branch's delay slot is left *)
(* open.)                                                                  *)
DelaySlots ==
    [][/\ steps' # steps =>
            /\ due.reg # 0 /\ ran.name # "LWL" /\ status' # "crashed" => registers'[due.reg] = due.value
            /\ status' = "user" /\ ran'.name \in Loads /\ ran'.rt # due.reg =>
                  registers'[ran'.rt] = registers[ran'.rt]
            /\ status' = "user" /\ steps > 0 /\ registers[PCReg] = registers[PrevPCReg] + 4 =>
                  registers'[PCReg] = goes
       /\ steps' = steps /\ status = "user" =>
            \A g \in GPRegs \cup HiReg..PrevPCReg :
                g # due.reg \/ ran.name # "LWL" =>
                    registers'[g] = IF g # 0 /\ g = due.reg THEN due.value ELSE registers[g]]_uvars

(* The manual and mipssim.cc, "Byte ordering is little-endian": LWL puts   *)
(* the bytes of the word up to its address in the high bytes of the        *)
(* register and leaves the low ones.                                       *)
UnalignedLoad ==
    ran.name = "LWL" /\ status = "user" /\ due.reg # 0 => registers[LoadValueReg] = due.value

(* OneInstruction, "re-start the instruction execution from the beginning" *)
(* and RaiseException: an exception leaves memory, the program counters    *)
(* and every register as they were, but for the load that was under way,   *)
(* which is finished before the kernel looks at the registers.             *)
TrapHarmless ==
    [][which' # which =>
        LET seen(g) == IF g # 0 /\ g = due.reg /\ ran.name # "LWL" THEN due.value ELSE registers[g]
        IN  /\ mainMemory' = mainMemory
            /\ \A g \in GPRegs \cup HiReg..PrevPCReg :
                  g # due.reg \/ ran.name # "LWL" => registers'[g] = seen(g)
            /\ registers'[LoadReg] = 0
            /\ status' = "halted" => which' = "Syscall" /\ registers'[2] = 0
            /\ which' = "Syscall" /\ (due.reg # 2 \/ ran.name # "LWL") =>
                  (status' = "halted" <=> seen(2) = 0)
            /\ which' \in {"AddressError", "PageFault"} =>
                  registers'[BadVAddrReg] \in {registers[PCReg], Address(ran', registers),
                                               Address(ran', registers) - (Address(ran', registers) % 4)}]_uvars

(* WriteMem, SWL and SWR: a store changes exactly the bytes it names, each *)
(* to its own byte of the register, and no other instruction changes       *)
(* memory.                                                                 *)
StoreExact ==
    [][steps' # steps =>
        \A p \in DOMAIN mainMemory :
            mainMemory'[p] = IF status' = "user" /\ ran'.name \in Stores /\ p \in Named(ran', registers)
                               THEN ByteOf(registers[ran'.rt], RegisterByte(ran', registers, p))
                               ELSE mainMemory[p]]_uvars

=============================================================================
