------------------------------ MODULE AddrSpace ------------------------------
(***************************************************************************)
(* An address space and the start of a user program (userprog/             *)
(* addrspace.cc, userprog/progtest.cc).  One program runs.                 *)
(***************************************************************************)
EXTENDS Mips

CONSTANTS
    UserStacksAreaSize,
    USER_START_ADDRESS

ASSUME AddrSpaceAssumption ==
    /\ UserStacksAreaSize \in Nat /\ UserStacksAreaSize > 16
    /\ USER_START_ADDRESS \in Nat /\ USER_START_ADDRESS + 4 < Base
    /\ MemorySize <= Base

(* Machine::Machine: registers and memory are zeros, no page table is set. *)
MachineInit ==
    /\ registers = [g \in Registers |-> 0]
    /\ mainMemory = [p \in 0..(MemorySize - 1) |-> 0]
    /\ pageTable = <<>>

divRoundUp(n, s) == (n + s - 1) \div s

NewPages(size) == divRoundUp(size + UserStacksAreaSize, PageSize)

TooBig(n) == n > NumPhysPages

(* One to one, and page 0 invalid to catch NULL dereferences. *)
NewTable(n) ==
    [i \in 0..(n - 1) |-> [physicalPage |-> i, valid |-> i # 0, readOnly |-> FALSE,
                           use |-> FALSE, dirty |-> FALSE]]

(* The memory after ReadAt copied a segment of the file into it. *)
Copied(memory, segment, body) ==
    [p \in DOMAIN memory |->
        IF p \in segment.virtualAddr..(segment.virtualAddr + segment.size - 1)
          THEN body[segment.inFileAddr + p - segment.virtualAddr + 1] ELSE memory[p]]

(* AddrSpace::InitRegisters. *)
InitialRegisters(n) ==
    [g \in Registers |-> CASE g = PCReg     -> USER_START_ADDRESS
                           [] g = NextPCReg -> USER_START_ADDRESS + 4
                           [] g = StackReg  -> n * PageSize - 16
                           [] OTHER         -> 0]

(* Machine::DumpMem translates an address of every valid page, which sets  *)
(* the use bits.                                                           *)
Dumped(table) == [i \in DOMAIN table |-> [table[i] EXCEPT !.use = @ \/ table[i].valid]]

(* DrawArea, called by DumpMem, asserts that each segment fills its pages. *)
Drawable(segment) ==
    segment.size # 0 => segment.virtualAddr % PageSize = 0 /\ segment.size % PageSize = 0

(* StartProcess, for the file "executable": the AddrSpace constructor,     *)
(* InitRegisters, RestoreState, DumpMem and the jump to Machine::Run.  The *)
(* header of a file that is no NOFF file fails the ASSERT.                 *)
StartProcess(executable) ==
    LET header == executable.header
        n == NewPages(header.code.size + header.initData.size + header.uninitData.size)
    IN  /\ status = "start"
        /\ UNCHANGED which
        /\ CASE ~executable.exists ->
                  status' = "cannot_open" /\ UNCHANGED <<registers, mainMemory, pageTable>>
             [] executable.exists /\ header.noffMagic # "NOFFMAGIC" ->
                  status' = "aborted" /\ UNCHANGED <<registers, mainMemory, pageTable>>
             [] OTHER ->
                  IF TooBig(n)
                    THEN status' = "bad_alloc" /\ UNCHANGED <<registers, mainMemory, pageTable>>
                    ELSE /\ mainMemory' = Copied(Copied(mainMemory, header.code, executable.body),
                                                 header.initData, executable.body)
                         /\ registers' = InitialRegisters(n)
                         /\ pageTable' = Dumped(NewTable(n))
                         /\ status' = IF \A s \in {header.code, header.initData, header.uninitData} :
                                            Drawable(s)
                                        THEN "user" ELSE "aborted"

=============================================================================
