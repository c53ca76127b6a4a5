---------------------------- MODULE MCUserProgram ----------------------------
(* Images of small layouts, and programs of a few instructions on words of  *)
(* eight bits (bytes of two).  The sections of an image follow each other   *)
(* from address 0, as test/script lays them out.                            *)
EXTENDS UserProgram

Regs == {0, 1, 2, 29, 31}

(* Byte contents that differ from one address to the next. *)
Bytes(addr, size) == [j \in 1..size |-> (addr + j + (addr + j) \div 4) % 4]

RECURSIVE LaidOut(_, _)
LaidOut(parts, addr) ==
    IF parts = <<>> THEN <<>>
    ELSE LET part == Head(parts)
             at == addr + part.gap
         IN  <<[name |-> part.name, paddr |-> at, size |-> part.size,
                data |-> Bytes(at, part.size - part.missing)]>>
             \o LaidOut(Tail(parts), at + part.size)

Part(name, size) == [name |-> name, size |-> size, gap |-> 0, missing |-> 0]
Coff(parts) == [f_magic |-> "MIPSELMAGIC", magic |-> "OMAGIC", sections |-> LaidOut(parts, 0)]

Usual == Coff(<<Part(".text", 40), Part(".data", 8), Part(".sbss", 8), Part(".bss", 8), Part(".drop", 4)>>)

MCImages ==
    {Usual,
     [Usual EXCEPT !.f_magic = "other"],
     [Usual EXCEPT !.magic = "SOMAGIC"],
     Coff(<<Part(".text", 40)>>),
     Coff(<<Part(".text", 24), Part(".rdata", 16), Part(".data", 0), Part(".bss", 8), Part(".debug", 4)>>),
     Coff(<<Part(".data", 16), Part(".text", 24)>>),
     Coff(<<Part(".text", 36), Part(".data", 8)>>),
     Coff(<<Part(".text", 40), Part(".rdata", 8), Part(".data", 8)>>),
     Coff(<<Part(".text", 40), [Part(".data", 8) EXCEPT !.missing = 1]>>),
     Coff(<<Part(".text", 24), Part(".bss", 8), [Part(".sbss", 8) EXCEPT !.gap = 8]>>),
     Coff(<<Part(".text", 24), Part(".comment", 8)>>),
     Coff(<<Part(".text", 48), Part(".data", 16), Part(".bss", 8)>>)}

R(name, rd, rs, rt, k) == [name |-> name, rs |-> rs, rt |-> rt, rd |-> rd, k |-> k]
I(name, rt, rs, k) == R(name, 0, rs, rt, k)

(* A register is given a value by its high and its low half. *)
High(g, halves) == {I("LUI", g, 0, h) : h \in halves}
Low(g, halves) == {I("ORI", g, g, h) : h \in halves}

Arithmetic ==
    {R(n, 1, 1, 2, 0) : n \in ToRd \ {"SLL", "SRA", "SRL"}}
    \cup {R(n, 0, 1, 2, 0) : n \in {"ADDU", "SUB"}}
    \cup {R(n, 1, 0, 2, k) : n \in {"SLL", "SRA", "SRL"}, k \in {0, 1, 7}}
    \cup {I(n, 1, 1, k) : n \in ToRt, k \in {0, 1, 7, 8, 15}}
    \cup {R(n, 0, 1, 2, 0) : n \in ToHiLo}

MoveHiLo == {R(n, 1, 0, 0, 0) : n \in {"MFHI", "MFLO"}}

Access(offsets) == {I(n, 2, 1, k) : n \in Loads \cup Stores, k \in offsets}

Branch ==
    {I(n, 2, 1, k) : n \in {"BEQ", "BNE", "BGTZ", "BLEZ"} \cup DOMAIN BcondNumber, k \in {2, 15}}
    \cup {R("J", 0, 0, 0, 2), R("J", 0, 0, 0, 9), R("JAL", 0, 0, 0, 5)}
    \cup {R("JR", 0, 1, 0, 0), R("JR", 0, 31, 0, 0), R("JALR", 31, 1, 0, 0)}

Trap == {R(n, 0, 0, 0, 0) : n \in {"SYSCALL", "BREAK", "COP0", "LWC1", "SWC2", "CATCHER"}}

(* What may follow a load of register 2, or a branch. *)
Follower ==
    {Nop, R("ADDU", 1, 2, 2, 0), R("ADDU", 2, 1, 1, 0), R("ADD", 1, 1, 2, 0), R("MULT", 0, 2, 2, 0),
     I("ADDI", 1, 2, 7), I("BEQ", 0, 2, 2), I("BLTZAL", 0, 2, 2), R("JR", 0, 2, 0, 0)}
    \cup Access({0, 1, 2, 3}) \cup Trap

Halves == {0, 1, 7, 8, 15}

MCPrograms ==
    {<<High(1, Halves), Low(1, {0, 1, 8, 15}), High(2, Halves), Low(2, {0, 1, 8, 15}), Arithmetic, MoveHiLo>>,
     <<High(1, {0, 3, 5}), High(2, {14}), Low(2, {4}), Access(0..15), Access(0..15), {Nop}>>,
     <<High(1, {3}), Access(8..15), Follower, Trap \cup {Nop}>>,
     <<High(1, {0, 2, 8}), Branch, Branch \cup Follower, {Nop} \cup Branch, {Nop}>>}

MCCases == (MCImages \X {<<>>}) \cup ({Usual} \X MCPrograms)
=============================================================================
