----------------------------- MODULE Instruction -----------------------------
(***************************************************************************)
(* Instruction words and their decoding (Instruction::Decode in            *)
(* machine/mipssim.cc, with the tables of machine/mipssim.h).              *)
(*                                                                         *)
(* A word is the record of its fields.  In the code the immediate and the  *)
(* target overlap the fields to the left of them; as an instruction reads  *)
(* either the one or the others, they are fields of their own here.        *)
(***************************************************************************)
EXTENDS Word, Sequences

(* opTable: the operation and the format of each primary opcode.           *)
UNIMP4 == <<"UNIMP", "UNIMP", "UNIMP", "UNIMP">>
RES4   == <<"RES", "RES", "RES", "RES">>

opTable ==
       <<"SPECIAL", "BCOND", "J", "JAL",  "BEQ", "BNE", "BLEZ", "BGTZ",
         "ADDI", "ADDIU", "SLTI", "SLTIU",  "ANDI", "ORI", "XORI", "LUI">>
    \o UNIMP4 \o RES4 \o RES4 \o RES4
    \o <<"LB", "LH", "LWL", "LW",  "LBU", "LHU", "LWR", "RES",
         "SB", "SH", "SWL", "SW",  "RES", "RES", "SWR", "RES">>
    \o UNIMP4 \o RES4 \o UNIMP4 \o RES4

Format(opCode) ==
    CASE opCode = "SPECIAL"      -> "RFMT"
      [] opCode \in {"J", "JAL"} -> "JFMT"
      [] OTHER                   -> "IFMT"

(* The operation of each function code of SPECIAL. *)
specialTable ==
       <<"SLL", "RES", "SRL", "SRA",  "SLLV", "RES", "SRLV", "SRAV",
         "JR", "JALR", "RES", "RES",  "SYSCALL", "UNIMP", "RES", "RES",
         "MFHI", "MTHI", "MFLO", "MTLO">> \o RES4
    \o <<"MULT", "MULTU", "DIV", "DIVU">> \o RES4
    \o <<"ADD", "ADDU", "SUB", "SUBU",  "AND", "OR", "XOR", "NOR",
         "RES", "RES", "SLT", "SLTU">> \o RES4
    \o RES4 \o RES4 \o RES4 \o RES4

(* The branches of opcode BCOND, told apart by the bits of field rt. *)
BcondOf(rt) ==
    CASE rt = 0  -> "BLTZ"
      [] rt = 1  -> "BGEZ"
      [] rt = 16 -> "BLTZAL"
      [] rt = 17 -> "BGEZAL"
      [] OTHER   -> "UNIMP"

(* Instruction::Decode. *)
Decode(word) ==
    LET opCode == opTable[word.op + 1]
        format == Format(opCode)
    IN  [opCode |-> CASE opCode = "SPECIAL" -> specialTable[word.funct + 1]
                      [] opCode = "BCOND"   -> BcondOf(word.rt)
                      [] OTHER              -> opCode,
         rs |-> word.rs, rt |-> word.rt, rd |-> word.rd,
         extra |-> CASE format = "IFMT" -> SignExtended(word.imm, HalfBits)
                     [] format = "RFMT" -> word.shamt
                     [] format = "JFMT" -> word.target]

-----------------------------------------------------------------------------
(* The encoding the programs are assembled with (bin/encode.h).            *)

OpNumber ==
    [J |-> 2, JAL |-> 3, BEQ |-> 4, BNE |-> 5, BLEZ |-> 6, BGTZ |-> 7,
     ADDI |-> 8, ADDIU |-> 9, SLTI |-> 10, SLTIU |-> 11,
     ANDI |-> 12, ORI |-> 13, XORI |-> 14, LUI |-> 15,
     COP0 |-> 16, COP1 |-> 17, COP2 |-> 18, COP3 |-> 19,
     LB |-> 32, LH |-> 33, LWL |-> 34, LW |-> 35, LBU |-> 36, LHU |-> 37, LWR |-> 38,
     SB |-> 40, SH |-> 41, SWL |-> 42, SW |-> 43, SWR |-> 46,
     LWC0 |-> 48, LWC1 |-> 49, LWC2 |-> 50, LWC3 |-> 51,
     SWC0 |-> 56, SWC1 |-> 57, SWC2 |-> 58, SWC3 |-> 59]

SpecialNumber ==
    [SLL |-> 0, SRL |-> 2, SRA |-> 3, SLLV |-> 4, SRLV |-> 6, SRAV |-> 7,
     JR |-> 8, JALR |-> 9, SYSCALL |-> 12, BREAK |-> 13,
     MFHI |-> 16, MTHI |-> 17, MFLO |-> 18, MTLO |-> 19,
     MULT |-> 24, MULTU |-> 25, DIV |-> 26, DIVU |-> 27,
     ADD |-> 32, ADDU |-> 33, SUB |-> 34, SUBU |-> 35,
     AND |-> 36, OR |-> 37, XOR |-> 38, NOR |-> 39, SLT |-> 42, SLTU |-> 43]

BcondNumber == [BLTZ |-> 0, BGEZ |-> 1, BLTZAL |-> 16, BGEZAL |-> 17]

Names == DOMAIN OpNumber \cup DOMAIN SpecialNumber \cup DOMAIN BcondNumber \cup {"CATCHER"}

(* The word of a source instruction: k is its immediate, shift amount or   *)
(* target.  CATCHER is the word of ones that test/start.S puts where no    *)
(* program should go.                                                      *)
Assembled(source) ==
    LET name == source.name
        fields == [op |-> 0, rs |-> source.rs, rt |-> source.rt, rd |-> source.rd,
                   shamt |-> source.k, funct |-> 0, imm |-> source.k, target |-> source.k]
    IN  CASE name \in DOMAIN OpNumber -> [fields EXCEPT !.op = OpNumber[name]]
          [] name \in DOMAIN SpecialNumber -> [fields EXCEPT !.funct = SpecialNumber[name]]
          [] name \in DOMAIN BcondNumber -> [fields EXCEPT !.op = 1, !.rt = BcondNumber[name]]
          [] name = "CATCHER" -> [fields EXCEPT !.op = 63, !.funct = 63]

=============================================================================
