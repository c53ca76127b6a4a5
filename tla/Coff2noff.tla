------------------------------ MODULE Coff2noff ------------------------------
(***************************************************************************)
(* The conversion of an executable from COFF to NOFF (bin/coff2noff.c).    *)
(*                                                                         *)
(* A COFF file is the magic numbers of its two headers and its sections,   *)
(* each with its name, address, size and the bytes the file really has for *)
(* it.  Positions in the NOFF file are counted from the end of its header. *)
(***************************************************************************)
EXTENDS Integers, Sequences

CONSTANT Images         \* the COFF files considered

Uninitialized == {".bss", ".sbss"}
Dropped == {".drop", ".debug"}

(* The sections s lie one behind the other from address 0, the bss behind  *)
(* the others and those that are dropped at the end, as test/script lays   *)
(* them out.  Only before a section of bss that follows another there may  *)
(* be a gap.                                                               *)
OneAfterTheOther(s) ==
    /\ \A i, j \in DOMAIN s : i < j => s[i].name # s[j].name /\ s[i].paddr + s[i].size <= s[j].paddr
    /\ \A j \in DOMAIN s :
          \/ s[j].name \in Dropped
          \/ /\ s[j].name \in Uninitialized
             /\ \E i \in DOMAIN s : i < j /\ s[i].name \in Uninitialized /\ s[i].size # 0
          \/ IF j = 1 THEN s[j].paddr = 0
             ELSE /\ s[j - 1].name \notin Dropped
                  /\ s[j - 1].name \in Uninitialized => s[j].name \in Uninitialized
                  /\ s[j].paddr = s[j - 1].paddr + s[j - 1].size

ASSUME ImagesAssumption ==
    \A image \in Images :
        /\ image.sections \in Seq([name : STRING, paddr : Nat, size : Nat, data : Seq(Nat)])
        /\ OneAfterTheOther(image.sections)

VARIABLES
    coff,               \* the input file
    noffFile,           \* the output file: exists, header, body (bytes)
    noffH, inNoffFile,  \* locals of main
    section,            \* the loop variable i, counted from 1
    conversion          \* "start", "copying", "done", "failed" (exit(1)), "killed"

cvars == <<coff, noffFile, noffH, inNoffFile, section, conversion>>

NoSegment == [virtualAddr |-> 0, inFileAddr |-> 0, size |-> 0]

(* A header that was never written reads as zeros, or as nothing at all. *)
NoHeader == [noffMagic |-> "none", code |-> NoSegment, initData |-> NoSegment,
             uninitData |-> NoSegment]

NoFile == [exists |-> FALSE, header |-> NoHeader, body |-> <<>>]

(* The output of an earlier conversion may still be there. *)
EarlierFile ==
    [exists |-> TRUE, body |-> <<0>>,
     header |-> [NoHeader EXCEPT !.noffMagic = "NOFFMAGIC", !.code = [NoSegment EXCEPT !.size = 1]]]

ConvertInit ==
    /\ noffFile \in {NoFile, EarlierFile}
    /\ noffH = NoHeader /\ inNoffFile = 0 /\ section = 1
    /\ conversion = "start"

(* unlink(noffFileName); exit(1). *)
GiveUp ==
    /\ noffFile' = [noffFile EXCEPT !.exists = FALSE]
    /\ conversion' = "failed"
    /\ UNCHANGED <<coff, noffH, inNoffFile, section>>

(* Both files are opened, the output truncated, the headers read and       *)
(* checked, and noffH initialized.                                         *)
ReadHeaders ==
    /\ conversion = "start"
    /\ IF coff.f_magic # "MIPSELMAGIC" \/ coff.magic # "OMAGIC"
         THEN GiveUp
         ELSE /\ noffFile' = [NoFile EXCEPT !.exists = TRUE]
              /\ noffH' = [NoHeader EXCEPT !.noffMagic = "NOFFMAGIC"]
              /\ conversion' = "copying"
              /\ UNCHANGED <<coff, inNoffFile, section>>

Current == coff.sections[section]

Copying == conversion = "copying" /\ section <= Len(coff.sections)

(* Mutant of CopySegment: the position in the output is not advanced. *)
CopySegment_SamePlace(field) ==
    \/ /\ Len(Current.data) >= Current.size
       /\ noffH' = [noffH EXCEPT ![field] = [virtualAddr |-> Current.paddr,
                                             inFileAddr |-> inNoffFile, size |-> Current.size]]
       /\ noffFile' = [noffFile EXCEPT !.body = @ \o SubSeq(Current.data, 1, Current.size)]
       /\ section' = section + 1
       /\ UNCHANGED <<coff, conversion, inNoffFile>>
    \/ GiveUp

(* Read and Write, with the section's position in the output.  The read    *)
(* fails when the file is too short, the write when the disk is full.      *)
CopySegment(field) ==
    \/ /\ Len(Current.data) >= Current.size
       /\ noffH' = [noffH EXCEPT ![field] = [virtualAddr |-> Current.paddr,
                                             inFileAddr |-> inNoffFile, size |-> Current.size]]
       /\ noffFile' = [noffFile EXCEPT !.body = @ \o SubSeq(Current.data, 1, Current.size)]
       /\ inNoffFile' = inNoffFile + Current.size
       /\ section' = section + 1
       /\ UNCHANGED <<coff, conversion>>
    \/ GiveUp

Text ==
    /\ Copying
    /\ Current.size # 0 /\ Current.name = ".text"
    /\ CopySegment("code")

Data ==
    /\ Copying
    /\ Current.size # 0 /\ Current.name \in {".data", ".rdata"}
    /\ IF noffH.initData.size # 0 THEN GiveUp ELSE CopySegment("initData")

Bss ==
    /\ Copying
    /\ Current.size # 0 /\ Current.name \in Uninitialized
    /\ LET bss == noffH.uninitData
       IN  IF bss.size # 0 /\ Current.paddr > bss.virtualAddr + bss.size
             THEN GiveUp
             ELSE /\ noffH' = [noffH EXCEPT !.uninitData =
                        IF bss.size # 0 THEN [bss EXCEPT !.size = @ + Current.size]
                        ELSE [virtualAddr |-> Current.paddr, inFileAddr |-> -1, size |-> Current.size]]
                  /\ section' = section + 1
                  /\ UNCHANGED <<coff, noffFile, inNoffFile, conversion>>

(* Empty sections, .drop and .debug sections are dropped. *)
Drop ==
    /\ Copying
    /\ Current.size = 0 \/ Current.name \in Dropped
    /\ section' = section + 1
    /\ UNCHANGED <<coff, noffFile, noffH, inNoffFile, conversion>>

UnknownSegment ==
    /\ Copying
    /\ Current.size # 0
    /\ Current.name \notin {".text", ".data", ".rdata"} \cup Uninitialized \cup Dropped
    /\ GiveUp

(* The header is written last; the write may fail. *)
Finish ==
    /\ conversion = "copying" /\ section > Len(coff.sections)
    /\ \/ /\ noffFile' = [noffFile EXCEPT !.header = noffH]
          /\ conversion' = "done"
          /\ UNCHANGED <<coff, noffH, inNoffFile, section>>
       \/ GiveUp

(* The conversion is interrupted, and what it wrote so far stays. *)
Killed ==
    /\ conversion = "copying"
    /\ conversion' = "killed"
    /\ UNCHANGED <<coff, noffFile, noffH, inNoffFile, section>>

Convert == ReadHeaders \/ Text \/ Data \/ Bss \/ Drop \/ UnknownSegment \/ Finish \/ Killed

=============================================================================
