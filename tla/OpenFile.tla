------------------------------ MODULE OpenFile ------------------------------
(***************************************************************************)
(* Reading and writing byte ranges of an open file (filesys/openfile.cc)   *)
(* by whole sectors, through a buffer that starts as garbage.  Each thread *)
(* has an OpenFile of its own on the same file; the threads interleave at  *)
(* every sector access (module SynchDisk makes each one atomic).           *)
(*                                                                         *)
(* A byte is a pair: the value written and the file position the client    *)
(* meant it for.                                                           *)
(***************************************************************************)
EXTENDS Integers, Sequences, Functions

CONSTANTS
    SectorSize, FileLength,
    dataSectors,    \* the file header: its sectors on disk, in order
    Threads, Values,
    Lengths, Positions,     \* the arguments clients use
    Movers,         \* threads that use Seek, Read and Write; the others ReadAt, WriteAt
    Garbage

ASSUME OpenFileAssumption ==
    /\ SectorSize \in Nat \ {0} /\ FileLength \in Nat
    /\ dataSectors \in Seq(Nat)
    /\ Len(dataSectors) = (FileLength + SectorSize - 1) \div SectorSize
    /\ IsInjective(dataSectors)
    /\ Lengths \subseteq Int /\ Positions \subseteq Nat
    /\ Movers \subseteq Threads /\ 0 \notin Values
    /\ Garbage \notin (Values \cup {0}) \X Nat

VARIABLES
    disk,           \* contents of the file's sectors
    seekPosition,
    call,           \* each thread's call, or None
    reads, writes,  \* the sectors of the file it has still to read and write
    buf,            \* its buffer, by file position
    result,         \* what the last call returned
    shared,         \* history: a write shared a sector with the call as it ran
    last            \* history: the file as the calls that returned left it

ovars == <<disk, seekPosition, call, reads, writes, buf, result, shared, last>>

None == [kind |-> "none", pos |-> 0, n |-> 0, value |-> 0]

(* FileHeader::ByteToSector *)
ByteToSector(offset) == dataSectors[(offset \div SectorSize) + 1]

First(c) == c.pos \div SectorSize
Last(c) == (c.pos + c.n - 1) \div SectorSize

(* The file positions in sector i of the file. *)
InSector(i) == (i * SectorSize)..((i + 1) * SectorSize - 1)

ByteOnDisk(p) == disk[ByteToSector(p)][p % SectorSize]

Upto(i, j) == [k \in 1..(j - i + 1) |-> i + k - 1]

(* The request cut at the end of the file. *)
Clipped(n, pos) == IF pos + n > FileLength THEN FileLength - pos ELSE n

(* Mutant of Prefetch: the first sector only. *)
Prefetch_FirstOnly(c) ==
    IF c.pos # First(c) * SectorSize THEN <<First(c)>> ELSE <<>>

(* The sectors WriteAt reads first because it changes them only in part.   *)
Prefetch(c) ==
    LET firstAligned == c.pos = First(c) * SectorSize
        lastAligned  == c.pos + c.n = (Last(c) + 1) * SectorSize
    IN  (IF ~firstAligned THEN <<First(c)>> ELSE <<>>)
          \o (IF ~lastAligned /\ (First(c) # Last(c) \/ firstAligned)
                THEN <<Last(c)>> ELSE <<>>)

(* Mutant of Merged: the data is copied over the whole buffer. *)
Merged_Whole(t, p) == <<call[t].value, p>>

(* The byte at position p of the buffer of a write, its data copied in.    *)
Merged(t, p) ==
    IF p \in call[t].pos..(call[t].pos + call[t].n - 1)
      THEN <<call[t].value, p>> ELSE buf[t][p]

Idle(t) == call[t] = None

Writers == {t \in Threads : call[t].kind = "write"}

Overlap(c, d) == First(c) <= Last(d) /\ First(d) <= Last(c)

InRange(c, p) == First(c) <= p \div SectorSize /\ p \div SectorSize <= Last(c)

Init ==
    /\ disk = [s \in Range(dataSectors) |->
                [o \in 0..(SectorSize - 1) |->
                    LET p == (CHOOSE i \in DOMAIN dataSectors : dataSectors[i] = s) * SectorSize
                               - SectorSize + o
                    IN  IF p < FileLength THEN <<0, p>> ELSE Garbage]]
    /\ seekPosition = [t \in Threads |-> 0]
    /\ call = [t \in Threads |-> None]
    /\ reads = [t \in Threads |-> <<>>] /\ writes = [t \in Threads |-> <<>>]
    /\ buf = [t \in Threads |-> <<>>]
    /\ result = [count |-> 0, data |-> <<>>]
    /\ shared = [t \in Threads |-> FALSE]
    /\ last = [p \in 0..(FileLength - 1) |-> 0]

Seek(t, p) ==
    /\ Idle(t)
    /\ seekPosition' = [seekPosition EXCEPT ![t] = p]
    /\ UNCHANGED <<disk, call, reads, writes, buf, result, shared, last>>

(* ReadAt or WriteAt returns 0 at once. *)
CallEmpty(t, n, pos) ==
    /\ Idle(t)
    /\ n <= 0 \/ pos >= FileLength
    /\ result' = [count |-> 0, data |-> <<>>]
    /\ UNCHANGED <<disk, seekPosition, call, reads, writes, buf, shared, last>>

(* ReadAt and WriteAt: the checks and the allocation of the buffer. *)
Call(t, kind, n, pos, value) ==
    /\ Idle(t)
    /\ n > 0 /\ pos < FileLength
    /\ LET c == [kind |-> kind, pos |-> pos, n |-> Clipped(n, pos),
                 value |-> value]
       IN  /\ call' = [call EXCEPT ![t] = c]
           /\ buf' = [buf EXCEPT ![t] =
                  [p \in (First(c) * SectorSize)..((Last(c) + 1) * SectorSize - 1) |-> Garbage]]
           /\ reads' = [reads EXCEPT ![t] =
                  IF kind = "read" THEN Upto(First(c), Last(c)) ELSE Prefetch(c)]
           /\ writes' = [writes EXCEPT ![t] =
                  IF kind = "read" THEN <<>> ELSE Upto(First(c), Last(c))]
           /\ shared' = [u \in Threads |->
                  IF u = t THEN \E w \in Writers : Overlap(c, call[w])
                  ELSE shared[u] \/ (kind = "write" /\ ~Idle(u) /\ Overlap(c, call[u]))]
    /\ UNCHANGED <<disk, seekPosition, result, last>>

(* One ReadSector.  WriteAt reads through ReadAt, which cuts the request   *)
(* at the end of the file.                                                 *)
ReadSector(t) ==
    /\ reads[t] # <<>>
    /\ buf' = [buf EXCEPT ![t] = [p \in DOMAIN @ |->
           IF p \in InSector(Head(reads[t])) /\ (call[t].kind = "write" => p < FileLength)
             THEN ByteOnDisk(p) ELSE @[p]]]
    /\ reads' = [reads EXCEPT ![t] = Tail(@)]
    /\ UNCHANGED <<disk, seekPosition, call, writes, result, shared, last>>

(* One WriteSector, the data to be written copied into the buffer before   *)
(* the first.                                                              *)
WriteSector(t) ==
    /\ reads[t] = <<>> /\ writes[t] # <<>>
    /\ LET i == Head(writes[t])
       IN  disk' = [disk EXCEPT ![ByteToSector(i * SectorSize)] =
                      [o \in 0..(SectorSize - 1) |-> Merged(t, i * SectorSize + o)]]
    /\ writes' = [writes EXCEPT ![t] = Tail(@)]
    /\ UNCHANGED <<seekPosition, call, reads, buf, result, shared, last>>

(* The rest of the call: a read copies the part wanted; Read and Write     *)
(* move the position by the count returned.                                *)
Return(t) ==
    /\ ~Idle(t) /\ reads[t] = <<>> /\ writes[t] = <<>>
    /\ result' = [count |-> call[t].n,
                  data |-> IF call[t].kind = "write" THEN <<>>
                           ELSE [k \in 1..call[t].n |-> buf[t][call[t].pos + k - 1]]]
    /\ seekPosition' = IF t \in Movers THEN [seekPosition EXCEPT ![t] = @ + call[t].n]
                                        ELSE seekPosition
    /\ last' = [p \in DOMAIN last |->
                  IF \E w \in Writers \ {t} : InRange(call[w], p) THEN last[p]
                  ELSE ByteOnDisk(p)[1]]
    /\ buf' = [buf EXCEPT ![t] = <<>>]
    /\ call' = [call EXCEPT ![t] = None]
    /\ shared' = [shared EXCEPT ![t] = FALSE]
    /\ UNCHANGED <<disk, reads, writes>>

(* Read and Write go on from the seek position. *)
Begin(t, n, pos) ==
    /\ t \in Movers => pos = seekPosition[t]
    /\ \/ CallEmpty(t, n, pos)
       \/ Call(t, "read", n, pos, 0)
       \/ \E v \in Values : Call(t, "write", n, pos, v)

Next ==
    \E t \in Threads :
        \/ t \in Movers /\ \E p \in Positions : Seek(t, p)
        \/ \E n \in Lengths, pos \in Positions : Begin(t, n, pos)
        \/ ReadSector(t) \/ WriteSector(t) \/ Return(t)

Spec == Init /\ [][Next]_ovars

-----------------------------------------------------------------------------

Byte == ((Values \cup {0}) \X (0..(FileLength - 1))) \cup {Garbage}

(* OpenFile::ReadAt and WriteAt: a call's range lies in the file, and its  *)
(* sectors in the file header.                                             *)
TypeOK ==
    /\ disk \in [Range(dataSectors) -> [0..(SectorSize - 1) -> Byte]]
    /\ seekPosition \in [Threads -> Nat]
    /\ \A t \in Threads :
         /\ call[t].pos >= 0 /\ call[t].n >= 0 /\ call[t].pos + call[t].n <= FileLength
         /\ Range(reads[t]) \cup Range(writes[t]) \subseteq 0..(Len(dataSectors) - 1)
         /\ Range(buf[t]) \subseteq Byte

(* OpenFile::ReadAt and WriteAt: every byte of the file, and every byte a  *)
(* read returns, was written for just that position, or was there from the *)
(* start.  No garbage of a buffer and no byte of another position gets in, *)
(* even when calls of several threads interleave on the same sectors.      *)
BytesInPlace ==
    /\ TypeOK
    /\ \A p \in 0..(FileLength - 1) : ByteOnDisk(p) # Garbage /\ ByteOnDisk(p)[2] = p
    /\ \A k \in DOMAIN result.data :
         result.data[k] # Garbage /\ result.data[k][2] = result.data[1][2] + k - 1

Abstract == INSTANCE AbstractFile WITH
    bytes <- last,
    position <- seekPosition,
    returned <- [count |-> result.count,
                 data  |-> [k \in DOMAIN result.data |-> result.data[k][1]]]

SharedReturn == \E t \in Threads : shared[t] /\ ~Idle(t) /\ call'[t] = None

(* OpenFile::Read, Write, ReadAt and WriteAt: a call that no write to one  *)
(* of its sectors ran together with, however many others ran, acts in one  *)
(* step on the bytes of its range that are in the file, and on no others,  *)
(* and the position moves by what was transferred.                         *)
ImplementsFile ==
    Abstract!AInit /\ [][SharedReturn \/ Abstract!ANext]_(Abstract!avars)

=============================================================================
