-------------------------------- MODULE Disk --------------------------------
(***************************************************************************)
(* The simulated disk (machine/disk.cc): how long a request takes, given   *)
(* where the head is, how the platter rotates with the clock and what the  *)
(* track buffer holds.  Sector contents are in module SynchDisk.           *)
(***************************************************************************)
EXTENDS Integers

CONSTANTS
    SectorsPerTrack, NumTracks,
    SeekTime,       \* ticks to pass one track
    RotationTime,   \* ticks for one sector to rotate past the head
    MaxTime         \* bound: no request after this tick

ASSUME DiskAssumption ==
    /\ SectorsPerTrack \in Nat \ {0} /\ NumTracks \in Nat \ {0}
    /\ SeekTime \in Nat \ {0} /\ RotationTime \in Nat \ {0} /\ MaxTime \in Nat

Sectors == 0..(SectorsPerTrack * NumTracks - 1)

VARIABLES
    totalTicks,     \* Statistics::totalTicks
    lastSector,     \* the sector requested last
    bufferInit,     \* when the track buffer started being loaded
    active,         \* a request is in progress
    doneAt,         \* when its interrupt is due
    request         \* the last request: sector, start, writing, and the head's track before

dvars == <<totalTicks, lastSector, bufferInit, active, doneAt, request>>

Track(s) == s \div SectorsPerTrack

Distance(a, b) == IF a < b THEN b - a ELSE a - b

(* Disk::TimeToSeek: the seek, and the wait for the next sector boundary. *)
SeekTo(s) == Distance(Track(s), Track(lastSector)) * SeekTime

Align(s) ==
    LET over == (totalTicks + SeekTo(s)) % RotationTime
    IN  IF over > 0 THEN RotationTime - over ELSE 0

(* Mutant of ModuloDiff: the distance the other way round. *)
ModuloDiff_Backwards(to, from) ==
    (((from % SectorsPerTrack) - (to % SectorsPerTrack)) + SectorsPerTrack) % SectorsPerTrack

ModuloDiff(to, from) ==
    (((to % SectorsPerTrack) - (from % SectorsPerTrack)) + SectorsPerTrack) % SectorsPerTrack

TimeAfter(s) == totalTicks + SeekTo(s) + Align(s)

InTrackBuffer(s) ==
    /\ SeekTo(s) = 0
    /\ (TimeAfter(s) - bufferInit) \div RotationTime
         > ModuloDiff(s, bufferInit \div RotationTime)

ComputeLatency(s, writing) ==
    IF ~writing /\ InTrackBuffer(s)
      THEN RotationTime
      ELSE SeekTo(s) + Align(s) + RotationTime
             + ModuloDiff(s, TimeAfter(s) \div RotationTime) * RotationTime

DiskInit ==
    /\ totalTicks = 0 /\ lastSector = 0 /\ bufferInit = 0
    /\ active = FALSE /\ doneAt = 0
    /\ request = [sector |-> 0, start |-> 0, writing |-> FALSE, loaded |-> 0, track |-> 0]

(* Mutant of Request: the track buffer is not discarded by a seek. *)
Request_KeepsBuffer(s, writing) ==
    /\ ~active /\ totalTicks < MaxTime
    /\ active' = TRUE
    /\ doneAt' = totalTicks + ComputeLatency(s, writing)
    /\ request' = [sector |-> s, start |-> totalTicks, writing |-> writing,
                   loaded |-> IF SeekTo(s) = 0 THEN request.loaded ELSE TimeAfter(s),
                   track |-> Track(lastSector)]
    /\ lastSector' = s
    /\ UNCHANGED <<totalTicks, bufferInit>>

(* ReadRequest and WriteRequest, with UpdateLast. *)
Request(s, writing) ==
    /\ ~active /\ totalTicks < MaxTime
    /\ active' = TRUE
    /\ doneAt' = totalTicks + ComputeLatency(s, writing)
    /\ request' = [sector |-> s, start |-> totalTicks, writing |-> writing,
                   loaded |-> IF SeekTo(s) = 0 THEN request.loaded ELSE TimeAfter(s),
                   track |-> Track(lastSector)]
    /\ bufferInit' = IF SeekTo(s) # 0 THEN TimeAfter(s) ELSE bufferInit
    /\ lastSector' = s
    /\ UNCHANGED totalTicks

(* The clock advances, up to the interrupt. *)
Tick ==
    /\ IF active THEN totalTicks < doneAt ELSE totalTicks < MaxTime
    /\ totalTicks' = totalTicks + 1
    /\ UNCHANGED <<lastSector, bufferInit, active, doneAt, request>>

HandleInterrupt ==
    /\ active /\ totalTicks = doneAt
    /\ active' = FALSE
    /\ UNCHANGED <<totalTicks, lastSector, bufferInit, doneAt, request>>

Finished == ~active /\ totalTicks >= MaxTime /\ UNCHANGED dvars

DiskNext ==
    \/ \E s \in Sectors, writing \in BOOLEAN : Request(s, writing)
    \/ Tick \/ HandleInterrupt \/ Finished

DiskSpec == DiskInit /\ [][DiskNext]_dvars

-----------------------------------------------------------------------------

(* Disk: head, buffer time and request stay in range. *)
DiskTypeOK ==
    /\ totalTicks \in Nat /\ lastSector \in Sectors /\ bufferInit \in Nat
    /\ active \in BOOLEAN /\ doneAt \in Nat
    /\ request \in [sector : Sectors, start : Nat, writing : BOOLEAN, loaded : Nat,
                    track : 0..(NumTracks - 1)]

(* The sector under the head between two ticks, on a platter that rotates  *)
(* with the clock.                                                         *)
UnderHead(t) == (t \div RotationTime) % SectorsPerTrack

(* Sector s passed under the head completely after "from" and before "to". *)
Passed(s, from, to) ==
    \E t \in from..(to - RotationTime) :
        t % RotationTime = 0 /\ UnderHead(t) = s % SectorsPerTrack

FromBuffer == ~request.writing /\ doneAt - request.start = RotationTime

(* Disk::ComputeLatency, "how long it will take to rotate completely past  *)
(* newSector": the interrupt is in the future, as Schedule asserts, and a  *)
(* request not served by the track buffer ends when the sector has just    *)
(* passed under the head, the first time it does so after the seek.        *)
EndsAfterSector ==
    /\ DiskTypeOK
    /\ active => doneAt > request.start
    /\ active /\ ~FromBuffer =>
         LET there == request.start + Distance(Track(request.sector), request.track) * SeekTime
         IN  /\ doneAt % RotationTime = 0
             /\ UnderHead(doneAt - RotationTime) = request.sector % SectorsPerTrack
             /\ ~Passed(request.sector, there, doneAt - 1)

(* Disk::ComputeLatency and UpdateLast, the track buffer: a read takes     *)
(* only the transfer time only if its sector passed under the head since   *)
(* the head came to this track ("discarded after every seek"), or is just  *)
(* about to.                                                               *)
BufferHoldsSector ==
    active /\ FromBuffer =>
        /\ Track(request.sector) = request.track
        /\ \/ Passed(request.sector, request.loaded, request.start + RotationTime - 1)
           \/ doneAt % RotationTime = 0 /\ UnderHead(request.start) = request.sector % SectorsPerTrack

=============================================================================
