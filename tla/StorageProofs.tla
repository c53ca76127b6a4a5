---------------------------- MODULE StorageProofs ----------------------------
(***************************************************************************)
(* Proofs about a file's way to the platter: module OpenFile (byte ranges  *)
(* by sectors) and module Disk (how long a request takes), for disks,      *)
(* files and thread sets of any size.                                      *)
(***************************************************************************)
EXTENDS OpenFile, Disk, TLAPS

-----------------------------------------------------------------------------

(* Quotients and remainders by a divisor that is a parameter. *)
LEMMA Division ==
    ASSUME NEW n \in Nat \ {0}, NEW a \in Int
    PROVE  a \div n \in Int /\ a % n \in 0..(n - 1) /\ a = (a \div n) * n + (a % n)
  OBVIOUS

LEMMA NextMultiple ==
    ASSUME NEW n \in Nat \ {0}, NEW i \in Int, NEW j \in Int, i < j
    PROVE  i * n + n <= j * n
<1>1. j - i - 1 \in Nat
  OBVIOUS
<1>2. (j - i - 1) * n >= 0
  BY <1>1
<1>3. (j - i - 1) * n = j * n - i * n - n
  OBVIOUS
<1> QED
  BY <1>2, <1>3

LEMMA QuotientIsUnique ==
    ASSUME NEW n \in Nat \ {0}, NEW i \in Int, NEW r \in 0..(n - 1)
    PROVE  (i * n + r) \div n = i /\ (i * n + r) % n = r
<1> DEFINE a == i * n + r
           q == a \div n
           m == a % n
<1>1. a \in Int
  OBVIOUS
<1>2. q \in Int /\ m \in 0..(n - 1) /\ a = q * n + m
  BY <1>1, Division
<1> HIDE DEF q, m
<1>3. ~(q < i)
  <2> SUFFICES ASSUME q < i PROVE FALSE
    OBVIOUS
  <2>1. q * n + n <= i * n
    BY <1>2, NextMultiple
  <2> QED
    BY <1>2, <2>1
<1>4. ~(i < q)
  <2> SUFFICES ASSUME i < q PROVE FALSE
    OBVIOUS
  <2>1. i * n + n <= q * n
    BY <1>2, NextMultiple
  <2> QED
    BY <1>2, <2>1
<1>5. q = i
  BY <1>2, <1>3, <1>4
<1>6. m = r
  BY <1>2, <1>5
<1> QED
  BY <1>5, <1>6 DEF q, m

LEMMA Multiple ==
    ASSUME NEW n \in Nat \ {0}, NEW i \in Int, NEW a, a = i * n
    PROVE  a \div n = i /\ a % n = 0
<1>1. 0 \in 0..(n - 1) /\ i * n + 0 = i * n
  OBVIOUS
<1>2. (i * n + 0) \div n = i /\ (i * n + 0) % n = 0
  BY <1>1, QuotientIsUnique
<1> QED
  BY <1>1, <1>2

(* Two numbers with the same remainder, less than the divisor apart. *)
LEMMA SameRemainder ==
    ASSUME NEW n \in Nat \ {0}, NEW a \in Int, NEW b \in Int,
           a % n = b % n, a <= b, b < a + n
    PROVE  a = b
<1> DEFINE q == a \div n
           k == b \div n
           r == a % n
<1>1. q \in Int /\ k \in Int /\ r \in 0..(n - 1) /\ a = q * n + r /\ b = k * n + r
  BY Division
<1> HIDE DEF q, k, r
<1>2. ~(q < k)
  <2> SUFFICES ASSUME q < k PROVE FALSE
    OBVIOUS
  <2>1. q * n + n <= k * n
    BY <1>1, NextMultiple
  <2> QED
    BY <1>1, <2>1
<1>3. ~(k < q)
  <2> SUFFICES ASSUME k < q PROVE FALSE
    OBVIOUS
  <2>1. k * n + n <= q * n
    BY <1>1, NextMultiple
  <2> QED
    BY <1>1, <2>1
<1>4. q = k
  BY <1>1, <1>2, <1>3
<1> QED
  BY <1>1, <1>4

(* Disk::ModuloDiff: the sectors that pass before "to" comes, "from" being *)
(* under the head.                                                         *)
LEMMA SectorsToPass ==
    ASSUME NEW to \in Int, NEW from \in Int
    PROVE  /\ ModuloDiff(to, from) \in 0..(SectorsPerTrack - 1)
           /\ (from + ModuloDiff(to, from)) % SectorsPerTrack = to % SectorsPerTrack
<1> DEFINE n == SectorsPerTrack
           u == to % n
           v == from % n
           j == from \div n
           d == (u - v) + n
           k == d \div n
           m == d % n
<1>1. n \in Nat \ {0}
  BY DiskAssumption
<1> HIDE DEF n
<1>2. u \in 0..(n - 1)
  BY <1>1, Division
<1>3. v \in 0..(n - 1) /\ j \in Int /\ from = j * n + v
  BY <1>1, Division
<1> HIDE DEF u, v, j
<1>4. d \in Int
  BY <1>1, <1>2, <1>3
<1>5. m \in 0..(n - 1) /\ k \in Int /\ d = k * n + m
  BY <1>1, <1>4, Division
<1> HIDE DEF k, m
<1>6. from + m = (j + 1 - k) * n + u
  <2>1. (j + 1 - k) * n = j * n + n - k * n
    BY <1>1, <1>3, <1>5
  <2>2. j * n \in Int /\ k * n \in Int
    BY <1>1, <1>3, <1>5
  <2> QED
    BY <1>1, <1>2, <1>3, <1>5, <2>1, <2>2
<1>7. j + 1 - k \in Int
  BY <1>3, <1>5
<1>8. (from + m) % n = u
  BY <1>1, <1>2, <1>6, <1>7, QuotientIsUnique
<1>9. m = ModuloDiff(to, from)
  BY DEF m, d, u, v, n, ModuloDiff
<1> QED
  BY <1>5, <1>8, <1>9 DEF n, u

(* Disk::TimeToSeek: the head is over the track and at a sector boundary,  *)
(* less than one sector after the seek.                                    *)
LEMMA SeekAndAlign ==
    ASSUME DiskTypeOK, NEW s \in Sectors
    PROVE  /\ SeekTo(s) \in Nat
           /\ Align(s) \in 0..(RotationTime - 1)
           /\ TimeAfter(s) \in Nat
           /\ TimeAfter(s) % RotationTime = 0
           /\ TimeAfter(s) = (TimeAfter(s) \div RotationTime) * RotationTime
           /\ SeekTo(s) = 0 => Track(s) = Track(lastSector)
<1> DEFINE a == Track(s)
           b == Track(lastSector)
           d == Distance(a, b)
           t == totalTicks + SeekTo(s)
           n == RotationTime
<1>1. s \in Int /\ lastSector \in Int /\ totalTicks \in Nat
  BY DiskAssumption DEF DiskTypeOK, Sectors
<1>2. a \in Int /\ b \in Int
  BY <1>1, Division, DiskAssumption DEF Track
<1>3. d \in Nat /\ (d = 0 => a = b)
  BY <1>2 DEF Distance
<1>4. SeekTo(s) = d * SeekTime
  BY DEF SeekTo
<1> HIDE DEF a, b, d
<1>5. SeekTime \in Nat /\ SeekTime >= 1 /\ n \in Nat \ {0}
  BY DiskAssumption
<1>6. d * SeekTime \in Nat /\ (d * SeekTime = 0 => d = 0)
  BY <1>3, <1>5
<1>7. t \in Nat
  BY <1>1, <1>4, <1>6
<1>8. t \div n \in Int /\ t % n \in 0..(n - 1) /\ t = (t \div n) * n + (t % n)
  <2> HIDE DEF t, n
  <2> QED
    BY <1>5, <1>7, Division
<1>9. Align(s) = IF t % n > 0 THEN n - (t % n) ELSE 0
  BY DEF Align
<1>10. TimeAfter(s) = t + Align(s)
  BY DEF TimeAfter
<1> DEFINE q == t \div n
           r == t % n
<1>11. \E k \in Int : t + Align(s) = k * n + 0
  <2> HIDE DEF q, r, t, n
  <2>0. q \in Int /\ r \in 0..(n - 1) /\ t = q * n + r
    BY <1>8 DEF q, r
  <2>1. CASE r > 0
    <3>1. Align(s) = n - r
      BY <1>9, <2>1 DEF r
    <3>2. (q + 1) * n = q * n + n
      BY <1>5, <2>0
    <3>3. t + Align(s) = (q + 1) * n + 0
      BY <1>5, <2>0, <3>1, <3>2
    <3> QED
      BY <2>0, <3>3
  <2>2. CASE ~(r > 0)
    <3>1. Align(s) = 0
      BY <1>9, <2>2 DEF r
    <3>2. t + Align(s) = q * n + 0
      BY <1>5, <2>0, <2>2, <3>1
    <3> QED
      BY <2>0, <3>2
  <2> QED
    BY <2>1, <2>2
<1>12. PICK k \in Int : TimeAfter(s) = k * n + 0
  BY <1>10, <1>11
<1>13. (k * n + 0) \div n = k /\ (k * n + 0) % n = 0
  BY <1>5, <1>12, QuotientIsUnique
<1>14. Align(s) \in 0..(n - 1)
  <2> HIDE DEF q, r, t, n
  <2>0. r \in 0..(n - 1) /\ Align(s) = IF r > 0 THEN n - r ELSE 0
    BY <1>8, <1>9 DEF r
  <2> QED
    BY <1>5, <2>0
<1>15. TimeAfter(s) \in Nat
  BY <1>5, <1>7, <1>10, <1>14
<1>16. k * n + 0 = k * n
  BY <1>5
<1>17. SeekTo(s) \in Nat
  BY <1>4, <1>6
<1>18. SeekTo(s) = 0 => a = b
  BY <1>3, <1>4, <1>6
<1> QED
  BY <1>12, <1>13, <1>14, <1>15, <1>16, <1>17, <1>18 DEF a, b

(* Disk::ComputeLatency without the track buffer: the head being at sector *)
(* boundary q, the request ends when its sector has passed, for the first  *)
(* time since "there".                                                     *)
LEMMA FirstPass ==
    ASSUME NEW s \in Int, NEW q \in Int, NEW there \in Int,
           q * RotationTime - RotationTime < there, there <= q * RotationTime,
           NEW end, end = q * RotationTime + RotationTime
                            + ModuloDiff(s, q) * RotationTime
    PROVE  /\ end % RotationTime = 0
           /\ UnderHead(end - RotationTime) = s % SectorsPerTrack
           /\ ~Passed(s, there, end - 1)
<1> DEFINE n == RotationTime
           m == ModuloDiff(s, q)
<1>1. n \in Nat \ {0} /\ SectorsPerTrack \in Nat \ {0}
  BY DiskAssumption
<1>2. m \in 0..(SectorsPerTrack - 1) /\ (q + m) % SectorsPerTrack = s % SectorsPerTrack
  BY SectorsToPass
<1> HIDE DEF m
<1>3. q + m \in Int /\ q + m + 1 \in Int
  BY <1>1, <1>2
<1>4. end - n = (q + m) * n /\ end = (q + m + 1) * n /\ end \in Int
  <2> HIDE DEF n
  <2>1. end = q * n + n + m * n
    BY DEF m, n
  <2>2. (q + m) * n = q * n + m * n /\ (q + m + 1) * n = q * n + m * n + n
        /\ q * n \in Int /\ m * n \in Int
    BY <1>1, <1>2
  <2> QED
    BY <1>1, <2>1, <2>2
<1>5. end % n = 0
  BY <1>1, <1>3, <1>4, Multiple
<1>6. (end - n) \div n = q + m
  BY <1>1, <1>3, <1>4, Multiple
<1>7. UnderHead(end - n) = s % SectorsPerTrack
  BY <1>2, <1>6 DEF UnderHead
<1>8. ASSUME NEW t \in there..(end - 1 - n), t % n = 0,
             UnderHead(t) = s % SectorsPerTrack
      PROVE  FALSE
  <2> DEFINE j == t \div n
  <2>1. t \in Int /\ there <= t /\ t <= end - 1 - n
    BY <1>1, <1>4
  <2>2. j \in Int /\ t = j * n + (t % n)
    BY <1>1, <2>1, Division
  <2>3. t = j * n
    BY <1>1, <1>8, <2>2
  <2>4. j % SectorsPerTrack = (q + m) % SectorsPerTrack
    BY <1>2, <1>8 DEF UnderHead
  <2> HIDE DEF j, n
  <2>5. q * n - n < there
    BY DEF n
  <2>6. q <= j
    <3> SUFFICES ASSUME j < q PROVE FALSE
      BY <2>2
    <3>1. j * n + n <= q * n
      BY <1>1, <2>2, NextMultiple
    <3>2. j * n \in Int /\ q * n \in Int
      BY <1>1, <2>2
    <3> QED
      BY <1>1, <2>1, <2>3, <2>5, <3>1, <3>2
  <2>7. j < q + m
    <3> SUFFICES ASSUME q + m <= j PROVE FALSE
      BY <1>3, <2>2
    <3>1. CASE q + m = j
      BY <1>1, <1>4, <2>1, <2>3, <3>1
    <3>2. CASE q + m < j
      <4>1. (q + m) * n + n <= j * n
        BY <1>1, <1>3, <2>2, <3>2, NextMultiple
      <4>2. j * n \in Int /\ (q + m) * n \in Int
        BY <1>1, <1>3, <2>2
      <4> QED
        BY <1>1, <1>4, <2>1, <2>3, <4>1, <4>2
    <3> QED
      BY <1>3, <2>2, <3>1, <3>2
  <2>8. q + m < j + SectorsPerTrack
    BY <1>1, <1>2, <2>2, <2>6
  <2>9. j = q + m
    BY <1>1, <1>3, <2>2, <2>4, <2>7, <2>8, SameRemainder
  <2> QED
    BY <1>3, <2>2, <2>7, <2>9
<1>9. ~Passed(s, there, end - 1)
  BY <1>8 DEF Passed
<1> QED
  BY <1>5, <1>7, <1>9

(* Disk::ComputeLatency, the track buffer: loading began at sector         *)
(* boundary b, and more sectors have passed until boundary q than come     *)
(* before the one wanted, so that one was loaded before "start".           *)
LEMMA LoadedBefore ==
    ASSUME NEW s \in Int, NEW q \in Int, NEW b \in Int,
           NEW start \in Int, q * RotationTime - RotationTime < start,
           q - b > ModuloDiff(s, b)
    PROVE  Passed(s, b * RotationTime, start + RotationTime - 1)
<1> DEFINE n == RotationTime
           m == ModuloDiff(s, b)
           pass == (b + m) * n
<1>1. n \in Nat \ {0} /\ SectorsPerTrack \in Nat \ {0}
  BY DiskAssumption
<1>2. m \in 0..(SectorsPerTrack - 1) /\ (b + m) % SectorsPerTrack = s % SectorsPerTrack
  BY SectorsToPass
<1>3. b + m < q
  BY <1>1, <1>2
<1> HIDE DEF m
<1>4. b + m \in Int
  BY <1>1, <1>2
<1>5. pass % n = 0 /\ pass \div n = b + m
  BY <1>1, <1>4, Multiple
<1>6. UnderHead(pass) = s % SectorsPerTrack
  BY <1>2, <1>5 DEF UnderHead
<1>7. pass + n <= q * n
  BY <1>1, <1>3, <1>4, NextMultiple
<1>8. b * n \in Int /\ q * n \in Int /\ pass \in Int /\ b * n <= pass
  <2> HIDE DEF n
  <2>1. /\ (b + m) * n = b * n + m * n /\ m * n >= 0
        /\ b * n \in Int /\ q * n \in Int /\ m * n \in Int
    BY <1>1, <1>2
  <2> QED
    BY <2>1
<1>9. pass \in (b * n)..((start + n - 1) - n)
  <2>1. q * n - n < start
    OBVIOUS
  <2> HIDE DEF n, pass
  <2> QED
    BY <1>1, <1>7, <1>8, <2>1
<1>10. \E t \in (b * n)..((start + n - 1) - n) : t % n = 0 /\ UnderHead(t) = s % SectorsPerTrack
  <2> HIDE DEF pass, n
  <2> QED
    BY <1>5, <1>6, <1>9
<1> QED
  BY <1>10 DEF Passed

(* What a request leaves behind: the two properties, and that the track    *)
(* buffer began to load at a sector boundary, when the head came to the    *)
(* track.                                                                  *)
TimingInv ==
    /\ EndsAfterSector
    /\ BufferHoldsSector
    /\ bufferInit = request.loaded
    /\ bufferInit % RotationTime = 0

LEMMA TrackInRange ==
    ASSUME NEW s \in Sectors
    PROVE  s \in Nat /\ Track(s) \in 0..(NumTracks - 1)
<1> DEFINE n == SectorsPerTrack
           k == s \div n
<1>1. n \in Nat \ {0} /\ NumTracks \in Nat \ {0} /\ n * NumTracks \in Nat
  BY DiskAssumption
<1>2. s \in Nat /\ s < n * NumTracks
  BY <1>1 DEF Sectors
<1>3. k \in Int /\ s % n \in 0..(n - 1) /\ s = k * n + (s % n)
  BY <1>1, <1>2, Division
<1> DEFINE r == s % n
<1>4. r \in 0..(n - 1) /\ s = k * n + r
  BY <1>3
<1> HIDE DEF n, k, r
<1>5. k >= 0
  <2> SUFFICES ASSUME k < 0 PROVE FALSE
    BY <1>3
  <2>1. k * n + n <= 0 * n
    BY <1>1, <1>3, NextMultiple
  <2> QED
    BY <1>1, <1>2, <1>3, <1>4, <2>1
<1>6. k < NumTracks
  <2> SUFFICES ASSUME NumTracks <= k PROVE FALSE
    BY <1>1, <1>3
  <2>1. NumTracks * n <= k * n
    <3>1. CASE NumTracks = k
      BY <1>1, <3>1
    <3>2. CASE NumTracks < k
      <4>1. NumTracks * n + n <= k * n
        BY <1>1, <1>3, <3>2, NextMultiple
      <4> QED
        BY <1>1, <1>3, <4>1
    <3> QED
      BY <1>1, <1>3, <3>1, <3>2
  <2> QED
    BY <1>1, <1>2, <1>3, <1>4, <2>1
<1> QED
  BY <1>1, <1>2, <1>3, <1>5, <1>6 DEF k, n, Track

(* The latency the disk computes, and what it says of a read from the      *)
(* track buffer.                                                           *)
LEMMA LatencyIsRight ==
    ASSUME TimingInv, NEW s \in Sectors, NEW writing \in BOOLEAN,
           NEW end, end = totalTicks + ComputeLatency(s, writing)
    PROVE  /\ end \in Nat /\ end > totalTicks
           /\ ~(~writing /\ end - totalTicks = RotationTime) =>
                LET there == totalTicks
                      + Distance(Track(s), Track(lastSector)) * SeekTime
                IN  /\ end % RotationTime = 0
                    /\ UnderHead(end - RotationTime) = s % SectorsPerTrack
                    /\ ~Passed(s, there, end - 1)
           /\ ~writing /\ end - totalTicks = RotationTime =>
                /\ SeekTo(s) = 0
                /\ Track(s) = Track(lastSector)
                /\ \/ Passed(s, bufferInit, totalTicks + RotationTime - 1)
                   \/ /\ end % RotationTime = 0
                      /\ UnderHead(totalTicks) = s % SectorsPerTrack
<1> DEFINE n == RotationTime
           seek == SeekTo(s)
           align == Align(s)
           after == TimeAfter(s)
           q == after \div n
           b == bufferInit \div n
           m == ModuloDiff(s, q)
<1>1. n \in Nat \ {0} /\ SectorsPerTrack \in Nat \ {0}
  BY DiskAssumption
<1>2. DiskTypeOK
  BY DEF TimingInv, EndsAfterSector
<1>3. /\ seek \in Nat /\ align \in 0..(n - 1) /\ after \in Nat /\ after = q * n
      /\ seek = 0 => Track(s) = Track(lastSector)
  BY <1>2, SeekAndAlign
<1>4. totalTicks \in Nat /\ bufferInit \in Nat /\ s \in Int
  BY <1>2, TrackInRange DEF DiskTypeOK
<1>5. after = totalTicks + seek + align
  BY DEF TimeAfter
<1>6. q \in Int /\ b \in Int /\ bufferInit = b * n
  <2>1. q \in Int
    BY <1>1, <1>3, Division
  <2>2. b \in Int /\ bufferInit = b * n + (bufferInit % n)
    BY <1>1, <1>4, Division
  <2>3. bufferInit % n = 0
    BY DEF TimingInv
  <2> QED
    BY <1>1, <1>4, <2>1, <2>2, <2>3
<1>7. m \in 0..(SectorsPerTrack - 1)
  BY <1>4, <1>6, SectorsToPass
<1>8. m * n \in Nat
  <2> HIDE DEF m
  <2> QED
    BY <1>1, <1>7
<1>9. seek = Distance(Track(s), Track(lastSector)) * SeekTime
  BY DEF SeekTo
<1>10. CASE ~writing /\ InTrackBuffer(s)
  <2>1. end = totalTicks + n
    BY <1>10 DEF ComputeLatency
  <2>2. seek = 0 /\ (after - bufferInit) \div n > ModuloDiff(s, b)
    BY <1>10 DEF InTrackBuffer
  <2>3. (after - bufferInit) \div n = q - b
    <3> HIDE DEF q, b, n, after
    <3>1. after - bufferInit = (q - b) * n /\ q - b \in Int
      BY <1>1, <1>3, <1>6 DEF q, after
    <3> QED
      BY <1>1, <3>1, Multiple
  <2>4. q * n - n < totalTicks
    <3> HIDE DEF q, b, n, after, seek, align
    <3>1. after = q * n
      BY <1>3 DEF q, n, after
    <3> QED
      BY <1>1, <1>3, <1>4, <1>5, <2>2, <3>1 DEF seek, align, n, after
  <2>5. q - b > ModuloDiff(s, b)
    BY <2>2, <2>3
  <2>6. Passed(s, b * n, totalTicks + n - 1)
    <3> HIDE DEF q, b
    <3>1. totalTicks \in Int
      BY <1>4
    <3> QED
      BY <1>4, <1>6, <2>4, <2>5, <3>1, LoadedBefore
  <2>7. Passed(s, bufferInit, totalTicks + n - 1)
    BY <1>6, <2>6
  <2>8. end \in Nat /\ end > totalTicks /\ end - totalTicks = n
    BY <1>1, <1>4, <2>1
  <2> QED
    BY <1>3, <1>10, <2>2, <2>7, <2>8
<1>11. CASE ~(~writing /\ InTrackBuffer(s))
  <2>1. end = totalTicks + (seek + align + n + m * n)
    BY <1>11 DEF ComputeLatency
  <2> DEFINE there == totalTicks + seek
  <2>2. q * n - n < there /\ there <= q * n /\ there \in Int /\ end = q * n + n + m * n
        /\ end \in Nat /\ end > totalTicks
    <3> HIDE DEF q, n, m, after, seek, align
    <3>1. after = q * n /\ align \in 0..(n - 1) /\ seek \in Nat
      BY <1>3 DEF q, n, after, align, seek
    <3> QED
      BY <1>1, <1>4, <1>5, <1>8, <2>1, <3>1
  <2>3. /\ end % n = 0
        /\ UnderHead(end - n) = s % SectorsPerTrack
        /\ ~Passed(s, there, end - 1)
    BY <1>4, <1>6, <2>2, FirstPass
  <2>4. end - totalTicks = n => seek = 0 /\ end - n = totalTicks
    <3> HIDE DEF n, m, seek, align
    <3>1. align \in 0..(n - 1) /\ seek \in Nat
      BY <1>3 DEF n, align, seek
    <3> QED
      BY <1>1, <1>4, <1>8, <2>1, <3>1
  <2> QED
    BY <1>3, <1>9, <2>2, <2>3, <2>4
<1> QED
  BY <1>10, <1>11

LEMMA RequestKeepsTimingInv ==
    ASSUME TimingInv, NEW s \in Sectors, NEW writing \in BOOLEAN,
           Request(s, writing)
    PROVE  TimingInv'
<1>1. DiskTypeOK
  BY DEF TimingInv, EndsAfterSector
<1> DEFINE end == totalTicks + ComputeLatency(s, writing)
           there == totalTicks
                      + Distance(Track(s), Track(lastSector)) * SeekTime
           buffered == ~writing /\ end - totalTicks = RotationTime
<1>2. /\ end \in Nat /\ end > totalTicks
      /\ ~buffered => /\ end % RotationTime = 0
                      /\ UnderHead(end - RotationTime) = s % SectorsPerTrack
                      /\ ~Passed(s, there, end - 1)
      /\ buffered => /\ SeekTo(s) = 0
                     /\ Track(s) = Track(lastSector)
                     /\ \/ Passed(s, bufferInit, totalTicks + RotationTime - 1)
                        \/ /\ end % RotationTime = 0
                           /\ UnderHead(totalTicks) = s % SectorsPerTrack
  BY LatencyIsRight
<1>3. /\ active' /\ doneAt' = end /\ lastSector' = s /\ totalTicks' = totalTicks
      /\ bufferInit' = IF SeekTo(s) # 0 THEN TimeAfter(s) ELSE bufferInit
      /\ request'.sector = s /\ request'.start = totalTicks /\ request'.writing = writing
      /\ request'.loaded = (IF SeekTo(s) = 0 THEN request.loaded ELSE TimeAfter(s))
      /\ request'.track = Track(lastSector)
  BY DEF Request
<1>4. TimeAfter(s) \in Nat /\ TimeAfter(s) % RotationTime = 0
  BY <1>1, SeekAndAlign
<1>5. bufferInit' = request'.loaded /\ bufferInit' % RotationTime = 0
  BY <1>3, <1>4 DEF TimingInv
<1>6. DiskTypeOK'
  <2>1. Track(lastSector) \in 0..(NumTracks - 1)
    BY <1>1, TrackInRange DEF DiskTypeOK
  <2>2. request.loaded \in Nat /\ totalTicks \in Nat /\ bufferInit \in Nat
    BY <1>1 DEF DiskTypeOK
  <2>3. request' \in [sector : Sectors, start : Nat, writing : BOOLEAN, loaded : Nat,
                      track : 0..(NumTracks - 1)]
    BY <1>4, <2>1, <2>2, Zenon DEF Request
  <2>4. active' \in BOOLEAN
    BY Zenon DEF Request
  <2>5. bufferInit' \in Nat /\ lastSector' \in Sectors /\ totalTicks' \in Nat /\ doneAt' \in Nat
    BY <1>2, <1>3, <1>4, <2>2
  <2> QED
    BY <2>3, <2>4, <2>5 DEF DiskTypeOK, Sectors
<1> HIDE DEF end
<1>7. FromBuffer' <=> buffered
  BY <1>3 DEF FromBuffer
<1>8. EndsAfterSector'
  <2>1. doneAt' > request'.start
    BY <1>2, <1>3
  <2>2. ASSUME ~buffered
        PROVE  LET to == request'.start
                          + Distance(Track(request'.sector), request'.track) * SeekTime
               IN  /\ doneAt' % RotationTime = 0
                   /\ UnderHead(doneAt' - RotationTime) = request'.sector % SectorsPerTrack
                   /\ ~Passed(request'.sector, to, doneAt' - 1)
    BY <1>2, <1>3, <2>2
  <2> QED
    BY <1>6, <1>7, <2>1, <2>2, Zenon DEF EndsAfterSector, Track, Distance, UnderHead, Passed
<1>9. BufferHoldsSector'
  <2>1. ASSUME buffered
        PROVE  /\ Track(request'.sector) = request'.track
               /\ \/ Passed(request'.sector, request'.loaded,
                                   request'.start + RotationTime - 1)
                  \/ /\ doneAt' % RotationTime = 0
                     /\ UnderHead(request'.start) = request'.sector % SectorsPerTrack
    BY <1>2, <1>3, <2>1 DEF TimingInv
  <2> QED
    BY <1>7, <2>1, Zenon DEF BufferHoldsSector, Track, UnderHead, Passed
<1> QED
  BY <1>5, <1>8, <1>9 DEF TimingInv

LEMMA TimingStep == TimingInv /\ [DiskNext]_dvars => TimingInv'
<1> SUFFICES ASSUME TimingInv, [DiskNext]_dvars PROVE TimingInv'
  OBVIOUS
<1>1. ASSUME NEW s \in Sectors, NEW writing \in BOOLEAN, Request(s, writing)
      PROVE  TimingInv'
  BY <1>1, RequestKeepsTimingInv
<1>2. ASSUME UNCHANGED <<lastSector, bufferInit, active, doneAt, request>>, totalTicks' \in Nat
      PROVE  TimingInv'
  BY <1>2 DEF TimingInv, EndsAfterSector, BufferHoldsSector, DiskTypeOK, Sectors,
     FromBuffer, Track, Distance, UnderHead, Passed
<1>3. CASE Tick
  BY <1>2, <1>3 DEF Tick, TimingInv, EndsAfterSector, DiskTypeOK
<1>4. CASE HandleInterrupt
  <2>1. ~active' /\ active' \in BOOLEAN
    BY <1>4, Zenon DEF HandleInterrupt
  <2> QED
    BY <1>4, <2>1 DEF HandleInterrupt, TimingInv, EndsAfterSector,
       BufferHoldsSector, DiskTypeOK, Sectors
<1>5. CASE UNCHANGED dvars
  BY <1>2, <1>5 DEF dvars, TimingInv, EndsAfterSector, DiskTypeOK
<1> QED
  BY <1>1, <1>3, <1>4, <1>5 DEF DiskNext, Finished

LEMMA TimingInit == DiskInit => TimingInv
<1> SUFFICES ASSUME DiskInit PROVE TimingInv
  OBVIOUS
<1>1. 0 \in Sectors
  BY DiskAssumption DEF Sectors
<1>2. active = FALSE /\ active \in BOOLEAN
  BY Zenon DEF DiskInit
<1>3. request \in [sector : Sectors, start : Nat, writing : BOOLEAN, loaded : Nat,
                   track : 0..(NumTracks - 1)]
  BY <1>1, DiskAssumption DEF DiskInit
<1>4. DiskTypeOK
  BY <1>1, <1>2, <1>3 DEF DiskInit, DiskTypeOK
<1>5. 0 % RotationTime = 0
  <2>1. RotationTime \in Nat \ {0} /\ 0 = 0 * RotationTime
    BY DiskAssumption
  <2> QED
    BY <2>1, Multiple
<1> QED
  BY <1>2, <1>4, <1>5 DEF DiskInit, TimingInv, EndsAfterSector, BufferHoldsSector

(* disk.cc: for any geometry and any speeds, whatever sectors are asked    *)
(* for and whenever, a request not served by the track buffer ends when    *)
(* its sector has passed under the head for the first time after the seek. *)
THEOREM RequestsEndAfterTheirSector == DiskSpec => []EndsAfterSector
<1>1. TimingInv => EndsAfterSector
  BY DEF TimingInv
<1> QED
  BY <1>1, TimingInit, TimingStep, PTL DEF DiskSpec

(* disk.cc: for any geometry and any speeds, a read takes the transfer     *)
(* time only if its sector has passed since the head came to this track,   *)
(* or is about to.                                                         *)
THEOREM TrackBufferHoldsWhatItServes == DiskSpec => []BufferHoldsSector
<1>1. TimingInv => BufferHoldsSector
  BY DEF TimingInv
<1> QED
  BY <1>1, TimingInit, TimingStep, PTL DEF DiskSpec

-----------------------------------------------------------------------------

(* Positions and sectors of the file (FileHeader::ByteToSector). *)
LEMMA Monotone ==
    ASSUME NEW p \in Int, NEW q \in Int, p <= q
    PROVE  p \div SectorSize <= q \div SectorSize
<1> DEFINE n == SectorSize
           i == p \div n
           j == q \div n
           r == p % n
           u == q % n
<1>1. n \in Nat \ {0}
  BY OpenFileAssumption
<1>2. i \in Int /\ r \in 0..(n - 1) /\ p = i * n + r
  BY <1>1, Division
<1>3. j \in Int /\ u \in 0..(n - 1) /\ q = j * n + u
  BY <1>1, Division
<1> HIDE DEF n, i, j, r, u
<1> SUFFICES ASSUME j < i PROVE FALSE
  BY <1>2, <1>3 DEF i, j, n
<1>4. j * n + n <= i * n
  BY <1>1, <1>2, <1>3, NextMultiple
<1> QED
  BY <1>1, <1>2, <1>3, <1>4

LEMMA SectorOf ==
    ASSUME NEW p \in Nat
    PROVE  /\ p \div SectorSize \in Nat
           /\ p % SectorSize \in 0..(SectorSize - 1)
           /\ p = (p \div SectorSize) * SectorSize + (p % SectorSize)
<1>1. SectorSize \in Nat \ {0} /\ 0 = 0 * SectorSize
  BY OpenFileAssumption
<1>2. 0 \div SectorSize = 0
  BY <1>1, Multiple
<1>3. 0 \div SectorSize <= p \div SectorSize
  BY Monotone
<1>4. p \div SectorSize \in Int /\ p % SectorSize \in 0..(SectorSize - 1)
      /\ p = (p \div SectorSize) * SectorSize + (p % SectorSize)
  BY <1>1, Division
<1> DEFINE i == p \div SectorSize
<1>5. i \in Int /\ 0 <= i
  BY <1>2, <1>3, <1>4
<1> HIDE DEF i
<1>6. i \in Nat
  BY <1>5
<1> QED
  BY <1>4, <1>6 DEF i

LEMMA PositionIn ==
    ASSUME NEW i \in Nat, NEW o \in 0..(SectorSize - 1)
    PROVE  /\ i * SectorSize + o \in Nat
           /\ (i * SectorSize + o) \div SectorSize = i
           /\ (i * SectorSize + o) % SectorSize = o
           /\ (i * SectorSize) \div SectorSize = i
<1>1. SectorSize \in Nat \ {0}
  BY OpenFileAssumption
<1>2. i * SectorSize + o \in Nat
  BY <1>1
<1> QED
  BY <1>1, <1>2, QuotientIsUnique, Multiple

(* The positions of the sectors from a to b. *)
LEMMA PositionsOf ==
    ASSUME NEW p \in Nat, NEW a \in Nat, NEW b \in Nat
    PROVE  /\ p \in (a * SectorSize)..((b + 1) * SectorSize - 1)
                <=> a <= p \div SectorSize /\ p \div SectorSize <= b
<1> DEFINE n == SectorSize
           i == p \div n
           r == p % n
<1>1. n \in Nat \ {0}
  BY OpenFileAssumption
<1>2. i \in Nat /\ r \in 0..(n - 1) /\ p = i * n + r
  BY SectorOf
<1> HIDE DEF n, i, r
<1>3. a * n \in Int /\ (b + 1) * n \in Int /\ i * n \in Int /\ (b + 1) * n = b * n + n
  BY <1>1, <1>2
<1>4. ASSUME p \in (a * n)..((b + 1) * n - 1) PROVE a <= i /\ i <= b
  <2>1. a * n <= p /\ p < b * n + n
    BY <1>3, <1>4
  <2>2. ~(i < a)
    <3> SUFFICES ASSUME i < a PROVE FALSE
      OBVIOUS
    <3>1. i * n + n <= a * n
      BY <1>1, <1>2, NextMultiple
    <3> QED
      BY <1>1, <1>2, <1>3, <2>1, <3>1
  <2>3. ~(b < i)
    <3> SUFFICES ASSUME b < i PROVE FALSE
      OBVIOUS
    <3>1. b * n + n <= i * n
      BY <1>1, <1>2, NextMultiple
    <3> QED
      BY <1>1, <1>2, <1>3, <2>1, <3>1
  <2> QED
    BY <1>2, <2>2, <2>3
<1>5. ASSUME a <= i, i <= b PROVE p \in (a * n)..((b + 1) * n - 1)
  <2>1. a * n <= i * n
    <3>1. CASE a < i
      <4>1. a * n + n <= i * n
        BY <1>1, <1>2, <3>1, NextMultiple
      <4> QED
        BY <1>1, <1>3, <4>1
    <3>2. CASE a = i
      BY <1>3, <3>2
    <3> QED
      BY <1>2, <1>5, <3>1, <3>2
  <2>2. i * n + n <= (b + 1) * n
    <3>1. i < b + 1 /\ b + 1 \in Int
      BY <1>2, <1>5
    <3> QED
      BY <1>1, <1>2, <3>1, NextMultiple
  <2> QED
    BY <1>1, <1>2, <1>3, <2>1, <2>2
<1> QED
  BY <1>4, <1>5 DEF i, n

LEMMA InSectorIs ==
    ASSUME NEW p \in Nat, NEW i \in Nat
    PROVE  p \in InSector(i) <=> p \div SectorSize = i
<1>1. p \div SectorSize \in Nat
  BY SectorOf
<1>2. p \in (i * SectorSize)..((i + 1) * SectorSize - 1)
        <=> i <= p \div SectorSize /\ p \div SectorSize <= i
  BY PositionsOf
<1> QED
  BY <1>1, <1>2 DEF InSector

(* The header has a sector for every position of the file. *)
LEMMA HeaderCoversFile ==
    /\ DOMAIN dataSectors = 1..Len(dataSectors) /\ Len(dataSectors) \in Nat
    /\ \A p \in 0..(FileLength - 1) : p \div SectorSize \in 0..(Len(dataSectors) - 1)
<1> DEFINE n == SectorSize
           f == FileLength - 1
<1>1. n \in Nat \ {0} /\ FileLength \in Nat
  BY OpenFileAssumption
<1>2. DOMAIN dataSectors = 1..Len(dataSectors) /\ Len(dataSectors) \in Nat
  BY OpenFileAssumption
<1>3. f \div n \in Int /\ f % n \in 0..(n - 1) /\ f = (f \div n) * n + (f % n)
  BY <1>1, Division
<1>4. Len(dataSectors) = (f \div n) + 1
  <2> DEFINE i == f \div n
             r == f % n
  <2>1. i \in Int /\ r \in 0..(n - 1) /\ f = i * n + r
    BY <1>3
  <2> HIDE DEF i, r
  <2>2. FileLength + n - 1 = (i + 1) * n + r
    <3>1. (i + 1) * n = i * n + n /\ i * n \in Int
      BY <1>1, <2>1
    <3>2. FileLength = i * n + r + 1
      BY <1>1, <2>1
    <3> QED
      BY <1>1, <2>1, <3>1, <3>2
  <2>3. i + 1 \in Int
    BY <2>1
  <2>4. ((i + 1) * n + r) \div n = i + 1
    BY <1>1, <2>1, <2>3, QuotientIsUnique
  <2>5. Len(dataSectors) = (FileLength + n - 1) \div n
    BY OpenFileAssumption
  <2> QED
    BY <2>2, <2>4, <2>5 DEF i
<1>5. ASSUME NEW p \in 0..(FileLength - 1)
      PROVE  p \div n \in 0..(Len(dataSectors) - 1)
  <2>1. p \in Nat /\ p \in Int /\ f \in Int /\ p <= f
    BY <1>1
  <2>2. p \div n \in Nat
    BY <2>1, SectorOf
  <2>3. p \div n <= f \div n
    BY <2>1, Monotone
  <2> QED
    BY <1>2, <1>3, <1>4, <2>2, <2>3
<1> QED
  BY <1>2, <1>5

-----------------------------------------------------------------------------

(* A byte that belongs at position p. *)
AtPlace(b, p) == b \in (Values \cup {0}) \X {p}

Covers(c, p) == p \in c.pos..(c.pos + c.n - 1)

Calls == [kind : {"none", "read", "write"}, pos : Nat, n : Nat, value : Values \cup {0}]

OpenFileTypes ==
    /\ disk \in [Range(dataSectors) -> [0..(SectorSize - 1) -> Byte]]
    /\ seekPosition \in [Threads -> Nat]
    /\ call \in [Threads -> Calls]
    /\ reads \in [Threads -> Seq(Nat)] /\ writes \in [Threads -> Seq(Nat)]
    /\ DOMAIN buf = Threads
    /\ shared \in [Threads -> BOOLEAN]
    /\ last \in [0..(FileLength - 1) -> Values \cup {0}]

(* A call that runs keeps what its client asked, and the sectors left to   *)
(* read and write are of its range.                                        *)
Runs(t) ==
    LET c == call[t] IN
    /\ c.kind \in {"read", "write"} /\ (c.kind = "write" => c.value \in Values)
    /\ c.pos \in Positions /\ c.pos < FileLength
    /\ \E n \in Lengths : n > 0 /\ c.n = Clipped(n, c.pos)
    /\ t \in Movers => c.pos = seekPosition[t]
    /\ Range(reads[t]) \subseteq First(c)..Last(c)
    /\ Range(writes[t]) \subseteq First(c)..Last(c)
    /\ c.kind = "read" => writes[t] = <<>>

(* Its buffer has the range's sectors, and at every position of the file a *)
(* byte of that position, but where one is still to be read or to be       *)
(* overwritten by the data.                                                *)
BufferOK(t) ==
    LET c == call[t] IN
    /\ DOMAIN buf[t] = (First(c) * SectorSize)..((Last(c) + 1) * SectorSize - 1)
    /\ \A p \in DOMAIN buf[t] :
         /\ buf[t][p] \in Byte
         /\ p < FileLength =>
              \/ AtPlace(buf[t][p], p)
              \/ p \div SectorSize \in Range(reads[t])
              \/ c.kind = "write" /\ Covers(c, p)

CallOK(t) ==
    IF call[t] = None THEN reads[t] = <<>> /\ writes[t] = <<>> /\ buf[t] = <<>>
    ELSE Runs(t) /\ BufferOK(t)

DiskOK == \A p \in 0..(FileLength - 1) : AtPlace(ByteOnDisk(p), p)

ResultOK ==
    \A k \in DOMAIN result.data :
        result.data[k] # Garbage /\ result.data[k][2] = result.data[1][2] + k - 1

PlaceInv ==
    /\ OpenFileTypes /\ DiskOK /\ ResultOK
    /\ \A t \in Threads : CallOK(t)

LEMMA EmptySequence == <<>> \in Seq(Nat) /\ Range(<<>>) = {}
  BY DEF Range

LEMMA OneElement ==
    ASSUME NEW a \in Nat
    PROVE  <<a>> \in Seq(Nat) /\ Range(<<a>>) = {a}
  BY DEF Range

LEMMA Concatenation ==
    ASSUME NEW s \in Seq(Nat), NEW u \in Seq(Nat)
    PROVE  s \o u \in Seq(Nat) /\ Range(s \o u) = Range(s) \cup Range(u)
<1>1. s \o u \in Seq(Nat) /\ Len(s \o u) = Len(s) + Len(u)
  OBVIOUS
<1>2. ASSUME NEW x \in Range(s \o u) PROVE x \in Range(s) \cup Range(u)
  <2>1. PICK k \in 1..(Len(s) + Len(u)) : x = (s \o u)[k]
    BY <1>1 DEF Range
  <2>2. CASE k <= Len(s)
    BY <2>1, <2>2 DEF Range
  <2>3. CASE k > Len(s)
    <3>1. k - Len(s) \in 1..Len(u) /\ x = u[k - Len(s)]
      BY <2>1, <2>3
    <3> QED
      BY <3>1 DEF Range
  <2> QED
    BY <2>1, <2>2, <2>3
<1>3. ASSUME NEW x \in Range(s) PROVE x \in Range(s \o u)
  <2>1. PICK k \in 1..Len(s) : x = s[k]
    BY DEF Range
  <2>2. k \in 1..(Len(s) + Len(u)) /\ x = (s \o u)[k]
    BY <2>1
  <2>3. k \in DOMAIN (s \o u)
    BY <1>1, <2>2
  <2> QED
    BY <2>2, <2>3 DEF Range
<1>4. ASSUME NEW x \in Range(u) PROVE x \in Range(s \o u)
  <2>1. PICK k \in 1..Len(u) : x = u[k]
    BY DEF Range
  <2>2. Len(s) + k \in 1..(Len(s) + Len(u)) /\ x = (s \o u)[Len(s) + k]
    BY <2>1
  <2>3. Len(s) + k \in DOMAIN (s \o u)
    BY <1>1, <2>2
  <2> QED
    BY <2>2, <2>3, Zenon DEF Range
<1> QED
  BY <1>1, <1>2, <1>3, <1>4

LEMMA HeadAndTail ==
    ASSUME NEW s \in Seq(Nat), s # <<>>
    PROVE  /\ Head(s) \in Nat /\ Tail(s) \in Seq(Nat)
           /\ Range(s) = {Head(s)} \cup Range(Tail(s))
<1>1. Head(s) \in Nat /\ Tail(s) \in Seq(Nat) /\ Len(Tail(s)) = Len(s) - 1 /\ Len(s) > 0
  OBVIOUS
<1>2. ASSUME NEW x \in Range(s) PROVE x \in {Head(s)} \cup Range(Tail(s))
  <2>1. PICK k \in 1..Len(s) : x = s[k]
    BY DEF Range
  <2>2. CASE k = 1
    BY <2>1, <2>2
  <2>3. CASE k > 1
    <3>1. k - 1 \in 1..Len(Tail(s)) /\ x = Tail(s)[k - 1]
      BY <1>1, <2>1, <2>3
    <3>2. k - 1 \in DOMAIN Tail(s)
      BY <1>1, <3>1
    <3> QED
      BY <3>1, <3>2, Zenon DEF Range
  <2> QED
    BY <2>1, <2>2, <2>3
<1>3. Head(s) \in Range(s)
  BY <1>1 DEF Range
<1>4. ASSUME NEW x \in Range(Tail(s)) PROVE x \in Range(s)
  <2>1. PICK k \in 1..Len(Tail(s)) : x = Tail(s)[k]
    BY <1>1 DEF Range
  <2>2. k + 1 \in 1..Len(s) /\ x = s[k + 1]
    BY <1>1, <2>1
  <2> QED
    BY <2>2 DEF Range
<1> QED
  BY <1>1, <1>2, <1>3, <1>4

LEMMA UptoIs ==
    ASSUME NEW i \in Nat, NEW j \in Nat, i <= j
    PROVE  Upto(i, j) \in Seq(Nat) /\ Range(Upto(i, j)) = i..j
<1>1. Upto(i, j) \in [1..(j - i + 1) -> Nat] /\ j - i + 1 \in Nat
  BY DEF Upto
<1>2. Upto(i, j) \in Seq(Nat)
  BY <1>1
<1>3. ASSUME NEW x \in i..j PROVE x \in Range(Upto(i, j))
  <2>1. x - i + 1 \in 1..(j - i + 1) /\ Upto(i, j)[x - i + 1] = x
    BY DEF Upto
  <2> QED
    BY <1>1, <2>1 DEF Range
<1>4. ASSUME NEW x \in Range(Upto(i, j)) PROVE x \in i..j
  BY DEF Range, Upto
<1> QED
  BY <1>2, <1>3, <1>4

(* The range of a call lies in the file, and its sectors in the header. *)
LEMMA CallRange ==
    ASSUME NEW c, c.pos \in Positions, c.pos < FileLength,
           \E n \in Lengths : n > 0 /\ c.n = Clipped(n, c.pos)
    PROVE  /\ c.pos \in Nat /\ c.n \in Nat /\ c.n > 0 /\ c.pos + c.n <= FileLength
           /\ First(c) \in 0..(Len(dataSectors) - 1)
           /\ Last(c) \in 0..(Len(dataSectors) - 1)
           /\ First(c) <= Last(c)
           /\ \A p : Covers(c, p) => p \in 0..(FileLength - 1) /\ InRange(c, p)
           /\ \A p \in Nat : p \in (First(c) * SectorSize)..((Last(c) + 1) * SectorSize - 1)
                               <=> InRange(c, p)
<1>1. PICK n \in Lengths : n > 0 /\ c.n = Clipped(n, c.pos)
  OBVIOUS
<1>2. c.pos \in Nat
  BY OpenFileAssumption
<1>3. c.n \in Nat /\ c.n > 0 /\ c.pos + c.n <= FileLength
  BY <1>1, <1>2, OpenFileAssumption DEF Clipped
<1>4. c.pos \in 0..(FileLength - 1) /\ c.pos + c.n - 1 \in 0..(FileLength - 1)
      /\ c.pos <= c.pos + c.n - 1
  BY <1>2, <1>3, OpenFileAssumption
<1>5. First(c) \in 0..(Len(dataSectors) - 1) /\ Last(c) \in 0..(Len(dataSectors) - 1)
  BY <1>4, HeaderCoversFile DEF First, Last
<1>6. First(c) <= Last(c)
  BY <1>4, Monotone DEF First, Last
<1>7. ASSUME NEW p, Covers(c, p) PROVE p \in 0..(FileLength - 1) /\ InRange(c, p)
  <2>1. p \in Int /\ c.pos <= p /\ p <= c.pos + c.n - 1 /\ p \in 0..(FileLength - 1)
    BY <1>2, <1>3, <1>4, <1>7, OpenFileAssumption DEF Covers
  <2>2. c.pos \div SectorSize <= p \div SectorSize
        /\ p \div SectorSize <= (c.pos + c.n - 1) \div SectorSize
    BY <1>4, <2>1, Monotone
  <2> QED
    BY <2>1, <2>2 DEF InRange, First, Last
<1>8. ASSUME NEW p \in Nat
      PROVE  p \in (First(c) * SectorSize)..((Last(c) + 1) * SectorSize - 1) <=> InRange(c, p)
  <2>1. First(c) \in Nat /\ Last(c) \in Nat
    BY <1>5, HeaderCoversFile
  <2> QED
    BY <2>1, PositionsOf DEF InRange
<1> QED
  BY <1>2, <1>3, <1>5, <1>6, <1>7, <1>8

LEMMA PlaceImpliesBytes == PlaceInv => BytesInPlace
<1> SUFFICES ASSUME PlaceInv PROVE BytesInPlace
  OBVIOUS
<1>1. ASSUME NEW p \in 0..(FileLength - 1)
      PROVE  ByteOnDisk(p) # Garbage /\ ByteOnDisk(p)[2] = p
  <2>1. AtPlace(ByteOnDisk(p), p) /\ p \in Nat
    BY OpenFileAssumption DEF PlaceInv, DiskOK
  <2> QED
    BY <2>1, OpenFileAssumption DEF AtPlace
<1>2. ASSUME NEW t \in Threads
      PROVE  /\ call[t].pos >= 0 /\ call[t].n >= 0 /\ call[t].pos + call[t].n <= FileLength
             /\ Range(reads[t]) \cup Range(writes[t]) \subseteq 0..(Len(dataSectors) - 1)
             /\ Range(buf[t]) \subseteq Byte
  <2>1. CASE call[t] = None
    <3>1. reads[t] = <<>> /\ writes[t] = <<>> /\ buf[t] = <<>>
      BY <2>1 DEF PlaceInv, CallOK
    <3>2. Range(<<>>) = {}
      BY DEF Range
    <3> QED
      BY <2>1, <3>1, <3>2, OpenFileAssumption DEF None
  <2>2. CASE call[t] # None
    <3> DEFINE c == call[t]
    <3>1. Runs(t) /\ BufferOK(t)
      BY <2>2 DEF PlaceInv, CallOK
    <3>2. /\ c.pos \in Nat /\ c.n \in Nat /\ c.pos + c.n <= FileLength
          /\ First(c) \in 0..(Len(dataSectors) - 1) /\ Last(c) \in 0..(Len(dataSectors) - 1)
      BY <3>1, CallRange DEF Runs
    <3>7. Range(reads[t]) \cup Range(writes[t]) \subseteq First(c)..Last(c)
      BY <3>1 DEF Runs
    <3>8. First(c)..Last(c) \subseteq 0..(Len(dataSectors) - 1)
      <4> DEFINE a == First(c)
                 b == Last(c)
      <4>1. a \in 0..(Len(dataSectors) - 1) /\ b \in 0..(Len(dataSectors) - 1)
        BY <3>2
      <4> HIDE DEF a, b
      <4>2. a..b \subseteq 0..(Len(dataSectors) - 1)
        BY <4>1, HeaderCoversFile
      <4> QED
        BY <4>2 DEF a, b
    <3>9. Range(buf[t]) \subseteq Byte
      BY <3>1 DEF BufferOK, Range
    <3> QED
      BY <3>2, <3>7, <3>8, <3>9
  <2> QED
    BY <2>1, <2>2
<1>3. TypeOK
  BY <1>2 DEF TypeOK, PlaceInv, OpenFileTypes
<1> QED
  BY <1>1, <1>3 DEF BytesInPlace, PlaceInv, ResultOK

(* OpenFile::WriteAt: every position of the sectors it writes that is in   *)
(* the file and that the data does not cover is in a sector it reads       *)
(* first.                                                                  *)
LEMMA PrefetchCovers ==
    ASSUME NEW c, c.pos \in Positions, c.pos < FileLength,
           \E n \in Lengths : n > 0 /\ c.n = Clipped(n, c.pos)
    PROVE  /\ Prefetch(c) \in Seq(Nat)
           /\ Range(Prefetch(c)) \subseteq First(c)..Last(c)
           /\ \A p \in Nat : InRange(c, p) /\ ~Covers(c, p)
                               => p \div SectorSize \in Range(Prefetch(c))
<1> DEFINE a == First(c)
           b == Last(c)
           firstAligned == c.pos = a * SectorSize
           lastAligned == c.pos + c.n = (b + 1) * SectorSize
           s == IF ~firstAligned THEN <<a>> ELSE <<>>
           u == IF ~lastAligned /\ (a # b \/ firstAligned) THEN <<b>> ELSE <<>>
<1>1. /\ c.pos \in Nat /\ c.n \in Nat /\ c.n > 0
      /\ a \in 0..(Len(dataSectors) - 1) /\ b \in 0..(Len(dataSectors) - 1) /\ a <= b
      /\ \A p \in Nat : p \in (a * SectorSize)..((b + 1) * SectorSize - 1) <=> InRange(c, p)
  BY CallRange
<1>2. a \in Nat /\ b \in Nat
  BY <1>1, HeaderCoversFile
<1>3. Prefetch(c) = s \o u
  BY DEF Prefetch
<1> HIDE DEF a, b
<1>4. s \in Seq(Nat) /\ Range(s) = IF ~firstAligned THEN {a} ELSE {}
  BY <1>2, OneElement, EmptySequence
<1>5. u \in Seq(Nat) /\ Range(u) = IF ~lastAligned /\ (a # b \/ firstAligned) THEN {b} ELSE {}
  BY <1>2, OneElement, EmptySequence
<1> HIDE DEF s, u, firstAligned, lastAligned
<1>6. Prefetch(c) \in Seq(Nat) /\ Range(Prefetch(c)) = Range(s) \cup Range(u)
  BY <1>3, <1>4, <1>5, Concatenation
<1>7. Range(Prefetch(c)) \subseteq a..b
  BY <1>1, <1>2, <1>4, <1>5, <1>6
<1>8. ASSUME NEW p \in Nat, InRange(c, p), ~Covers(c, p)
      PROVE  p \div SectorSize \in Range(Prefetch(c))
  <2> DEFINE i == p \div SectorSize
  <2>1. i \in Nat /\ a <= i /\ i <= b
    BY <1>8, SectorOf DEF InRange, a, b
  <2>2. SectorSize \in Nat /\ a * SectorSize \in Nat /\ (b + 1) * SectorSize \in Nat
    BY <1>2, OpenFileAssumption
  <2>3. a * SectorSize <= p /\ p < (b + 1) * SectorSize
    <3>1. p \in (a * SectorSize)..((b + 1) * SectorSize - 1)
      BY <1>1, <1>8
    <3> QED
      BY <2>2, <3>1
  <2>4. CASE p < c.pos
    <3>1. p \div SectorSize <= c.pos \div SectorSize
      BY <1>1, <2>4, Monotone
    <3>2. i <= a
      BY <3>1 DEF a, First
    <3> HIDE DEF i
    <3>3. i = a
      BY <1>2, <2>1, <3>2
    <3>4. ~firstAligned
      BY <1>1, <2>2, <2>3, <2>4 DEF firstAligned
    <3>5. i \in Range(Prefetch(c))
      BY <1>4, <1>6, <3>3, <3>4
    <3> QED
      BY <3>5 DEF i
  <2>5. CASE c.pos + c.n <= p
    <3>1. c.pos + c.n - 1 \in Int /\ c.pos + c.n - 1 <= p
      BY <1>1, <2>5
    <3>2. (c.pos + c.n - 1) \div SectorSize <= p \div SectorSize
      BY <3>1, Monotone
    <3>3. b <= i
      BY <3>2 DEF b, Last
    <3> HIDE DEF i
    <3>4. i = b
      BY <1>2, <2>1, <3>3
    <3>5. ~lastAligned
      BY <1>1, <2>2, <2>3, <2>5 DEF lastAligned
    <3>6. i \in Range(Prefetch(c))
      BY <1>4, <1>5, <1>6, <3>4, <3>5
    <3> QED
      BY <3>6 DEF i
  <2> QED
    BY <1>1, <1>8, <2>4, <2>5 DEF Covers
<1> QED
  BY <1>6, <1>7, <1>8 DEF a, b

(* A byte of the file is in one place on the disk. *)
LEMMA OnDisk ==
    ASSUME NEW p \in 0..(FileLength - 1)
    PROVE  /\ p \in Nat /\ p % SectorSize \in 0..(SectorSize - 1)
           /\ p \div SectorSize \in 0..(Len(dataSectors) - 1)
           /\ ByteToSector(p) \in Range(dataSectors)
<1>1. p \in Nat
  BY OpenFileAssumption
<1>2. p \div SectorSize \in 0..(Len(dataSectors) - 1)
  BY HeaderCoversFile
<1>3. (p \div SectorSize) + 1 \in DOMAIN dataSectors
  <2> DEFINE i == p \div SectorSize
  <2> HIDE DEF i
  <2>1. i + 1 \in DOMAIN dataSectors
    BY <1>2, HeaderCoversFile DEF i
  <2> QED
    BY <2>1 DEF i
<1> QED
  BY <1>1, <1>2, <1>3, SectorOf DEF ByteToSector, Range

LEMMA DifferentSectors ==
    ASSUME NEW i \in 0..(Len(dataSectors) - 1), NEW j \in 0..(Len(dataSectors) - 1),
           dataSectors[i + 1] = dataSectors[j + 1]
    PROVE  i = j
<1>1. i + 1 \in DOMAIN dataSectors /\ j + 1 \in DOMAIN dataSectors
  BY HeaderCoversFile
<1>2. i + 1 = j + 1
  BY <1>1, OpenFileAssumption DEF IsInjective
<1> QED
  BY <1>2, HeaderCoversFile

LEMMA InitPlace == Init => PlaceInv
<1> SUFFICES ASSUME Init PROVE PlaceInv
  OBVIOUS
<1> DEFINE Number(s) == CHOOSE i \in DOMAIN dataSectors : dataSectors[i] = s
           Start(s, o) == Number(s) * SectorSize - SectorSize + o
<1>1. disk = [s \in Range(dataSectors) |-> [o \in 0..(SectorSize - 1) |->
                IF Start(s, o) < FileLength THEN <<0, Start(s, o)>> ELSE Garbage]]
  BY DEF Init
<1>2. ASSUME NEW s \in Range(dataSectors)
      PROVE  Number(s) \in DOMAIN dataSectors /\ dataSectors[Number(s)] = s
  BY DEF Range
<1>3. SectorSize \in Nat \ {0} /\ FileLength \in Nat
  BY OpenFileAssumption
<1> HIDE DEF Number
<1>4. ASSUME NEW s \in Range(dataSectors), NEW o \in 0..(SectorSize - 1)
      PROVE  Start(s, o) \in Nat
  <2>1. Number(s) \in Nat /\ Number(s) >= 1
    BY <1>2, HeaderCoversFile
  <2>2. (Number(s) - 1) * SectorSize \in Nat
        /\ (Number(s) - 1) * SectorSize = Number(s) * SectorSize - SectorSize
    BY <1>3, <2>1
  <2> QED
    BY <1>3, <2>2
<1> HIDE DEF Start
<1>5. disk \in [Range(dataSectors) -> [0..(SectorSize - 1) -> Byte]]
  <2>1. ASSUME NEW s \in Range(dataSectors), NEW o \in 0..(SectorSize - 1)
        PROVE  (IF Start(s, o) < FileLength THEN <<0, Start(s, o)>> ELSE Garbage) \in Byte
    BY <1>3, <1>4 DEF Byte
  <2> QED
    BY <1>1, <2>1
<1>6. DiskOK
  <2> SUFFICES ASSUME NEW p \in 0..(FileLength - 1) PROVE AtPlace(ByteOnDisk(p), p)
    BY DEF DiskOK
  <2> DEFINE i == p \div SectorSize
             o == p % SectorSize
             s == ByteToSector(p)
  <2>1. p \in Nat /\ o \in 0..(SectorSize - 1) /\ i \in 0..(Len(dataSectors) - 1)
        /\ s \in Range(dataSectors)
    BY OnDisk
  <2>2. p = i * SectorSize + o
    BY <2>1, SectorOf
  <2>3. s = dataSectors[i + 1]
    BY DEF ByteToSector
  <2> HIDE DEF i, o, s
  <2>4. Number(s) = i + 1
    <3>1. i + 1 \in DOMAIN dataSectors
      BY <2>1, HeaderCoversFile
    <3> QED
      BY <1>2, <2>1, <2>3, <3>1, OpenFileAssumption DEF IsInjective
  <2>5. Start(s, o) = p
    <3>1. (i + 1) * SectorSize - SectorSize = i * SectorSize /\ i * SectorSize \in Int
      BY <1>3, <2>1, HeaderCoversFile
    <3> QED
      BY <1>3, <2>1, <2>2, <2>4, <3>1 DEF Start
  <2>6. disk[s][o] = <<0, p>>
    BY <1>1, <1>3, <2>1, <2>5
  <2> QED
    BY <2>6 DEF ByteOnDisk, AtPlace, s, o
<1>7. None \in Calls
  BY DEF None, Calls
<1>8. OpenFileTypes
  <2>1. shared \in [Threads -> BOOLEAN]
    BY Zenon DEF Init
  <2> QED
    BY <1>5, <1>7, <2>1, EmptySequence DEF Init, OpenFileTypes
<1>9. ResultOK
  BY DEF Init, ResultOK
<1>10. ASSUME NEW t \in Threads PROVE CallOK(t)
  BY DEF Init, CallOK
<1> QED
  BY <1>6, <1>8, <1>9, <1>10 DEF PlaceInv

(* A step of another thread. *)
LEMMA CallFrame ==
    ASSUME NEW t \in Threads, CallOK(t), call'[t] = call[t], reads'[t] = reads[t],
           writes'[t] = writes[t], buf'[t] = buf[t], seekPosition'[t] = seekPosition[t]
    PROVE  CallOK(t)'
  BY DEF CallOK, Runs, BufferOK, First, Last, AtPlace, Covers, Range, Byte, Clipped, None

LEMMA SeekPlace ==
    ASSUME PlaceInv, NEW t \in Threads, NEW p \in Positions, Seek(t, p)
    PROVE  PlaceInv'
<1>1. UNCHANGED <<disk, call, reads, writes, buf, result, shared, last>>
      /\ seekPosition' = [seekPosition EXCEPT ![t] = p] /\ call[t] = None
  BY DEF Seek, Idle
<1>2. OpenFileTypes'
  BY <1>1, OpenFileAssumption DEF PlaceInv, OpenFileTypes, Byte, Calls
<1>3. ASSUME NEW u \in Threads PROVE CallOK(u)'
  <2>1. CASE u = t
    BY <1>1, <2>1 DEF PlaceInv, CallOK, None
  <2>2. CASE u # t
    <3>1. seekPosition'[u] = seekPosition[u] /\ CallOK(u)
      BY <1>1, <2>2 DEF PlaceInv, OpenFileTypes
    <3> QED
      BY <1>1, <3>1, CallFrame
  <2> QED
    BY <2>1, <2>2
<1> QED
  BY <1>1, <1>2, <1>3 DEF PlaceInv, DiskOK, ResultOK, ByteOnDisk, AtPlace, ByteToSector

LEMMA CallEmptyPlace ==
    ASSUME PlaceInv, NEW t \in Threads, NEW n \in Lengths, NEW pos \in Positions,
           CallEmpty(t, n, pos)
    PROVE  PlaceInv'
<1>1. UNCHANGED <<disk, seekPosition, call, reads, writes, buf, shared, last>>
      /\ result' = [count |-> 0, data |-> <<>>]
  BY DEF CallEmpty
<1>2. OpenFileTypes'
  BY <1>1 DEF PlaceInv, OpenFileTypes, Byte, Calls
<1>3. ASSUME NEW u \in Threads PROVE CallOK(u)'
  BY <1>1, CallFrame DEF PlaceInv
<1>4. ResultOK'
  BY <1>1 DEF ResultOK
<1> QED
  BY <1>1, <1>2, <1>3, <1>4 DEF PlaceInv, DiskOK, ByteOnDisk, AtPlace, ByteToSector

LEMMA StartPlace ==
    ASSUME PlaceInv, NEW t \in Threads, NEW kind \in {"read", "write"}, NEW n \in Lengths,
           NEW pos \in Positions, NEW value \in Values \cup {0},
           kind = "write" => value \in Values, t \in Movers => pos = seekPosition[t],
           Call(t, kind, n, pos, value)
    PROVE  PlaceInv'
<1> DEFINE c == [kind |-> kind, pos |-> pos, n |-> Clipped(n, pos), value |-> value]
           todo == IF kind = "read" THEN Upto(First(c), Last(c)) ELSE Prefetch(c)
           towrite == IF kind = "read" THEN <<>> ELSE Upto(First(c), Last(c))
           space == (First(c) * SectorSize)..((Last(c) + 1) * SectorSize - 1)
           empty == [p \in space |-> Garbage]
<1>1. /\ UNCHANGED <<disk, seekPosition, result, last>>
      /\ n > 0 /\ pos < FileLength /\ call[t] = None
      /\ call' = [call EXCEPT ![t] = c] /\ buf' = [buf EXCEPT ![t] = empty]
      /\ reads' = [reads EXCEPT ![t] = todo] /\ writes' = [writes EXCEPT ![t] = towrite]
  BY DEF Call, Idle
<1>2. c.kind = kind /\ c.pos = pos /\ c.n = Clipped(n, pos) /\ c.value = value
  OBVIOUS
<1>3. c.pos \in Positions /\ c.pos < FileLength
      /\ \E m \in Lengths : m > 0 /\ c.n = Clipped(m, c.pos)
  BY <1>1, <1>2
<1> HIDE DEF c
<1>4. /\ c.pos \in Nat /\ c.n \in Nat /\ First(c) \in 0..(Len(dataSectors) - 1)
      /\ Last(c) \in 0..(Len(dataSectors) - 1) /\ First(c) <= Last(c)
      /\ \A p \in Nat : p \in space <=> InRange(c, p)
  BY <1>3, CallRange
<1>5. First(c) \in Nat /\ Last(c) \in Nat
  BY <1>4, HeaderCoversFile
<1>6. /\ Upto(First(c), Last(c)) \in Seq(Nat)
      /\ Range(Upto(First(c), Last(c))) = First(c)..Last(c)
  BY <1>4, <1>5, UptoIs
<1>7. /\ Prefetch(c) \in Seq(Nat) /\ Range(Prefetch(c)) \subseteq First(c)..Last(c)
      /\ \A p \in Nat : InRange(c, p) /\ ~Covers(c, p)
                          => p \div SectorSize \in Range(Prefetch(c))
  BY <1>3, PrefetchCovers
<1>8. /\ todo \in Seq(Nat) /\ towrite \in Seq(Nat)
      /\ Range(todo) \subseteq First(c)..Last(c) /\ Range(towrite) \subseteq First(c)..Last(c)
  BY <1>6, <1>7, EmptySequence
<1>9. ASSUME NEW p \in space
      PROVE  /\ p \in Nat
             /\ p \div SectorSize \in Range(todo) \/ (kind = "write" /\ Covers(c, p))
  <2>1. First(c) * SectorSize \in Nat /\ (Last(c) + 1) * SectorSize \in Nat
    BY <1>5, OpenFileAssumption
  <2>2. p \in Nat
    BY <2>1
  <2>3. InRange(c, p)
    BY <1>4, <2>2
  <2>4. p \div SectorSize \in First(c)..Last(c)
    <3> DEFINE i == p \div SectorSize
               a == First(c)
               b == Last(c)
    <3>1. i \in Nat /\ a <= i /\ i <= b
      BY <2>2, <2>3, SectorOf DEF InRange
    <3> HIDE DEF i, a, b
    <3>2. i \in a..b
      BY <1>5, <3>1 DEF a, b
    <3> QED
      BY <3>2 DEF i, a, b
  <2> QED
    BY <1>6, <1>7, <2>2, <2>3, <2>4
<1>10. c \in Calls
  BY <1>2, <1>4 DEF Calls, c
<1>11. shared' \in [Threads -> BOOLEAN]
  <2>1. shared' = [u \in Threads |->
                  IF u = t THEN \E w \in Writers : Overlap(c, call[w])
                  ELSE shared[u] \/ (kind = "write" /\ ~Idle(u) /\ Overlap(c, call[u]))]
    BY DEF Call, c
  <2> QED
    BY <2>1, Zenon
<1> HIDE DEF todo, towrite, empty
<1>12. OpenFileTypes'
  BY <1>1, <1>8, <1>10, <1>11 DEF PlaceInv, OpenFileTypes, Byte
<1>13. ASSUME NEW u \in Threads PROVE CallOK(u)'
  <2>1. CASE u = t
    <3>1. /\ call'[t] = c /\ reads'[t] = todo /\ writes'[t] = towrite /\ buf'[t] = empty
          /\ seekPosition'[t] = seekPosition[t]
      BY <1>1 DEF PlaceInv, OpenFileTypes
    <3>2. c # None
      BY <1>2 DEF None
    <3>3. Runs(t)'
      <4>1. kind = "read" => towrite = <<>>
        BY DEF towrite
      <4> QED
        BY <1>2, <1>3, <1>8, <3>1, <4>1 DEF Runs, First, Last, Range, Clipped
    <3>4. BufferOK(t)'
      <4>1. DOMAIN empty = space /\ \A p \in space : empty[p] = Garbage
        BY DEF empty
      <4>2. Garbage \in Byte
        BY DEF Byte
      <4> QED
        BY <1>2, <1>9, <3>1, <4>1, <4>2 DEF BufferOK, First, Last, Range, Byte, Covers, AtPlace
    <3> QED
      BY <2>1, <3>1, <3>2, <3>3, <3>4 DEF CallOK, None
  <2>2. CASE u # t
    <3>1. /\ call'[u] = call[u] /\ reads'[u] = reads[u] /\ writes'[u] = writes[u]
          /\ buf'[u] = buf[u] /\ seekPosition'[u] = seekPosition[u] /\ CallOK(u)
      BY <1>1, <2>2 DEF PlaceInv, OpenFileTypes
    <3> QED
      BY <3>1, CallFrame
  <2> QED
    BY <2>1, <2>2
<1> QED
  BY <1>1, <1>12, <1>13 DEF PlaceInv, DiskOK, ResultOK, ByteOnDisk, AtPlace, ByteToSector

(* What a thread with work left knows of its call. *)
LEMMA Running ==
    ASSUME PlaceInv, NEW t \in Threads, call[t] # None
    PROVE  LET c == call[t] IN
           /\ Runs(t) /\ BufferOK(t)
           /\ c \in Calls /\ c.kind \in {"read", "write"}
           /\ c.pos \in Nat /\ c.n \in Nat /\ c.n > 0 /\ c.pos + c.n <= FileLength
           /\ First(c) \in 0..(Len(dataSectors) - 1)
           /\ Last(c) \in 0..(Len(dataSectors) - 1)
           /\ First(c) \in Nat /\ Last(c) \in Nat /\ First(c) <= Last(c)
           /\ \A p : Covers(c, p) => p \in 0..(FileLength - 1) /\ InRange(c, p)
           /\ DOMAIN buf[t] \subseteq Nat
           /\ \A p \in Nat : p \in DOMAIN buf[t] <=> InRange(c, p)
<1> DEFINE c == call[t]
<1>1. Runs(t) /\ BufferOK(t) /\ c \in Calls
  BY DEF PlaceInv, CallOK, OpenFileTypes
<1>2. /\ c.pos \in Nat /\ c.n \in Nat /\ c.n > 0 /\ c.pos + c.n <= FileLength
      /\ First(c) \in 0..(Len(dataSectors) - 1)
      /\ Last(c) \in 0..(Len(dataSectors) - 1) /\ First(c) <= Last(c)
      /\ \A p : Covers(c, p) => p \in 0..(FileLength - 1) /\ InRange(c, p)
      /\ \A p \in Nat : p \in (First(c) * SectorSize)..((Last(c) + 1) * SectorSize - 1)
                          <=> InRange(c, p)
  BY <1>1, CallRange DEF Runs
<1>3. First(c) \in Nat /\ Last(c) \in Nat
  BY <1>2, HeaderCoversFile
<1>4. DOMAIN buf[t] = (First(c) * SectorSize)..((Last(c) + 1) * SectorSize - 1)
  BY <1>1 DEF BufferOK
<1>5. First(c) * SectorSize \in Nat /\ (Last(c) + 1) * SectorSize \in Nat
  BY <1>3, OpenFileAssumption
<1>6. DOMAIN buf[t] \subseteq Nat
  BY <1>4, <1>5
<1>7. c.kind \in {"read", "write"}
  BY <1>1 DEF Runs
<1> QED
  BY <1>1, <1>2, <1>3, <1>4, <1>6, <1>7

LEMMA ReadSectorPlace ==
    ASSUME PlaceInv, NEW t \in Threads, ReadSector(t)
    PROVE  PlaceInv'
<1> DEFINE c == call[t]
           i == Head(reads[t])
           Fetched(p) == p \in InSector(i) /\ (c.kind = "write" => p < FileLength)
           filled == [p \in DOMAIN buf[t] |-> IF Fetched(p) THEN ByteOnDisk(p) ELSE buf[t][p]]
<1>1. /\ reads[t] # <<>>
      /\ UNCHANGED <<disk, seekPosition, call, writes, result, shared, last>>
      /\ buf' = [buf EXCEPT ![t] = filled] /\ reads' = [reads EXCEPT ![t] = Tail(reads[t])]
  BY DEF ReadSector
<1>2. call[t] # None
  BY <1>1 DEF PlaceInv, CallOK
<1>3. /\ Runs(t) /\ BufferOK(t) /\ DOMAIN buf[t] \subseteq Nat
      /\ First(c) \in Nat /\ Last(c) \in 0..(Len(dataSectors) - 1)
      /\ \A p \in Nat : p \in DOMAIN buf[t] <=> InRange(c, p)
  BY <1>2, Running
<1>4. reads[t] \in Seq(Nat)
  BY DEF PlaceInv, OpenFileTypes
<1>5. /\ i \in Nat /\ Tail(reads[t]) \in Seq(Nat)
      /\ Range(reads[t]) = {i} \cup Range(Tail(reads[t]))
  BY <1>1, <1>4, HeadAndTail
<1>6. ASSUME NEW p \in DOMAIN buf[t], Fetched(p)
      PROVE  ByteOnDisk(p) \in Byte
  <2>1. p \in Nat /\ p \div SectorSize = i
    BY <1>3, <1>5, <1>6, InSectorIs
  <2>2. i \in 0..(Len(dataSectors) - 1)
    <3> DEFINE b == Last(c)
    <3>1. i \in First(c)..b /\ b \in 0..(Len(dataSectors) - 1) /\ First(c) \in Nat
      BY <1>3, <1>5 DEF Runs
    <3> HIDE DEF b
    <3> QED
      BY <1>5, <3>1, HeaderCoversFile
  <2>3. i + 1 \in DOMAIN dataSectors
    BY <2>2, HeaderCoversFile
  <2>4. ByteToSector(p) \in Range(dataSectors)
    BY <2>1, <2>3 DEF ByteToSector, Range
  <2>5. p % SectorSize \in 0..(SectorSize - 1)
    BY <2>1, SectorOf
  <2>6. disk[ByteToSector(p)] \in [0..(SectorSize - 1) -> Byte]
    BY <2>4 DEF PlaceInv, OpenFileTypes
  <2> QED
    BY <2>5, <2>6 DEF ByteOnDisk
<1>7. ASSUME NEW p \in DOMAIN buf[t]
      PROVE  /\ filled[p] \in Byte
             /\ p < FileLength =>
                  \/ AtPlace(filled[p], p)
                  \/ p \div SectorSize \in Range(Tail(reads[t]))
                  \/ c.kind = "write" /\ Covers(c, p)
  <2>1. CASE Fetched(p)
    <3>1. filled[p] = ByteOnDisk(p)
      BY <2>1
    <3>2. p < FileLength => AtPlace(ByteOnDisk(p), p)
      BY <1>3, OpenFileAssumption DEF PlaceInv, DiskOK
    <3> QED
      BY <1>6, <2>1, <3>1, <3>2
  <2>2. CASE ~Fetched(p)
    <3>1. filled[p] = buf[t][p]
      BY <2>2
    <3>2. p < FileLength => p \div SectorSize # i
      BY <1>3, <1>5, <2>2, InSectorIs
    <3>3. /\ buf[t][p] \in Byte
          /\ p < FileLength =>
                  \/ AtPlace(buf[t][p], p)
                  \/ p \div SectorSize \in Range(reads[t])
                  \/ c.kind = "write" /\ Covers(c, p)
      BY <1>3 DEF BufferOK
    <3> QED
      BY <1>5, <3>1, <3>2, <3>3
  <2> QED
    BY <2>1, <2>2
<1>8. DOMAIN filled = DOMAIN buf[t]
  OBVIOUS
<1> HIDE DEF filled, i
<1>9. OpenFileTypes'
  BY <1>1, <1>5 DEF PlaceInv, OpenFileTypes, Byte, Calls
<1>10. ASSUME NEW u \in Threads PROVE CallOK(u)'
  <2>1. CASE u = t
    <3>1. /\ call'[t] = c /\ reads'[t] = Tail(reads[t]) /\ writes'[t] = writes[t]
          /\ buf'[t] = filled /\ seekPosition'[t] = seekPosition[t]
      BY <1>1 DEF PlaceInv, OpenFileTypes
    <3>2. Runs(t)'
      <4>1. Range(Tail(reads[t])) \subseteq First(c)..Last(c)
        BY <1>3, <1>5 DEF Runs
      <4> QED
        BY <1>3, <3>1, <4>1 DEF Runs, First, Last, Range, Clipped
    <3>3. BufferOK(t)'
      <4>1. DOMAIN filled = (First(c) * SectorSize)..((Last(c) + 1) * SectorSize - 1)
        BY <1>3, <1>8 DEF BufferOK
      <4> QED
        BY <1>7, <1>8, <3>1, <4>1 DEF BufferOK, First, Last, Range, Byte, Covers, AtPlace
    <3> QED
      BY <1>2, <2>1, <3>1, <3>2, <3>3 DEF CallOK, None
  <2>2. CASE u # t
    <3>1. /\ call'[u] = call[u] /\ reads'[u] = reads[u] /\ writes'[u] = writes[u]
          /\ buf'[u] = buf[u] /\ seekPosition'[u] = seekPosition[u] /\ CallOK(u)
      BY <1>1, <2>2 DEF PlaceInv, OpenFileTypes
    <3> QED
      BY <3>1, CallFrame
  <2> QED
    BY <2>1, <2>2
<1> QED
  BY <1>1, <1>9, <1>10 DEF PlaceInv, DiskOK, ResultOK, ByteOnDisk, AtPlace, ByteToSector

(* A sector is written with the buffer's bytes for it; the others stay. *)
LEMMA SectorWritten ==
    ASSUME PlaceInv, NEW t \in Threads, WriteSector(t)
    PROVE  LET c == call[t]
               i == Head(writes[t])
           IN  /\ c # None /\ c.kind = "write"
               /\ i \in First(c)..Last(c) /\ i \in 0..(Len(dataSectors) - 1)
               /\ Tail(writes[t]) \in Seq(Nat)
               /\ Range(writes[t]) = {i} \cup Range(Tail(writes[t]))
               /\ \A p \in 0..(FileLength - 1) :
                    ByteOnDisk(p)' = IF p \div SectorSize = i THEN Merged(t, p) ELSE ByteOnDisk(p)
               /\ \A p \in Nat : p \div SectorSize = i =>
                    Merged(t, p) \in Byte /\ (p < FileLength => AtPlace(Merged(t, p), p))
               /\ disk' \in [Range(dataSectors) -> [0..(SectorSize - 1) -> Byte]]
<1> DEFINE c == call[t]
           i == Head(writes[t])
           here == ByteToSector(i * SectorSize)
           new == [o \in 0..(SectorSize - 1) |-> Merged(t, i * SectorSize + o)]
<1>1. /\ reads[t] = <<>> /\ writes[t] # <<>>
      /\ disk' = [disk EXCEPT ![here] = new]
  BY DEF WriteSector
<1>2. c # None
  BY <1>1 DEF PlaceInv, CallOK
<1>3. /\ Runs(t) /\ BufferOK(t) /\ c \in Calls /\ c.kind \in {"read", "write"}
      /\ First(c) \in Nat /\ Last(c) \in 0..(Len(dataSectors) - 1)
      /\ \A p : Covers(c, p) => p \in 0..(FileLength - 1) /\ InRange(c, p)
      /\ \A p \in Nat : p \in DOMAIN buf[t] <=> InRange(c, p)
  BY <1>2, Running
<1>4. writes[t] \in Seq(Nat) /\ disk \in [Range(dataSectors) -> [0..(SectorSize - 1) -> Byte]]
  BY DEF PlaceInv, OpenFileTypes
<1>5. /\ i \in Nat /\ Tail(writes[t]) \in Seq(Nat)
      /\ Range(writes[t]) = {i} \cup Range(Tail(writes[t]))
  BY <1>1, <1>4, HeadAndTail
<1>6. c.kind = "write" /\ i \in First(c)..Last(c) /\ c.value \in Values
  BY <1>1, <1>3, <1>5 DEF Runs
<1>7. i \in 0..(Len(dataSectors) - 1) /\ i + 1 \in DOMAIN dataSectors
  <2> DEFINE b == Last(c)
  <2>1. i \in First(c)..b /\ b \in 0..(Len(dataSectors) - 1) /\ First(c) \in Nat
    BY <1>3, <1>6
  <2> HIDE DEF b
  <2> QED
    BY <1>5, <2>1, HeaderCoversFile
<1> HIDE DEF i
<1>8. SectorSize \in Nat \ {0} /\ 0 \in 0..(SectorSize - 1)
  BY OpenFileAssumption
<1>9. (i * SectorSize) \div SectorSize = i
  BY <1>5, <1>8, PositionIn
<1>10. here = dataSectors[i + 1] /\ here \in Range(dataSectors)
  BY <1>7, <1>9 DEF ByteToSector, Range
<1>11. ASSUME NEW p \in Nat, p \div SectorSize = i
       PROVE  Merged(t, p) \in Byte /\ (p < FileLength => AtPlace(Merged(t, p), p))
  <2>1. CASE Covers(c, p)
    <3>1. Merged(t, p) = <<c.value, p>> /\ p \in 0..(FileLength - 1)
      BY <1>3, <2>1 DEF Merged, Covers
    <3> QED
      BY <1>6, <3>1 DEF Byte, AtPlace
  <2>2. CASE ~Covers(c, p)
    <3>1. Merged(t, p) = buf[t][p]
      BY <2>2 DEF Merged, Covers
    <3>2. InRange(c, p)
      <4> DEFINE a == First(c)
                 b == Last(c)
      <4>1. i \in a..b /\ a \in Nat /\ b \in 0..(Len(dataSectors) - 1)
        BY <1>3, <1>6
      <4> HIDE DEF a, b
      <4>2. a <= i /\ i <= b
        BY <1>5, <4>1, HeaderCoversFile
      <4> QED
        BY <1>11, <4>2 DEF InRange, a, b
    <3>3. p \in DOMAIN buf[t]
      BY <1>3, <3>2
    <3>4. Range(reads[t]) = {}
      BY <1>1, EmptySequence
    <3> QED
      BY <1>3, <2>2, <3>1, <3>3, <3>4 DEF BufferOK
  <2> QED
    BY <2>1, <2>2
<1>12. new \in [0..(SectorSize - 1) -> Byte]
  <2>1. ASSUME NEW o \in 0..(SectorSize - 1) PROVE Merged(t, i * SectorSize + o) \in Byte
    BY <1>5, <1>11, PositionIn
  <2> QED
    BY <2>1
<1>13. disk' \in [Range(dataSectors) -> [0..(SectorSize - 1) -> Byte]]
  <2> HIDE DEF new, here
  <2> QED
    BY <1>1, <1>4, <1>12
<1>14. ASSUME NEW p \in 0..(FileLength - 1)
       PROVE  ByteOnDisk(p)' = IF p \div SectorSize = i THEN Merged(t, p) ELSE ByteOnDisk(p)
  <2>1. /\ p \in Nat /\ p % SectorSize \in 0..(SectorSize - 1)
        /\ p \div SectorSize \in 0..(Len(dataSectors) - 1)
        /\ ByteToSector(p) \in Range(dataSectors)
    BY OnDisk
  <2>2. ByteOnDisk(p)' = disk'[ByteToSector(p)][p % SectorSize]
    BY DEF ByteOnDisk, ByteToSector
  <2>3. CASE p \div SectorSize = i
    <3>1. ByteToSector(p) = here
      BY <1>10, <2>3 DEF ByteToSector
    <3>2. p = i * SectorSize + (p % SectorSize)
      BY <2>1, <2>3, SectorOf
    <3>3. disk'[here] = new
      BY <1>1, <1>4, <1>10
    <3>4. new[p % SectorSize] = Merged(t, i * SectorSize + (p % SectorSize))
      BY <2>1
    <3>5. new[p % SectorSize] = Merged(t, p)
      BY <3>2, <3>4
    <3> QED
      BY <2>2, <2>3, <3>1, <3>3, <3>5
  <2>4. CASE p \div SectorSize # i
    <3>1. ByteToSector(p) # here
      BY <1>7, <1>10, <2>1, <2>4, DifferentSectors DEF ByteToSector
    <3>2. disk'[ByteToSector(p)] = disk[ByteToSector(p)]
      BY <1>1, <1>4, <2>1, <3>1
    <3> QED
      BY <2>2, <2>4, <3>2 DEF ByteOnDisk
  <2> QED
    BY <2>3, <2>4
<1> QED
  BY <1>2, <1>5, <1>6, <1>7, <1>11, <1>13, <1>14 DEF i

LEMMA WriteSectorPlace ==
    ASSUME PlaceInv, NEW t \in Threads, WriteSector(t)
    PROVE  PlaceInv'
<1> DEFINE c == call[t]
           i == Head(writes[t])
<1>1. /\ UNCHANGED <<seekPosition, call, reads, buf, result, shared, last>>
      /\ writes' = [writes EXCEPT ![t] = Tail(writes[t])]
  BY DEF WriteSector
<1>2. /\ c # None /\ c.kind = "write" /\ Tail(writes[t]) \in Seq(Nat)
      /\ Range(writes[t]) = {i} \cup Range(Tail(writes[t]))
      /\ \A p \in 0..(FileLength - 1) :
           ByteOnDisk(p)' = IF p \div SectorSize = i THEN Merged(t, p) ELSE ByteOnDisk(p)
      /\ \A p \in Nat : p \div SectorSize = i =>
           Merged(t, p) \in Byte /\ (p < FileLength => AtPlace(Merged(t, p), p))
      /\ disk' \in [Range(dataSectors) -> [0..(SectorSize - 1) -> Byte]]
  BY SectorWritten
<1>3. DiskOK'
  <2> SUFFICES ASSUME NEW p \in 0..(FileLength - 1) PROVE AtPlace(ByteOnDisk(p)', p)
    BY DEF DiskOK, AtPlace
  <2>1. p \in Nat /\ p < FileLength /\ AtPlace(ByteOnDisk(p), p)
    BY OpenFileAssumption DEF PlaceInv, DiskOK
  <2> QED
    BY <1>2, <2>1
<1>4. OpenFileTypes'
  BY <1>1, <1>2 DEF PlaceInv, OpenFileTypes, Byte, Calls
<1>5. ASSUME NEW u \in Threads PROVE CallOK(u)'
  <2>1. CASE u = t
    <3>1. /\ call'[t] = c /\ reads'[t] = reads[t] /\ writes'[t] = Tail(writes[t])
          /\ buf'[t] = buf[t] /\ seekPosition'[t] = seekPosition[t]
      BY <1>1 DEF PlaceInv, OpenFileTypes
    <3>2. Runs(t) /\ BufferOK(t)
      BY <1>2, Running
    <3>3. Runs(t)'
      <4>1. Range(Tail(writes[t])) \subseteq First(c)..Last(c)
        BY <1>2, <3>2 DEF Runs
      <4> QED
        BY <1>2, <3>1, <3>2, <4>1 DEF Runs, First, Last, Range, Clipped
    <3>4. BufferOK(t)'
      BY <3>1, <3>2 DEF BufferOK, First, Last, Range, Byte, Covers, AtPlace
    <3> QED
      BY <1>2, <2>1, <3>1, <3>3, <3>4 DEF CallOK, None
  <2>2. CASE u # t
    <3>1. /\ call'[u] = call[u] /\ reads'[u] = reads[u] /\ writes'[u] = writes[u]
          /\ buf'[u] = buf[u] /\ seekPosition'[u] = seekPosition[u] /\ CallOK(u)
      BY <1>1, <2>2 DEF PlaceInv, OpenFileTypes
    <3> QED
      BY <3>1, CallFrame
  <2> QED
    BY <2>1, <2>2
<1> QED
  BY <1>1, <1>3, <1>4, <1>5 DEF PlaceInv, ResultOK

(* The bytes of a read that has read all its sectors. *)
LEMMA ReadComplete ==
    ASSUME PlaceInv, NEW t \in Threads, call[t] # None, call[t].kind = "read",
           reads[t] = <<>>, NEW k \in 1..call[t].n
    PROVE  AtPlace(buf[t][call[t].pos + k - 1], call[t].pos + k - 1)
<1> DEFINE c == call[t]
           p == c.pos + k - 1
<1>1. /\ BufferOK(t) /\ c.pos \in Nat /\ c.n \in Nat
      /\ \A q : Covers(c, q) => q \in 0..(FileLength - 1) /\ InRange(c, q)
      /\ \A q \in Nat : q \in DOMAIN buf[t] <=> InRange(c, q)
  BY Running
<1>2. Covers(c, p)
  BY <1>1 DEF Covers
<1>3. p \in Nat /\ p < FileLength /\ InRange(c, p)
  BY <1>1, <1>2, OpenFileAssumption
<1>4. p \in DOMAIN buf[t] /\ Range(reads[t]) = {}
  BY <1>1, <1>3, EmptySequence
<1> QED
  BY <1>1, <1>3, <1>4 DEF BufferOK

LEMMA ReturnPlace ==
    ASSUME PlaceInv, NEW t \in Threads, Return(t)
    PROVE  PlaceInv'
<1> DEFINE c == call[t]
<1>1. /\ c # None /\ reads[t] = <<>> /\ writes[t] = <<>>
      /\ UNCHANGED <<disk, reads, writes>>
      /\ buf' = [buf EXCEPT ![t] = <<>>] /\ call' = [call EXCEPT ![t] = None]
      /\ shared' = [shared EXCEPT ![t] = FALSE]
      /\ seekPosition' = IF t \in Movers THEN [seekPosition EXCEPT ![t] = @ + c.n]
                                         ELSE seekPosition
      /\ result' = [count |-> c.n,
                    data |-> IF c.kind = "write" THEN <<>>
                             ELSE [k \in 1..c.n |-> buf[t][c.pos + k - 1]]]
  BY DEF Return, Idle
<1>2. /\ c.kind \in {"read", "write"} /\ c.pos \in Nat /\ c.n \in Nat /\ c.n > 0
      /\ c.pos + c.n <= FileLength
  BY <1>1, Running
<1>3. ASSUME NEW p \in 0..(FileLength - 1) PROVE ByteOnDisk(p)[1] \in Values \cup {0}
  BY DEF PlaceInv, DiskOK, AtPlace
<1>4. last' \in [0..(FileLength - 1) -> Values \cup {0}]
  <2>1. last \in [0..(FileLength - 1) -> Values \cup {0}]
    BY DEF PlaceInv, OpenFileTypes
  <2>2. last' = [p \in 0..(FileLength - 1) |->
                  IF \E w \in Writers \ {t} : InRange(call[w], p) THEN last[p]
                  ELSE ByteOnDisk(p)[1]]
    BY <2>1 DEF Return
  <2> QED
    BY <1>3, <2>1, <2>2
<1>5. shared' \in [Threads -> BOOLEAN]
  <2>1. shared \in [Threads -> BOOLEAN]
    BY DEF PlaceInv, OpenFileTypes
  <2> QED
    BY <1>1, <2>1, Zenon
<1>6. seekPosition' \in [Threads -> Nat]
  BY <1>1, <1>2 DEF PlaceInv, OpenFileTypes
<1>7. None \in Calls
  BY DEF None, Calls
<1>8. OpenFileTypes'
  BY <1>1, <1>4, <1>5, <1>6, <1>7 DEF PlaceInv, OpenFileTypes, Byte
<1>9. ResultOK'
  <2>1. CASE c.kind = "write"
    BY <1>1, <2>1 DEF ResultOK
  <2>2. CASE c.kind = "read"
    <3>1. result'.data = [k \in 1..c.n |-> buf[t][c.pos + k - 1]]
      BY <1>1, <2>2
    <3>2. ASSUME NEW k \in 1..c.n
          PROVE  result'.data[k] # Garbage /\ result'.data[k][2] = c.pos + k - 1
      <4>1. AtPlace(result'.data[k], c.pos + k - 1) /\ c.pos + k - 1 \in Nat
        BY <1>1, <1>2, <2>2, <3>1, ReadComplete
      <4> QED
        BY <4>1, OpenFileAssumption DEF AtPlace
    <3>3. DOMAIN result'.data = 1..c.n /\ 1 \in 1..c.n
      BY <1>2, <3>1
    <3>4. result'.data[1][2] = c.pos
      BY <1>2, <3>2, <3>3
    <3>5. ASSUME NEW k \in DOMAIN result'.data
          PROVE  result'.data[k] # Garbage /\ result'.data[k][2] = result'.data[1][2] + k - 1
      BY <3>2, <3>3, <3>4
    <3> QED
      BY <3>5 DEF ResultOK
  <2> QED
    BY <1>2, <2>1, <2>2
<1>10. ASSUME NEW u \in Threads PROVE CallOK(u)'
  <2>1. CASE u = t
    BY <1>1, <2>1 DEF PlaceInv, OpenFileTypes, CallOK, None
  <2>2. CASE u # t
    <3>1. /\ call'[u] = call[u] /\ reads'[u] = reads[u] /\ writes'[u] = writes[u]
          /\ buf'[u] = buf[u] /\ seekPosition'[u] = seekPosition[u] /\ CallOK(u)
      BY <1>1, <2>2 DEF PlaceInv, OpenFileTypes
    <3> QED
      BY <3>1, CallFrame
  <2> QED
    BY <2>1, <2>2
<1>11. DiskOK'
  BY <1>1 DEF PlaceInv, DiskOK, ByteOnDisk, AtPlace, ByteToSector
<1> QED
  BY <1>8, <1>9, <1>10, <1>11 DEF PlaceInv

(* The step splits into the operations of openfile.cc. *)
LEMMA OpenFileSteps ==
    ASSUME Next
    PROVE  \E t \in Threads :
             \/ t \in Movers /\ \E p \in Positions : Seek(t, p)
             \/ \E n \in Lengths, pos \in Positions :
                  /\ t \in Movers => pos = seekPosition[t]
                  /\ \/ CallEmpty(t, n, pos)
                     \/ Call(t, "read", n, pos, 0)
                     \/ \E v \in Values : Call(t, "write", n, pos, v)
             \/ ReadSector(t) \/ WriteSector(t) \/ Return(t)
  BY DEF Next, Begin

LEMMA PlaceStep == PlaceInv /\ [Next]_ovars => PlaceInv'
<1> SUFFICES ASSUME PlaceInv, [Next]_ovars PROVE PlaceInv'
  OBVIOUS
<1>1. CASE UNCHANGED ovars
  <2>1. ASSUME NEW u \in Threads PROVE CallOK(u)'
    BY <1>1, CallFrame DEF PlaceInv, ovars
  <2>2. OpenFileTypes'
    BY <1>1 DEF PlaceInv, OpenFileTypes, Byte, Calls, ovars
  <2> QED
    BY <1>1, <2>1, <2>2 DEF ovars, PlaceInv, DiskOK, ResultOK, ByteOnDisk, AtPlace, ByteToSector
<1>2. CASE Next
  <2>1. PICK t \in Threads :
             \/ t \in Movers /\ \E p \in Positions : Seek(t, p)
             \/ \E n \in Lengths, pos \in Positions :
                  /\ t \in Movers => pos = seekPosition[t]
                  /\ \/ CallEmpty(t, n, pos)
                     \/ Call(t, "read", n, pos, 0)
                     \/ \E v \in Values : Call(t, "write", n, pos, v)
             \/ ReadSector(t) \/ WriteSector(t) \/ Return(t)
    BY <1>2, OpenFileSteps
  <2>2. ASSUME NEW n \in Lengths, NEW pos \in Positions, t \in Movers => pos = seekPosition[t],
               Call(t, "read", n, pos, 0)
        PROVE  PlaceInv'
    BY <2>2, StartPlace
  <2>3. ASSUME NEW n \in Lengths, NEW pos \in Positions, t \in Movers => pos = seekPosition[t],
               NEW v \in Values, Call(t, "write", n, pos, v)
        PROVE  PlaceInv'
    BY <2>3, StartPlace
  <2> QED
    BY <2>1, <2>2, <2>3, SeekPlace, CallEmptyPlace, ReadSectorPlace, WriteSectorPlace, ReturnPlace
<1> QED
  BY <1>1, <1>2

(* openfile.cc: for files, sectors and thread sets of any size, every byte *)
(* of the file and every byte a read returns was written for its position, *)
(* however the calls interleave at their sector accesses.                  *)
THEOREM BytesStayInPlace == Spec => []BytesInPlace
  BY InitPlace, PlaceStep, PlaceImpliesBytes, PTL DEF Spec

-----------------------------------------------------------------------------

(* Where no write runs, the disk holds the file of the abstract            *)
(* specification.                                                          *)
LastOK ==
    \A p \in 0..(FileLength - 1) :
        (\A w \in Writers : ~InRange(call[w], p)) => last[p] = ByteOnDisk(p)[1]

Alone(t) == ~Idle(t) /\ ~shared[t]

(* A call that shares no sector with a write: nothing but itself changes   *)
(* its range, on the disk or in the abstract file.  What it has read is    *)
(* the abstract file, what it has written is its data, and the bytes       *)
(* around its data are as they were.                                       *)
AloneOK(t) ==
    LET c == call[t] IN
    Alone(t) =>
        /\ \A w \in Writers \ {t} : ~Overlap(c, call[w])
        /\ \A p \in 0..(FileLength - 1) : InRange(c, p) =>
             IF c.kind = "write" /\ Covers(c, p)
               THEN p \div SectorSize \notin Range(writes[t]) => ByteOnDisk(p) = <<c.value, p>>
               ELSE /\ ByteOnDisk(p) = <<last[p], p>>
                    /\ p \div SectorSize \notin Range(reads[t]) => buf[t][p] = <<last[p], p>>

RefinementInv == PlaceInv /\ LastOK /\ \A t \in Threads : AloneOK(t)

LEMMA InitRefinement == Init => RefinementInv
<1> SUFFICES ASSUME Init PROVE RefinementInv
  OBVIOUS
<1>1. PlaceInv
  BY InitPlace
<1>2. ASSUME NEW t \in Threads PROVE AloneOK(t)
  BY DEF Init, AloneOK, Alone, Idle
<1>3. LastOK
  <2> SUFFICES ASSUME NEW p \in 0..(FileLength - 1) PROVE last[p] = ByteOnDisk(p)[1]
    BY DEF LastOK
  <2> DEFINE s == ByteToSector(p)
             o == p % SectorSize
             Start == (CHOOSE i \in DOMAIN dataSectors : dataSectors[i] = s) * SectorSize
                        - SectorSize + o
  <2>1. s \in Range(dataSectors) /\ o \in 0..(SectorSize - 1)
    BY OnDisk
  <2>2. disk[s][o] = IF Start < FileLength THEN <<0, Start>> ELSE Garbage
    BY <2>1 DEF Init
  <2>3. disk[s][o] # Garbage
    BY <1>1, PlaceImpliesBytes DEF BytesInPlace, ByteOnDisk
  <2> HIDE DEF Start
  <2>4. ByteOnDisk(p)[1] = 0
    BY <2>2, <2>3 DEF ByteOnDisk
  <2> QED
    BY <2>4 DEF Init
<1> QED
  BY <1>1, <1>2, <1>3 DEF RefinementInv

(* The sectors of two calls that have a position in common overlap. *)
LEMMA CommonPosition ==
    ASSUME NEW c, NEW d, NEW p \in Nat, InRange(c, p), InRange(d, p),
           First(c) \in Nat, Last(c) \in Nat, First(d) \in Nat, Last(d) \in Nat
    PROVE  Overlap(c, d) /\ Overlap(d, c)
<1> DEFINE i == p \div SectorSize
<1>1. i \in Nat
  BY SectorOf
<1>2. First(c) <= i /\ i <= Last(c) /\ First(d) <= i /\ i <= Last(d)
  BY DEF InRange
<1> HIDE DEF i
<1> QED
  BY <1>1, <1>2 DEF Overlap

LEMMA WriterRuns ==
    ASSUME PlaceInv, NEW w \in Writers
    PROVE  /\ w \in Threads /\ call[w] # None /\ First(call[w]) \in Nat /\ Last(call[w]) \in Nat
<1>1. w \in Threads /\ call[w] # None
  BY DEF Writers, None
<1> QED
  BY <1>1, Running

(* A step of another thread that leaves the range of an alone call as it   *)
(* is.                                                                     *)
LEMMA AloneFrame ==
    ASSUME NEW u \in Threads, AloneOK(u), call'[u] = call[u], reads'[u] = reads[u],
           writes'[u] = writes[u], buf'[u] = buf[u],
           Alone(u)' => Alone(u),
           Alone(u)' => \A w \in (Writers') \ {u} : ~Overlap(call[u], call'[w]),
           Alone(u)' => \A p \in 0..(FileLength - 1) : InRange(call[u], p) =>
                           ByteOnDisk(p)' = ByteOnDisk(p) /\ last'[p] = last[p]
    PROVE  AloneOK(u)'
<1> SUFFICES ASSUME Alone(u)'
             PROVE  /\ \A w \in (Writers') \ {u} : ~Overlap(call'[u], call'[w])
                    /\ \A p \in 0..(FileLength - 1) : InRange(call'[u], p) =>
                         IF call'[u].kind = "write" /\ Covers(call'[u], p)
                           THEN p \div SectorSize \notin Range(writes'[u])
                                  => ByteOnDisk(p)' = <<call'[u].value, p>>
                           ELSE /\ ByteOnDisk(p)' = <<last'[p], p>>
                                /\ p \div SectorSize \notin Range(reads'[u])
                                     => buf'[u][p] = <<last'[p], p>>
  BY DEF AloneOK, Overlap, InRange, First, Last, Covers, Range
<1> QED
  BY DEF AloneOK

LEMMA StillAlone ==
    ASSUME RefinementInv, NEW u \in Threads, call' = call, shared' = shared
    PROVE  /\ Alone(u)' <=> Alone(u)
           /\ Writers' = Writers
           /\ Alone(u)' => \A w \in (Writers') \ {u} : ~Overlap(call[u], call'[w])
<1>1. Writers' = Writers
  BY DEF Writers
<1>2. Alone(u)' <=> Alone(u)
  BY DEF Alone, Idle, None
<1> QED
  BY <1>1, <1>2 DEF RefinementInv, AloneOK

LEMMA QuietRefinement ==
    ASSUME RefinementInv, PlaceInv',
           UNCHANGED <<disk, call, reads, writes, buf, shared, last>>
    PROVE  RefinementInv'
<1>1. LastOK'
  BY DEF RefinementInv, LastOK, Writers, InRange, First, Last, ByteOnDisk, ByteToSector
<1>2. ASSUME NEW u \in Threads PROVE AloneOK(u)'
  <2>1. \A p \in 0..(FileLength - 1) : ByteOnDisk(p)' = ByteOnDisk(p) /\ last'[p] = last[p]
    BY DEF ByteOnDisk, ByteToSector
  <2>2. /\ Alone(u)' => Alone(u)
        /\ Alone(u)' => \A w \in (Writers') \ {u} : ~Overlap(call[u], call'[w])
    BY StillAlone
  <2> QED
    BY <2>1, <2>2, AloneFrame DEF RefinementInv
<1> QED
  BY <1>1, <1>2 DEF RefinementInv

LEMMA StartRefinement ==
    ASSUME RefinementInv, PlaceInv', NEW t \in Threads, NEW kind \in {"read", "write"},
           NEW n \in Lengths, NEW pos \in Positions, NEW value \in Values \cup {0},
           Call(t, kind, n, pos, value)
    PROVE  RefinementInv'
<1> DEFINE c == [kind |-> kind, pos |-> pos, n |-> Clipped(n, pos), value |-> value]
           todo == IF kind = "read" THEN Upto(First(c), Last(c)) ELSE Prefetch(c)
           towrite == IF kind = "read" THEN <<>> ELSE Upto(First(c), Last(c))
<1>0. PlaceInv /\ LastOK
  BY DEF RefinementInv
<1>1. /\ UNCHANGED <<disk, last>> /\ n > 0 /\ pos < FileLength /\ call[t] = None
      /\ call' = [call EXCEPT ![t] = c]
      /\ reads' = [reads EXCEPT ![t] = todo] /\ writes' = [writes EXCEPT ![t] = towrite]
      /\ \A u \in Threads \ {t} : buf'[u] = buf[u]
  BY <1>0 DEF Call, Idle, PlaceInv, OpenFileTypes
<1>2. c.kind = kind /\ c.pos \in Positions /\ c.pos < FileLength
      /\ \E m \in Lengths : m > 0 /\ c.n = Clipped(m, c.pos)
  BY <1>1
<1>3. shared' = [u \in Threads |->
                  IF u = t THEN \E w \in Writers : Overlap(c, call[w])
                  ELSE shared[u] \/ (kind = "write" /\ ~Idle(u) /\ Overlap(c, call[u]))]
  BY DEF Call
<1> HIDE DEF c
<1>4. /\ First(c) \in 0..(Len(dataSectors) - 1) /\ Last(c) \in 0..(Len(dataSectors) - 1)
      /\ First(c) <= Last(c)
  BY <1>2, CallRange
<1>5. First(c) \in Nat /\ Last(c) \in Nat
  BY <1>4, HeaderCoversFile
<1>6. Range(Upto(First(c), Last(c))) = First(c)..Last(c)
  BY <1>4, <1>5, UptoIs
<1>7. \A p \in Nat : InRange(c, p) /\ ~Covers(c, p) => p \div SectorSize \in Range(Prefetch(c))
  BY <1>2, PrefetchCovers
<1>8. t \notin Writers /\ \A w \in Writers : w \in Threads /\ w # t
  BY <1>1 DEF Writers, None
<1>9. call'[t] = c /\ reads'[t] = todo /\ writes'[t] = towrite
      /\ \A u \in Threads \ {t} :
           call'[u] = call[u] /\ reads'[u] = reads[u] /\ writes'[u] = writes[u]
  BY <1>0, <1>1 DEF PlaceInv, OpenFileTypes
<1>10. /\ \A w \in Writers : w \in Writers'
       /\ \A w \in (Writers') \ {t} : w \in Writers /\ w \in Threads /\ call'[w] = call[w]
       /\ t \in Writers' => kind = "write"
  BY <1>2, <1>8, <1>9 DEF Writers
<1>11. \A p \in 0..(FileLength - 1) : ByteOnDisk(p)' = ByteOnDisk(p) /\ last'[p] = last[p]
  BY <1>1 DEF ByteOnDisk, ByteToSector
<1>12. LastOK'
  <2> SUFFICES ASSUME NEW p \in 0..(FileLength - 1),
                      \A w \in Writers' : ~InRange(call'[w], p)
               PROVE  last'[p] = ByteOnDisk(p)[1]'
    BY DEF LastOK, InRange, First, Last
  <2>1. \A w \in Writers : ~InRange(call[w], p)
    BY <1>8, <1>9, <1>10
  <2> QED
    BY <1>0, <1>11, <2>1 DEF LastOK
<1>13. ASSUME NEW u \in Threads, u # t PROVE AloneOK(u)'
  <2>1. Alone(u)' => Alone(u) /\ ~(kind = "write" /\ Overlap(c, call[u]))
    <3>1. Idle(u)' <=> Idle(u)
      BY <1>9, <1>13 DEF Idle, None
    <3>2. shared'[u] <=> (shared[u] \/ (kind = "write" /\ ~Idle(u) /\ Overlap(c, call[u])))
      BY <1>3, <1>13, Zenon
    <3> QED
      BY <3>1, <3>2 DEF Alone
  <2>2. ASSUME Alone(u)', NEW w \in (Writers') \ {u}
        PROVE  ~Overlap(call[u], call'[w])
    <3>1. CASE w = t
      BY <1>9, <1>10, <2>1, <2>2, <3>1 DEF Overlap
    <3>2. CASE w # t
      BY <1>10, <2>1, <2>2, <3>2 DEF RefinementInv, AloneOK
    <3> QED
      BY <3>1, <3>2
  <2>3. call'[u] = call[u] /\ reads'[u] = reads[u] /\ writes'[u] = writes[u] /\ buf'[u] = buf[u]
    BY <1>1, <1>9, <1>13
  <2> QED
    BY <1>11, <2>1, <2>2, <2>3, AloneFrame DEF RefinementInv
<1>14. AloneOK(t)'
  <2> SUFFICES ASSUME Alone(t)'
               PROVE  /\ \A w \in (Writers') \ {t} : ~Overlap(c, call'[w])
                      /\ \A p \in 0..(FileLength - 1) : InRange(c, p) =>
                         IF kind = "write" /\ Covers(c, p)
                           THEN p \div SectorSize \in Range(towrite)
                           ELSE /\ ByteOnDisk(p)' = <<last'[p], p>>
                                /\ p \div SectorSize \in Range(todo)
    BY <1>2, <1>9 DEF AloneOK, Overlap, InRange, First, Last, Covers, Range
  <2>1. \A w \in Writers : ~Overlap(c, call[w])
    <3>1. shared'[t] <=> \E w \in Writers : Overlap(c, call[w])
      BY <1>3, Zenon
    <3> QED
      BY <3>1 DEF Alone
  <2>2. \A w \in (Writers') \ {t} : ~Overlap(c, call'[w])
    BY <1>10, <2>1
  <2>3. ASSUME NEW p \in 0..(FileLength - 1), InRange(c, p)
        PROVE  IF kind = "write" /\ Covers(c, p)
                 THEN p \div SectorSize \in Range(towrite)
                 ELSE /\ ByteOnDisk(p)' = <<last'[p], p>>
                      /\ p \div SectorSize \in Range(todo)
    <3>1. p \in Nat
      BY OpenFileAssumption
    <3>2. ASSUME NEW w \in Writers PROVE ~InRange(call[w], p)
      BY <1>0, <1>5, <2>1, <2>3, <3>1, WriterRuns, CommonPosition
    <3>3. last[p] = ByteOnDisk(p)[1]
      BY <1>0, <3>2 DEF LastOK
    <3>4. ByteOnDisk(p)' = <<last'[p], p>>
      BY <1>0, <1>11, <3>3 DEF PlaceInv, DiskOK, AtPlace
    <3>5. p \div SectorSize \in First(c)..Last(c)
      <4> DEFINE i == p \div SectorSize
      <4>1. i \in Nat /\ First(c) <= i /\ i <= Last(c)
        BY <2>3, <3>1, SectorOf DEF InRange
      <4> HIDE DEF i
      <4>2. i \in First(c)..Last(c)
        BY <1>5, <4>1
      <4> QED
        BY <4>2 DEF i
    <3> QED
      BY <1>6, <1>7, <2>3, <3>1, <3>4, <3>5
  <2> QED
    BY <2>2, <2>3
<1> QED
  BY <1>12, <1>13, <1>14 DEF RefinementInv

LEMMA ReadSectorRefinement ==
    ASSUME RefinementInv, PlaceInv', NEW t \in Threads, ReadSector(t)
    PROVE  RefinementInv'
<1> DEFINE c == call[t]
           i == Head(reads[t])
           Fetched(p) == p \in InSector(i) /\ (c.kind = "write" => p < FileLength)
           filled == [p \in DOMAIN buf[t] |-> IF Fetched(p) THEN ByteOnDisk(p) ELSE buf[t][p]]
<1>0. PlaceInv /\ LastOK
  BY DEF RefinementInv
<1>1. /\ reads[t] # <<>> /\ UNCHANGED <<disk, call, writes, shared, last>>
      /\ buf' = [buf EXCEPT ![t] = filled] /\ reads' = [reads EXCEPT ![t] = Tail(reads[t])]
  BY DEF ReadSector
<1>2. c # None
  BY <1>0, <1>1 DEF PlaceInv, CallOK
<1>3. \A p \in Nat : p \in DOMAIN buf[t] <=> InRange(c, p)
  BY <1>0, <1>2, Running
<1>4. reads[t] \in Seq(Nat)
  BY <1>0 DEF PlaceInv, OpenFileTypes
<1>5. i \in Nat /\ Range(reads[t]) = {i} \cup Range(Tail(reads[t]))
  BY <1>1, <1>4, HeadAndTail
<1>6. /\ reads'[t] = Tail(reads[t]) /\ buf'[t] = filled
      /\ \A u \in Threads \ {t} : reads'[u] = reads[u] /\ buf'[u] = buf[u]
  BY <1>0, <1>1 DEF PlaceInv, OpenFileTypes
<1>7. \A p \in 0..(FileLength - 1) : ByteOnDisk(p)' = ByteOnDisk(p) /\ last'[p] = last[p]
  BY <1>1 DEF ByteOnDisk, ByteToSector
<1>8. LastOK'
  BY <1>0, <1>1 DEF LastOK, Writers, InRange, First, Last, ByteOnDisk, ByteToSector
<1>9. ASSUME NEW u \in Threads
      PROVE  /\ Alone(u)' <=> Alone(u) 
             /\ Alone(u)' => \A w \in (Writers') \ {u} : ~Overlap(call[u], call'[w])
  BY <1>1, StillAlone
<1>10. ASSUME NEW u \in Threads, u # t PROVE AloneOK(u)'
  <2>1. call'[u] = call[u] /\ reads'[u] = reads[u] /\ writes'[u] = writes[u] /\ buf'[u] = buf[u]
    BY <1>1, <1>6, <1>10
  <2> QED
    BY <1>7, <1>9, <2>1, AloneFrame DEF RefinementInv
<1>11. AloneOK(t)'
  <2> SUFFICES ASSUME Alone(t)', NEW p \in 0..(FileLength - 1), InRange(c, p)
               PROVE  IF c.kind = "write" /\ Covers(c, p)
                           THEN p \div SectorSize \notin Range(writes[t])
                                  => ByteOnDisk(p) = <<c.value, p>>
                           ELSE /\ ByteOnDisk(p) = <<last[p], p>>
                                /\ p \div SectorSize \notin Range(Tail(reads[t]))
                                     => filled[p] = <<last[p], p>>
    <3> HIDE DEF filled
    <3>1. call'[t] = c /\ writes'[t] = writes[t]
      BY <1>1
    <3> QED
      BY <1>6, <1>7, <1>9, <3>1 DEF AloneOK, Overlap, InRange, First, Last, Covers, Range
  <2>1. p \in Nat /\ p < FileLength
    BY OpenFileAssumption
  <2>2. IF c.kind = "write" /\ Covers(c, p)
          THEN p \div SectorSize \notin Range(writes[t]) => ByteOnDisk(p) = <<c.value, p>>
          ELSE /\ ByteOnDisk(p) = <<last[p], p>>
               /\ p \div SectorSize \notin Range(reads[t]) => buf[t][p] = <<last[p], p>>
    BY <1>9 DEF RefinementInv, AloneOK
  <2>3. p \in DOMAIN buf[t]
    BY <1>3, <2>1
  <2>4. CASE p \div SectorSize = i
    <3>1. Fetched(p)
      BY <1>5, <2>1, <2>4, InSectorIs
    <3>2. filled[p] = ByteOnDisk(p)
      BY <2>3, <3>1
    <3> HIDE DEF filled
    <3> QED
      BY <2>2, <3>2
  <2>5. CASE p \div SectorSize # i
    <3>1. ~Fetched(p)
      BY <1>5, <2>1, <2>5, InSectorIs
    <3>2. filled[p] = buf[t][p]
      BY <2>3, <3>1
    <3> HIDE DEF filled
    <3> QED
      BY <1>5, <2>2, <2>5, <3>2
  <2> QED
    BY <2>4, <2>5
<1> QED
  BY <1>8, <1>10, <1>11 DEF RefinementInv

LEMMA WriteSectorRefinement ==
    ASSUME RefinementInv, PlaceInv', NEW t \in Threads, WriteSector(t)
    PROVE  RefinementInv'
<1> DEFINE c == call[t]
           i == Head(writes[t])
<1>0. PlaceInv /\ LastOK
  BY DEF RefinementInv
<1>1. /\ reads[t] = <<>> /\ UNCHANGED <<call, reads, buf, shared, last>>
      /\ writes' = [writes EXCEPT ![t] = Tail(writes[t])]
  BY DEF WriteSector
<1>2. /\ c # None /\ c.kind = "write" /\ i \in First(c)..Last(c)
      /\ Range(writes[t]) = {i} \cup Range(Tail(writes[t]))
      /\ \A p \in 0..(FileLength - 1) :
           ByteOnDisk(p)' = IF p \div SectorSize = i THEN Merged(t, p) ELSE ByteOnDisk(p)
  BY <1>0, SectorWritten
<1>3. First(c) \in Nat /\ Last(c) \in Nat /\ t \in Writers
  BY <1>0, <1>2, Running DEF Writers
<1> HIDE DEF i
<1>4. ASSUME NEW p \in Nat, p \div SectorSize = i PROVE InRange(c, p)
  <2>1. First(c) <= i /\ i <= Last(c)
    BY <1>2, <1>3
  <2> QED
    BY <1>4, <2>1 DEF InRange
<1>5. /\ writes'[t] = Tail(writes[t])
      /\ \A u \in Threads \ {t} : writes'[u] = writes[u]
  BY <1>0, <1>1 DEF PlaceInv, OpenFileTypes
<1>6. \A p \in 0..(FileLength - 1) : p \in Nat
  BY OpenFileAssumption
<1>7. LastOK'
  <2> SUFFICES ASSUME NEW p \in 0..(FileLength - 1), \A w \in Writers : ~InRange(call[w], p)
               PROVE  last[p] = ByteOnDisk(p)'[1]
    BY <1>1 DEF LastOK, InRange, First, Last, Writers
  <2>1. p \div SectorSize # i
    BY <1>3, <1>4, <1>6
  <2> QED
    BY <1>0, <1>2, <2>1 DEF LastOK
<1>8. ASSUME NEW u \in Threads
      PROVE  /\ Alone(u)' <=> Alone(u)
             /\ Alone(u)' => \A w \in (Writers') \ {u} : ~Overlap(call[u], call'[w])
  BY <1>1, StillAlone
<1>9. ASSUME NEW u \in Threads, u # t PROVE AloneOK(u)'
  <2>1. call'[u] = call[u] /\ reads'[u] = reads[u] /\ writes'[u] = writes[u] /\ buf'[u] = buf[u]
    BY <1>1, <1>5, <1>9
  <2>2. ASSUME Alone(u)', NEW p \in 0..(FileLength - 1), InRange(call[u], p)
        PROVE  ByteOnDisk(p)' = ByteOnDisk(p) /\ last'[p] = last[p]
    <3>1. ~Overlap(call[u], c)
      BY <1>3, <1>8, <1>9, <2>2 DEF RefinementInv, AloneOK
    <3>2. call[u] # None
      BY <1>8, <2>2 DEF Alone, Idle
    <3>3. First(call[u]) \in Nat /\ Last(call[u]) \in Nat
      BY <1>0, <3>2, Running
    <3>4. ~InRange(c, p)
      BY <1>3, <1>6, <2>2, <3>1, <3>3, CommonPosition
    <3>5. p \div SectorSize # i
      BY <1>4, <1>6, <3>4
    <3> QED
      BY <1>1, <1>2, <3>5
  <2> QED
    BY <1>8, <2>1, <2>2, AloneFrame DEF RefinementInv
<1>10. AloneOK(t)'
  <2> SUFFICES ASSUME Alone(t)', NEW p \in 0..(FileLength - 1), InRange(c, p)
               PROVE  IF Covers(c, p)
                        THEN p \div SectorSize \notin Range(Tail(writes[t]))
                               => ByteOnDisk(p)' = <<c.value, p>>
                        ELSE /\ ByteOnDisk(p)' = <<last[p], p>>
                             /\ p \div SectorSize \notin Range(reads[t])
                                  => buf[t][p] = <<last[p], p>>
    <3>1. /\ call'[t] = c /\ c.kind = "write" /\ reads'[t] = reads[t] /\ buf'[t] = buf[t]
          /\ \A p \in 0..(FileLength - 1) : last'[p] = last[p]
      BY <1>1, <1>2
    <3>2. writes'[t] = Tail(writes[t])
      BY <1>5
    <3> QED
      BY <1>8, <3>1, <3>2 DEF AloneOK, Overlap, InRange, First, Last, Covers, Range
  <2>1. IF Covers(c, p)
          THEN p \div SectorSize \notin Range(writes[t]) => ByteOnDisk(p) = <<c.value, p>>
          ELSE /\ ByteOnDisk(p) = <<last[p], p>>
               /\ p \div SectorSize \notin Range(reads[t]) => buf[t][p] = <<last[p], p>>
    BY <1>2, <1>8 DEF RefinementInv, AloneOK
  <2>2. Range(reads[t]) = {}
    BY <1>1, EmptySequence
  <2>3. Merged(t, p) = IF Covers(c, p) THEN <<c.value, p>> ELSE buf[t][p]
    BY DEF Merged, Covers
  <2> QED
    BY <1>2, <2>1, <2>2, <2>3
<1> QED
  BY <1>7, <1>9, <1>10 DEF RefinementInv

LEMMA ReturnRefinement ==
    ASSUME RefinementInv, PlaceInv', NEW t \in Threads, Return(t)
    PROVE  RefinementInv'
<1>0. PlaceInv /\ LastOK
  BY DEF RefinementInv
<1>1. /\ UNCHANGED <<disk, reads, writes>>
      /\ buf' = [buf EXCEPT ![t] = <<>>] /\ call' = [call EXCEPT ![t] = None]
      /\ shared' = [shared EXCEPT ![t] = FALSE]
      /\ last' = [p \in DOMAIN last |->
                    IF \E w \in Writers \ {t} : InRange(call[w], p) THEN last[p]
                    ELSE ByteOnDisk(p)[1]]
  BY DEF Return
<1>2. /\ call'[t] = None
      /\ \A u \in Threads \ {t} : call'[u] = call[u] /\ buf'[u] = buf[u]
      /\ \A u \in Threads \ {t} : shared'[u] = shared[u]
  BY <1>0, <1>1 DEF PlaceInv, OpenFileTypes
<1>3. Writers' = Writers \ {t}
  BY <1>2 DEF Writers, None
<1>4. \A w \in Writers \ {t} : call'[w] = call[w]
  BY <1>2 DEF Writers
<1>5. ASSUME NEW p \in 0..(FileLength - 1)
      PROVE  /\ ByteOnDisk(p)' = ByteOnDisk(p)
             /\ last'[p] = IF \E w \in Writers \ {t} : InRange(call[w], p) THEN last[p]
                           ELSE ByteOnDisk(p)[1]
  BY <1>0, <1>1 DEF ByteOnDisk, ByteToSector, PlaceInv, OpenFileTypes
<1>6. LastOK'
  <2> SUFFICES ASSUME NEW p \in 0..(FileLength - 1), \A w \in Writers' : ~InRange(call'[w], p)
               PROVE  last'[p] = ByteOnDisk(p)'[1]
    BY DEF LastOK, InRange, First, Last
  <2> QED
    BY <1>3, <1>4, <1>5
<1>7. AloneOK(t)'
  <2>1. ~Alone(t)'
    BY <1>2 DEF Alone, Idle, None
  <2> QED
    BY <2>1 DEF AloneOK
<1>8. ASSUME NEW u \in Threads, u # t PROVE AloneOK(u)'
  <2>1. call'[u] = call[u] /\ reads'[u] = reads[u] /\ writes'[u] = writes[u] /\ buf'[u] = buf[u]
    BY <1>1, <1>2, <1>8
  <2>2. Alone(u)' => Alone(u)
    BY <1>2, <1>8 DEF Alone, Idle, None
  <2>3. Alone(u)' => \A w \in (Writers') \ {u} : ~Overlap(call[u], call'[w])
    BY <1>3, <1>4, <2>2 DEF RefinementInv, AloneOK
  <2>4. ASSUME Alone(u)', NEW p \in 0..(FileLength - 1), InRange(call[u], p)
        PROVE  ByteOnDisk(p)' = ByteOnDisk(p) /\ last'[p] = last[p]
    <3>1. CASE u \in Writers
      BY <1>5, <1>8, <2>4, <3>1
    <3>2. CASE u \notin Writers
      <4>1. call[u].kind # "write"
        BY <3>2 DEF Writers
      <4>2. ByteOnDisk(p) = <<last[p], p>>
        BY <2>2, <2>4, <4>1 DEF RefinementInv, AloneOK
      <4> QED
        BY <1>5, <4>2
    <3> QED
      BY <3>1, <3>2
  <2> QED
    BY <2>1, <2>2, <2>3, <2>4, AloneFrame DEF RefinementInv
<1> QED
  BY <1>6, <1>7, <1>8 DEF RefinementInv

LEMMA RefinementStep == RefinementInv /\ [Next]_ovars => RefinementInv'
<1> SUFFICES ASSUME RefinementInv, [Next]_ovars PROVE RefinementInv'
  OBVIOUS
<1>1. PlaceInv'
  BY PlaceStep DEF RefinementInv
<1>2. CASE UNCHANGED ovars
  BY <1>1, <1>2, QuietRefinement DEF ovars
<1>3. CASE Next
  <2>1. PICK t \in Threads :
             \/ t \in Movers /\ \E p \in Positions : Seek(t, p)
             \/ \E n \in Lengths, pos \in Positions :
                  /\ t \in Movers => pos = seekPosition[t]
                  /\ \/ CallEmpty(t, n, pos)
                     \/ Call(t, "read", n, pos, 0)
                     \/ \E v \in Values : Call(t, "write", n, pos, v)
             \/ ReadSector(t) \/ WriteSector(t) \/ Return(t)
    BY <1>3, OpenFileSteps
  <2>2. ASSUME NEW n \in Lengths, NEW pos \in Positions, Call(t, "read", n, pos, 0)
        PROVE  RefinementInv'
    BY <1>1, <2>2, StartRefinement
  <2>3. ASSUME NEW n \in Lengths, NEW pos \in Positions,
               NEW v \in Values, Call(t, "write", n, pos, v)
        PROVE  RefinementInv'
    BY <1>1, <2>3, StartRefinement
  <2>4. ASSUME NEW p, Seek(t, p) PROVE RefinementInv'
    BY <1>1, <2>4, QuietRefinement DEF Seek
  <2>5. ASSUME NEW n, NEW pos, CallEmpty(t, n, pos) PROVE RefinementInv'
    BY <1>1, <2>5, QuietRefinement DEF CallEmpty
  <2> QED
    BY <1>1, <2>1, <2>2, <2>3, <2>4, <2>5, ReadSectorRefinement, WriteSectorRefinement,
       ReturnRefinement
<1> QED
  BY <1>2, <1>3

(* The abstract view of a result that holds no bytes. *)
LEMMA NothingRead ==
    ASSUME NEW r, r.data = <<>>
    PROVE  [k \in DOMAIN r.data |-> r.data[k][1]] = <<>>
  OBVIOUS

(* A call that no write shared a sector with returns in one step of the    *)
(* abstract file.                                                          *)
LEMMA AloneReturn ==
    ASSUME RefinementInv, NEW t \in Threads, Return(t), ~shared[t]
    PROVE  Abstract!ANext
<1> DEFINE c == call[t]
<1>0. PlaceInv /\ LastOK
  BY DEF RefinementInv
<1>1. /\ c # None /\ reads[t] = <<>> /\ writes[t] = <<>>
      /\ seekPosition' = IF t \in Movers THEN [seekPosition EXCEPT ![t] = @ + c.n]
                                         ELSE seekPosition
      /\ result' = [count |-> c.n,
                    data |-> IF c.kind = "write" THEN <<>>
                             ELSE [k \in 1..c.n |-> buf[t][c.pos + k - 1]]]
      /\ last' = [p \in DOMAIN last |->
                    IF \E w \in Writers \ {t} : InRange(call[w], p) THEN last[p]
                    ELSE ByteOnDisk(p)[1]]
  BY DEF Return, Idle
<1>2. /\ Runs(t) /\ c.kind \in {"read", "write"}
      /\ c.pos \in Nat /\ c.n \in Nat /\ c.n > 0 /\ c.pos + c.n <= FileLength
      /\ \A p : Covers(c, p) => p \in 0..(FileLength - 1) /\ InRange(c, p)
  BY <1>0, <1>1, Running
<1>3. PICK n \in Lengths : n > 0 /\ c.n = Clipped(n, c.pos)
  BY <1>2 DEF Runs
<1>4. c.pos \in Positions /\ c.pos < FileLength /\ (t \in Movers => c.pos = seekPosition[t])
      /\ n \in Int /\ FileLength \in Nat
  BY <1>2, OpenFileAssumption DEF Runs
<1>5. Abstract!Count(c.pos, n) = c.n
  BY <1>2, <1>3, <1>4 DEF Abstract!Count, Clipped
<1>6. Abstract!AMove(t, c.pos, n)
  BY <1>1, <1>4, <1>5 DEF Abstract!AMove
<1>7. last \in [0..(FileLength - 1) -> Values \cup {0}]
  BY <1>0 DEF PlaceInv, OpenFileTypes
<1>8. Range(reads[t]) = {} /\ Range(writes[t]) = {}
  BY <1>1, EmptySequence
<1>9. Alone(t)
  BY <1>1 DEF Alone, Idle
<1>10. /\ \A w \in Writers \ {t} : ~Overlap(c, call[w])
       /\ \A p \in 0..(FileLength - 1) : InRange(c, p) =>
             IF c.kind = "write" /\ Covers(c, p)
               THEN ByteOnDisk(p) = <<c.value, p>>
               ELSE ByteOnDisk(p) = <<last[p], p>> /\ buf[t][p] = <<last[p], p>>
  BY <1>8, <1>9 DEF RefinementInv, AloneOK
<1>11. CASE c.kind = "read"
  <2>1. last' = last
    <3>1. ASSUME NEW p \in 0..(FileLength - 1), \A w \in Writers \ {t} : ~InRange(call[w], p)
          PROVE  ByteOnDisk(p)[1] = last[p]
      <4>1. \A w \in Writers : ~InRange(call[w], p)
        BY <1>11, <3>1 DEF Writers
      <4> QED
        BY <1>0, <4>1 DEF LastOK
    <3> QED
      BY <1>1, <1>7, <3>1
  <2>2. result'.count = c.n /\ result'.data = [k \in 1..c.n |-> buf[t][c.pos + k - 1]]
    BY <1>1, <1>11
  <2>3. ASSUME NEW k \in 1..c.n PROVE buf[t][c.pos + k - 1][1] = last[c.pos + k - 1]
    <3>1. Covers(c, c.pos + k - 1)
      BY <1>2 DEF Covers
    <3> QED
      BY <1>2, <1>10, <1>11, <3>1
  <2>4. [k \in DOMAIN result'.data |-> result'.data[k][1]] = [k \in 1..c.n |-> last[c.pos + k - 1]]
    <3>1. DOMAIN result'.data = 1..c.n
      BY <2>2
    <3>2. ASSUME NEW k \in 1..c.n PROVE result'.data[k][1] = last[c.pos + k - 1]
      BY <2>2, <2>3
    <3> QED
      BY <3>1, <3>2
  <2>5. Abstract!ARead(t, c.pos, n)
    BY <1>5, <1>6, <2>1, <2>2, <2>4 DEF Abstract!ARead
  <2> QED
    BY <1>3, <1>4, <2>5 DEF Abstract!ANext
<1>12. CASE c.kind = "write"
  <2>1. c.value \in Values
    BY <1>2, <1>12 DEF Runs
  <2>2. \A p \in 0..(FileLength - 1) : p \in Abstract!InFile(c.pos, n) <=> Covers(c, p)
    BY <1>2, <1>3, <1>4 DEF Abstract!InFile, Covers, Clipped
  <2>3. ASSUME NEW p \in 0..(FileLength - 1)
        PROVE  last'[p] = IF Covers(c, p) THEN c.value ELSE last[p]
    <3>1. last'[p] = IF \E w \in Writers \ {t} : InRange(call[w], p) THEN last[p]
                     ELSE ByteOnDisk(p)[1]
      BY <1>1, <1>7
    <3>2. CASE InRange(c, p)
      <4>1. ASSUME NEW w \in Writers \ {t} PROVE ~InRange(call[w], p)
        BY <1>0, <1>1, <1>10, <3>2, Running, WriterRuns, CommonPosition, OnDisk
      <4> QED
        BY <1>10, <1>12, <3>1, <3>2, <4>1
    <3>3. CASE ~InRange(c, p)
      <4>1. ~Covers(c, p)
        BY <1>2, <3>3
      <4>2. ASSUME \A w \in Writers \ {t} : ~InRange(call[w], p)
            PROVE  ByteOnDisk(p)[1] = last[p]
        BY <1>0, <3>3, <4>2 DEF LastOK
      <4> QED
        BY <3>1, <4>1, <4>2
    <3> QED
      BY <3>2, <3>3
  <2>4. last' = [p \in DOMAIN last |-> IF p \in Abstract!InFile(c.pos, n) THEN c.value ELSE last[p]]
    <3>1. DOMAIN last = 0..(FileLength - 1) /\ last' = [p \in 0..(FileLength - 1) |-> last'[p]]
      BY <1>1, <1>7
    <3> QED
      BY <2>2, <2>3, <3>1
  <2>5. result'.count = c.n /\ result'.data = <<>>
    BY <1>1, <1>12
  <2>6. [k \in DOMAIN result'.data |-> result'.data[k][1]] = <<>>
    BY <2>5, NothingRead
  <2>7. PICK pos \in Positions, v \in Values : pos = c.pos /\ v = c.value
    BY <1>4, <2>1
  <2>8. Abstract!AWrite(t, pos, n, v)
    BY <1>5, <1>6, <2>4, <2>5, <2>6, <2>7 DEF Abstract!AWrite
  <2> QED
    BY <2>7, <2>8, Zenon DEF Abstract!ANext
<1> QED
  BY <1>2, <1>11, <1>12

LEMMA AbstractFileStep ==
    RefinementInv /\ [Next]_ovars => [SharedReturn \/ Abstract!ANext]_(Abstract!avars)
<1> SUFFICES ASSUME RefinementInv, [Next]_ovars
             PROVE  SharedReturn \/ Abstract!ANext \/ UNCHANGED Abstract!avars
  OBVIOUS
<1>0. seekPosition \in [Threads -> Nat] /\ call \in [Threads -> Calls]
  BY DEF RefinementInv, PlaceInv, OpenFileTypes
<1>1. ASSUME UNCHANGED <<last, seekPosition, result>> PROVE UNCHANGED Abstract!avars
  BY <1>1 DEF Abstract!avars
<1>2. CASE UNCHANGED ovars
  BY <1>1, <1>2 DEF ovars
<1>3. CASE Next
  <2>1. PICK t \in Threads :
             \/ t \in Movers /\ \E p \in Positions : Seek(t, p)
             \/ \E n \in Lengths, pos \in Positions :
                  /\ t \in Movers => pos = seekPosition[t]
                  /\ \/ CallEmpty(t, n, pos)
                     \/ Call(t, "read", n, pos, 0)
                     \/ \E v \in Values : Call(t, "write", n, pos, v)
             \/ ReadSector(t) \/ WriteSector(t) \/ Return(t)
    BY <1>3, OpenFileSteps
  <2>2. ASSUME t \in Movers, NEW p \in Positions, Seek(t, p) PROVE Abstract!ANext
    <3>1. Abstract!ASeek(t, p)
      BY <2>2 DEF Seek, Abstract!ASeek
    <3> QED
      BY <2>2, <3>1 DEF Abstract!ANext
  <2>3. ASSUME NEW n \in Lengths, NEW pos \in Positions, t \in Movers => pos = seekPosition[t],
               CallEmpty(t, n, pos)
        PROVE  Abstract!ANext
    <3>1. /\ n <= 0 \/ pos >= FileLength
          /\ result' = [count |-> 0, data |-> <<>>] /\ UNCHANGED <<seekPosition, last>>
      BY <2>3 DEF CallEmpty
    <3>2. Abstract!Count(pos, n) = 0
      BY <3>1 DEF Abstract!Count
    <3>3. Abstract!AMove(t, pos, n)
      BY <1>0, <2>3, <3>1, <3>2 DEF Abstract!AMove
    <3>4. result'.count = 0 /\ result'.data = <<>>
      BY <3>1
    <3>5. [k \in DOMAIN result'.data |-> result'.data[k][1]] = <<>>
      BY <3>4, NothingRead
    <3>6. [k \in 1..0 |-> last[pos + k - 1]] = <<>>
      OBVIOUS
    <3>7. Abstract!ARead(t, pos, n)
      BY <3>1, <3>2, <3>3, <3>4, <3>5, <3>6 DEF Abstract!ARead
    <3> QED
      BY <2>3, <3>7 DEF Abstract!ANext
  <2>4. ASSUME NEW kind, NEW n, NEW pos, NEW v, Call(t, kind, n, pos, v)
        PROVE  UNCHANGED Abstract!avars
    BY <1>1, <2>4 DEF Call
  <2>5. CASE ReadSector(t)
    BY <1>1, <2>5 DEF ReadSector
  <2>6. CASE WriteSector(t)
    BY <1>1, <2>6 DEF WriteSector
  <2>7. CASE Return(t) /\ shared[t]
    <3>1. ~Idle(t) /\ call'[t] = None
      BY <1>0, <2>7 DEF Return
    <3> QED
      BY <2>7, <3>1 DEF SharedReturn
  <2>8. CASE Return(t) /\ ~shared[t]
    BY <2>8, AloneReturn
  <2> QED
    BY <2>1, <2>2, <2>3, <2>4, <2>5, <2>6, <2>7, <2>8
<1> QED
  BY <1>2, <1>3

(* openfile.h, openfile.cc: a call that no write to one of its sectors ran *)
(* together with acts on the file in one step, for any number of threads   *)
(* and files of any length.                                                *)
THEOREM FileRefinement == Spec => ImplementsFile
<1>1. Init => Abstract!AInit
  <2> SUFFICES ASSUME Init PROVE Abstract!AInit
    OBVIOUS
  <2>1. result.count = 0 /\ result.data = <<>>
    BY DEF Init
  <2>2. [k \in DOMAIN result.data |-> result.data[k][1]] = <<>>
    BY <2>1, NothingRead
  <2> QED
    BY <2>1, <2>2 DEF Init, Abstract!AInit
<1> QED
  BY <1>1, InitRefinement, RefinementStep, AbstractFileStep, PTL DEF Spec, ImplementsFile

=============================================================================
