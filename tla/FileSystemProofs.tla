-------------------------- MODULE FileSystemProofs --------------------------
(***************************************************************************)
(* Proofs about FileSystem, for any disk, directory, names and sizes.      *)
(***************************************************************************)
EXTENDS FileSystem, FiniteSetTheorems, NaturalsInduction, TLAPS

(***************************************************************************)
(* The bitmap.                                                             *)
(***************************************************************************)

LEMMA LeastNumber ==
    ASSUME NEW T \in SUBSET Nat, T # {}
    PROVE  \E x \in T : \A y \in T : x <= y
<1> DEFINE R == OpToRel(<, Nat)
<1>0. IsWellFoundedOn(R, Nat)
  BY NatLessThanWellFounded
<1>1. \A x, y \in Nat : <<x, y>> \in R <=> x < y
  BY DEF OpToRel
<1> HIDE DEF R
<1>2. PICK x \in T : \A y \in T : ~ (<<y, x>> \in R)
  BY <1>0, WFMin
<1>3. \A y \in T : x \in Nat /\ y \in Nat /\ ~(y < x)
  BY <1>1, <1>2
<1> QED
  BY <1>2, <1>3

(* The clear bits below s. *)
Below(C, s) == {r \in C : r < s}

LEMMA ClearIsFinite ==
    ASSUME NEW m
    PROVE  IsFiniteSet(Clear(m)) /\ Cardinality(Clear(m)) \in Nat
<1>1. 0 \in Int /\ NumSectors - 1 \in Int
  BY FileSystemAssumption
<1>2. IsFiniteSet(0..(NumSectors - 1))
  BY <1>1, FS_Interval
<1>3. Clear(m) \in SUBSET (0..(NumSectors - 1))
  BY DEF Clear, Sectors
<1> QED
  BY <1>2, <1>3, FS_Subset, FS_CardinalityType

(* Every clear bit but the highest has a next one: the least bound with    *)
(* more than k clear bits below it is one past the bit of rank k.          *)
LEMMA BitOfRank ==
    ASSUME NEW m, NEW k \in Nat, k < Cardinality(Clear(m))
    PROVE  \E s \in Clear(m) : Cardinality(Below(Clear(m), s)) = k
<1> DEFINE C == Clear(m)
           T == {x \in Nat : Cardinality(Below(C, x)) > k}
<1>1. C \subseteq Nat /\ \A s \in C : s < NumSectors
  BY FileSystemAssumption DEF Clear, Sectors
<1>2. NumSectors \in T
  <2>1. Below(C, NumSectors) = C
    BY <1>1 DEF Below
  <2> QED
    BY <2>1, FileSystemAssumption
<1>3. \A x : IsFiniteSet(Below(C, x)) /\ Cardinality(Below(C, x)) \in Nat
  <2>1. ASSUME NEW x PROVE Below(C, x) \in SUBSET C
    BY DEF Below
  <2> QED
    BY <2>1, ClearIsFinite, FS_Subset, FS_CardinalityType
<1>4. PICK x \in T : \A y \in T : x <= y
  <2>1. T \in SUBSET Nat
    OBVIOUS
  <2> QED
    BY <1>2, <2>1, LeastNumber
<1>5. x # 0
  <2>1. Below(C, 0) = {}
    BY <1>1 DEF Below
  <2>2. Cardinality(Below(C, 0)) = 0
    BY <2>1, FS_EmptySet
  <2> QED
    BY <1>4, <2>2
<1>6. x - 1 \in Nat /\ x \in Nat /\ ~(Cardinality(Below(C, x - 1)) > k)
  BY <1>4, <1>5
<1>7. CASE x - 1 \in C
  <2>1. Below(C, x) = Below(C, x - 1) \cup {x - 1} /\ x - 1 \notin Below(C, x - 1)
    BY <1>1, <1>6, <1>7 DEF Below
  <2>2. Cardinality(Below(C, x)) = Cardinality(Below(C, x - 1)) + 1
    BY <1>3, <2>1, FS_AddElement
  <2>3. Cardinality(Below(C, x - 1)) = k
    BY <1>3, <1>4, <1>6, <2>2
  <2> QED
    BY <1>7, <2>3
<1>8. CASE x - 1 \notin C
  <2>1. Below(C, x) = Below(C, x - 1)
    BY <1>1, <1>6, <1>8 DEF Below
  <2> QED
    BY <1>4, <1>6, <2>1
<1> QED
  BY <1>7, <1>8

(* BitMap::Find, n times, gives n different clear bits. *)
LEMMA BitsAreClear ==
    ASSUME NEW m, NEW n \in Nat, n <= Cardinality(Clear(m))
    PROVE  /\ FindBits(m, n) \in Seq(Sectors) /\ Len(FindBits(m, n)) = n
           /\ Range(FindBits(m, n)) \subseteq Clear(m)
           /\ \A i, j \in 1..n : FindBits(m, n)[i] = FindBits(m, n)[j] => i = j
<1> DEFINE f == FindBits(m, n)
<1>1. f = [i \in 1..n |-> CHOOSE s \in Clear(m) : Cardinality(Below(Clear(m), s)) = i - 1]
  BY DEF FindBits, Below
<1>2. ASSUME NEW i \in 1..n
      PROVE  f[i] \in Clear(m) /\ Cardinality(Below(Clear(m), f[i])) = i - 1
  <2>1. i - 1 \in Nat /\ i - 1 < Cardinality(Clear(m))
    BY ClearIsFinite
  <2>2. \E s \in Clear(m) : Cardinality(Below(Clear(m), s)) = i - 1
    BY <2>1, BitOfRank
  <2> QED
    BY <1>1, <2>2
<1>3. DOMAIN f = 1..n /\ f = [i \in 1..n |-> f[i]]
  BY <1>1
<1> HIDE DEF f
<1>4. \A i \in 1..n : f[i] \in Sectors
  BY <1>2 DEF Clear
<1>5. f \in Seq(Sectors) /\ Len(f) = n
  BY <1>3, <1>4
<1>6. Range(f) \subseteq Clear(m)
  BY <1>2, <1>3 DEF Range
<1>7. \A i, j \in 1..n : f[i] = f[j] => i = j
  <2>1. ASSUME NEW i \in 1..n, NEW j \in 1..n, f[i] = f[j] PROVE i = j
    <3>1. i - 1 = j - 1
      BY <1>2, <2>1
    <3> QED
      BY <3>1
  <2> QED
    BY <2>1
<1> QED
  BY <1>5, <1>6, <1>7 DEF f

LEMMA SizeInSectors ==
    ASSUME NEW size \in Nat
    PROVE  divRoundUp(size, SectorSize) \in Nat
<1>1. SectorSize \in Nat /\ SectorSize > 0
  BY FileSystemAssumption
<1> QED
  BY <1>1 DEF divRoundUp

-----------------------------------------------------------------------------
(***************************************************************************)
(* The directory.                                                          *)
(***************************************************************************)

Holds(d, i, n) == d[i].inUse /\ d[i].name = n

(* The file of entry i. *)
At(d, h, i) == [sector |-> d[i].sector, hdr |-> h[d[i].sector]]

LEMMA EntriesAreNat == Entries \subseteq Nat /\ -1 \notin Entries
BY FileSystemAssumption DEF Entries

(* Directory::FindIndex gives the lowest entry in use with the name. *)
LEMMA Found ==
    ASSUME NEW d, NEW n
    PROVE  \/ FindIndex(d, n) = -1 /\ \A i \in Entries : ~Holds(d, i, n)
           \/ /\ FindIndex(d, n) \in Entries /\ Holds(d, FindIndex(d, n), n)
              /\ \A j \in Entries : Holds(d, j, n) => FindIndex(d, n) <= j
<1> DEFINE found == {i \in Entries : Holds(d, i, n)}
<1>1. FindIndex(d, n) = IF found = {} THEN -1 ELSE CHOOSE i \in found : \A j \in found : i <= j
  BY DEF FindIndex, Holds
<1>2. CASE found = {}
  BY <1>1, <1>2
<1>3. CASE found # {}
  <2>1. found \in SUBSET Nat
    BY EntriesAreNat
  <2>2. \E i \in found : \A j \in found : i <= j
    BY <1>3, <2>1, LeastNumber
  <2>3. FindIndex(d, n) \in found /\ \A j \in found : FindIndex(d, n) <= j
    BY <1>1, <1>3, <2>2
  <2> QED
    BY <2>3
<1> QED
  BY <1>2, <1>3

LEMMA FindIndexIs ==
    ASSUME NEW d, NEW n, NEW i \in Entries, Holds(d, i, n),
           \A j \in Entries : Holds(d, j, n) => i <= j
    PROVE  FindIndex(d, n) = i
<1>1. FindIndex(d, n) \in Entries /\ FindIndex(d, n) <= i /\ i <= FindIndex(d, n)
  BY Found
<1>2. FindIndex(d, n) \in Nat /\ i \in Nat
  BY <1>1, EntriesAreNat
<1> QED
  BY <1>1, <1>2

LEMMA ViewAt ==
    ASSUME NEW d, NEW h, NEW n \in Names, NEW i \in Entries, Holds(d, i, n),
           \A j \in Entries : Holds(d, j, n) => i <= j
    PROVE  n \in DOMAIN View(d, h) /\ View(d, h)[n] = At(d, h, i)
<1>1. FindIndex(d, n) = i /\ i # -1
  BY FindIndexIs, EntriesAreNat
<1> QED
  BY <1>1 DEF View, At

LEMMA ViewHolds ==
    ASSUME NEW d, NEW h, NEW n \in DOMAIN View(d, h)
    PROVE  n \in Names /\ \E i \in Entries : Holds(d, i, n)
<1>1. n \in Names /\ FindIndex(d, n) # -1
  BY DEF View
<1> QED
  BY <1>1, Found

(* Directory::Add takes the lowest free entry. *)
LEMMA AddTakesFirst ==
    ASSUME NEW d, NEW n, NEW s, FreeEntries(d) # {}
    PROVE  \E k \in FreeEntries(d) :
             /\ \A j \in FreeEntries(d) : k <= j
             /\ Add(d, n, s) = [d EXCEPT ![k] = [inUse |-> TRUE, sector |-> s, name |-> n]]
<1> DEFINE k == CHOOSE e \in FreeEntries(d) : \A j \in FreeEntries(d) : e <= j
<1>1. FreeEntries(d) \in SUBSET Nat
  BY EntriesAreNat DEF FreeEntries
<1>2. k \in FreeEntries(d) /\ \A j \in FreeEntries(d) : k <= j
  BY <1>1, LeastNumber
<1>3. Add(d, n, s) = [d EXCEPT ![k] = [inUse |-> TRUE, sector |-> s, name |-> n]]
  BY DEF Add
<1> QED
  BY <1>2, <1>3

-----------------------------------------------------------------------------
(***************************************************************************)
(* Types.                                                                  *)
(***************************************************************************)

(* What is left of Create's writes, and of Remove's. *)
CreateTodo == {<<"header", "dir1", "dir2", "map">>, <<"dir1", "dir2", "map">>,
               <<"dir2", "map">>, <<"map">>}
RemoveTodo == {<<"map", "dir1", "dir2">>, <<"dir1", "dir2">>, <<"dir2">>}

FileTypes ==
    /\ TypeOK
    /\ todo \in {<<>>} \cup CreateTodo \cup RemoveTodo
    /\ op \in [name : Names \cup {NoName}, sector : Sectors]
    /\ open \in [name : Names \cup {NoName}, hdr : Header, live : BOOLEAN, after : SUBSET Names]

LEMMA BlankTypes ==
    /\ 0 \in Sectors /\ Metadata \subseteq Sectors
    /\ NoHeader \in Header /\ Data \in Header
    /\ Data.dataSectors = <<>> /\ Data.numBytes = 0 /\ ~Sound(Data) /\ Range(<<>>) = {}
    /\ NewDirectory \in [Entries -> Entry]
    /\ NoOperation \in [name : Names \cup {NoName}, sector : Sectors]
    /\ Closed \in [name : Names \cup {NoName}, hdr : Header, live : BOOLEAN, after : SUBSET Names]
<1>1. 0 \in Sectors /\ Metadata \subseteq Sectors
  BY FileSystemAssumption DEF Sectors, Metadata
<1>2. <<>> \in Seq(Sectors) /\ Len(<<>>) = 0
  OBVIOUS
<1>3. NoHeader \in Header
  BY <1>2 DEF NoHeader, Header
<1>4. Data = [numBytes |-> 0, numSectors |-> 1, dataSectors |-> <<>>]
  BY DEF Data, NoHeader
<1>5. Data \in Header /\ Data.dataSectors = <<>> /\ Data.numBytes = 0 /\ ~Sound(Data)
  BY <1>2, <1>4 DEF Header, Sound
<1>6. NewDirectory \in [Entries -> Entry]
  BY <1>1 DEF NewDirectory, Entry
<1>7. NoOperation \in [name : Names \cup {NoName}, sector : Sectors]
  BY <1>1 DEF NoOperation
<1>8. Closed \in [name : Names \cup {NoName}, hdr : Header, live : BOOLEAN, after : SUBSET Names]
  BY <1>3 DEF Closed
<1>9. Range(<<>>) = {}
  BY DEF Range
<1> QED
  BY <1>1, <1>3, <1>5, <1>6, <1>7, <1>8, <1>9

LEMMA InitTypes == Init => FileTypes
<1> SUFFICES ASSUME Init PROVE FileTypes
  OBVIOUS
<1>1. map \subseteq Sectors /\ newMap \subseteq Sectors
  BY BlankTypes DEF Init
<1>2. dir \in [Entries -> Entry] /\ newDir \in [Entries -> Entry]
  BY BlankTypes DEF Init
<1>3. headers \in [Sectors -> Header] /\ newHdr \in Header
  BY BlankTypes DEF Init
<1>4. DOMAIN files \subseteq Names
  BY DEF Init
<1>5. crashes \in 0..MaxCrashes /\ spoiled \subseteq Names
  BY FileSystemAssumption DEF Init
<1>9. dirty \in BOOLEAN
  BY Zenon DEF Init
<1>6. open \in [name : Names \cup {NoName}, hdr : Header, live : BOOLEAN, after : SUBSET Names]
  BY BlankTypes DEF Init
<1>7. op \in [name : Names \cup {NoName}, sector : Sectors] /\ todo = <<>>
  BY BlankTypes DEF Init
<1>8. open.name \in Names \cup {NoName} /\ open.hdr \in Header
  BY <1>6
<1> QED
  BY <1>1, <1>2, <1>3, <1>4, <1>5, <1>6, <1>7, <1>8, <1>9 DEF FileTypes, TypeOK

(* The files Create and Remove plan, in facts.  A sector for the header,   *)
(* other ones for the data, all of them clear.                             *)
LEMMA Allocated ==
    ASSUME NEW n \in Names, NEW size \in Sizes, CanCreate(n, size)
    PROVE  LET s == FindBits(map, 1)[1]
               h == Allocate(map \cup {s}, size)
           IN  /\ s \in Clear(map)
               /\ h \in Header /\ h.numBytes = size
               /\ Sound(h) /\ Len(h.dataSectors) = divRoundUp(size, SectorSize)
               /\ Range(h.dataSectors) \subseteq Clear(map) \ {s}
               /\ \A i, j \in 1..Len(h.dataSectors) :
                    h.dataSectors[i] = h.dataSectors[j] => i = j
<1> DEFINE s == FindBits(map, 1)[1]
           len == divRoundUp(size, SectorSize)
           bits == FindBits(map \cup {s}, len)
<1>1. size \in Nat /\ len \in Nat /\ Cardinality(Clear(map)) - 1 >= len
  BY FileSystemAssumption, SizeInSectors DEF CanCreate
<1>2. Cardinality(Clear(map)) \in Nat /\ IsFiniteSet(Clear(map))
  BY ClearIsFinite
<1> HIDE DEF len
<1>3. 1 \in Nat /\ 1 <= Cardinality(Clear(map))
  BY <1>1, <1>2
<1>4. Len(FindBits(map, 1)) = 1 /\ Range(FindBits(map, 1)) \subseteq Clear(map) /\ FindBits(map, 1) \in Seq(Sectors)
  BY <1>3, BitsAreClear
<1>5. s \in Clear(map)
  BY <1>4 DEF Range
<1> HIDE DEF s
<1>6. Clear(map \cup {s}) = Clear(map) \ {s}
  BY DEF Clear
<1>7. Cardinality(Clear(map \cup {s})) = Cardinality(Clear(map)) - 1
  BY <1>2, <1>5, <1>6, FS_RemoveElement
<1>8. len <= Cardinality(Clear(map \cup {s}))
  BY <1>1, <1>7
<1>9. /\ bits \in Seq(Sectors) /\ Len(bits) = len /\ Range(bits) \subseteq Clear(map \cup {s})
      /\ \A i, j \in 1..len : bits[i] = bits[j] => i = j
  BY <1>1, <1>8, BitsAreClear
<1>10. Allocate(map \cup {s}, size) = [numBytes |-> size, numSectors |-> len, dataSectors |-> bits]
  BY DEF Allocate, len
<1> HIDE DEF bits
<1> DEFINE h == Allocate(map \cup {s}, size)
<1>11. h.numBytes = size /\ h.numSectors = len /\ h.dataSectors = bits
  BY <1>10
<1>12. h \in Header
  BY <1>1, <1>9, <1>10 DEF Header
<1> HIDE DEF h
<1>13. /\ s \in Clear(map)
       /\ h \in Header /\ h.numBytes = size
       /\ Sound(h) /\ Len(h.dataSectors) = len
       /\ Range(h.dataSectors) \subseteq Clear(map) \ {s}
       /\ \A i, j \in 1..Len(h.dataSectors) : h.dataSectors[i] = h.dataSectors[j] => i = j
  BY <1>5, <1>6, <1>9, <1>11, <1>12 DEF Sound
<1> QED
  BY <1>13 DEF s, h, len

(* The new directory and bitmap of an operation. *)
LEMMA PlannedTypes ==
    ASSUME NEW d \in [Entries -> Entry], NEW n \in Names, NEW s \in Sectors
    PROVE  /\ FreeEntries(d) # {} => Add(d, n, s) \in [Entries -> Entry]
           /\ FindIndex(d, n) # -1 => RemoveEntry(d, n) \in [Entries -> Entry]
<1>1. ASSUME FreeEntries(d) # {} PROVE Add(d, n, s) \in [Entries -> Entry]
  <2>1. PICK k \in FreeEntries(d) :
          Add(d, n, s) = [d EXCEPT ![k] = [inUse |-> TRUE, sector |-> s, name |-> n]]
    BY <1>1, AddTakesFirst
  <2>2. [inUse |-> TRUE, sector |-> s, name |-> n] \in Entry
    BY DEF Entry
  <2> QED
    BY <2>1, <2>2
<1>2. ASSUME FindIndex(d, n) # -1 PROVE RemoveEntry(d, n) \in [Entries -> Entry]
  <2> DEFINE k == FindIndex(d, n)
  <2>1. k \in Entries
    BY <1>2, Found
  <2>2. RemoveEntry(d, n) = [d EXCEPT ![k] = [d[k] EXCEPT !.inUse = FALSE]]
    BY DEF RemoveEntry
  <2> HIDE DEF k
  <2>3. [d[k] EXCEPT !.inUse = FALSE] \in Entry
    BY <2>1 DEF Entry
  <2> QED
    BY <2>1, <2>2, <2>3
<1> QED
  BY <1>1, <1>2

LEMMA HalfTypes ==
    ASSUME NEW d \in [Entries -> Entry], NEW e \in [Entries -> Entry]
    PROVE  FirstHalf(d, e) \in [Entries -> Entry]
<1>1. ASSUME NEW i \in Entries PROVE [e[i] EXCEPT !.name = d[i].name] \in Entry
  BY DEF Entry
<1> QED
  BY <1>1 DEF FirstHalf

LEMMA OnDiskType ==
    ASSUME NEW h \in Header
    PROVE  /\ OnDisk(h) \in Header
           /\ Len(h.dataSectors) <= NumDirect => OnDisk(h) = h
<1> DEFINE ds == h.dataSectors
           len == IF Len(ds) < NumDirect THEN Len(ds) ELSE NumDirect
<1>1. /\ h.numBytes \in Nat /\ h.numSectors \in Nat /\ ds \in Seq(Sectors)
      /\ h = [numBytes |-> h.numBytes, numSectors |-> h.numSectors, dataSectors |-> ds]
  BY DEF Header
<1>2. Len(ds) \in Nat /\ NumDirect \in Nat
  BY <1>1, FileSystemAssumption
<1>3. OnDisk(h) = [h EXCEPT !.dataSectors = SubSeq(ds, 1, len)]
  BY DEF OnDisk
<1>4. len \in Nat /\ len <= Len(ds)
  BY <1>2
<1> HIDE DEF len, ds
<1>5. SubSeq(ds, 1, len) \in Seq(Sectors)
  BY <1>1, <1>2, <1>4
<1>6. ASSUME Len(ds) <= NumDirect PROVE OnDisk(h) = h
  <2>1. len = Len(ds)
    BY <1>2, <1>6 DEF len
  <2>2. SubSeq(ds, 1, len) = ds
    BY <1>1, <2>1
  <2> QED
    BY <1>1, <1>3, <2>2 DEF ds
<1>7. OnDisk(h) \in Header
  BY <1>3, <1>5 DEF Header
<1> QED
  BY <1>6, <1>7 DEF ds

LEMMA TodoIs ==
    /\ \A td \in CreateTodo \cup RemoveTodo :
         td # <<>> /\ Head(td) \in {"header", "dir1", "dir2", "map"}
         /\ Tail(td) \in {<<>>} \cup CreateTodo \cup RemoveTodo
    /\ CreateTodo \cap RemoveTodo = {}
BY DEF CreateTodo, RemoveTodo

LEMMA TailOfCreate ==
    ASSUME NEW td \in CreateTodo, td # <<"map">>
    PROVE  Tail(td) \in CreateTodo /\ Tail(td) # <<>> /\ Head(td) # "map"
<1>1. \/ td = <<"header", "dir1", "dir2", "map">>
      \/ td = <<"dir1", "dir2", "map">>
      \/ td = <<"dir2", "map">>
  BY DEF CreateTodo
<1>2. CASE td = <<"header", "dir1", "dir2", "map">>
  <2>1. Tail(td) = <<"dir1", "dir2", "map">> /\ Head(td) = "header"
    BY <1>2
  <2>2. <<"dir1", "dir2", "map">> # <<>> /\ <<"dir1", "dir2", "map">> \in CreateTodo
    BY DEF CreateTodo
  <2> QED
    BY <2>1, <2>2
<1>3. CASE td = <<"dir1", "dir2", "map">>
  <2>1. Tail(td) = <<"dir2", "map">> /\ Head(td) = "dir1"
    BY <1>3
  <2>2. <<"dir2", "map">> # <<>> /\ <<"dir2", "map">> \in CreateTodo
    BY DEF CreateTodo
  <2> QED
    BY <2>1, <2>2
<1>4. CASE td = <<"dir2", "map">>
  <2>1. Tail(td) = <<"map">> /\ Head(td) = "dir2"
    BY <1>4
  <2>2. <<"map">> # <<>> /\ <<"map">> \in CreateTodo
    BY DEF CreateTodo
  <2> QED
    BY <2>1, <2>2
<1> QED
  BY <1>1, <1>2, <1>3, <1>4

LEMMA TailOfRemove ==
    ASSUME NEW td \in RemoveTodo, td # <<"dir2">>
    PROVE  Tail(td) \in RemoveTodo /\ Tail(td) # <<>> /\ Head(td) \in {"map", "dir1"}
<1>1. td = <<"map", "dir1", "dir2">> \/ td = <<"dir1", "dir2">>
  BY DEF RemoveTodo
<1>2. CASE td = <<"map", "dir1", "dir2">>
  <2>1. Tail(td) = <<"dir1", "dir2">> /\ Head(td) = "map"
    BY <1>2
  <2>2. <<"dir1", "dir2">> # <<>> /\ <<"dir1", "dir2">> \in RemoveTodo
    BY DEF RemoveTodo
  <2> QED
    BY <2>1, <2>2
<1>3. CASE td = <<"dir1", "dir2">>
  <2>1. Tail(td) = <<"dir2">> /\ Head(td) = "dir1"
    BY <1>3
  <2>2. <<"dir2">> # <<>> /\ <<"dir2">> \in RemoveTodo
    BY DEF RemoveTodo
  <2> QED
    BY <2>1, <2>2
<1> QED
  BY <1>1, <1>2, <1>3

LEMMA TypesKept ==
    ASSUME FileTypes, [Next]_fvars
    PROVE  FileTypes'
<1> USE DEF FileTypes, TypeOK
<1>1. ASSUME NEW n \in Names, NEW size \in Sizes, Create(n, size) PROVE FileTypes'
  <2>1. /\ op'.sector \in Clear(map) /\ newHdr' \in Header
        /\ Range(newHdr'.dataSectors) \subseteq Clear(map)
        /\ op' = [name |-> n, sector |-> op'.sector]
        /\ newMap' = map \cup {op'.sector} \cup Range(newHdr'.dataSectors)
        /\ newDir' = Add(dir, n, op'.sector)
    BY <1>1, Allocated DEF Create
  <2>2. op'.sector \in Sectors /\ newMap' \subseteq Sectors
    BY <2>1 DEF Clear
  <2>3. op' \in [name : Names \cup {NoName}, sector : Sectors]
    BY <2>1, <2>2
  <2>4. newDir' \in [Entries -> Entry]
    BY <1>1, <2>1, <2>2, PlannedTypes DEF Create, CanCreate
  <2>5. open' \in [name : Names \cup {NoName}, hdr : Header, live : BOOLEAN, after : SUBSET Names]
    BY <1>1 DEF Create
  <2>6. open'.name \in Names \cup {NoName} /\ open'.hdr \in Header
    BY <2>5
  <2>7. todo' \in CreateTodo
    BY <1>1 DEF Create, CreateTodo
  <2>8. UNCHANGED <<map, dir, headers, files, crashes, dirty, spoiled>>
    BY <1>1 DEF Create, disk
  <2> QED
    BY <2>1, <2>2, <2>3, <2>4, <2>5, <2>6, <2>7, <2>8
<1>2. ASSUME NEW n \in Names, Remove(n) PROVE FileTypes'
  <2> DEFINE k == FindIndex(dir, n)
  <2>1. k \in Entries /\ k # -1
    BY <1>2, Found DEF Remove
  <2>2. dir[k].sector \in Sectors
    BY <2>1 DEF Entry
  <2>3. headers[dir[k].sector] \in Header
    BY <2>2
  <2>4. /\ op' = [name |-> n, sector |-> dir[k].sector] /\ newHdr' = headers[dir[k].sector]
        /\ newMap' = Deallocated(map, dir[k].sector, headers[dir[k].sector])
        /\ newDir' = RemoveEntry(dir, n)
    BY <1>2 DEF Remove
  <2>5. op' \in [name : Names \cup {NoName}, sector : Sectors] /\ newMap' \subseteq Sectors
    BY <2>2, <2>4 DEF Deallocated
  <2>6. newDir' \in [Entries -> Entry]
    BY <2>1, <2>2, <2>4, PlannedTypes
  <2> DEFINE live2 == open.live /\ open.name # n
             o == [open EXCEPT !.live = live2]
  <2>7. live2 \in BOOLEAN
    BY Zenon
  <2>8. o \in [name : Names \cup {NoName}, hdr : Header, live : BOOLEAN, after : SUBSET Names]
        /\ open' = [o EXCEPT !.after = open.after \ {n}]
    BY <1>2, <2>7 DEF Remove
  <2> HIDE DEF o
  <2>9. open' \in [name : Names \cup {NoName}, hdr : Header, live : BOOLEAN, after : SUBSET Names]
    BY <2>8
  <2>10. open'.name \in Names \cup {NoName} /\ open'.hdr \in Header
    BY <2>9
  <2>11. todo' \in RemoveTodo /\ spoiled' \subseteq Names
    BY <1>2 DEF Remove, RemoveTodo
  <2>12. UNCHANGED <<map, dir, headers, files, crashes, dirty>>
    BY <1>2 DEF Remove, disk
  <2> QED
    BY <2>3, <2>4, <2>5, <2>6, <2>9, <2>10, <2>11, <2>12
<1>3. CASE WriteSector
  <2>1. Head(todo) \in {"header", "dir1", "dir2", "map"}
        /\ todo' \in {<<>>} \cup CreateTodo \cup RemoveTodo
    BY <1>3, TodoIs DEF WriteSector
  <2>2. op.sector \in Sectors
    OBVIOUS
  <2>3. headers' \in [Sectors -> Header]
    BY <1>3, <2>2, OnDiskType DEF WriteSector
  <2>4. dir' \in [Entries -> Entry]
    BY <1>3, HalfTypes DEF WriteSector
  <2>5. map' \subseteq Sectors
    BY <1>3 DEF WriteSector
  <2>6. DOMAIN files' \subseteq Names
    BY <1>3 DEF WriteSector, View
  <2>7. /\ newMap' \subseteq Sectors /\ newDir' \in [Entries -> Entry] /\ newHdr' \in Header
        /\ op' \in [name : Names \cup {NoName}, sector : Sectors]
    BY <1>3, BlankTypes DEF WriteSector, Forget, memory
  <2>8. dirty' \in BOOLEAN
    BY <1>3, Zenon DEF WriteSector
  <2>9. UNCHANGED <<crashes, open, spoiled>>
    BY <1>3 DEF WriteSector
  <2> QED
    BY <2>1, <2>3, <2>4, <2>5, <2>6, <2>7, <2>8, <2>9
<1>4. CASE Crash
  <2>1. crashes' \in 0..MaxCrashes /\ todo' = <<>>
    BY <1>4, FileSystemAssumption DEF Crash
  <2>2. dirty' \in BOOLEAN
    BY <1>4, Zenon DEF Crash
  <2>3. newMap' \subseteq Sectors /\ newDir' \in [Entries -> Entry] /\ newHdr' \in Header
    BY <1>4, BlankTypes DEF Crash, Forget
  <2>4. open' \in [name : Names \cup {NoName}, hdr : Header, live : BOOLEAN, after : SUBSET Names]
    BY <1>4, BlankTypes DEF Crash
  <2>5. open'.name \in Names \cup {NoName} /\ open'.hdr \in Header
    BY <2>4
  <2>6. op' \in [name : Names \cup {NoName}, sector : Sectors]
    BY <1>4, BlankTypes DEF Crash
  <2>7. UNCHANGED <<map, dir, headers, files, spoiled>>
    BY <1>4 DEF Crash, disk
  <2> QED
    BY <2>1, <2>2, <2>3, <2>4, <2>5, <2>6, <2>7
<1>5. ASSUME NEW n \in Names, Open(n) PROVE FileTypes'
  <2> DEFINE h == headers[dir[FindIndex(dir, n)].sector]
  <2>1. FindIndex(dir, n) \in Entries
    BY <1>5, Found DEF Open
  <2>2. dir[FindIndex(dir, n)].sector \in Sectors
    BY <2>1 DEF Entry
  <2>3. h \in Header
    BY <2>2
  <2>4. open' = [name |-> n, hdr |-> h, live |-> TRUE, after |-> {}]
    BY <1>5 DEF Open
  <2> HIDE DEF h
  <2>5. open' \in [name : Names \cup {NoName}, hdr : Header, live : BOOLEAN, after : SUBSET Names]
        /\ open'.name \in Names \cup {NoName} /\ open'.hdr \in Header
    BY <2>3, <2>4
  <2>6. UNCHANGED <<map, dir, headers, op, newMap, newDir, newHdr, todo, files, crashes, dirty, spoiled>>
    BY <1>5 DEF Open, disk, memory
  <2> QED
    BY <2>5, <2>6
<1>6. ASSUME NEW i \in 1..NumDirect, WriteData(i) PROVE FileTypes'
  <2>1. headers' \in [Sectors -> Header] /\ spoiled' \subseteq Names
    BY <1>6, BlankTypes DEF WriteData
  <2>2. UNCHANGED <<map, dir, op, newMap, newDir, newHdr, todo, files, crashes, dirty, open>>
    BY <1>6 DEF WriteData, memory
  <2> QED
    BY <2>1, <2>2
<1>7. CASE Close
  <2>1. open' \in [name : Names \cup {NoName}, hdr : Header, live : BOOLEAN, after : SUBSET Names]
    BY <1>7, BlankTypes DEF Close
  <2>2. open'.name \in Names \cup {NoName} /\ open'.hdr \in Header
    BY <2>1
  <2>3. UNCHANGED <<map, dir, headers, op, newMap, newDir, newHdr, todo, files, crashes, dirty, spoiled>>
    BY <1>7 DEF Close, disk, memory
  <2> QED
    BY <2>1, <2>2, <2>3
<1>8. CASE UNCHANGED fvars
  <2>1. UNCHANGED <<map, dir, headers, op, newMap, newDir, newHdr, todo, files, crashes, dirty, open, spoiled>>
    BY <1>8 DEF fvars, disk, memory
  <2> QED
    BY <2>1
<1>9. \A n, size : (CreateFails(n, size) \/ RemoveFails(n) \/ OpenFails(n)) => UNCHANGED fvars
  BY DEF CreateFails, RemoveFails, OpenFails
<1> QED
  BY <1>1, <1>2, <1>3, <1>4, <1>5, <1>6, <1>7, <1>8, <1>9, Zenon DEF Next

-----------------------------------------------------------------------------
(***************************************************************************)
(* The disk between two operations: bitmap m, directory d, headers h.      *)
(***************************************************************************)

InUse(d) == {i \in Entries : d[i].inUse}

Own(d, h, i) == {d[i].sector} \cup Range(h[d[i].sector].dataSectors)

(* No name is used twice.  A free entry keeps the name it had; if a file   *)
(* has that name again, its entry is a lower one.                          *)
NamesInOrder(d) ==
    /\ \A i \in InUse(d) : d[i].name \in Names
    /\ \A i, j \in InUse(d) : d[i].name = d[j].name => i = j
    /\ \A i \in InUse(d), k \in FreeEntries(d) : d[i].name = d[k].name => i < k

(* A file's sectors are all different and as many as its size needs. *)
WellAllocated(f) ==
    /\ f.sector \notin Range(f.hdr.dataSectors)
    /\ Len(f.hdr.dataSectors) = divRoundUp(f.hdr.numBytes, SectorSize)
    /\ \A i, j \in 1..Len(f.hdr.dataSectors) :
         f.hdr.dataSectors[i] = f.hdr.dataSectors[j] => i = j

(* Sectors are marked and not shared.  Unless a header was overwritten,    *)
(* nothing else is marked.                                                 *)
Tidy(m, d, h) ==
    /\ NamesInOrder(d)
    /\ Metadata \subseteq m
    /\ \A i \in InUse(d) : Own(d, h, i) \subseteq m \ Metadata
    /\ \A i \in InUse(d) : WellAllocated(At(d, h, i))
    /\ \A i, j \in InUse(d) : i # j => Own(d, h, i) \cap Own(d, h, j) = {}
    /\ (\A i \in InUse(d) : Sound(h[d[i].sector])) =>
         \A s \in m \ Metadata : \E i \in InUse(d) : s \in Own(d, h, i)

(* Only the header of a spoiled file may be overwritten. *)
OthersSound(d, h, sp) == \A i \in InUse(d) : Sound(h[d[i].sector]) \/ d[i].name \in sp

(* The history variable knows the files whose headers are there. *)
Recorded(fl, d, h) ==
    /\ DOMAIN fl = {d[i].name : i \in InUse(d)}
    /\ \A i \in InUse(d) : Sound(h[d[i].sector]) => fl[d[i].name] = At(d, h, i)

(* An OpenFile has the header of its file, or what it has is nobody's but  *)
(* perhaps that of files created since the removal.                        *)
OpenFits(o, d, h) ==
    \/ /\ o.live /\ o.after = {}
       /\ \E i \in InUse(d) : d[i].name = o.name /\ h[d[i].sector] = o.hdr
    \/ /\ ~o.live
       /\ \A i \in InUse(d) : d[i].name \notin o.after =>
            Own(d, h, i) \cap Range(o.hdr.dataSectors) = {}

QuietInv ==
    /\ Tidy(map, dir, headers) /\ OthersSound(dir, headers, spoiled)
    /\ Recorded(files, dir, headers) /\ OpenFits(open, dir, headers)

(* After the first crash, until an operation completes: the other files    *)
(* are found, and no file's data sectors, nor those of the OpenFile, hold  *)
(* a header.                                                               *)
CrashedInv ==
    /\ CrashSparesOthers
    /\ \A i, j \in InUse(dir) : dir[j].sector \notin Range(headers[dir[i].sector].dataSectors)
    /\ open.after = {} /\ \A j \in InUse(dir) : dir[j].sector \notin Range(open.hdr.dataSectors)

(* The directory, headers and bitmap once Create has written them all. *)
WithEntry(d, k, s, n) == [d EXCEPT ![k] = [inUse |-> TRUE, sector |-> s, name |-> n]]
WithHeader(h, s, hd) == [h EXCEPT ![s] = hd]

(* What Create has found out: the lowest free entry, and clear sectors for *)
(* the header and the data of a file with a new name.                      *)
Creatable(m, d, k, n, s, hd) ==
    /\ k \in FreeEntries(d) /\ \A j \in FreeEntries(d) : k <= j
    /\ n \in Names /\ \A i \in InUse(d) : d[i].name # n
    /\ s \in Clear(m) /\ hd \in Header /\ Sound(hd)
    /\ Range(hd.dataSectors) \subseteq Clear(m)
    /\ WellAllocated([sector |-> s, hdr |-> hd])

(* Create adds its entry and leaves the others as they are. *)
Extended(d, h, d2, h2, k, n, s, hd) ==
    /\ k \in Entries /\ k \notin InUse(d)
    /\ InUse(d2) = InUse(d) \cup {k} /\ FreeEntries(d2) = FreeEntries(d) \ {k}
    /\ d2[k].sector = s /\ d2[k].name = n /\ h2[s] = hd
    /\ \A i \in Entries \ {k} : d2[i] = d[i]
    /\ \A i \in InUse(d) : h2[d[i].sector] = h[d[i].sector]
    /\ \A i \in InUse(d) : Own(d2, h2, i) = Own(d, h, i)
    /\ \A i \in InUse(d) : At(d2, h2, i) = At(d, h, i)
    /\ Own(d2, h2, k) = {s} \cup Range(hd.dataSectors)
    /\ At(d2, h2, k) = [sector |-> s, hdr |-> hd]

LEMMA EntryAdded ==
    ASSUME NEW m \in SUBSET Sectors, NEW d \in [Entries -> Entry], NEW h \in [Sectors -> Header],
           Tidy(m, d, h), NEW k, NEW n, NEW s, NEW hd, Creatable(m, d, k, n, s, hd)
    PROVE  Extended(d, h, WithEntry(d, k, s, n), WithHeader(h, s, hd), k, n, s, hd)
<1> DEFINE d2 == WithEntry(d, k, s, n)
           h2 == WithHeader(h, s, hd)
<1>1. k \in Entries /\ k \notin InUse(d) /\ ~d[k].inUse /\ s \in Sectors /\ s \notin m
  BY DEF Creatable, FreeEntries, InUse, Clear
<1>2. d2[k] = [inUse |-> TRUE, sector |-> s, name |-> n] /\ \A i \in Entries \ {k} : d2[i] = d[i]
  BY <1>1 DEF WithEntry
<1>3. d2[k].inUse /\ d2[k].sector = s /\ d2[k].name = n
  BY <1>2
<1>4. h2[s] = hd /\ \A x \in Sectors \ {s} : h2[x] = h[x]
  BY <1>1 DEF WithHeader
<1> HIDE DEF d2, h2
<1>5. InUse(d2) = InUse(d) \cup {k}
  BY <1>1, <1>2, <1>3 DEF InUse
<1>6. FreeEntries(d2) = FreeEntries(d) \ {k}
  BY <1>1, <1>2, <1>3 DEF FreeEntries
<1>7. \A i \in InUse(d) : d[i].sector \in Sectors \ {s} /\ i \in Entries \ {k}
  <2>1. ASSUME NEW i \in InUse(d) PROVE d[i].sector \in m /\ i \in Entries /\ i # k
    BY <1>1 DEF Tidy, Own, InUse
  <2> QED
    BY <1>1, <2>1
<1>8. \A i \in InUse(d) : h2[d[i].sector] = h[d[i].sector] /\ d2[i] = d[i]
  BY <1>2, <1>4, <1>7
<1>9. \A i \in InUse(d) : Own(d2, h2, i) = Own(d, h, i) /\ At(d2, h2, i) = At(d, h, i)
  BY <1>8 DEF Own, At
<1>10. Own(d2, h2, k) = {s} \cup Range(hd.dataSectors) /\ At(d2, h2, k) = [sector |-> s, hdr |-> hd]
  BY <1>3, <1>4 DEF Own, At
<1> QED
  BY <1>1, <1>2, <1>3, <1>4, <1>5, <1>6, <1>8, <1>9, <1>10 DEF d2, h2, Extended

LEMMA CreatedTidy ==
    ASSUME NEW m \in SUBSET Sectors, NEW d \in [Entries -> Entry], NEW h \in [Sectors -> Header],
           Tidy(m, d, h), NEW k, NEW n, NEW s, NEW hd, Creatable(m, d, k, n, s, hd)
    PROVE  Tidy(m \cup {s} \cup Range(hd.dataSectors), WithEntry(d, k, s, n), WithHeader(h, s, hd))
<1> DEFINE d2 == WithEntry(d, k, s, n)
           h2 == WithHeader(h, s, hd)
           m2 == m \cup {s} \cup Range(hd.dataSectors)
<1>0. Extended(d, h, d2, h2, k, n, s, hd)
  BY EntryAdded
<1> HIDE DEF d2, h2
<1>1. /\ k \in Entries /\ k \notin InUse(d)
      /\ InUse(d2) = InUse(d) \cup {k} /\ FreeEntries(d2) = FreeEntries(d) \ {k}
      /\ d2[k].sector = s /\ d2[k].name = n /\ h2[s] = hd
      /\ \A i \in Entries \ {k} : d2[i] = d[i]
      /\ \A i \in InUse(d) : h2[d[i].sector] = h[d[i].sector]
      /\ \A i \in InUse(d) : Own(d2, h2, i) = Own(d, h, i)
      /\ \A i \in InUse(d) : At(d2, h2, i) = At(d, h, i)
      /\ Own(d2, h2, k) = {s} \cup Range(hd.dataSectors)
      /\ At(d2, h2, k) = [sector |-> s, hdr |-> hd]
  BY <1>0 DEF Extended
<1>2. InUse(d) \subseteq Entries \ {k} /\ FreeEntries(d) \subseteq Entries
  BY <1>1 DEF InUse, FreeEntries
<1>3. NamesInOrder(d2)
  <2>1. \A i \in InUse(d2) : d2[i].name \in Names
    BY <1>1, <1>2 DEF Creatable, Tidy, NamesInOrder
  <2>2. \A i, j \in InUse(d2) : d2[i].name = d2[j].name => i = j
    BY <1>1, <1>2 DEF Creatable, Tidy, NamesInOrder
  <2>3. ASSUME NEW i \in InUse(d2), NEW j \in FreeEntries(d2), d2[i].name = d2[j].name PROVE i < j
    <3>1. CASE i = k
      <4>1. k <= j /\ k # j /\ k \in Nat /\ j \in Nat
        BY <1>1, <1>2, EntriesAreNat DEF Creatable
      <4> QED
        BY <3>1, <4>1
    <3>2. CASE i # k
      BY <1>1, <1>2, <2>3, <3>2 DEF Tidy, NamesInOrder
    <3> QED
      BY <3>1, <3>2
  <2> QED
    BY <2>1, <2>2, <2>3 DEF NamesInOrder
<1>4. Own(d2, h2, k) \cap m = {} /\ Own(d2, h2, k) \subseteq m2
  BY <1>1 DEF Creatable, Clear
<1>5. Metadata \subseteq m /\ m \subseteq m2
  BY DEF Tidy
<1>6. \A i \in InUse(d) : Own(d2, h2, i) \subseteq m \ Metadata
  BY <1>1 DEF Tidy
<1>7. \A i \in InUse(d2) : Own(d2, h2, i) \subseteq m2 \ Metadata
  BY <1>1, <1>4, <1>5, <1>6
<1>8. \A i \in InUse(d2) : WellAllocated(At(d2, h2, i))
  BY <1>1 DEF Tidy, Creatable
<1>9. \A i, j \in InUse(d2) : i # j => Own(d2, h2, i) \cap Own(d2, h2, j) = {}
  <2>1. \A i, j \in InUse(d) : i # j => Own(d2, h2, i) \cap Own(d2, h2, j) = {}
    BY <1>1 DEF Tidy
  <2>2. \A i \in InUse(d) : Own(d2, h2, i) \cap Own(d2, h2, k) = {}
    BY <1>4, <1>6
  <2> QED
    BY <1>1, <2>1, <2>2
<1>10. ASSUME \A i \in InUse(d2) : Sound(h2[d2[i].sector]), NEW x \in m2 \ Metadata
       PROVE  \E i \in InUse(d2) : x \in Own(d2, h2, i)
  <2>1. CASE x \in m
    <3>1. \A i \in InUse(d) : Sound(h[d[i].sector])
      <4>1. ASSUME NEW i \in InUse(d) PROVE Sound(h[d[i].sector])
        <5>1. i \in InUse(d2) /\ d2[i] = d[i]
          BY <1>1, <1>2
        <5> QED
          BY <1>1, <1>10, <5>1
      <4> QED
        BY <4>1
    <3>2. PICK i \in InUse(d) : x \in Own(d, h, i)
      BY <1>10, <2>1, <3>1 DEF Tidy
    <3> QED
      BY <1>1, <3>2
  <2>2. CASE x \notin m
    BY <1>1, <1>10, <2>2
  <2> QED
    BY <2>1, <2>2
<1>11. Metadata \subseteq m2
  BY <1>5
<1> HIDE DEF m2
<1>12. Tidy(m2, d2, h2)
  BY <1>3, <1>7, <1>8, <1>9, <1>10, <1>11 DEF Tidy
<1> QED
  BY <1>12 DEF m2, d2, h2

LEMMA CreatedOthers ==
    ASSUME NEW m \in SUBSET Sectors, NEW d \in [Entries -> Entry], NEW h \in [Sectors -> Header],
           Tidy(m, d, h), NEW k, NEW n, NEW s, NEW hd, Creatable(m, d, k, n, s, hd),
           NEW sp, OthersSound(d, h, sp), NEW o, OpenFits(o, d, h),
           NEW o2, o2.name = o.name, o2.hdr = o.hdr, o2.live = o.live,
           \/ o2.after = o.after \cup {n} /\ ~o.live
           \/ o2.after = o.after /\ (o.live \/ Range(o.hdr.dataSectors) = {})
    PROVE  /\ OthersSound(WithEntry(d, k, s, n), WithHeader(h, s, hd), sp)
           /\ OpenFits(o2, WithEntry(d, k, s, n), WithHeader(h, s, hd))
<1> DEFINE d2 == WithEntry(d, k, s, n)
           h2 == WithHeader(h, s, hd)
<1>1. Extended(d, h, d2, h2, k, n, s, hd)
  BY EntryAdded
<1> HIDE DEF d2, h2
<1>2. \A i \in InUse(d) : i \in InUse(d2) /\ d2[i] = d[i]
  BY <1>1 DEF Extended, InUse
<1>3. OthersSound(d2, h2, sp)
  BY <1>1, <1>2 DEF Extended, OthersSound, Creatable
<1>4. CASE o.live
  <2>1. o2.after = {}
    BY <1>4 DEF OpenFits
  <2>2. PICK i \in InUse(d) : d[i].name = o.name /\ h[d[i].sector] = o.hdr
    BY <1>4 DEF OpenFits
  <2>3. d2[i].name = o2.name /\ h2[d2[i].sector] = o2.hdr /\ i \in InUse(d2)
    BY <1>1, <1>2, <2>2 DEF Extended
  <2> QED
    BY <1>3, <1>4, <2>1, <2>3 DEF OpenFits, d2, h2
<1>5. CASE ~o.live
  <2>1. ASSUME NEW i \in InUse(d2), d2[i].name \notin o2.after
        PROVE  Own(d2, h2, i) \cap Range(o2.hdr.dataSectors) = {}
    <3>1. CASE i \in InUse(d)
      BY <1>1, <1>2, <1>5, <2>1, <3>1 DEF Extended, OpenFits
    <3>2. CASE i = k
      BY <1>1, <1>5, <2>1, <3>2 DEF Extended
    <3> QED
      BY <1>1, <3>1, <3>2 DEF Extended
  <2> QED
    BY <1>3, <1>5, <2>1 DEF OpenFits, d2, h2
<1> QED
  BY <1>4, <1>5

(* The directory once Remove has written it. *)
Without(d, k) == [d EXCEPT ![k] = [d[k] EXCEPT !.inUse = FALSE]]

LEMMA EntryRemoved ==
    ASSUME NEW d \in [Entries -> Entry], NEW k \in InUse(d)
    PROVE  /\ InUse(Without(d, k)) = InUse(d) \ {k}
           /\ FreeEntries(Without(d, k)) = FreeEntries(d) \cup {k}
           /\ Without(d, k)[k].name = d[k].name /\ Without(d, k)[k].sector = d[k].sector
           /\ \A i \in Entries \ {k} : Without(d, k)[i] = d[i]
           /\ \A h : \A i \in InUse(d) \ {k} :
                Own(Without(d, k), h, i) = Own(d, h, i) /\ At(Without(d, k), h, i) = At(d, h, i)
<1> DEFINE d2 == Without(d, k)
<1>1. k \in Entries /\ d[k] \in Entry
  BY DEF InUse
<1>2. d2[k] = [d[k] EXCEPT !.inUse = FALSE] /\ \A i \in Entries \ {k} : d2[i] = d[i]
  BY <1>1 DEF Without
<1> HIDE DEF d2
<1>3. ~d2[k].inUse /\ d2[k].name = d[k].name /\ d2[k].sector = d[k].sector
  BY <1>1, <1>2 DEF Entry
<1>4. InUse(d2) = InUse(d) \ {k} /\ FreeEntries(d2) = FreeEntries(d) \cup {k}
  BY <1>1, <1>2, <1>3 DEF InUse, FreeEntries
<1>5. \A h : \A i \in InUse(d) \ {k} : Own(d2, h, i) = Own(d, h, i) /\ At(d2, h, i) = At(d, h, i)
  BY <1>2 DEF Own, At, InUse
<1> QED
  BY <1>2, <1>3, <1>4, <1>5 DEF d2

LEMMA RemovedTidy ==
    ASSUME NEW m, NEW d \in [Entries -> Entry], NEW h, Tidy(m, d, h),
           NEW k \in InUse(d), Sound(h[d[k].sector])
    PROVE  Tidy(m \ Own(d, h, k), Without(d, k), h)
<1> DEFINE d2 == Without(d, k)
           m2 == m \ Own(d, h, k)
<1>1. /\ InUse(d2) = InUse(d) \ {k} /\ FreeEntries(d2) = FreeEntries(d) \cup {k}
      /\ d2[k].name = d[k].name
      /\ \A i \in Entries \ {k} : d2[i] = d[i]
      /\ \A i \in InUse(d) \ {k} : Own(d2, h, i) = Own(d, h, i) /\ At(d2, h, i) = At(d, h, i)
  BY EntryRemoved
<1> HIDE DEF d2
<1>2. InUse(d2) \subseteq Entries \ {k} /\ FreeEntries(d) \subseteq Entries \ {k}
  BY <1>1 DEF InUse, FreeEntries
<1>3. NamesInOrder(d2)
  <2>1. \A i \in InUse(d2) : d2[i].name \in Names
    BY <1>1, <1>2 DEF Tidy, NamesInOrder
  <2>2. \A i, j \in InUse(d2) : d2[i].name = d2[j].name => i = j
    BY <1>1, <1>2 DEF Tidy, NamesInOrder
  <2>3. \A i \in InUse(d2), j \in FreeEntries(d2) : d2[i].name = d2[j].name => i < j
    BY <1>1, <1>2 DEF Tidy, NamesInOrder
  <2> QED
    BY <2>1, <2>2, <2>3 DEF NamesInOrder
<1>4. \A i \in InUse(d2) : Own(d, h, i) \cap Own(d, h, k) = {}
  BY <1>1 DEF Tidy
<1>5. \A i \in InUse(d2) : Own(d2, h, i) \subseteq m2 \ Metadata
  BY <1>1, <1>4 DEF Tidy
<1>6. Metadata \subseteq m2
  BY DEF Tidy
<1>7. \A i \in InUse(d2) : WellAllocated(At(d2, h, i))
  BY <1>1 DEF Tidy
<1>8. \A i, j \in InUse(d2) : i # j => Own(d2, h, i) \cap Own(d2, h, j) = {}
  BY <1>1 DEF Tidy
<1>9. ASSUME \A i \in InUse(d2) : Sound(h[d2[i].sector]), NEW x \in m2 \ Metadata
      PROVE  \E i \in InUse(d2) : x \in Own(d2, h, i)
  <2>1. \A i \in InUse(d) : Sound(h[d[i].sector])
    <3>1. ASSUME NEW i \in InUse(d), i # k PROVE Sound(h[d[i].sector])
      <4>1. i \in InUse(d2) /\ d2[i] = d[i]
        BY <1>1, <1>2, <3>1
      <4>2. Sound(h[d2[i].sector])
        BY <1>9, <4>1
      <4> QED
        BY <4>1, <4>2
    <3> QED
      BY <3>1
  <2>2. PICK i \in InUse(d) : x \in Own(d, h, i)
    BY <1>9, <2>1 DEF Tidy
  <2> QED
    BY <1>1, <1>9, <2>2
<1> HIDE DEF m2
<1>10. Tidy(m2, d2, h)
  BY <1>3, <1>5, <1>6, <1>7, <1>8, <1>9 DEF Tidy
<1> QED
  BY <1>10 DEF m2, d2

LEMMA RemovedOthers ==
    ASSUME NEW m, NEW d \in [Entries -> Entry], NEW h, Tidy(m, d, h),
           NEW k \in InUse(d), Sound(h[d[k].sector]),
           NEW sp, OthersSound(d, h, sp), NEW o, OpenFits(o, d, h),
           NEW o2, o2.name = o.name, o2.hdr = o.hdr,
           o2.live <=> o.live /\ o.name # d[k].name, o2.after = o.after \ {d[k].name}
    PROVE  /\ OthersSound(d, h, sp \ {d[k].name})
           /\ OthersSound(Without(d, k), h, sp \ {d[k].name})
           /\ OpenFits(o2, Without(d, k), h)
<1> DEFINE d2 == Without(d, k)
<1>1. /\ InUse(d2) = InUse(d) \ {k}
      /\ \A i \in Entries \ {k} : d2[i] = d[i]
      /\ \A i \in InUse(d) \ {k} : Own(d2, h, i) = Own(d, h, i)
  BY EntryRemoved
<1> HIDE DEF d2
<1>2. \A i \in InUse(d2) : i \in InUse(d) /\ i # k /\ d2[i] = d[i]
  BY <1>1 DEF InUse
<1>3. \A i \in InUse(d) : d[i].name = d[k].name => i = k
  BY DEF Tidy, NamesInOrder
<1>4. OthersSound(d, h, sp \ {d[k].name})
  BY <1>3 DEF OthersSound
<1>5. OthersSound(d2, h, sp \ {d[k].name})
  BY <1>2, <1>4 DEF OthersSound
<1>6. CASE o.live /\ o.name # d[k].name
  <2>1. PICK i \in InUse(d) : d[i].name = o.name /\ h[d[i].sector] = o.hdr
    BY <1>6 DEF OpenFits
  <2>2. i \in InUse(d2) /\ d2[i] = d[i]
    BY <1>1, <1>2, <1>6, <2>1
  <2> QED
    BY <1>4, <1>5, <1>6, <2>1, <2>2 DEF OpenFits, d2
<1>7. CASE o.live /\ o.name = d[k].name
  <2>1. h[d[k].sector] = o.hdr
    BY <1>3, <1>7 DEF OpenFits
  <2>2. \A i \in InUse(d2) : Own(d2, h, i) \cap Range(o2.hdr.dataSectors) = {}
    BY <1>1, <1>2, <2>1 DEF Tidy, Own
  <2> QED
    BY <1>4, <1>5, <1>7, <2>2 DEF OpenFits, d2
<1>8. CASE ~o.live
  <2>1. ASSUME NEW i \in InUse(d2), d2[i].name \notin o2.after
        PROVE  Own(d2, h, i) \cap Range(o2.hdr.dataSectors) = {}
    BY <1>1, <1>2, <1>3, <1>8, <2>1 DEF OpenFits
  <2> QED
    BY <1>4, <1>5, <1>8, <2>1 DEF OpenFits, d2
<1> QED
  BY <1>6, <1>7, <1>8

LEMMA NothingFitsNowhere == divRoundUp(0, SectorSize) = 0
<1>1. SectorSize \in Nat /\ SectorSize > 0
  BY FileSystemAssumption
<1> QED
  BY <1>1 DEF divRoundUp

(* An OpenFile writes to sector x, which holds no header or the header of  *)
(* a file that may be spoiled.                                             *)
LEMMA Overwritten ==
    ASSUME NEW m, NEW d \in [Entries -> Entry], NEW h \in [Sectors -> Header], NEW x \in Sectors,
           Tidy(m, d, h), NEW sp, NEW sp2, sp \subseteq sp2, OthersSound(d, h, sp),
           NEW fl, Recorded(fl, d, h), NEW o, OpenFits(o, d, h),
           \A i \in InUse(d) : d[i].sector = x => d[i].name \in sp2 /\ ~o.live
    PROVE  /\ Tidy(m, d, WithHeader(h, x, Data))
           /\ OthersSound(d, WithHeader(h, x, Data), sp2)
           /\ Recorded(fl, d, WithHeader(h, x, Data))
           /\ OpenFits(o, d, WithHeader(h, x, Data))
<1> DEFINE h2 == WithHeader(h, x, Data)
<1>1. h2[x] = Data /\ \A s \in Sectors \ {x} : h2[s] = h[s]
  BY DEF WithHeader
<1> HIDE DEF h2
<1>2. \A i \in InUse(d) : d[i].sector \in Sectors /\ i \in Entries
  BY DEF InUse, Entry
<1>3. \A i \in InUse(d) : d[i].sector # x => /\ h2[d[i].sector] = h[d[i].sector]
                                            /\ Own(d, h2, i) = Own(d, h, i)
                                            /\ At(d, h2, i) = At(d, h, i)
  BY <1>1, <1>2 DEF Own, At
<1>4. \A i \in InUse(d) : d[i].sector = x => /\ h2[d[i].sector] = Data
                                            /\ Own(d, h2, i) = {x}
                                            /\ At(d, h2, i) = [sector |-> x, hdr |-> Data]
  BY <1>1, <1>2, BlankTypes DEF Own, At
<1>5. \A i \in InUse(d) : Own(d, h2, i) \subseteq Own(d, h, i)
  BY <1>3, <1>4 DEF Own
<1>6. \A i \in InUse(d) : Sound(h2[d[i].sector]) => d[i].sector # x
  BY <1>4, BlankTypes
<1>7. WellAllocated([sector |-> x, hdr |-> Data])
  <2>1. Len(<<>>) = 0 /\ 1..0 = {}
    OBVIOUS
  <2> QED
    BY <2>1, BlankTypes, NothingFitsNowhere DEF WellAllocated
<1>8. \A i \in InUse(d) : WellAllocated(At(d, h2, i))
  BY <1>3, <1>4, <1>7 DEF Tidy
<1>9. \A i \in InUse(d) : Own(d, h2, i) \subseteq m \ Metadata
  BY <1>5 DEF Tidy
<1>10. \A i, j \in InUse(d) : i # j => Own(d, h2, i) \cap Own(d, h2, j) = {}
  <2>1. \A i, j \in InUse(d) : i # j => Own(d, h, i) \cap Own(d, h, j) = {}
    BY DEF Tidy
  <2> QED
    BY <1>5, <2>1
<1>11. ASSUME \A i \in InUse(d) : Sound(h2[d[i].sector]), NEW s \in m \ Metadata
       PROVE  \E i \in InUse(d) : s \in Own(d, h2, i)
  <2>1. \A i \in InUse(d) : Own(d, h2, i) = Own(d, h, i) /\ Sound(h[d[i].sector])
    BY <1>3, <1>6, <1>11
  <2> QED
    BY <1>11, <2>1 DEF Tidy
<1>12. Tidy(m, d, h2)
  BY <1>8, <1>9, <1>10, <1>11 DEF Tidy
<1>13. OthersSound(d, h2, sp2)
  BY <1>3 DEF OthersSound
<1>14. Recorded(fl, d, h2)
  BY <1>3, <1>6 DEF Recorded
<1>15. OpenFits(o, d, h2)
  <2>1. CASE o.live
    <3>1. PICK i \in InUse(d) : d[i].name = o.name /\ h[d[i].sector] = o.hdr
      BY <2>1 DEF OpenFits
    <3>2. h2[d[i].sector] = o.hdr
      BY <1>3, <2>1, <3>1
    <3> QED
      BY <2>1, <3>1, <3>2 DEF OpenFits
  <2>2. CASE ~o.live
    BY <1>5, <2>2 DEF OpenFits
  <2> QED
    BY <2>1, <2>2
<1> QED
  BY <1>12, <1>13, <1>14, <1>15 DEF h2

(* With every name used once, the view of a directory is its entries. *)
LEMMA ViewOfTidy ==
    ASSUME NEW d, NEW h, NamesInOrder(d)
    PROVE  /\ DOMAIN View(d, h) = {d[i].name : i \in InUse(d)}
           /\ \A i \in InUse(d) : View(d, h)[d[i].name] = At(d, h, i)
           /\ Recorded(View(d, h), d, h)
<1>1. ASSUME NEW i \in InUse(d)
      PROVE  d[i].name \in DOMAIN View(d, h) /\ View(d, h)[d[i].name] = At(d, h, i)
  <2>1. d[i].name \in Names /\ i \in Entries /\ Holds(d, i, d[i].name)
    BY DEF NamesInOrder, InUse, Holds
  <2>2. ASSUME NEW j \in Entries, Holds(d, j, d[i].name) PROVE i <= j
    <3>1. j = i /\ i \in Nat
      BY <2>1, <2>2, EntriesAreNat DEF Holds, InUse, NamesInOrder
    <3> QED
      BY <3>1
  <2> QED
    BY <2>1, <2>2, ViewAt
<1>2. ASSUME NEW n \in DOMAIN View(d, h) PROVE \E i \in InUse(d) : n = d[i].name
  BY ViewHolds DEF Holds, InUse
<1>3. DOMAIN View(d, h) = {d[i].name : i \in InUse(d)}
  BY <1>1, <1>2
<1> QED
  BY <1>1, <1>3 DEF Recorded

-----------------------------------------------------------------------------
(***************************************************************************)
(* The inductive invariant.  An operation on its way knows the tidy disk   *)
(* it has found (d, m or h) and the tidy disk it is going to leave, and    *)
(* the disk is somewhere between the two.                                  *)
(***************************************************************************)

(* FileHeader::Allocate does not test this: the header of a larger file    *)
(* would not have all its sectors on disk.                                 *)
SizesFit == \A size \in Sizes : divRoundUp(size, SectorSize) <= NumDirect

Before(m, d, h) == Tidy(m, d, h) /\ OthersSound(d, h, spoiled) /\ Recorded(files, d, h)

After(h) == Tidy(newMap, newDir, h) /\ OthersSound(newDir, h, spoiled) /\ OpenFits(open, newDir, h)

Creating(d, h, k) ==
    LET h2 == WithHeader(h, op.sector, newHdr)
    IN  /\ Before(map, d, h) /\ After(h2)
        /\ k \in FreeEntries(d) /\ newDir = WithEntry(d, k, op.sector, op.name)
        /\ op.name \in Names /\ \A i \in InUse(d) : d[i].name # op.name
        /\ \A i \in InUse(d) : h2[d[i].sector] = h[d[i].sector]
        /\ newHdr.numBytes \in Sizes /\ OnDisk(newHdr) = newHdr
        /\ \/ todo = <<"header", "dir1", "dir2", "map">> /\ headers = h /\ dir = d
           \/ todo = <<"dir1", "dir2", "map">> /\ headers = h2 /\ dir = d
           \/ todo = <<"dir2", "map">> /\ headers = h2 /\ dir = FirstHalf(d, newDir)
           \/ todo = <<"map">> /\ headers = h2 /\ dir = newDir

Removing(d, m, k) ==
    /\ Before(m, d, headers) /\ After(headers)
    /\ k \in InUse(d) /\ newDir = Without(d, k) /\ d[k].name = op.name
    /\ \/ todo = <<"map", "dir1", "dir2">> /\ map = m /\ dir = d
       \/ todo = <<"dir1", "dir2">> /\ map = newMap /\ dir = d
       \/ todo = <<"dir2">> /\ map = newMap /\ dir = FirstHalf(d, newDir)

IsCreating == \E d \in [Entries -> Entry], h \in [Sectors -> Header], k \in Entries : Creating(d, h, k)
IsRemoving == \E d \in [Entries -> Entry], m \in SUBSET Sectors, k \in Entries : Removing(d, m, k)

FileInv ==
    /\ FileTypes
    /\ crashes = 0 /\ todo = <<>> => QuietInv
    /\ crashes = 0 /\ todo \in CreateTodo => IsCreating
    /\ crashes = 0 /\ todo \in RemoveTodo => IsRemoving
    /\ crashes = 1 /\ dirty /\ todo = <<>> => CrashedInv

LEMMA InitFile == Init => FileInv
<1> SUFFICES ASSUME Init PROVE FileInv
  OBVIOUS
<1>1. FileTypes
  BY InitTypes
<1>2. todo = <<>> /\ crashes = 0
  BY DEF Init
<1>3. InUse(dir) = {} /\ FreeEntries(dir) = Entries
  BY DEF Init, NewDirectory, InUse, FreeEntries
<1>4. Tidy(map, dir, headers)
  BY <1>3 DEF Init, Tidy, NamesInOrder
<1>5. OthersSound(dir, headers, spoiled) /\ DOMAIN files = {}
  BY <1>3 DEF Init, OthersSound
<1>6. Recorded(files, dir, headers) /\ ~open.live
  BY <1>3, <1>5 DEF Init, Recorded, Closed
<1>7. OpenFits(open, dir, headers)
  BY <1>3, <1>6 DEF OpenFits
<1> QED
  BY <1>1, <1>2, <1>4, <1>5, <1>6, <1>7, TodoIs DEF FileInv, QuietInv

LEMMA CreateStep ==
    ASSUME SizesFit, FileInv, crashes = 0,
           NEW n \in Names, NEW size \in Sizes, Create(n, size)
    PROVE  IsCreating'
<1> DEFINE s == op'.sector
           hd == newHdr'
<1>1. FileTypes /\ FileTypes' /\ QuietInv /\ todo = <<>> /\ CanCreate(n, size)
  BY TypesKept DEF FileInv, Create, Next
<1>2. /\ s \in Clear(map) /\ hd \in Header /\ hd.numBytes = size
      /\ Sound(hd) /\ Len(hd.dataSectors) = divRoundUp(size, SectorSize)
      /\ Range(hd.dataSectors) \subseteq Clear(map) \ {s}
      /\ \A i, j \in 1..Len(hd.dataSectors) : hd.dataSectors[i] = hd.dataSectors[j] => i = j
      /\ op' = [name |-> n, sector |-> s]
      /\ newMap' = map \cup {s} \cup Range(hd.dataSectors)
      /\ newDir' = Add(dir, n, s)
  BY <1>1, Allocated DEF Create
<1>3. UNCHANGED <<map, dir, headers, files, spoiled>> /\ todo' = <<"header", "dir1", "dir2", "map">>
  BY DEF Create, disk
<1> HIDE DEF s, hd
<1>4. PICK k \in FreeEntries(dir) : /\ \A j \in FreeEntries(dir) : k <= j
                                    /\ newDir' = WithEntry(dir, k, s, n)
  BY <1>1, <1>2, AddTakesFirst DEF CanCreate, WithEntry
<1>5. \A i \in InUse(dir) : dir[i].name # n
  <2>1. FindIndex(dir, n) = -1 /\ \A i \in Entries : ~Holds(dir, i, n)
    BY <1>1, Found, EntriesAreNat DEF CanCreate
  <2> QED
    BY <2>1 DEF InUse, Holds
<1>6. WellAllocated([sector |-> s, hdr |-> hd])
  BY <1>2 DEF WellAllocated
<1>7. Creatable(map, dir, k, n, s, hd)
  BY <1>2, <1>4, <1>5, <1>6 DEF Creatable
<1>8. map \in SUBSET Sectors /\ dir \in [Entries -> Entry] /\ headers \in [Sectors -> Header]
  BY <1>1 DEF FileTypes, TypeOK
<1>9. /\ Tidy(map, dir, headers) /\ OthersSound(dir, headers, spoiled)
      /\ Recorded(files, dir, headers) /\ OpenFits(open, dir, headers)
  BY <1>1 DEF QuietInv
<1>10. Tidy(newMap', newDir', WithHeader(headers, s, hd))
  BY <1>2, <1>4, <1>7, <1>8, <1>9, CreatedTidy
<1>11. /\ open'.name = open.name /\ open'.hdr = open.hdr /\ open'.live = open.live
       /\ \/ open'.after = open.after \cup {n} /\ ~open.live
          \/ open'.after = open.after /\ (open.live \/ Range(open.hdr.dataSectors) = {})
  <2>1. open' = [open EXCEPT !.after = IF open # Closed /\ ~open.live THEN @ \cup {n} ELSE @]
    BY DEF Create
  <2>2. open' = [open EXCEPT !.after = open'.after] /\ open.live \in BOOLEAN
        /\ open'.after = IF open # Closed /\ ~open.live THEN open.after \cup {n} ELSE open.after
    BY <1>1, <2>1 DEF FileTypes
  <2>3. open = Closed => Range(open.hdr.dataSectors) = {}
    BY BlankTypes DEF Closed, NoHeader
  <2>4. open'.name = open.name /\ open'.hdr = open.hdr /\ open'.live = open.live
    BY <1>1, <2>2 DEF FileTypes
  <2> QED
    BY <2>2, <2>3, <2>4
<1>12. /\ OthersSound(newDir', WithHeader(headers, s, hd), spoiled)
       /\ OpenFits(open', newDir', WithHeader(headers, s, hd))
  BY <1>4, <1>7, <1>8, <1>9, <1>11, CreatedOthers
<1>13. Extended(dir, headers, newDir', WithHeader(headers, s, hd), k, n, s, hd)
  BY <1>4, <1>7, <1>8, <1>9, EntryAdded
<1>14. OnDisk(hd) = hd /\ hd.numBytes \in Sizes
  BY <1>2, OnDiskType DEF SizesFit
<1>15. op'.sector = s /\ newHdr' = hd /\ op'.name = n /\ k \in Entries
  BY <1>2, <1>4 DEF s, hd, FreeEntries
<1>16. \A i \in InUse(dir) : WithHeader(headers, s, hd)[dir[i].sector] = headers[dir[i].sector]
  BY <1>13 DEF Extended
<1>17. PICK d \in [Entries -> Entry], h \in [Sectors -> Header] : d = dir /\ h = headers
  BY <1>8
<1>18. /\ Tidy(map', d, h) /\ OthersSound(d, h, spoiled') /\ Recorded(files', d, h)
       /\ Tidy(newMap', newDir', WithHeader(h, op'.sector, newHdr'))
       /\ OthersSound(newDir', WithHeader(h, op'.sector, newHdr'), spoiled')
       /\ OpenFits(open', newDir', WithHeader(h, op'.sector, newHdr'))
  BY <1>3, <1>9, <1>10, <1>12, <1>15, <1>17
<1>19. /\ k \in FreeEntries(d) /\ newDir' = WithEntry(d, k, op'.sector, op'.name)
       /\ op'.name \in Names /\ \A i \in InUse(d) : d[i].name # op'.name
       /\ \A i \in InUse(d) : WithHeader(h, op'.sector, newHdr')[d[i].sector] = h[d[i].sector]
       /\ newHdr'.numBytes \in Sizes /\ OnDisk(newHdr') = newHdr'
       /\ todo' = <<"header", "dir1", "dir2", "map">> /\ headers' = h /\ dir' = d
  BY <1>3, <1>4, <1>5, <1>14, <1>15, <1>16, <1>17
<1>20. Creating(d, h, k)'
  BY <1>18, <1>19 DEF Creating, Before, After
<1> QED
  BY <1>15, <1>20 DEF IsCreating

LEMMA RemoveStep ==
    ASSUME FileInv, crashes = 0, NEW n \in Names, Remove(n)
    PROVE  IsRemoving'
<1>1. FileTypes /\ QuietInv /\ todo = <<>> /\ FindIndex(dir, n) # -1
  BY DEF FileInv, Remove
<1>2. PICK k \in Entries : k = FindIndex(dir, n) /\ Holds(dir, k, n)
  BY <1>1, Found
<1>3. k \in InUse(dir) /\ dir[k].name = n
  BY <1>2 DEF InUse, Holds
<1>4. /\ Sound(headers[dir[k].sector]) /\ op' = [name |-> n, sector |-> dir[k].sector]
      /\ newMap' = map \ Own(dir, headers, k) /\ newDir' = Without(dir, k)
  <2>1. newMap' = map \ (Range(headers[dir[k].sector].dataSectors) \cup {dir[k].sector})
    BY <1>2 DEF Remove, Deallocated
  <2>2. newDir' = Without(dir, k)
    BY <1>2 DEF Remove, RemoveEntry, Without
  <2> QED
    BY <1>2, <2>1, <2>2 DEF Remove, Own
<1>5. /\ UNCHANGED <<map, dir, headers, files>> /\ todo' = <<"map", "dir1", "dir2">>
      /\ spoiled' = spoiled \ {n}
  BY DEF Remove, disk
<1>6. map \in SUBSET Sectors /\ dir \in [Entries -> Entry] /\ headers \in [Sectors -> Header]
  BY <1>1 DEF FileTypes, TypeOK
<1>7. /\ Tidy(map, dir, headers) /\ OthersSound(dir, headers, spoiled)
      /\ Recorded(files, dir, headers) /\ OpenFits(open, dir, headers)
  BY <1>1 DEF QuietInv
<1>8. Tidy(newMap', newDir', headers)
  BY <1>3, <1>4, <1>6, <1>7, RemovedTidy
<1>9. /\ open'.name = open.name /\ open'.hdr = open.hdr
      /\ open'.live <=> open.live /\ open.name # dir[k].name
      /\ open'.after = open.after \ {dir[k].name}
  <2> DEFINE o == [open EXCEPT !.live = open.live /\ open.name # n]
  <2>1. open' = [o EXCEPT !.after = open.after \ {n}]
    BY DEF Remove
  <2>2. /\ o.name = open.name /\ o.hdr = open.hdr /\ o.live = (open.live /\ open.name # n)
        /\ o \in [name : Names \cup {NoName}, hdr : Header, live : BOOLEAN, after : SUBSET Names]
    BY <1>1 DEF FileTypes
  <2> HIDE DEF o
  <2>3. open'.name = o.name /\ open'.hdr = o.hdr /\ open'.live = o.live /\ open'.after = open.after \ {n}
    BY <2>1, <2>2
  <2> QED
    BY <1>3, <2>2, <2>3
<1>10. /\ OthersSound(dir, headers, spoiled') /\ OthersSound(newDir', headers, spoiled')
       /\ OpenFits(open', newDir', headers)
  BY <1>3, <1>4, <1>5, <1>6, <1>7, <1>9, RemovedOthers
<1>11. PICK d \in [Entries -> Entry], m \in SUBSET Sectors : d = dir /\ m = map
  BY <1>6
<1>12. /\ Tidy(m, d, headers') /\ OthersSound(d, headers', spoiled') /\ Recorded(files', d, headers')
       /\ Tidy(newMap', newDir', headers') /\ OthersSound(newDir', headers', spoiled')
       /\ OpenFits(open', newDir', headers')
  BY <1>5, <1>7, <1>8, <1>10, <1>11
<1>13. /\ k \in InUse(d) /\ newDir' = Without(d, k) /\ d[k].name = op'.name
       /\ todo' = <<"map", "dir1", "dir2">> /\ map' = m /\ dir' = d
  BY <1>3, <1>4, <1>5, <1>11
<1>14. Removing(d, m, k)'
  BY <1>12, <1>13 DEF Removing, Before, After
<1> QED
  BY <1>14 DEF IsRemoving

(* The last write of an operation. *)
LEMMA Completed ==
    ASSUME WriteSector, NEW h, After(h), dir' = newDir, headers' = h, map' = newMap, todo' = <<>>
    PROVE  QuietInv'
<1>1. files' = View(dir', headers') /\ open' = open /\ spoiled' = spoiled
  BY DEF WriteSector
<1>2. /\ Tidy(map', dir', headers') /\ OthersSound(dir', headers', spoiled')
      /\ OpenFits(open', dir', headers')
  BY <1>1 DEF After
<1>3. Recorded(files', dir', headers')
  <2>1. NamesInOrder(dir')
    BY <1>2 DEF Tidy
  <2> QED
    BY <1>1, <2>1, ViewOfTidy
<1> QED
  BY <1>2, <1>3 DEF QuietInv

LEMMA CreateWrites ==
    ASSUME FileInv, crashes = 0, todo \in CreateTodo, WriteSector
    PROVE  (todo' = <<>> /\ QuietInv') \/ (todo' \in CreateTodo /\ IsCreating')
<1>1. PICK d \in [Entries -> Entry], h \in [Sectors -> Header], k \in Entries : Creating(d, h, k)
  BY DEF FileInv, IsCreating
<1> DEFINE h2 == WithHeader(h, op.sector, newHdr)
<1>2. open' = open /\ spoiled' = spoiled /\ todo' = Tail(todo)
  BY DEF WriteSector
<1>3. CASE todo = <<"map">>
  <2>1. todo' = <<>> /\ Head(todo) = "map"
    BY <1>2, <1>3
  <2>2. headers = h2 /\ dir = newDir /\ After(h2)
    BY <1>1, <1>3 DEF Creating
  <2>3. map' = newMap /\ headers' = headers /\ dir' = dir
    BY <2>1 DEF WriteSector
  <2>4. QuietInv'
    BY <2>1, <2>2, <2>3, Completed
  <2> QED
    BY <2>1, <2>4
<1>4. ASSUME todo # <<"map">> PROVE todo' \in CreateTodo /\ IsCreating'
  <2>1. /\ todo' \in CreateTodo /\ todo' # <<>> /\ Head(todo) # "map"
    BY <1>2, <1>4, TailOfCreate
  <2>2. UNCHANGED <<map, op, newMap, newDir, newHdr, files, open, spoiled>>
    BY <1>2, <2>1 DEF WriteSector, memory
  <2>3. h2 = WithHeader(h, op'.sector, newHdr')
    BY <2>2
  <2>4. \/ todo' = <<"dir1", "dir2", "map">> /\ headers' = h2 /\ dir' = d
        \/ todo' = <<"dir2", "map">> /\ headers' = h2 /\ dir' = FirstHalf(d, newDir')
        \/ todo' = <<"map">> /\ headers' = h2 /\ dir' = newDir'
    <3>1. CASE todo = <<"header", "dir1", "dir2", "map">>
      <4>1. Head(todo) = "header" /\ todo' = <<"dir1", "dir2", "map">>
        BY <1>2, <3>1
      <4>2. headers = h /\ dir = d /\ OnDisk(newHdr) = newHdr
        BY <1>1, <3>1 DEF Creating
      <4> QED
        BY <4>1, <4>2 DEF WriteSector, WithHeader
    <3>2. CASE todo = <<"dir1", "dir2", "map">>
      <4>1. Head(todo) = "dir1" /\ todo' = <<"dir2", "map">>
        BY <1>2, <3>2
      <4>2. headers = h2 /\ dir = d
        BY <1>1, <3>2 DEF Creating
      <4>3. headers' = headers /\ dir' = FirstHalf(dir, newDir)
        BY <4>1 DEF WriteSector
      <4> QED
        BY <2>2, <4>1, <4>2, <4>3
    <3>3. CASE todo = <<"dir2", "map">>
      <4>1. Head(todo) = "dir2" /\ todo' = <<"map">>
        BY <1>2, <3>3
      <4>2. headers = h2
        BY <1>1, <3>3 DEF Creating
      <4>3. headers' = headers /\ dir' = newDir
        BY <4>1 DEF WriteSector
      <4> QED
        BY <2>2, <4>1, <4>2, <4>3
    <3> QED
      BY <1>4, <3>1, <3>2, <3>3 DEF CreateTodo
  <2>5. /\ Tidy(map', d, h) /\ OthersSound(d, h, spoiled') /\ Recorded(files', d, h)
        /\ Tidy(newMap', newDir', h2) /\ OthersSound(newDir', h2, spoiled') /\ OpenFits(open', newDir', h2)
    BY <1>1, <2>2 DEF Creating, Before, After
  <2>6. /\ k \in FreeEntries(d) /\ newDir' = WithEntry(d, k, op'.sector, op'.name)
        /\ op'.name \in Names /\ \A i \in InUse(d) : d[i].name # op'.name
        /\ \A i \in InUse(d) : h2[d[i].sector] = h[d[i].sector]
        /\ newHdr'.numBytes \in Sizes /\ OnDisk(newHdr') = newHdr'
    BY <1>1, <2>2 DEF Creating
  <2> HIDE DEF h2
  <2>7. Creating(d, h, k)'
    BY <2>3, <2>4, <2>5, <2>6 DEF Creating, Before, After
  <2> QED
    BY <2>1, <2>7 DEF IsCreating
<1> QED
  BY <1>3, <1>4

LEMMA RemoveWrites ==
    ASSUME FileInv, crashes = 0, todo \in RemoveTodo, WriteSector
    PROVE  (todo' = <<>> /\ QuietInv') \/ (todo' \in RemoveTodo /\ IsRemoving')
<1>1. PICK d \in [Entries -> Entry], m \in SUBSET Sectors, k \in Entries : Removing(d, m, k)
  BY DEF FileInv, IsRemoving
<1>2. open' = open /\ spoiled' = spoiled /\ todo' = Tail(todo)
  BY DEF WriteSector
<1>3. CASE todo = <<"dir2">>
  <2>1. todo' = <<>> /\ Head(todo) = "dir2"
    BY <1>2, <1>3
  <2>2. map = newMap /\ After(headers)
    BY <1>1, <1>3 DEF Removing
  <2>3. map' = map /\ headers' = headers /\ dir' = newDir
    BY <2>1 DEF WriteSector
  <2>4. PICK h : h = headers
    OBVIOUS
  <2>5. After(h) /\ headers' = h
    BY <2>2, <2>3, <2>4
  <2>6. QuietInv'
    BY <2>1, <2>2, <2>3, <2>5, Completed
  <2> QED
    BY <2>1, <2>6
<1>4. ASSUME todo # <<"dir2">> PROVE todo' \in RemoveTodo /\ IsRemoving'
  <2>1. /\ todo' \in RemoveTodo /\ todo' # <<>> /\ Head(todo) \in {"map", "dir1"}
    BY <1>2, <1>4, TailOfRemove
  <2>2. UNCHANGED <<headers, op, newMap, newDir, newHdr, files, open, spoiled>>
    BY <1>2, <2>1 DEF WriteSector, memory
  <2>3. \/ todo' = <<"dir1", "dir2">> /\ map' = newMap' /\ dir' = d
        \/ todo' = <<"dir2">> /\ map' = newMap' /\ dir' = FirstHalf(d, newDir')
    <3>1. CASE todo = <<"map", "dir1", "dir2">>
      <4>1. Head(todo) = "map" /\ todo' = <<"dir1", "dir2">>
        BY <1>2, <3>1
      <4>2. dir = d
        BY <1>1, <3>1 DEF Removing
      <4>3. map' = newMap /\ dir' = dir
        BY <4>1 DEF WriteSector
      <4> QED
        BY <2>2, <4>1, <4>2, <4>3
    <3>2. CASE todo = <<"dir1", "dir2">>
      <4>1. Head(todo) = "dir1" /\ todo' = <<"dir2">>
        BY <1>2, <3>2
      <4>2. map = newMap /\ dir = d
        BY <1>1, <3>2 DEF Removing
      <4>3. map' = map /\ dir' = FirstHalf(dir, newDir)
        BY <4>1 DEF WriteSector
      <4> QED
        BY <2>2, <4>1, <4>2, <4>3
    <3> QED
      BY <1>4, <3>1, <3>2 DEF RemoveTodo
  <2>4. /\ Tidy(m, d, headers') /\ OthersSound(d, headers', spoiled') /\ Recorded(files', d, headers')
        /\ Tidy(newMap', newDir', headers') /\ OthersSound(newDir', headers', spoiled')
        /\ OpenFits(open', newDir', headers')
    BY <1>1, <2>2 DEF Removing, Before, After
  <2>5. k \in InUse(d) /\ newDir' = Without(d, k) /\ d[k].name = op'.name
    BY <1>1, <2>2 DEF Removing
  <2>6. Removing(d, m, k)'
    BY <2>3, <2>4, <2>5 DEF Removing, Before, After
  <2> QED
    BY <2>1, <2>6 DEF IsRemoving
<1> QED
  BY <1>3, <1>4

(* One of the directory's two sectors is new, and only entry k differs. *)
LEMMA HalfIs ==
    ASSUME NEW d \in [Entries -> Entry], NEW e \in [Entries -> Entry], NEW k \in Entries,
           \A i \in Entries \ {k} : e[i] = d[i]
    PROVE  LET f == FirstHalf(d, e) IN
           /\ \A i \in Entries \ {k} : f[i] = d[i]
           /\ f[k].name \in {d[k].name, e[k].name}
           /\ \/ f[k].inUse = d[k].inUse /\ f[k].sector = d[k].sector
              \/ f[k].inUse = e[k].inUse /\ f[k].sector = e[k].sector
<1> DEFINE f == FirstHalf(d, e)
<1>1. \A i \in Entries : f[i] = IF i < Straddle THEN e[i]
                                ELSE IF i = Straddle THEN [e[i] EXCEPT !.name = d[i].name] ELSE d[i]
  BY DEF FirstHalf
<1> HIDE DEF f
<1>2. ASSUME NEW i \in Entries \ {k} PROVE f[i] = d[i]
  <2>1. [d[i] EXCEPT !.name = d[i].name] = d[i]
    BY DEF Entry
  <2>2. e[i] = d[i]
    OBVIOUS
  <2> QED
    BY <1>1, <2>1, <2>2
<1>3. e[k] \in Entry /\ d[k] \in Entry
  OBVIOUS
<1>4. CASE k = Straddle
  <2>1. f[k] = [e[k] EXCEPT !.name = d[k].name]
    BY <1>1, <1>4, EntriesAreNat
  <2>2. f[k].name = d[k].name /\ f[k].inUse = e[k].inUse /\ f[k].sector = e[k].sector
    BY <1>3, <2>1 DEF Entry
  <2> QED
    BY <1>2, <2>2 DEF f
<1>5. CASE k # Straddle
  <2>1. f[k] = e[k] \/ f[k] = d[k]
    BY <1>1, <1>5
  <2> QED
    BY <1>2, <2>1 DEF f
<1> QED
  BY <1>4, <1>5

(* Whatever became of entry k, the other files are found: an old name on   *)
(* it is the name of a file only when that file has a lower entry.         *)
LEMMA OthersFound ==
    ASSUME NEW d, NEW h, NamesInOrder(d), NEW fl, Recorded(fl, d, h), NEW sp, OthersSound(d, h, sp),
           NEW k \in Entries, NEW nm, k \in InUse(d) => d[k].name = nm,
           NEW d2, \A i \in Entries \ {k} : d2[i] = d[i], d2[k].name \in {nm, d[k].name},
           NEW h2, \A i \in InUse(d) : h2[d[i].sector] = h[d[i].sector],
           NEW n \in DOMAIN fl \ ({nm} \cup sp)
    PROVE  /\ n \in DOMAIN View(d2, h2) /\ View(d2, h2)[n] = fl[n]
           /\ \E i \in InUse(d) : i # k /\ Owned(fl[n]) = Own(d, h, i)
<1>1. PICK i \in InUse(d) : n = d[i].name
  BY DEF Recorded
<1>2. Sound(h[d[i].sector]) /\ n \in Names /\ i \in Entries /\ i # k
  BY <1>1 DEF OthersSound, NamesInOrder, InUse
<1>3. fl[n] = At(d, h, i)
  BY <1>1, <1>2 DEF Recorded
<1>4. At(d2, h2, i) = At(d, h, i) /\ Holds(d2, i, n)
  BY <1>1, <1>2 DEF At, Holds, InUse
<1>5. ASSUME NEW j \in Entries, Holds(d2, j, n) PROVE i <= j
  <2>1. i \in Nat /\ j \in Nat
    BY <1>2, EntriesAreNat
  <2>2. CASE j # k
    <3>1. j \in InUse(d) /\ d[j].name = n
      BY <1>5, <2>2 DEF Holds, InUse
    <3> QED
      BY <1>1, <2>1, <3>1 DEF NamesInOrder
  <2>3. CASE j = k
    <3>1. d[k].name = n
      BY <1>5, <2>3 DEF Holds
    <3>2. k \in FreeEntries(d)
      BY <3>1 DEF InUse, FreeEntries
    <3>3. i < k
      BY <1>1, <3>1, <3>2 DEF NamesInOrder
    <3> QED
      BY <2>1, <2>3, <3>3
  <2> QED
    BY <2>2, <2>3
<1>6. n \in DOMAIN View(d2, h2) /\ View(d2, h2)[n] = At(d2, h2, i)
  BY <1>2, <1>4, <1>5, ViewAt
<1>7. Owned(At(d, h, i)) = Own(d, h, i)
  BY DEF Owned, At, Own
<1> QED
  BY <1>2, <1>3, <1>4, <1>6, <1>7

LEMMA NoHeaderInData ==
    ASSUME NEW m, NEW d, NEW h, Tidy(m, d, h),
           NEW d2, \A i \in InUse(d2) : i \in InUse(d) /\ d2[i].sector = d[i].sector
    PROVE  \A i, j \in InUse(d2) : d2[j].sector \notin Range(h[d2[i].sector].dataSectors)
<1> SUFFICES ASSUME NEW i \in InUse(d2), NEW j \in InUse(d2)
             PROVE  d2[j].sector \notin Range(h[d2[i].sector].dataSectors)
  OBVIOUS
<1>1. i \in InUse(d) /\ j \in InUse(d) /\ d2[i].sector = d[i].sector /\ d2[j].sector = d[j].sector
  OBVIOUS
<1>2. CASE i = j
  <2>1. WellAllocated(At(d, h, i))
    BY <1>1 DEF Tidy
  <2> QED
    BY <1>1, <1>2, <2>1 DEF WellAllocated, At
<1>3. CASE i # j
  <2>1. Own(d, h, i) \cap Own(d, h, j) = {}
    BY <1>1, <1>3 DEF Tidy
  <2> QED
    BY <1>1, <2>1 DEF Own
<1> QED
  BY <1>2, <1>3

(* What a crash in the middle of an operation leaves. *)
Spared ==
    /\ \A n \in DOMAIN files \ ({op.name} \cup spoiled) :
         /\ n \in DOMAIN View(dir, headers) /\ View(dir, headers)[n] = files[n]
         /\ Owned(files[n]) \subseteq map /\ Metadata \subseteq map
    /\ \A i, j \in InUse(dir) : dir[j].sector \notin Range(headers[dir[i].sector].dataSectors)

LEMMA CreateSpares == ASSUME FileInv, crashes = 0, todo \in CreateTodo PROVE Spared
<1>1. PICK d \in [Entries -> Entry], h \in [Sectors -> Header], k \in Entries : Creating(d, h, k)
  BY DEF FileInv, IsCreating
<1> DEFINE h2 == WithHeader(h, op.sector, newHdr)
<1>2. /\ Tidy(map, d, h) /\ OthersSound(d, h, spoiled) /\ Recorded(files, d, h) /\ Tidy(newMap, newDir, h2)
      /\ k \in FreeEntries(d) /\ newDir = WithEntry(d, k, op.sector, op.name)
      /\ \A i \in InUse(d) : h2[d[i].sector] = h[d[i].sector]
      /\ headers = h \/ headers = h2
      /\ dir = d \/ (headers = h2 /\ (dir = FirstHalf(d, newDir) \/ dir = newDir))
  BY <1>1 DEF Creating, Before, After
<1> HIDE DEF h2
<1>3. k \notin InUse(d) /\ ~d[k].inUse
  BY <1>2 DEF InUse, FreeEntries
<1>4. newDir \in [Entries -> Entry]
  BY DEF FileInv, FileTypes, TypeOK
<1>5. /\ \A i \in Entries \ {k} : newDir[i] = d[i]
      /\ newDir[k].inUse /\ newDir[k].sector = op.sector /\ newDir[k].name = op.name
  BY <1>2 DEF WithEntry
<1>6. /\ \A i \in Entries \ {k} : dir[i] = d[i]
      /\ dir[k].name \in {op.name, d[k].name}
      /\ dir[k].inUse => headers = h2 /\ dir[k].sector = newDir[k].sector
  <2>1. CASE dir = d
    BY <1>3, <2>1
  <2>2. CASE headers = h2 /\ dir = newDir
    BY <1>5, <2>2
  <2>3. CASE headers = h2 /\ dir = FirstHalf(d, newDir)
    <3>1. /\ \A i \in Entries \ {k} : dir[i] = d[i]
          /\ dir[k].name \in {d[k].name, newDir[k].name}
          /\ \/ dir[k].inUse = d[k].inUse /\ dir[k].sector = d[k].sector
             \/ dir[k].inUse = newDir[k].inUse /\ dir[k].sector = newDir[k].sector
      BY <1>4, <1>5, <2>3, HalfIs
    <3> QED
      BY <1>3, <1>5, <2>3, <3>1
  <2> QED
    BY <1>2, <2>1, <2>2, <2>3
<1>7. \A i \in InUse(d) : headers[d[i].sector] = h[d[i].sector]
  BY <1>2
<1>8. NamesInOrder(d) /\ Metadata \subseteq map /\ \A i \in InUse(d) : Own(d, h, i) \subseteq map
  BY <1>2 DEF Tidy
<1>9. ASSUME NEW n \in DOMAIN files \ ({op.name} \cup spoiled)
      PROVE  /\ n \in DOMAIN View(dir, headers) /\ View(dir, headers)[n] = files[n]
             /\ Owned(files[n]) \subseteq map /\ Metadata \subseteq map
  <2>1. /\ n \in DOMAIN View(dir, headers) /\ View(dir, headers)[n] = files[n]
        /\ \E i \in InUse(d) : i # k /\ Owned(files[n]) = Own(d, h, i)
    BY <1>2, <1>3, <1>6, <1>7, <1>8, OthersFound
  <2> QED
    BY <1>8, <2>1
<1>10. \A i, j \in InUse(dir) : dir[j].sector \notin Range(headers[dir[i].sector].dataSectors)
  <2>1. CASE headers = h2
    <3>1. \A i \in InUse(dir) : i \in InUse(newDir) /\ dir[i].sector = newDir[i].sector
      BY <1>5, <1>6 DEF InUse
    <3> QED
      BY <1>2, <2>1, <3>1, NoHeaderInData
  <2>2. CASE headers = h /\ headers # h2
    <3>1. \A i \in InUse(dir) : i \in InUse(d) /\ dir[i].sector = d[i].sector
      BY <1>6, <2>2 DEF InUse
    <3> QED
      BY <1>2, <2>2, <3>1, NoHeaderInData
  <2> QED
    BY <1>2, <2>1, <2>2
<1> QED
  BY <1>9, <1>10 DEF Spared

LEMMA RemoveSpares == ASSUME FileInv, crashes = 0, todo \in RemoveTodo PROVE Spared
<1>1. PICK d \in [Entries -> Entry], m \in SUBSET Sectors, k \in Entries : Removing(d, m, k)
  BY DEF FileInv, IsRemoving
<1>2. /\ Tidy(m, d, headers) /\ OthersSound(d, headers, spoiled) /\ Recorded(files, d, headers)
      /\ Tidy(newMap, newDir, headers)
      /\ k \in InUse(d) /\ newDir = Without(d, k) /\ d[k].name = op.name
      /\ map = m \/ map = newMap
      /\ dir = d \/ dir = FirstHalf(d, newDir)
  BY <1>1 DEF Removing, Before, After
<1>3. newDir \in [Entries -> Entry]
  BY DEF FileInv, FileTypes, TypeOK
<1>4. /\ InUse(newDir) = InUse(d) \ {k}
      /\ newDir[k].name = d[k].name /\ newDir[k].sector = d[k].sector
      /\ \A i \in Entries \ {k} : newDir[i] = d[i]
      /\ \A i \in InUse(d) \ {k} : Own(newDir, headers, i) = Own(d, headers, i)
  BY <1>2, EntryRemoved
<1>5. /\ \A i \in Entries \ {k} : dir[i] = d[i]
      /\ dir[k].name \in {op.name, d[k].name} /\ dir[k].sector = d[k].sector
  <2>1. CASE dir = d
    BY <2>1
  <2>2. CASE dir = FirstHalf(d, newDir)
    <3>1. /\ \A i \in Entries \ {k} : dir[i] = d[i]
          /\ dir[k].name \in {d[k].name, newDir[k].name}
          /\ \/ dir[k].inUse = d[k].inUse /\ dir[k].sector = d[k].sector
             \/ dir[k].inUse = newDir[k].inUse /\ dir[k].sector = newDir[k].sector
      BY <1>3, <1>4, <2>2, HalfIs
    <3> QED
      BY <1>4, <3>1
  <2> QED
    BY <1>2, <2>1, <2>2
<1>6. NamesInOrder(d)
  BY <1>2 DEF Tidy
<1>7. Metadata \subseteq map /\ \A i \in InUse(d) \ {k} : Own(d, headers, i) \subseteq map
  BY <1>2, <1>4 DEF Tidy
<1>8. ASSUME NEW n \in DOMAIN files \ ({op.name} \cup spoiled)
      PROVE  /\ n \in DOMAIN View(dir, headers) /\ View(dir, headers)[n] = files[n]
             /\ Owned(files[n]) \subseteq map /\ Metadata \subseteq map
  <2>1. /\ n \in DOMAIN View(dir, headers) /\ View(dir, headers)[n] = files[n]
        /\ \E i \in InUse(d) : i # k /\ Owned(files[n]) = Own(d, headers, i)
    <3>1. PICK h : h = headers
      OBVIOUS
    <3>2. Recorded(files, d, h) /\ OthersSound(d, h, spoiled) /\ k \in InUse(d) /\ d[k].name = op.name
      BY <1>2, <3>1
    <3>3. \A i \in InUse(d) : headers[d[i].sector] = h[d[i].sector]
      BY <3>1
    <3>4. /\ n \in DOMAIN View(dir, headers) /\ View(dir, headers)[n] = files[n]
          /\ \E i \in InUse(d) : i # k /\ Owned(files[n]) = Own(d, h, i)
      BY <1>5, <1>6, <3>2, <3>3, OthersFound
    <3> QED
      BY <3>1, <3>4
  <2> QED
    BY <1>7, <2>1
<1>9. \A i \in InUse(dir) : i \in InUse(d) /\ dir[i].sector = d[i].sector
  BY <1>2, <1>5 DEF InUse
<1>10. \A i, j \in InUse(dir) : dir[j].sector \notin Range(headers[dir[i].sector].dataSectors)
  BY <1>2, <1>9, NoHeaderInData
<1> QED
  BY <1>8, <1>10 DEF Spared

LEMMA CrashStep ==
    ASSUME FileInv, Crash, crashes = 0
    PROVE  CrashedInv'
<1>1. todo \in CreateTodo \cup RemoveTodo
  BY DEF FileInv, FileTypes, Crash
<1>2. Spared
  BY <1>1, CreateSpares, RemoveSpares
<1>3. UNCHANGED <<map, dir, headers, files, spoiled>> /\ open' = Closed
  BY DEF Crash, disk
<1>4. op'.name = op.name
  BY DEF Crash, FileInv, FileTypes
<1>5. CrashSparesOthers'
  BY <1>2, <1>3, <1>4 DEF Spared, CrashSparesOthers
<1>6. \A i, j \in InUse(dir') : dir'[j].sector \notin Range(headers'[dir'[i].sector].dataSectors)
  BY <1>2, <1>3 DEF Spared
<1>7. open'.after = {} /\ Range(open'.hdr.dataSectors) = {}
  BY <1>3, BlankTypes DEF Closed, NoHeader
<1> QED
  BY <1>5, <1>6, <1>7 DEF CrashedInv

LEMMA WriteDataStep ==
    ASSUME FileInv, crashes = 0, NEW i \in 1..NumDirect, WriteData(i)
    PROVE  QuietInv'
<1>1. FileTypes /\ QuietInv /\ todo = <<>> /\ i \in DOMAIN open.hdr.dataSectors
  BY DEF FileInv, WriteData
<1> DEFINE x == open.hdr.dataSectors[i]
<1>2. x \in Sectors /\ x \in Range(open.hdr.dataSectors)
  BY <1>1 DEF FileTypes, TypeOK, Header, Range
<1>3. /\ headers' = WithHeader(headers, x, Data) /\ spoiled' = spoiled \cup open.after
      /\ UNCHANGED <<map, dir, files, open>>
  BY DEF WriteData, WithHeader
<1> HIDE DEF x
<1>4. /\ Tidy(map, dir, headers) /\ OthersSound(dir, headers, spoiled)
      /\ Recorded(files, dir, headers) /\ OpenFits(open, dir, headers)
  BY <1>1 DEF QuietInv
<1>5. ASSUME NEW j \in InUse(dir), dir[j].sector = x PROVE dir[j].name \in spoiled' /\ ~open.live
  <2>1. CASE open.live
    <3>1. PICK e \in InUse(dir) : headers[dir[e].sector] = open.hdr
      BY <1>4, <2>1 DEF OpenFits
    <3>2. dir[j].sector \notin Range(headers[dir[e].sector].dataSectors)
      BY <1>4, NoHeaderInData
    <3> QED
      BY <1>2, <1>5, <3>1, <3>2
  <2>2. CASE ~open.live
    <3>1. x \in Own(dir, headers, j)
      BY <1>5 DEF Own
    <3>2. dir[j].name \in open.after
      BY <1>2, <1>4, <2>2, <3>1 DEF OpenFits
    <3> QED
      BY <1>3, <2>2, <3>2
  <2> QED
    BY <2>1, <2>2
<1>6. dir \in [Entries -> Entry] /\ headers \in [Sectors -> Header] /\ spoiled \subseteq spoiled'
  BY <1>1, <1>3 DEF FileTypes, TypeOK
<1>7. /\ Tidy(map, dir, WithHeader(headers, x, Data))
      /\ OthersSound(dir, WithHeader(headers, x, Data), spoiled')
      /\ Recorded(files, dir, WithHeader(headers, x, Data))
      /\ OpenFits(open, dir, WithHeader(headers, x, Data))
  BY <1>2, <1>4, <1>5, <1>6, Overwritten
<1>8. /\ Tidy(map', dir', headers') /\ OthersSound(dir', headers', spoiled')
      /\ Recorded(files', dir', headers') /\ OpenFits(open', dir', headers')
  BY <1>3, <1>7
<1> QED
  BY <1>8 DEF QuietInv

LEMMA SameView ==
    ASSUME NEW d, NEW h, NEW h2, \A i \in InUse(d) : h2[d[i].sector] = h[d[i].sector]
    PROVE  View(d, h2) = View(d, h)
<1>1. ASSUME NEW n \in Names, FindIndex(d, n) # -1
      PROVE  h2[d[FindIndex(d, n)].sector] = h[d[FindIndex(d, n)].sector]
  <2>1. FindIndex(d, n) \in InUse(d)
    BY <1>1, Found DEF Holds, InUse
  <2> QED
    BY <2>1
<1> QED
  BY <1>1 DEF View

LEMMA WriteDataCrashed ==
    ASSUME FileTypes, CrashedInv, crashes = 1, dirty, todo = <<>>,
           NEW i \in 1..NumDirect, WriteData(i)
    PROVE  CrashedInv'
<1> DEFINE x == open.hdr.dataSectors[i]
<1>1. x \in Range(open.hdr.dataSectors)
  BY DEF WriteData, Range
<1>2. /\ headers' = [headers EXCEPT ![x] = Data] /\ spoiled' = spoiled \cup open.after
      /\ UNCHANGED <<map, dir, files, open, op, dirty, crashes, todo>>
  BY DEF WriteData, memory
<1> HIDE DEF x
<1>3. \A j \in InUse(dir) : dir[j].sector \in Sectors /\ dir[j].sector # x
  BY <1>1 DEF CrashedInv, FileTypes, TypeOK, Entry, InUse
<1>4. \A j \in InUse(dir) : headers'[dir[j].sector] = headers[dir[j].sector]
  BY <1>2, <1>3 DEF FileTypes, TypeOK
<1>5. View(dir, headers') = View(dir, headers) /\ spoiled' = spoiled
  BY <1>2, <1>4, SameView DEF CrashedInv
<1>6. CrashSparesOthers'
  BY <1>2, <1>5 DEF CrashedInv, CrashSparesOthers
<1>7. \A e, j \in InUse(dir') : dir'[j].sector \notin Range(headers'[dir'[e].sector].dataSectors)
  BY <1>2, <1>4 DEF CrashedInv
<1> QED
  BY <1>2, <1>6, <1>7 DEF CrashedInv

LEMMA OpenStep ==
    ASSUME FileInv, NEW n \in Names, Open(n)
    PROVE  /\ QuietInv => QuietInv'
           /\ CrashedInv => CrashedInv'
<1>1. PICK k \in Entries : k = FindIndex(dir, n) /\ Holds(dir, k, n)
  BY Found DEF Open
<1>2. k \in InUse(dir) /\ dir[k].name = n
  BY <1>1 DEF InUse, Holds
<1>3. open' = [name |-> n, hdr |-> headers[dir[k].sector], live |-> TRUE, after |-> {}]
  BY <1>1 DEF Open
<1>4. UNCHANGED <<map, dir, headers, op, todo, files, crashes, dirty, spoiled>>
  BY DEF Open, disk, memory
<1>5. open'.name = n /\ open'.hdr = headers[dir[k].sector] /\ open'.live /\ open'.after = {}
  BY <1>3
<1>6. OpenFits(open', dir', headers')
  BY <1>2, <1>4, <1>5 DEF OpenFits
<1>7. QuietInv => QuietInv'
  BY <1>4, <1>6 DEF QuietInv
<1>8. ASSUME CrashedInv PROVE CrashedInv'
  <2>1. CrashSparesOthers'
    BY <1>4, <1>8 DEF CrashedInv, CrashSparesOthers
  <2>2. \A j \in InUse(dir) : dir[j].sector \notin Range(open'.hdr.dataSectors)
    BY <1>2, <1>5, <1>8 DEF CrashedInv
  <2> QED
    BY <1>4, <1>5, <1>8, <2>1, <2>2 DEF CrashedInv
<1> QED
  BY <1>7, <1>8

LEMMA CloseStep ==
    ASSUME Close
    PROVE  /\ QuietInv => QuietInv'
           /\ CrashedInv => CrashedInv'
<1>1. open' = Closed /\ UNCHANGED <<map, dir, headers, op, todo, files, crashes, dirty, spoiled>>
  BY DEF Close, disk, memory
<1>2. Closed.live = FALSE /\ Range(Closed.hdr.dataSectors) = {} /\ Closed.after = {}
  BY BlankTypes DEF Closed, NoHeader
<1>3. ~open'.live /\ Range(open'.hdr.dataSectors) = {} /\ open'.after = {}
  BY <1>1, <1>2
<1>4. OpenFits(open', dir', headers')
  BY <1>3 DEF OpenFits
<1>5. QuietInv => QuietInv'
  BY <1>1, <1>4 DEF QuietInv
<1>6. CrashedInv => CrashedInv'
  BY <1>1, <1>3 DEF CrashedInv, CrashSparesOthers
<1> QED
  BY <1>5, <1>6

LEMMA FileStep ==
    ASSUME SizesFit, FileInv, [Next]_fvars
    PROVE  FileInv'
<1>1. FileTypes' /\ FileTypes
  BY TypesKept DEF FileInv
<1>2. ~(<<>> \in CreateTodo \cup RemoveTodo) /\ CreateTodo \cap RemoveTodo = {}
  BY TodoIs
<1>3. ASSUME NEW n \in Names, NEW size \in Sizes, Create(n, size) PROVE FileInv'
  <2>1. todo' \in CreateTodo /\ crashes' = crashes
    BY <1>3 DEF Create, CreateTodo
  <2>2. crashes = 0 => IsCreating'
    BY <1>3, CreateStep
  <2> QED
    BY <1>1, <1>2, <2>1, <2>2 DEF FileInv
<1>4. ASSUME NEW n \in Names, Remove(n) PROVE FileInv'
  <2>1. todo' \in RemoveTodo /\ crashes' = crashes
    BY <1>4 DEF Remove, RemoveTodo
  <2>2. crashes = 0 => IsRemoving'
    BY <1>4, RemoveStep
  <2> QED
    BY <1>1, <1>2, <2>1, <2>2 DEF FileInv
<1>5. CASE WriteSector
  <2>1. crashes' = crashes /\ todo # <<>> /\ ~(dirty' /\ todo' = <<>>)
    BY <1>5 DEF WriteSector
  <2>2. todo \in CreateTodo \/ todo \in RemoveTodo
    BY <1>1, <2>1 DEF FileTypes
  <2>3. crashes = 0 => \/ todo' = <<>> /\ QuietInv'
                       \/ todo' \in CreateTodo /\ IsCreating'
                       \/ todo' \in RemoveTodo /\ IsRemoving'
    BY <1>5, <2>2, CreateWrites, RemoveWrites
  <2> QED
    BY <1>1, <1>2, <2>1, <2>3 DEF FileInv
<1>6. CASE Crash
  <2>1. todo' = <<>> /\ crashes' = crashes + 1 /\ crashes \in Nat
    BY <1>1, <1>6, FileSystemAssumption DEF Crash, FileTypes, TypeOK
  <2>2. crashes = 0 => CrashedInv'
    BY <1>6, CrashStep
  <2> QED
    BY <1>1, <1>2, <2>1, <2>2 DEF FileInv
<1>7. ASSUME todo' = todo, todo = <<>>, crashes' = crashes, dirty' = dirty,
             crashes = 0 => QuietInv',
             crashes = 1 /\ dirty => CrashedInv'
      PROVE  FileInv'
  BY <1>1, <1>2, <1>7 DEF FileInv
<1>8. ASSUME NEW n \in Names, Open(n) PROVE FileInv'
  <2>1. todo' = todo /\ todo = <<>> /\ crashes' = crashes /\ dirty' = dirty
    BY <1>8 DEF Open
  <2>2. (crashes = 0 => QuietInv') /\ (crashes = 1 /\ dirty => CrashedInv')
    BY <1>8, <2>1, OpenStep DEF FileInv
  <2> QED
    BY <1>7, <2>1, <2>2
<1>9. ASSUME NEW i \in 1..NumDirect, WriteData(i) PROVE FileInv'
  <2>1. todo' = todo /\ todo = <<>> /\ crashes' = crashes /\ dirty' = dirty
    BY <1>9 DEF WriteData
  <2>2. crashes = 0 => QuietInv'
    BY <1>9, WriteDataStep
  <2>3. crashes = 1 /\ dirty => CrashedInv'
    BY <1>1, <1>9, <2>1, WriteDataCrashed DEF FileInv
  <2> QED
    BY <1>7, <2>1, <2>2, <2>3
<1>10. CASE Close
  <2>1. todo' = todo /\ todo = <<>> /\ crashes' = crashes /\ dirty' = dirty
    BY <1>10 DEF Close
  <2>2. (crashes = 0 => QuietInv') /\ (crashes = 1 /\ dirty => CrashedInv')
    BY <1>10, <2>1, CloseStep DEF FileInv
  <2> QED
    BY <1>7, <2>1, <2>2
<1>11. CASE UNCHANGED fvars
  <2>1. UNCHANGED <<map, dir, headers, op, newMap, newDir, newHdr, todo, files, crashes, dirty, open, spoiled>>
    BY <1>11 DEF fvars, disk, memory
  <2>2. IsCreating => IsCreating'
    BY <2>1 DEF IsCreating, Creating, Before, After
  <2>3. IsRemoving => IsRemoving'
    BY <2>1 DEF IsRemoving, Removing, Before, After
  <2>4. (QuietInv => QuietInv') /\ (CrashedInv => CrashedInv')
    BY <2>1 DEF QuietInv, CrashedInv, CrashSparesOthers
  <2> QED
    BY <1>1, <2>1, <2>2, <2>3, <2>4 DEF FileInv
<1>12. \A n, size : (CreateFails(n, size) \/ RemoveFails(n) \/ OpenFails(n)) => UNCHANGED fvars
  BY DEF CreateFails, RemoveFails, OpenFails
<1> QED
  BY <1>3, <1>4, <1>5, <1>6, <1>8, <1>9, <1>10, <1>11, <1>12, Zenon DEF Next

-----------------------------------------------------------------------------

(* A file has as many sectors as its size needs, and one for its header. *)
LEMMA SectorsOfFile ==
    ASSUME NEW f, f.hdr \in Header, WellAllocated(f)
    PROVE  Cardinality(Owned(f)) = 1 + divRoundUp(f.hdr.numBytes, SectorSize)
<1> DEFINE ds == f.hdr.dataSectors
           N == Len(ds)
<1>1. ds \in Seq(Sectors)
  BY DEF Header
<1>2. N \in Nat /\ DOMAIN ds = 1..N
  BY <1>1
<1>3. /\ f.sector \notin Range(ds) /\ N = divRoundUp(f.hdr.numBytes, SectorSize)
      /\ \A i, j \in 1..N : ds[i] = ds[j] => i = j
  BY DEF WellAllocated
<1>4. Owned(f) = Range(ds) \cup {f.sector}
  BY DEF Owned
<1> HIDE DEF ds, N
<1>5. ds \in [1..N -> Range(ds)]
  BY <1>1, <1>2 DEF Range
<1>6. ds \in Bijection(1..N, Range(ds))
  BY <1>2, <1>3, <1>5 DEF Bijection, Injection, Surjection, IsInjective, Range
<1>7. ExistsBijection(1..N, Range(ds))
  BY <1>6 DEF ExistsBijection
<1>8. Cardinality(Range(ds)) = N /\ IsFiniteSet(Range(ds))
  BY <1>2, <1>7, FS_CountingElements, FS_NatBijection
<1>9. Cardinality(Owned(f)) = N + 1
  BY <1>3, <1>4, <1>8, FS_AddElement
<1> QED
  BY <1>2, <1>3, <1>9

LEMMA QuietAccounts ==
    ASSUME FileTypes, QuietInv, spoiled = {}
    PROVE  /\ map = Metadata \cup UNION {Owned(files[n]) : n \in DOMAIN files}
           /\ \A n \in DOMAIN files :
                /\ Owned(files[n]) \cap Metadata = {}
                /\ Cardinality(Owned(files[n])) = 1 + divRoundUp(files[n].hdr.numBytes, SectorSize)
                /\ \A m \in DOMAIN files \ {n} : Owned(files[n]) \cap Owned(files[m]) = {}
<1>1. /\ Tidy(map, dir, headers) /\ Recorded(files, dir, headers)
      /\ \A i \in InUse(dir) : Sound(headers[dir[i].sector])
  BY DEF QuietInv, OthersSound
<1>2. ASSUME NEW n \in DOMAIN files
      PROVE  \E i \in InUse(dir) : /\ dir[i].name = n /\ files[n] = At(dir, headers, i)
                                   /\ Owned(files[n]) = Own(dir, headers, i)
  <2>1. PICK i \in InUse(dir) : dir[i].name = n /\ files[n] = At(dir, headers, i)
    BY <1>1 DEF Recorded
  <2>2. Owned(At(dir, headers, i)) = Own(dir, headers, i)
    BY DEF Owned, At, Own
  <2> QED
    BY <2>1, <2>2
<1>3. ASSUME NEW i \in InUse(dir)
      PROVE  dir[i].name \in DOMAIN files /\ Owned(files[dir[i].name]) = Own(dir, headers, i)
  <2>1. dir[i].name \in DOMAIN files /\ files[dir[i].name] = At(dir, headers, i)
    BY <1>1 DEF Recorded
  <2>2. Owned(At(dir, headers, i)) = Own(dir, headers, i)
    BY DEF Owned, At, Own
  <2> QED
    BY <2>1, <2>2
<1>4. map = Metadata \cup UNION {Owned(files[n]) : n \in DOMAIN files}
  <2>1. ASSUME NEW x \in map \ Metadata PROVE \E n \in DOMAIN files : x \in Owned(files[n])
    BY <1>1, <1>3, <2>1 DEF Tidy
  <2>2. ASSUME NEW n \in DOMAIN files PROVE Owned(files[n]) \subseteq map
    BY <1>1, <1>2 DEF Tidy
  <2>3. Metadata \subseteq map
    BY <1>1 DEF Tidy
  <2> QED
    BY <2>1, <2>2, <2>3
<1>5. ASSUME NEW n \in DOMAIN files
      PROVE  /\ Owned(files[n]) \cap Metadata = {}
             /\ Cardinality(Owned(files[n])) = 1 + divRoundUp(files[n].hdr.numBytes, SectorSize)
             /\ \A m \in DOMAIN files \ {n} : Owned(files[n]) \cap Owned(files[m]) = {}
  <2>1. PICK i \in InUse(dir) : /\ dir[i].name = n /\ files[n] = At(dir, headers, i)
                                /\ Owned(files[n]) = Own(dir, headers, i)
    BY <1>2
  <2>2. Owned(files[n]) \cap Metadata = {}
    BY <1>1, <2>1 DEF Tidy
  <2>3. files[n].hdr \in Header
    BY <2>1 DEF At, FileTypes, TypeOK, Entry, InUse
  <2>4. WellAllocated(files[n])
    BY <1>1, <2>1 DEF Tidy
  <2>5. ASSUME NEW m \in DOMAIN files \ {n} PROVE Owned(files[n]) \cap Owned(files[m]) = {}
    <3>1. PICK j \in InUse(dir) : dir[j].name = m /\ Owned(files[m]) = Own(dir, headers, j)
      BY <1>2
    <3>2. i # j
      BY <2>1, <3>1
    <3> QED
      BY <1>1, <2>1, <3>1, <3>2 DEF Tidy
  <2> QED
    BY <2>2, <2>3, <2>4, <2>5, SectorsOfFile
<1> QED
  BY <1>4, <1>5

(* filesys.cc, FileSystem::Create and Remove: over any sequence of calls,  *)
(* on any disk, no sector is leaked or shared.                             *)
THEOREM NothingLeaksNothingShared ==
    ASSUME SizesFit
    PROVE  Spec => []SectorsAccounted
<1>1. FileInv => SectorsAccounted
  BY QuietAccounts DEF FileInv, FileTypes, SectorsAccounted
<1>2. FileInv /\ [Next]_fvars => FileInv'
  BY FileStep
<1> QED
  BY <1>1, <1>2, InitFile, PTL DEF Spec

(* openfile.cc, OpenFile::WriteAt with the header read at Open: the writes *)
(* of an OpenFile whose file is gone can only hit files created since.     *)
THEOREM OpenFileSparesOlderFiles ==
    ASSUME SizesFit
    PROVE  Spec => []WritesSpareOthers
<1>1. FileInv => WritesSpareOthers
  <2> SUFFICES ASSUME FileInv, todo = <<>>, crashes = 0, NEW n \in DOMAIN files \ spoiled
               PROVE  View(dir, headers)[n] = files[n]
    BY DEF WritesSpareOthers
  <2>1. QuietInv
    BY DEF FileInv
  <2>2. PICK i \in InUse(dir) : dir[i].name = n
    BY <2>1 DEF QuietInv, Recorded
  <2>3. files[n] = At(dir, headers, i)
    BY <2>1, <2>2 DEF QuietInv, OthersSound, Recorded
  <2> QED
    BY <2>1, <2>2, <2>3, ViewOfTidy DEF QuietInv, Tidy
<1>2. FileInv /\ [Next]_fvars => FileInv'
  BY FileStep
<1> QED
  BY <1>1, <1>2, InitFile, PTL DEF Spec

(* filesys.cc, a crash between any two sector writes of Create or Remove:  *)
(* the other files are still found, with their headers and sectors.        *)
THEOREM CrashLeavesOtherFiles ==
    ASSUME SizesFit
    PROVE  Spec => []CrashSparesOthers
<1>1. FileInv => CrashSparesOthers
  BY DEF FileInv, CrashedInv, CrashSparesOthers
<1>2. FileInv /\ [Next]_fvars => FileInv'
  BY FileStep
<1> QED
  BY <1>1, <1>2, InitFile, PTL DEF Spec

-----------------------------------------------------------------------------
(***************************************************************************)
(* The refinement of AbstractFileStore.                                    *)
(***************************************************************************)

SizesOf(fl) == [n \in DOMAIN fl |-> fl[n].hdr.numBytes]

LEMMA CreateRefines ==
    ASSUME FileInv, crashes = 0, spoiled = {}, WriteSector, todo = <<"map">>
    PROVE  \E n \in Names, size \in Sizes :
             /\ n \notin DOMAIN files
             /\ SizesOf(files') = [m \in DOMAIN files \cup {n} |->
                                     IF m = n THEN size ELSE SizesOf(files)[m]]
<1>1. PICK d \in [Entries -> Entry], h \in [Sectors -> Header], k \in Entries : Creating(d, h, k)
  BY DEF FileInv, IsCreating, CreateTodo
<1> DEFINE h2 == WithHeader(h, op.sector, newHdr)
           n == op.name
<1>2. /\ OthersSound(d, h, spoiled) /\ Recorded(files, d, h) /\ Tidy(newMap, newDir, h2)
      /\ k \in FreeEntries(d) /\ newDir = WithEntry(d, k, op.sector, n)
      /\ n \in Names /\ \A i \in InUse(d) : d[i].name # n
      /\ \A i \in InUse(d) : h2[d[i].sector] = h[d[i].sector]
      /\ newHdr.numBytes \in Sizes /\ headers = h2 /\ dir = newDir
  BY <1>1 DEF Creating, Before, After
<1>3. Head(todo) = "map" /\ todo' = <<>>
  BY DEF WriteSector
<1>4. files' = View(newDir, h2)
  BY <1>2, <1>3 DEF WriteSector
<1>5. op.sector \in Sectors
  BY DEF FileInv, FileTypes
<1>6. h2[op.sector] = newHdr
  BY <1>5 DEF WithHeader
<1> HIDE DEF h2, n
<1>7. k \notin InUse(d)
  BY <1>2 DEF FreeEntries, InUse
<1>8. /\ \A i \in Entries \ {k} : newDir[i] = d[i]
      /\ newDir[k].inUse /\ newDir[k].sector = op.sector /\ newDir[k].name = n
  BY <1>2 DEF WithEntry
<1>9. InUse(newDir) = InUse(d) \cup {k}
  BY <1>8 DEF InUse
<1>10. /\ DOMAIN files' = {newDir[i].name : i \in InUse(newDir)}
       /\ \A i \in InUse(newDir) : files'[newDir[i].name] = At(newDir, h2, i)
  <2>1. NamesInOrder(newDir)
    BY <1>2 DEF Tidy
  <2> QED
    BY <1>4, <2>1, ViewOfTidy
<1>11. /\ DOMAIN files = {d[i].name : i \in InUse(d)}
       /\ \A i \in InUse(d) : files[d[i].name] = At(d, h, i)
  BY <1>2 DEF Recorded, OthersSound
<1>12. \A i \in InUse(d) : newDir[i] = d[i] /\ At(newDir, h2, i) = At(d, h, i)
  BY <1>2, <1>7, <1>8 DEF InUse, At
<1>13. n \notin DOMAIN files /\ DOMAIN files' = DOMAIN files \cup {n}
  <2>1. n \notin DOMAIN files
    BY <1>2, <1>11
  <2>2. ASSUME NEW m \in DOMAIN files' PROVE m \in DOMAIN files \cup {n}
    BY <1>8, <1>9, <1>10, <1>11, <1>12
  <2>3. ASSUME NEW m \in DOMAIN files PROVE m \in DOMAIN files'
    BY <1>9, <1>10, <1>11, <1>12
  <2>4. n \in DOMAIN files'
    BY <1>8, <1>9, <1>10
  <2> QED
    BY <2>1, <2>2, <2>3, <2>4
<1>14. \A m \in DOMAIN files : files'[m] = files[m]
  BY <1>9, <1>10, <1>11, <1>12
<1>15. files'[n].hdr = newHdr
  <2>1. files'[n] = At(newDir, h2, k)
    BY <1>8, <1>9, <1>10
  <2> QED
    BY <1>6, <1>8, <2>1 DEF At
<1>16. SizesOf(files') = [m \in DOMAIN files \cup {n} |->
                            IF m = n THEN newHdr.numBytes ELSE SizesOf(files)[m]]
  BY <1>13, <1>14, <1>15 DEF SizesOf
<1> QED
  BY <1>2, <1>13, <1>16

LEMMA RemoveRefines ==
    ASSUME FileInv, crashes = 0, spoiled = {}, WriteSector, todo = <<"dir2">>
    PROVE  \E n \in Names :
             /\ n \in DOMAIN files
             /\ SizesOf(files') = [m \in DOMAIN files \ {n} |-> SizesOf(files)[m]]
<1>1. PICK d \in [Entries -> Entry], m \in SUBSET Sectors, k \in Entries : Removing(d, m, k)
  BY DEF FileInv, IsRemoving, RemoveTodo
<1> DEFINE n == d[k].name
<1>2. /\ OthersSound(d, headers, spoiled) /\ Recorded(files, d, headers) /\ Tidy(newMap, newDir, headers)
      /\ k \in InUse(d) /\ newDir = Without(d, k) /\ NamesInOrder(d)
  BY <1>1 DEF Removing, Before, After, Tidy
<1>3. Head(todo) = "dir2" /\ todo' = <<>>
  BY DEF WriteSector
<1>4. files' = View(newDir, headers)
  BY <1>3 DEF WriteSector
<1>5. /\ InUse(newDir) = InUse(d) \ {k}
      /\ \A i \in Entries \ {k} : newDir[i] = d[i]
      /\ \A i \in InUse(d) \ {k} : At(newDir, headers, i) = At(d, headers, i)
  BY <1>2, EntryRemoved
<1>6. /\ DOMAIN files' = {newDir[i].name : i \in InUse(newDir)}
      /\ \A i \in InUse(newDir) : files'[newDir[i].name] = At(newDir, headers, i)
  <2>1. NamesInOrder(newDir)
    BY <1>2 DEF Tidy
  <2> QED
    BY <1>4, <2>1, ViewOfTidy
<1>7. /\ DOMAIN files = {d[i].name : i \in InUse(d)}
      /\ \A i \in InUse(d) : files[d[i].name] = At(d, headers, i)
  BY <1>2 DEF Recorded, OthersSound
<1>8. \A i \in InUse(d) \ {k} : newDir[i] = d[i] /\ d[i].name # n
  BY <1>2, <1>5 DEF InUse, NamesInOrder
<1> HIDE DEF n
<1>9. n \in DOMAIN files /\ n \in Names
  BY <1>2, <1>7 DEF n, NamesInOrder
<1>10. DOMAIN files' = DOMAIN files \ {n}
  <2>1. ASSUME NEW x \in DOMAIN files' PROVE x \in DOMAIN files \ {n}
    BY <1>5, <1>6, <1>7, <1>8
  <2>2. ASSUME NEW x \in DOMAIN files \ {n} PROVE x \in DOMAIN files'
    <3>1. PICK i \in InUse(d) : x = d[i].name
      BY <1>7
    <3>2. i # k
      BY <3>1 DEF n
    <3> QED
      BY <1>5, <1>6, <1>8, <3>1, <3>2
  <2> QED
    BY <2>1, <2>2
<1>11. \A x \in DOMAIN files' : files'[x] = files[x]
  BY <1>5, <1>6, <1>7, <1>8
<1>12. SizesOf(files') = [x \in DOMAIN files \ {n} |-> SizesOf(files)[x]]
  BY <1>10, <1>11 DEF SizesOf
<1> QED
  BY <1>9, <1>12

LEMMA StepRefines ==
    ASSUME FileInv, [Next]_fvars, crashes = 0, spoiled = {}, SizesOf(files') # SizesOf(files)
    PROVE  Abstract!SNext
<1>1. WriteSector /\ todo' = <<>>
  <2>1. files' # files
    OBVIOUS
  <2>2. WriteSector
    <3>1. (UNCHANGED fvars \/ Close \/ Crash) => files' = files
      BY DEF fvars, Close, Crash
    <3>2. ASSUME NEW n, NEW size
          PROVE  (Create(n, size) \/ CreateFails(n, size) \/ Remove(n) \/ RemoveFails(n)
                  \/ Open(n) \/ OpenFails(n) \/ WriteData(n)) => files' = files
      BY DEF fvars, Create, CreateFails, Remove, RemoveFails, Open, OpenFails, WriteData
    <3> QED
      BY <2>1, <3>1, <3>2, Zenon DEF Next
  <2> QED
    BY <2>1, <2>2 DEF WriteSector
<1>2. todo = <<"map">> \/ todo = <<"dir2">>
  <2>1. todo \in CreateTodo \cup RemoveTodo /\ Tail(todo) = <<>>
    BY <1>1 DEF WriteSector, FileInv, FileTypes
  <2> QED
    BY <2>1, TailOfCreate, TailOfRemove
<1>3. CASE todo = <<"map">>
  BY <1>1, <1>3, CreateRefines DEF SizesOf, Abstract!SNext, Abstract!ACreate
<1>4. CASE todo = <<"dir2">>
  BY <1>1, <1>4, RemoveRefines DEF SizesOf, Abstract!SNext, Abstract!ARemove
<1> QED
  BY <1>2, <1>3, <1>4

(* filesys.h: Create and Remove, made of sector writes to a bitmap, two    *)
(* halves of a directory and a header, act as one step on a set of files.  *)
THEOREM FileStoreRefinement ==
    ASSUME SizesFit
    PROVE  Spec => ImplementsFileStore
<1>1. Init => Abstract!SInit
  <2> SUFFICES ASSUME Init PROVE [n \in DOMAIN files |-> files[n].hdr.numBytes] = <<>>
    BY DEF Abstract!SInit
  <2>1. files = <<>> /\ DOMAIN files = {}
    BY DEF Init
  <2> QED
    BY <2>1
<1>2. FileInv /\ [Next]_fvars => FileInv'
  BY FileStep
<1>3. FileInv /\ [Next]_fvars => [crashes = 0 /\ spoiled = {} => Abstract!SNext]_(Abstract!svars)
  <2> SUFFICES ASSUME FileInv, [Next]_fvars, crashes = 0, spoiled = {}, ~ UNCHANGED Abstract!svars
               PROVE  Abstract!SNext
    OBVIOUS
  <2>1. SizesOf(files') # SizesOf(files)
    BY DEF SizesOf, Abstract!svars
  <2> QED
    BY <2>1, StepRefines
<1> QED
  BY <1>1, <1>2, <1>3, InitFile, PTL DEF Spec, ImplementsFileStore

=============================================================================
