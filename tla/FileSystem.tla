----------------------------- MODULE FileSystem -----------------------------
(***************************************************************************)
(* The Nachos file system's metadata (filesys/filesys.cc, directory.cc,    *)
(* filehdr.cc, userprog/bitmap.cc): Create and Remove as the sequence of   *)
(* sector writes they make, and a crash between any two of them.           *)
(*                                                                         *)
(* One operation at a time, as filesys.cc assumes.  A name stands for its  *)
(* first FileNameMaxLen characters, which is all Directory compares.  The  *)
(* bitmap fills one sector; the directory fills two, and the entry         *)
(* "Straddle" has its name in the second one (200 bytes, 128 per sector:   *)
(* entry 6).                                                               *)
(*                                                                         *)
(* One OpenFile at a time is open.  It keeps the header it read, so that   *)
(* it may outlive its file; of what it writes only the place matters here  *)
(* (module OpenFile has the bytes).                                        *)
(***************************************************************************)
EXTENDS Integers, Sequences, FiniteSets, Functions, TLC

CONSTANTS
    NumSectors, SectorSize, NumDirect, NumDirEntries, Straddle,
    Names, Sizes, NoName,
    MaxCrashes      \* bound: number of crashes

ASSUME FileSystemAssumption ==
    /\ NumSectors \in Nat /\ NumSectors >= 5
    /\ SectorSize \in Nat \ {0} /\ NumDirect \in Nat \ {0}
    /\ NumDirEntries \in Nat \ {0} /\ Straddle \in 0..(NumDirEntries - 1)
    /\ NoName \notin Names /\ Sizes \subseteq Nat /\ MaxCrashes \in Nat

Sectors == 0..(NumSectors - 1)
Entries == 0..(NumDirEntries - 1)

(* Formatting takes sectors 0 and 1 for the headers of the bitmap and the  *)
(* directory, 2 for the bitmap and 3 and 4 for the directory.              *)
Metadata == 0..4

NewDirectory == [i \in Entries |-> [inUse |-> FALSE, sector |-> 0, name |-> NoName]]

NoHeader == [numBytes |-> 0, numSectors |-> 0, dataSectors |-> <<>>]

(* A sector that holds data; read as a header it makes no sense. *)
Data == [NoHeader EXCEPT !.numSectors = 1]

Sound(h) == h.numSectors = Len(h.dataSectors)

NoOperation == [name |-> NoName, sector |-> 0]

(* No file is open. *)
Closed == [name |-> NoName, hdr |-> NoHeader, live |-> FALSE, after |-> {}]

VARIABLES
    map,        \* the bitmap on disk: the sectors marked in use
    dir,        \* the directory on disk
    headers,    \* the file headers on disk, by sector
    todo,       \* the sector writes the operation has still to make
    op,         \* its operand and the sector of the operand's header
    newMap, newDir, newHdr,     \* its copies in memory
    files,      \* history: name -> header sector and header, when last quiet
    crashes, dirty,     \* crashes so far; no operation has completed since one
    open,       \* the OpenFile; history: "live" until its file is removed, and
                \* the files created "after" that
    spoiled     \* history: files that existed when an OpenFile wrote after its own
                \* file had been removed, and that are younger than the removal

disk   == <<map, dir, headers>>
memory == <<op, newMap, newDir, newHdr>>
fvars  == <<disk, memory, todo, files, crashes, dirty, open, spoiled>>

(***************************************************************************)
(* Bitmap, directory and file header.                                      *)
(***************************************************************************)

Clear(m) == Sectors \ m

(* BitMap::Find, called n times: the n lowest clear bits, in order. *)
FindBits(m, n) ==
    [i \in 1..n |-> CHOOSE s \in Clear(m) :
                        Cardinality({r \in Clear(m) : r < s}) = i - 1]

FindIndex(d, n) ==
    LET found == {i \in Entries : d[i].inUse /\ d[i].name = n}
    IN  IF found = {} THEN -1 ELSE CHOOSE i \in found : \A j \in found : i <= j

FreeEntries(d) == {i \in Entries : ~d[i].inUse}

(* Mutant of Add: it takes the last free entry. *)
Add_Last(d, n, s) ==
    LET i == CHOOSE e \in FreeEntries(d) : \A j \in FreeEntries(d) : e >= j
    IN  [d EXCEPT ![i] = [inUse |-> TRUE, sector |-> s, name |-> n]]

(* Directory::Add takes the first free entry; Remove keeps its name. *)
Add(d, n, s) ==
    LET i == CHOOSE e \in FreeEntries(d) : \A j \in FreeEntries(d) : e <= j
    IN  [d EXCEPT ![i] = [inUse |-> TRUE, sector |-> s, name |-> n]]

RemoveEntry(d, n) == [d EXCEPT ![FindIndex(d, n)].inUse = FALSE]

divRoundUp(n, s) == (n + s - 1) \div s

(* FileHeader::Allocate for a bitmap with enough clear bits. *)
Allocate(m, size) ==
    LET n == divRoundUp(size, SectorSize)
    IN  [numBytes |-> size, numSectors |-> n, dataSectors |-> FindBits(m, n)]

(* Mutant of Deallocated: only the data blocks are freed. *)
Deallocated_KeepsHeader(m, s, h) == m \ Range(h.dataSectors)

(* FileHeader::Deallocate, then Clear of the header's own sector. *)
Deallocated(m, s, h) == m \ (Range(h.dataSectors) \cup {s})

(* A header on disk has room for NumDirect sector numbers. *)
OnDisk(h) == [h EXCEPT !.dataSectors =
                 SubSeq(@, 1, IF Len(@) < NumDirect THEN Len(@) ELSE NumDirect)]

(* The first of the directory's two sectors is written. *)
FirstHalf(old, new) ==
    [i \in Entries |-> IF i < Straddle THEN new[i]
                       ELSE IF i = Straddle THEN [new[i] EXCEPT !.name = old[i].name]
                       ELSE old[i]]

(* What Find gives for each name, and the file header there. *)
View(d, h) ==
    [n \in {m \in Names : FindIndex(d, m) # -1} |->
        LET s == d[FindIndex(d, n)].sector IN [sector |-> s, hdr |-> h[s]]]

(***************************************************************************)
(* A formatted, empty disk.                                                *)
(***************************************************************************)
Init ==
    /\ map = Metadata
    /\ dir = NewDirectory
    /\ headers = [s \in Sectors |-> NoHeader]
    /\ todo = <<>>
    /\ op = NoOperation
    /\ newMap = {} /\ newDir = NewDirectory /\ newHdr = NoHeader
    /\ files = <<>>
    /\ crashes = 0 /\ dirty = FALSE
    /\ open = Closed /\ spoiled = {}

(* Mutant of CanCreate: the name may exist already. *)
CanCreate_NameTwice(n, size) ==
    /\ FreeEntries(dir) # {}
    /\ Cardinality(Clear(map)) - 1 >= divRoundUp(size, SectorSize)

(* Create's tests: the name is new, there is a sector for the header, a    *)
(* directory entry and, the header's sector taken, room for the data.      *)
CanCreate(n, size) ==
    /\ FindIndex(dir, n) = -1
    /\ Clear(map) # {}
    /\ FreeEntries(dir) # {}
    /\ Cardinality(Clear(map)) - 1 >= divRoundUp(size, SectorSize)

(* Mutant of Create: the header's sector is not marked when the data's are *)
(* looked for.                                                             *)
Create_HeaderTwice(n, size) ==
    /\ todo = <<>> /\ CanCreate(n, size)
    /\ LET s == FindBits(map, 1)[1]
           h == Allocate(map, size)
       IN  /\ op' = [name |-> n, sector |-> s]
           /\ newHdr' = h
           /\ newMap' = map \cup {s} \cup Range(h.dataSectors)
           /\ newDir' = Add(dir, n, s)
    /\ todo' = <<"header", "dir1", "dir2", "map">>
    /\ open' = [open EXCEPT !.after = IF open # Closed /\ ~open.live THEN @ \cup {n} ELSE @]
    /\ UNCHANGED <<disk, files, crashes, dirty, spoiled>>

(* Create reads the directory and the bitmap and decides; when it fails    *)
(* its copies are dropped.                                                 *)
Create(n, size) ==
    /\ todo = <<>> /\ CanCreate(n, size)
    /\ LET s == FindBits(map, 1)[1]
           h == Allocate(map \cup {s}, size)
       IN  /\ op' = [name |-> n, sector |-> s]
           /\ newHdr' = h
           /\ newMap' = map \cup {s} \cup Range(h.dataSectors)
           /\ newDir' = Add(dir, n, s)
    /\ todo' = <<"header", "dir1", "dir2", "map">>
    /\ open' = [open EXCEPT !.after = IF open # Closed /\ ~open.live THEN @ \cup {n} ELSE @]
    /\ UNCHANGED <<disk, files, crashes, dirty, spoiled>>

CreateFails(n, size) ==
    /\ todo = <<>> /\ ~CanCreate(n, size)
    /\ UNCHANGED fvars

(* Remove reads header and bitmap; Deallocate asserts that the blocks are  *)
(* marked.  What it does with a header longer than NumDirect, or with data *)
(* in its place, is undefined and left out.                                *)
Remove(n) ==
    /\ todo = <<>> /\ FindIndex(dir, n) # -1
    /\ LET s == dir[FindIndex(dir, n)].sector
           h == headers[s]
       IN  /\ Sound(h)
           /\ Range(h.dataSectors) \subseteq map
           /\ op' = [name |-> n, sector |-> s]
           /\ newHdr' = h
           /\ newMap' = Deallocated(map, s, h)
           /\ newDir' = RemoveEntry(dir, n)
    /\ todo' = <<"map", "dir1", "dir2">>
    /\ open' = [open EXCEPT !.live = @ /\ open.name # n, !.after = @ \ {n}]
    /\ spoiled' = spoiled \ {n}
    /\ UNCHANGED <<disk, files, crashes, dirty>>

(* The file is not there, or the assertion ends Nachos. *)
RemoveFails(n) ==
    /\ todo = <<>>
    /\ \/ FindIndex(dir, n) = -1
       \/ /\ FindIndex(dir, n) # -1
          /\ ~(Range(headers[dir[FindIndex(dir, n)].sector].dataSectors) \subseteq map)
    /\ UNCHANGED fvars

(* The operation's copies are deleted, or lost. *)
Forget == newMap' = {} /\ newDir' = NewDirectory /\ newHdr' = NoHeader

(* The next write of the operation reaches the disk; after the last one it *)
(* returns.                                                                *)
WriteSector ==
    /\ todo # <<>>
    /\ headers' = IF Head(todo) = "header"
                    THEN [headers EXCEPT ![op.sector] = OnDisk(newHdr)] ELSE headers
    /\ dir' = CASE Head(todo) = "dir1" -> FirstHalf(dir, newDir)
                [] Head(todo) = "dir2" -> newDir
                [] OTHER -> dir
    /\ map' = IF Head(todo) = "map" THEN newMap ELSE map
    /\ todo' = Tail(todo)
    /\ files' = IF todo' = <<>> THEN View(dir', headers') ELSE files
    /\ dirty' = (dirty /\ todo' # <<>>)
    /\ IF todo' = <<>> THEN Forget /\ op' = NoOperation ELSE UNCHANGED memory
    /\ UNCHANGED <<crashes, open, spoiled>>

(* Nachos exits in the middle of an operation and is started again. *)
Crash ==
    /\ todo # <<>> /\ crashes < MaxCrashes
    /\ todo' = <<>>
    /\ crashes' = crashes + 1 /\ dirty' = TRUE
    /\ Forget
    /\ open' = Closed
    /\ op' = [op EXCEPT !.sector = 0]
    /\ UNCHANGED <<disk, files, spoiled>>

(***************************************************************************)
(* FileSystem::Open, and the OpenFile it returns.                          *)
(***************************************************************************)

(* Open fetches the header that Find names. *)
Open(n) ==
    /\ todo = <<>> /\ open = Closed
    /\ FindIndex(dir, n) # -1
    /\ LET h == headers[dir[FindIndex(dir, n)].sector]
       IN  Sound(h) /\ open' = [name |-> n, hdr |-> h, live |-> TRUE, after |-> {}]
    /\ UNCHANGED <<disk, memory, todo, files, crashes, dirty, spoiled>>

OpenFails(n) ==
    /\ todo = <<>> /\ FindIndex(dir, n) = -1
    /\ UNCHANGED fvars

(* OpenFile::WriteAt reaches the i-th sector of the header it has.  What   *)
(* was on the disk there, a header too, is replaced by data.               *)
WriteData(i) ==
    /\ todo = <<>> /\ open # Closed /\ i \in DOMAIN open.hdr.dataSectors
    /\ headers' = [headers EXCEPT ![open.hdr.dataSectors[i]] = Data]
    /\ spoiled' = spoiled \cup open.after
    /\ UNCHANGED <<map, dir, memory, todo, files, crashes, dirty, open>>

(* delete openFile *)
Close ==
    /\ todo = <<>> /\ open # Closed
    /\ open' = Closed
    /\ UNCHANGED <<disk, memory, todo, files, crashes, dirty, spoiled>>

Next ==
    \/ \E n \in Names, size \in Sizes : Create(n, size) \/ CreateFails(n, size)
    \/ \E n \in Names : Remove(n) \/ RemoveFails(n) \/ Open(n) \/ OpenFails(n)
    \/ (\E i \in 1..NumDirect : WriteData(i)) \/ Close
    \/ WriteSector \/ Crash

Spec == Init /\ [][Next]_fvars

-----------------------------------------------------------------------------

Header == [numBytes : Nat, numSectors : Nat, dataSectors : Seq(Sectors)]
Entry == [inUse : BOOLEAN, sector : Sectors, name : Names \cup {NoName}]

(* FileSystem: every sector number on disk and in memory is one. *)
TypeOK ==
    /\ map \subseteq Sectors /\ newMap \subseteq Sectors
    /\ dir \in [Entries -> Entry] /\ newDir \in [Entries -> Entry]
    /\ headers \in [Sectors -> Header] /\ newHdr \in Header
    /\ DOMAIN files \subseteq Names
    /\ crashes \in 0..MaxCrashes /\ dirty \in BOOLEAN
    /\ open.name \in Names \cup {NoName} /\ open.hdr \in Header /\ spoiled \subseteq Names

(* All sectors of the file described by f. *)
Owned(f) == {f.sector} \cup Range(f.hdr.dataSectors)

(* FileSystem::Create and Remove, as long as Nachos has not crashed:       *)
(* between operations every sector marked in the bitmap belongs to exactly *)
(* one file or to the file system, and every sector a file needs is marked *)
(* and recorded: nothing leaks and nothing is shared, over any sequence of *)
(* operations.                                                             *)
SectorsAccounted ==
    TypeOK /\ (todo = <<>> /\ crashes = 0 /\ spoiled = {} =>
      /\ map = Metadata \cup UNION {Owned(files[n]) : n \in DOMAIN files}
      /\ \A n \in DOMAIN files :
           /\ Owned(files[n]) \cap Metadata = {}
           /\ Cardinality(Owned(files[n])) = 1 + divRoundUp(files[n].hdr.numBytes, SectorSize)
           /\ \A m \in DOMAIN files \ {n} : Owned(files[n]) \cap Owned(files[m]) = {})

(* OpenFile keeps the header it read at Open.  Whatever is created and     *)
(* removed while it is open, its writes destroy no header of another file; *)
(* and when its own file is removed and its sectors are used again, they   *)
(* can only hit files that were created after the removal.                 *)
WritesSpareOthers ==
    todo = <<>> /\ crashes = 0 =>
        \A n \in DOMAIN files \ spoiled : View(dir, headers)[n] = files[n]

(* Directory::Add and Remove over two sectors: once an operation has made  *)
(* its last write, exactly its own file has appeared or disappeared, and   *)
(* no file has changed its size, as long as Nachos has not crashed.        *)
Abstract == INSTANCE AbstractFileStore WITH
    sizes <- [n \in DOMAIN files |-> files[n].hdr.numBytes]

ImplementsFileStore ==
    Abstract!SInit /\ [][crashes = 0 /\ spoiled = {} => Abstract!SNext]_(Abstract!svars)

(* A crash in the middle of Create or Remove, at any of its writes, spares *)
(* the other files: until the next operation each is still found under its *)
(* name, with its header, and all its sectors are marked.  (The operand    *)
(* may be half there, and an old name may come back on the straddling      *)
(* entry, but Find prefers the lower entry.)  The sectors of the bitmap    *)
(* and the directory stay marked.                                          *)
CrashSparesOthers ==
    dirty /\ crashes = 1 /\ todo = <<>> =>
        \A n \in DOMAIN files \ ({op.name} \cup spoiled) :
            /\ n \in DOMAIN View(dir, headers)
            /\ View(dir, headers)[n] = files[n]
            /\ Owned(files[n]) \subseteq map
            /\ Metadata \subseteq map

=============================================================================
