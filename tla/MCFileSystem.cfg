CONSTANTS
    a = a
    b = b
    c = c
    NoName = NoName
    Names = {a, b, c}
    NumSectors = 9
    SectorSize = 2
    NumDirect = 2
    NumDirEntries = 3
    Straddle = 1
    Sizes = {0, 3}
    MaxCrashes = 1
SYMMETRY Symmetry
CONSTRAINT UntilRecovered
SPECIFICATION Spec
INVARIANTS
    SectorsAccounted
    WritesSpareOthers
    CrashSparesOthers
PROPERTIES
    ImplementsFileStore
