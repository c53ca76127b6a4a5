CONSTANTS
    t1 = t1
    t2 = t2
    Threads = {t1, t2}
    Movers = {t1}
    Garbage = Garbage
    SectorSize = 2
    FileLength = 3
    dataSectors <- TwoSectors
    Values = {1}
    Lengths = {0, 1, 2, 3}
    Positions = {0, 1, 2, 3}
SPECIFICATION Spec
INVARIANTS
    BytesInPlace
PROPERTIES
    ImplementsFile
