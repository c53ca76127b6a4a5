CONSTANTS
    SectorsPerTrack = 3
    NumTracks = 3
    SeekTime = 3
    RotationTime = 2
    MaxTime = 24
SPECIFICATION DiskSpec
INVARIANTS
    EndsAfterSector
    BufferHoldsSector
