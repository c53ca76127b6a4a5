CONSTANTS
    Keys <- MCKeys
    MaxKeys = 3
SPECIFICATION FairSpec
INVARIANTS
    AlwaysPolling
