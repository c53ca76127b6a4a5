CONSTANTS
    t1 = t1
    t2 = t2
    mutex = mutex
    done = done
    disk = disk
    Main = Main
    NULL = NULL
    Threads = {Main, t1, t2}
    Semaphores = {mutex, done}
    InitialValue <- MCInitialValue
    Devices = {disk}
    DoneSemaphore <- MCDoneSemaphore
    HasTimer = TRUE
    MaxValue = 2
SPECIFICATION FairSpec
INVARIANTS
    IInv
    NoLostWakeup
PROPERTIES
    PowerdownOnlyWhenStuck
    NoSwitchAfterHalt
    ImplementsSemaphore
    ReadyRuns
    FreeUnitTaken
