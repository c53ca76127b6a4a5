CONSTANTS
    console = console
    disk = disk
    Main = Main
    t1 = t1
    Threads = {Main, t1}
    Timer = Timer
    TimerDelays = {1, 2, 3, 4}
    HasTimer = TRUE
    Pollers = {console}
    Consoles = {console}
    PollTime <- MCPollTime
    Devices = {disk}
    Latency <- MCLatency
    SystemTick = 3
    UserTick = 1
SPECIFICATION FairSpec
INVARIANTS
    ServedInTime
    StatusMatchesThread
PROPERTIES
    PowerdownOnlyWhenQuiet
    DrainEnds
