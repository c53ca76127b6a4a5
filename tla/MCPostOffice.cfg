CONSTANTS
    m1 = m1
    m2 = m2
    t1 = t1
    t2 = t2
    NULL = NULL
    Machines = {m1, m2}
    Threads = {t1, t2}
    Boxes = {0, 1}
    Main = t1
    ClientBoxes = {0}
    Reliability = 50
    Rolls = {0, 49, 50, 99}
    MaxSends <- MCMaxSends
SPECIFICATION FairSpec
INVARIANTS
    OnePacketAtATime
    MailInOrder
PROPERTIES
    SendReturns
    MailArrives
    MailTestEnds
