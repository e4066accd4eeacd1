SPECIFICATION FairSpec
CONSTANTS
    a1 = a1
    a2 = a2
    a3 = a3
    remote = remote
    lost = lost
    m1 = m1
    m2 = m2
    m3 = m3
    m4 = m4
    NoRoute = NoRoute
    NoMac = NoMac
    Addrs = {a1, a2, a3}
    MacsOf <- Machines
    Dests = {a2, remote, lost}
    NextHop <- Routes
    ARP_TABLE_SIZE = 2
    ARP_QUEUE_LEN = 2
    MEMP_NUM_ARP_QUEUE = 3
    ARP_MAXAGE = 3
    ARP_AGE_REREQUEST = 0
    ARP_MAXPENDING = 2
    MaxPackets = 4
INVARIANTS FramesFindTheirHost QueuedPackets
PROPERTIES PendingEnds
