SPECIFICATION Spec
CONSTANTS
    d1 = d1
    d2 = d2
    d3 = d3
    Datagrams = {d1}
    Length <- FourFragments
    Capacity = 2
    Unit = 2
    BufSize = 2
    IP_REASS_MAX_PBUFS = 5
    MEMP_NUM_REASSDATA = 2
    IP_REASS_MAXAGE = 1
    MaxCopies = 0
INVARIANTS DatagramIsWhole
CHECK_DEADLOCK FALSE
