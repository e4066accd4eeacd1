SPECIFICATION FairSpec
CONSTANTS
    d1 = d1
    d2 = d2
    d3 = d3
    Datagrams = {d1, d2, d3}
    Length <- ThreeDatagrams
    Capacity = 2
    Unit = 2
    BufSize = 1
    IP_REASS_MAX_PBUFS = 5
    MEMP_NUM_REASSDATA = 2
    IP_REASS_MAXAGE = 2
    MaxCopies = 1
INVARIANTS PbufsAreCounted 
PROPERTIES EntriesExpire
CHECK_DEADLOCK FALSE
