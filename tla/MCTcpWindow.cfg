SPECIFICATION FairSpec
CONSTANTS
    TCP_WND = 5
    WndRange = 6
    TCP_MSS = 2
    Size = 6
    Reads = {1, 4}
    MaxFaults = 1
INVARIANTS FlowControl
PROPERTIES EdgeNeverShrinks AllIsRead
CHECK_DEADLOCK FALSE
