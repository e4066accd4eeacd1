SPECIFICATION FairSpec
CONSTANTS
    Cyclic <- CyclicTimers
    OneShot = {"app"}
    Interval <- Intervals
    ClockRange = 12
    MaxLate = 1
    MaxCalls = 1
    Races = FALSE
INVARIANTS NotEarly 
PROPERTIES TimersRun
