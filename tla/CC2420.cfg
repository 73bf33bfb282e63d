SPECIFICATION FairSpec
CONSTANTS
    FifoSize = 13
    FifopThr = 6
    FrameLen = 6
    AddrPos = 4
    OscSymbols = 17
    Drivers <- MCDrivers
INVARIANTS
    
    FifopSignals
PROPERTY
    TimedEnds
CHECK_DEADLOCK FALSE
