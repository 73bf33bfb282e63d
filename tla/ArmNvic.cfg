SPECIFICATION FairSpec
CONSTANTS
    Irqs = {16, 17}
    System = {14}
    Prios = {1, 2}
    Firmwares <- MCFirmwares
    MaxDepth = 3
INVARIANTS
    ScanFresh
    NoLostInterrupt
    NestingDescends
PROPERTIES
    InterruptTaken
CHECK_DEADLOCK FALSE
