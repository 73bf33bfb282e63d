SPECIFICATION Spec
CONSTANTS
    Wrap = 4
    NumCcr = 3
    Values = {1, 3}
    Dcos = {"slow", "fast"}
    Sels = {"aclk"}
    Rate <- MCRate
    PinInterval = 5
    MinInterval = 3
    EntryCycles = 2
    Firmwares <- MCFirmwares
    MaxCycles = 6
INVARIANTS
    AlarmOnTime
    TivExact
    NoLostTimerInterrupt
CHECK_DEADLOCK FALSE
