SPECIFICATION FairSpec
CONSTANTS
    RampUp = 2
    RampDown = 1
    AirTime = 3
    AckDelay = 3
    MaxIncoming = 6
    Frames <- MCFrames
    AckRequests <- MCAckRequests
    Channels = {1, 2, 3}
    Period = 3
    Modulus = 4
    RingSize = 3
    RngDelay = 2
    Setups <- MCSetups
    MaxOps = 2
    MaxWrites = 3
    MaxFrames = 2
    MaxNoise = 1
    MaxNow = 14
    MaxInsn = 2
INVARIANTS
    AnnouncedEnds
    Armed
    CompareExact
PROPERTIES
    
    NotDeaf
