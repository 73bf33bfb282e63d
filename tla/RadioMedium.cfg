SPECIFICATION Spec
CONSTANTS
    NodeCount = 2
    Networks <- MCNetworks
    Frames <- BandFrames
    Channels = {11, 12}
    DistSq <- Apart
    TxRange = 5
    PowerMax = 2
    Scale = 2
    MaxFrames = 2
    MaxHops = 3
INVARIANTS
    TrackerInSync
    WholeFrames
    
CHECK_DEADLOCK FALSE
