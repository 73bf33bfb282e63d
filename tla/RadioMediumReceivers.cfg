SPECIFICATION Spec
CONSTANTS
    NodeCount = 3
    Networks <- TwoReceivers
    Frames <- LongFrames
    Channels = {11}
    DistSq <- Apart
    TxRange = 5
    PowerMax = 2
    Scale = 2
    MaxFrames = 1
    MaxHops = 0
INVARIANTS
    WholeFrames
CHECK_DEADLOCK FALSE
