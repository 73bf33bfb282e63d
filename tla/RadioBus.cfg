SPECIFICATION FairSpec
CONSTANTS
    Nodes = {1, 2, 3, 4, 5, 6, 7}
    Fleets <- MCFleets
    PerByte = {1, 2, 5, 6, 7}
    HasStall = {2}
    Consumers = {3}
    Listeners = {4}
    Reach <- MCReach
    Frames <- MCFrames
    Aborters = {7}
    Resettable = {1, 2, 5}
    Gaps = {30}
    MaxFrames = 2
    MaxResets = 1
    MaxWaits = 2
INVARIANTS
    TimerExact
    DeadlineCovers
    BytesInOrder
    ChannelBusy
    BatchIntact
PROPERTIES
    StallRecovers
CHECK_DEADLOCK FALSE
