SPECIFICATION FairSpec
CONSTANTS
    Motes = {1, 2}
    Times = {1, 2}
    MaxPending = 3
    MaxGen = 2
    Setups <- MCSetups
    Tests <- MCTests
    DrainMax = 2
    Margin = 1
    GenMargin = 1
INVARIANTS
    
    MotesAgree
    TimeoutDecides
    JsonVerdictExact
PROPERTIES
    
    GenOnTime
    
