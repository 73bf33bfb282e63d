SPECIFICATION Spec
CONSTANTS
    Irqs = {16, 17}
    System = {14}
    Prios = {1, 2}
    Firmwares <- WithBasepri
    MaxDepth = 3
INVARIANTS
    BasepriLosesNone
CHECK_DEADLOCK FALSE
