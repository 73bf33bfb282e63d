SPECIFICATION FairSpec
CONSTANTS
  p1 = p1
  p2 = p2
  None = None
  sky = sky
  Peers = {p1}
  Motes = {sky}
  Consoles = {sky}
  Never = 9
  EXT_NODE_RX_QUEUE = 1
  EXT_NODE_MAX_IDLE_STEPS = 2
  RENODE_DEV_RX_QUEUE = 1
  RENODE_DEV_UART_RING = 1
  RENODE_DEV_UART_IN = 1
  RENODE_DEV_MAX_FRAME = 1
  MaxTime = 5
  Second = 5
  FreqHz = 3
  Ticks = {1}
  WakeDelay = 1
  MaxNap = 1
  LogCap = 1
  GuestReads <- MCReads
  GuestWrites <- MCWrites
INVARIANTS
  Lockstep
  LineFollows

  
