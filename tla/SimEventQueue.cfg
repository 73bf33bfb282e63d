\* Three slots and four insertions: the queue fills up, a wakeup is rescheduled
\* in a full queue and sinks past two children.
SPECIFICATION Spec
CONSTANTS
  Nodes = {n1, n2}
  NoNode = NoNode
  Times = {0, 1}
  Gens = {1}
  MaxEvents = 3
  MaxSeq = 4
INVARIANTS IndexExact
PROPERTIES Refines 
