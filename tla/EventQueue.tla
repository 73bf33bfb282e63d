----------------------------- MODULE EventQueue -----------------------------
(***************************************************************************)
(* What the simulation event queue promises its callers                    *)
(* (include/common/sim_event_queue.h): a set of pending events from which  *)
(* pop always returns the earliest by (time_ns, seq), with at most one     *)
(* wakeup per node.  SimEventQueue shows that the binary heap of           *)
(* src/common/sim_event_queue.c implements this.                           *)
(***************************************************************************)
EXTENDS SimEvents, FiniteSets

VARIABLES
  pending,   \* the scheduled events
  next_seq,  \* insertion order of the next event
  popped     \* what the last call returned: Empty unless it was a pop

vars == <<pending, next_seq, popped>>

NewEvent(k, n, t, g) ==
  [kind |-> k, node |-> n, time |-> t, seq |-> next_seq, gen |-> g]

Wakeups(n) == {e \in pending : IsWakeup(e, n)}

Full == Cardinality(pending) >= MaxEvents

Init ==
  /\ pending = {}
  /\ next_seq = 0
  /\ popped = Empty

\* Everything that is not a wakeup is simply added, unless the queue is full.
Add(e) ==
  /\ next_seq < MaxSeq
  /\ ~Full
  /\ pending' = pending \cup {e}
  /\ next_seq' = next_seq + 1
  /\ popped' = Empty

\* A wakeup replaces the node's pending one, even when the queue is full.
Schedule(n, t, g) ==
  /\ next_seq < MaxSeq
  /\ Wakeups(n) # {} \/ ~Full
  /\ pending' = (pending \ Wakeups(n)) \cup {NewEvent("NODE_WAKEUP", n, t, g)}
  /\ next_seq' = next_seq + 1
  /\ popped' = Empty

\* A full queue drops what is scheduled.
DropFull ==
  /\ Full
  /\ popped' = Empty
  /\ UNCHANGED <<pending, next_seq>>

Pop ==
  /\ pending # {}
  /\ \E e \in pending :
       /\ \A f \in pending \ {e} : ev_less(e, f)
       /\ popped' = e
       /\ pending' = pending \ {e}
  /\ UNCHANGED next_seq

PopEmpty ==
  /\ pending = {}
  /\ popped' = Empty
  /\ UNCHANGED <<pending, next_seq>>

RemoveNode(n) ==
  /\ pending' = {e \in pending : e.node # n}
  /\ popped' = Empty
  /\ UNCHANGED next_seq

Next ==
  \/ \E n \in Nodes, t \in Times, g \in Gens :
       \/ Schedule(n, t, g)
       \/ Add(NewEvent("RX_BYTE", n, t, g))
       \/ Add(NewEvent("RADIO_TIMER", n, t, g))
  \/ \E t \in Times : Add(NewEvent("TEST_ACTION", NoNode, t, 0))
  \/ DropFull
  \/ \E n \in Nodes : RemoveNode(n)
  \/ Pop
  \/ PopEmpty

Spec == Init /\ [][Next]_vars
=============================================================================
