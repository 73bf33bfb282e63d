------------------------------ MODULE SimEvents ------------------------------
(***************************************************************************)
(* sim_event_t and its order (include/common/sim_event_queue.h), shared by *)
(* the abstract event queue and the heap.  The payload of an RX_BYTE event *)
(* (sender, byte, rssi) is carried along untouched and left out.           *)
(***************************************************************************)
EXTENDS Integers

CONSTANTS
  Nodes,      \* mote slots (node_idx)
  NoNode,     \* node_idx = -1 of an event tied to no slot
  Times,      \* the time_ns values callers use
  Gens,       \* mote generations stamped on events; 0 is "untracked"
  MaxEvents,  \* SIM_EQ_MAX_EVENTS
  MaxSeq      \* bound on next_seq (a uint64_t in the code)

ASSUME NodeAssumption == NoNode \notin Nodes
ASSUME TimeAssumption == Times \subseteq Int
ASSUME GenAssumption == Gens \subseteq Nat
ASSUME BoundAssumption == MaxEvents \in Nat \ {0} /\ MaxSeq \in Nat

Kind == {"NODE_WAKEUP", "RX_BYTE", "TEST_ACTION", "RADIO_TIMER"}

Event == [kind : Kind, node : Nodes \cup {NoNode}, time : Times,
          seq : Nat, gen : Gens \cup {0}]

\* The sentinel sim_eq_pop returns on an empty queue (its time, INT64_MAX,
\* is a time no caller schedules).
Empty == [kind |-> "NODE_WAKEUP", node |-> NoNode]

\* The order of the queue: by time, events of one time by insertion.
ev_less(a, b) == a.time < b.time \/ (a.time = b.time /\ a.seq < b.seq)

IsWakeup(e, n) == e.kind = "NODE_WAKEUP" /\ e.node = n
=============================================================================
