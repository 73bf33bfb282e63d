--------------------------- MODULE SimEventQueue ---------------------------
(***************************************************************************)
(* src/common/sim_event_queue.c: the binary min-heap behind the simulation *)
(* event queue.  The queue is used from one thread, so a call runs to its  *)
(* end before the next one starts; each call is modelled by the part       *)
(* before its sift loop followed by one step per loop iteration, with pc   *)
(* saying which loop is running.                                           *)
(*                                                                         *)
(* Slots at or above count are never read, so heap is a function on the    *)
(* live slots 0..count-1 only.  While a sift runs, slot "hole" is free and *)
(* the lifted event is in "ev", as in the C locals.                        *)
(***************************************************************************)
EXTENDS SimEvents, FiniteSetsExt

VARIABLES
  heap,           \* q->heap[0 .. count-1]
  count,          \* q->count
  next_seq,       \* q->next_seq
  node_heap_idx,  \* slot of each node's pending NODE_WAKEUP, or -1
  popped,         \* what the current call returns: Empty unless it is a pop
  pc,             \* "idle", or the loop the current call is in
  hole, start,    \* locals i and start of heap_sift_up / heap_sift_down
  ev,             \* local ev: the lifted event
  lo,             \* heapify: roots still to sift are 0 .. lo-1
  victim,         \* node being removed, NoNode outside sim_eq_remove_node
  read, write     \* compaction cursors of sim_eq_remove_node

qvars == <<heap, count, next_seq, node_heap_idx>>
sift == <<hole, start, ev>>
cursors == <<lo, victim, read, write>>
vars == <<qvars, popped, pc, sift, cursors>>

Slots == 0 .. count - 1

Parent(i) == (i - 1) \div 2

\* node_heap_idx after event e was put into slot s (track_slot).
track_slot(idx, e, s) ==
  [n \in Nodes |-> IF IsWakeup(e, n) THEN s ELSE idx[n]]

\* node_heap_idx after the event e left its slot (clear_index).
clear_index(idx, e) == track_slot(idx, e, -1)

wakeup_slot(n) ==
  LET i == node_heap_idx[n]
  IN  IF i \in Slots /\ IsWakeup(heap[i], n) THEN i ELSE -1

Init ==
  /\ heap = [s \in {} |-> Empty]
  /\ count = 0
  /\ next_seq = 0
  /\ node_heap_idx = [n \in Nodes |-> -1]
  /\ popped = Empty
  /\ pc = "idle"
  /\ hole = 0 /\ start = 0 /\ ev = Empty
  /\ lo = 0 /\ victim = NoNode /\ read = 0 /\ write = 0

-----------------------------------------------------------------------------
(* The sift loops.                                                         *)

\* Enter heap_sift_up / heap_sift_down at slot i, which holds e.
Sift(direction, i, e) ==
  /\ pc' = direction
  /\ hole' = i /\ start' = i /\ ev' = e

\* Its locals end with it.
SiftLocals == hole' = 0 /\ start' = 0 /\ ev' = Empty

\* Mutation: the index of the event that slides is not updated.
SlideUntracked(s) ==
  /\ heap' = [heap EXCEPT ![hole] = heap[s]]
  /\ hole' = s
  /\ UNCHANGED <<count, next_seq, node_heap_idx, popped, pc, start, ev, cursors>>

\* One iteration that slides the event of slot s into the hole.
Slide(s) ==
  /\ heap' = [heap EXCEPT ![hole] = heap[s]]
  /\ node_heap_idx' = track_slot(node_heap_idx, heap[s], hole)
  /\ hole' = s
  /\ UNCHANGED <<count, next_seq, popped, pc, start, ev, cursors>>

\* The loop ends: the lifted event goes into the hole, if it moved at all.
Place ==
  /\ IF hole # start
     THEN /\ heap' = [heap EXCEPT ![hole] = ev]
          /\ node_heap_idx' = track_slot(node_heap_idx, ev, hole)
     ELSE UNCHANGED <<heap, node_heap_idx>>
  /\ pc' = IF victim = NoNode THEN "idle" ELSE "heapify"
  /\ SiftLocals
  /\ UNCHANGED <<count, next_seq, popped, cursors>>

\* heap_sift_up's loop condition: the hole's parent must come down.
Rises == hole > 0 /\ ev_less(ev, heap[Parent(hole)])

SiftUpMove == pc = "up" /\ Rises /\ Slide(Parent(hole))

SiftUpPlace == pc = "up" /\ ~Rises /\ Place

\* The smaller child of slot i, the left one when there is no right one.
MinChild(i) ==
  IF 2*i + 2 < count /\ ev_less(heap[2*i + 2], heap[2*i + 1])
  THEN 2*i + 2 ELSE 2*i + 1

\* heap_sift_down's loop condition: the hole's smaller child must go up.
Sinks == 2*hole + 1 < count /\ ev_less(heap[MinChild(hole)], ev)

SiftDownMove == pc = "down" /\ Sinks /\ Slide(MinChild(hole))

SiftDownPlace == pc = "down" /\ ~Sinks /\ Place

-----------------------------------------------------------------------------
(* The calls.                                                              *)

NewEvent(k, n, t, g) ==
  [kind |-> k, node |-> n, time |-> t, seq |-> next_seq, gen |-> g]

\* Append e at slot count and sift it up; idx is the index after the append.
Insert(e, idx) ==
  /\ count < MaxEvents
  /\ next_seq < MaxSeq
  /\ heap' = [s \in 0 .. count |-> IF s = count THEN e ELSE heap[s]]
  /\ count' = count + 1
  /\ next_seq' = next_seq + 1
  /\ node_heap_idx' = idx
  /\ Sift("up", count, e)
  /\ popped' = Empty
  /\ UNCHANGED cursors

\* Mutation: a rescheduled wakeup keeps its place among events of its time.
RescheduleInPlace(i, t, g) ==
  LET e == [heap[i] EXCEPT !.time = t, !.gen = g]
  IN  /\ next_seq < MaxSeq
      /\ heap' = [heap EXCEPT ![i] = e]
      /\ next_seq' = next_seq + 1
      /\ Sift(IF t < heap[i].time THEN "up" ELSE "down", i, e)
      /\ popped' = Empty
      /\ UNCHANGED <<count, node_heap_idx, cursors>>

\* Rewrite the pending wakeup in slot i and sift it to its new place.
Reschedule(i, t, g) ==
  LET e == [heap[i] EXCEPT !.time = t, !.seq = next_seq, !.gen = g]
  IN  /\ next_seq < MaxSeq
      /\ heap' = [heap EXCEPT ![i] = e]
      /\ next_seq' = next_seq + 1
      /\ Sift(IF t < heap[i].time THEN "up" ELSE "down", i, e)
      /\ popped' = Empty
      /\ UNCHANGED <<count, node_heap_idx, cursors>>

\* A pending wakeup is replaced, even in a full queue.
sim_eq_schedule_gen(n, t, g) ==
  /\ pc = "idle"
  /\ IF wakeup_slot(n) >= 0
     THEN Reschedule(wakeup_slot(n), t, g)
     ELSE LET e == NewEvent("NODE_WAKEUP", n, t, g)
          IN  Insert(e, track_slot(node_heap_idx, e, count))

sim_eq_schedule_if_earlier_gen(n, t, g) ==
  /\ ~(wakeup_slot(n) >= 0 /\ heap[wakeup_slot(n)].time <= t)
  /\ sim_eq_schedule_gen(n, t, g)

\* RX_BYTE and RADIO_TIMER entries are never coalesced and never indexed.
sim_eq_schedule_rx_byte_gen(n, t, g) ==
  /\ pc = "idle"
  /\ Insert(NewEvent("RX_BYTE", n, t, g), node_heap_idx)

sim_eq_schedule_radio_timer_gen(n, t, g) ==
  /\ pc = "idle"
  /\ Insert(NewEvent("RADIO_TIMER", n, t, g), node_heap_idx)

sim_eq_schedule_test_action(t) ==
  /\ pc = "idle"
  /\ Insert(NewEvent("TEST_ACTION", NoNode, t, 0), node_heap_idx)

\* A full queue drops what is scheduled, except over a pending wakeup.
DropFull ==
  /\ pc = "idle"
  /\ count >= MaxEvents
  /\ popped' = Empty
  /\ UNCHANGED <<qvars, pc, sift, cursors>>

\* The last event replaces the root; the root's index is cleared first.
sim_eq_pop ==
  LET last == heap[count - 1]
      cleared == clear_index(node_heap_idx, heap[0])
  IN  /\ pc = "idle"
      /\ count > 0
      /\ popped' = heap[0]
      /\ heap' = [s \in 0 .. count - 2 |-> IF s = 0 THEN last ELSE heap[s]]
      /\ count' = count - 1
      /\ IF count > 1
         THEN /\ node_heap_idx' = track_slot(cleared, last, 0)
              /\ Sift("down", 0, last)
         ELSE /\ node_heap_idx' = cleared
              /\ UNCHANGED <<pc, sift>>
      /\ UNCHANGED <<next_seq, cursors>>

sim_eq_pop_empty ==
  /\ pc = "idle"
  /\ count = 0
  /\ popped' = Empty
  /\ UNCHANGED <<qvars, pc, sift, cursors>>

sim_eq_remove_node(n) ==
  /\ pc = "idle"
  /\ victim' = n
  /\ read' = 0 /\ write' = 0
  /\ pc' = "compact"
  /\ popped' = Empty
  /\ UNCHANGED <<qvars, sift, lo>>

\* The compaction loop: keep the events of other nodes, in order.
Compact ==
  /\ pc = "compact"
  /\ read < count
  /\ read' = read + 1
  /\ IF heap[read].node # victim
     THEN /\ heap' = [heap EXCEPT ![write] = heap[read]]
          /\ write' = write + 1
     ELSE UNCHANGED <<heap, write>>
  /\ UNCHANGED <<count, next_seq, node_heap_idx, popped, pc, sift, lo, victim>>

Compacted ==
  /\ pc = "compact"
  /\ read = count
  /\ count' = write
  /\ heap' = [s \in 0 .. write - 1 |-> heap[s]]
  /\ node_heap_idx' = [n \in Nodes |-> -1]
  /\ lo' = write \div 2
  /\ pc' = "heapify"
  /\ read' = 0 /\ write' = 0
  /\ UNCHANGED <<next_seq, popped, sift, victim>>

\* The heapify loop sifts the roots count/2-1 .. 0 down, last one first.
Heapify ==
  /\ pc = "heapify"
  /\ lo > 0
  /\ lo' = lo - 1
  /\ Sift("down", lo - 1, heap[lo - 1])
  /\ UNCHANGED <<qvars, popped, victim, read, write>>

\* The final loop tracks every slot in order, so the last one wins.
Heapified ==
  /\ pc = "heapify"
  /\ lo = 0
  /\ node_heap_idx' =
       [n \in Nodes |->
          LET S == {s \in Slots : IsWakeup(heap[s], n)}
          IN  IF S = {} THEN node_heap_idx[n] ELSE Max(S)]
  /\ victim' = NoNode
  /\ pc' = "idle"
  /\ UNCHANGED <<heap, count, next_seq, popped, sift, lo, read, write>>

-----------------------------------------------------------------------------
Call ==
  \/ \E n \in Nodes, t \in Times, g \in Gens :
       \/ sim_eq_schedule_gen(n, t, g)
       \/ sim_eq_schedule_if_earlier_gen(n, t, g)
       \/ sim_eq_schedule_rx_byte_gen(n, t, g)
       \/ sim_eq_schedule_radio_timer_gen(n, t, g)
  \/ \E t \in Times : sim_eq_schedule_test_action(t)
  \/ DropFull
  \/ \E n \in Nodes : sim_eq_remove_node(n)
  \/ sim_eq_pop
  \/ sim_eq_pop_empty

Loop ==
  \/ SiftUpMove \/ SiftUpPlace
  \/ SiftDownMove \/ SiftDownPlace
  \/ Compact \/ Compacted
  \/ Heapify \/ Heapified

Next == Call \/ Loop

\* A call that has started runs on: the queue never yields.
Spec == Init /\ [][Next]_vars /\ WF_vars(Loop)

-----------------------------------------------------------------------------
(* Correctness.                                                            *)

\* The event a slot stands for: the lifted one for the hole of a sift.
Sifting == pc \in {"up", "down"}
At(s) == IF Sifting /\ s = hole THEN ev ELSE heap[s]

\* The events the queue holds: during compaction, those already kept and
\* those still to be kept.
Pending ==
  IF pc = "compact"
  THEN {heap[s] : s \in 0 .. write - 1}
       \cup {heap[s] : s \in {r \in read .. count - 1 : heap[r].node # victim}}
  ELSE {At(s) : s \in Slots}

TypeOK ==
  /\ count \in 0 .. MaxEvents
  /\ heap \in [Slots -> Event]
  /\ next_seq \in 0 .. MaxSeq
  /\ node_heap_idx \in [Nodes -> -1 .. MaxEvents - 1]
  /\ popped \in Event \cup {Empty}
  /\ pc \in {"idle", "up", "down", "compact", "heapify"}
  /\ Sifting => hole \in Slots /\ start \in Slots /\ ev \in Event
  /\ lo \in 0 .. MaxEvents
  /\ victim \in Nodes \cup {NoNode}
  /\ read \in 0 .. MaxEvents /\ write \in 0 .. MaxEvents

\* Between calls every event is preceded by its parent, so that
\* heap[0], the one sim_eq_peek and sim_eq_pop read, is the earliest
\* pending event by (time_ns, seq).
HeapOrdered ==
  pc = "idle" => /\ \A s \in Slots \ {0} : ev_less(heap[Parent(s)], heap[s])
                 /\ \A s \in Slots \ {0} : ev_less(heap[0], heap[s])

\* Between calls node_heap_idx names exactly the slot of the node's one
\* pending wakeup.  wakeup_slot's comment says what happens otherwise: a
\* wakeup the index has lost makes the node tick twice.
IndexExact ==
  pc = "idle" =>
    \A n \in Nodes, s \in Slots :
      IsWakeup(heap[s], n) <=> node_heap_idx[n] = s

\* The heap implements the abstract queue: pop returns the earliest event,
\* events of one time leave in insertion order, a reschedule replaces
\* exactly the node's wakeup, and nothing else is ever lost or duplicated.
EQ == INSTANCE EventQueue WITH pending <- Pending
Refines == EQ!Spec

-----------------------------------------------------------------------------
(* The inductive invariant behind HeapOrdered, IndexExact and Refines.     *)

\* What pc says about the other control variables.
Control ==
  /\ pc \in {"idle", "up"} => victim = NoNode
  /\ pc \in {"compact", "heapify"} => victim # NoNode
  /\ victim = NoNode \/ pc = "compact" => lo = 0
  /\ Sifting /\ hole = start => heap[hole] = ev
  /\ pc = "up" => hole <= start
  /\ pc = "down" => start <= hole /\ lo <= hole
  /\ pc \in {"heapify", "down"} => lo <= count
  /\ pc = "compact" => /\ write <= read /\ read <= count
                       /\ \A s \in 0 .. write - 1 : heap[s].node # victim

\* The slots whose event counts: compaction leaves stale copies behind.
Live == IF pc = "compact" THEN (0 .. write - 1) \cup (read .. count - 1)
                          ELSE Slots

\* No two events share a sequence number, so ev_less is total on them.
Distinct ==
  \A s \in Live : /\ At(s).seq < next_seq
                  /\ \A r \in Live : r # s => At(r).seq # At(s).seq

OneWakeup ==
  \A n \in Nodes, s \in Live, r \in Live :
    IsWakeup(At(s), n) /\ IsWakeup(At(r), n) => s = r

\* The edge from the parent of slot c to c that a running sift may break.
Broken(c) == \/ pc = "up" /\ c = hole
             \/ pc = "down" /\ Parent(c) = hole

\* All other edges below the roots still to be heapified are in order, and
\* the hole's parent precedes the hole's children.
OrderAt(c) ==
  /\ Parent(c) >= lo /\ ~Broken(c) => ev_less(At(Parent(c)), At(c))
  /\ Sifting /\ Parent(c) = hole /\ hole > 0 /\ Parent(hole) >= lo
       => ev_less(At(Parent(hole)), At(c))

Order == pc # "compact" => \A c \in Slots \ {0} : OrderAt(c)

\* The index is exact but for an event that is in the air.
InTheAir(s) == Sifting /\ s = hole /\ hole # start

IndexAt(n) ==
  /\ (\A s \in Slots : ~IsWakeup(At(s), n)) => node_heap_idx[n] = -1
  /\ victim = NoNode =>
       \A s \in Slots : IsWakeup(At(s), n) /\ ~InTheAir(s) => node_heap_idx[n] = s

Index == pc # "compact" => \A n \in Nodes : IndexAt(n)

\* Together they are preserved by every step of every call.
IInv == TypeOK /\ Control /\ Distinct /\ OneWakeup /\ Order /\ Index
=============================================================================
