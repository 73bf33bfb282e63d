------------------------ MODULE SimEventQueueProofs ------------------------
(***************************************************************************)
(* The heap invariants of SimEventQueue for every number of slots, nodes   *)
(* and times, and the refinement of the abstract queue.                    *)
(***************************************************************************)
EXTENDS SimEventQueue, FiniteSetTheorems, WellFoundedInduction, TLAPS

\* Leaves are first-order unless they cite SMT, for arithmetic and sequences.
USE Zenon

-----------------------------------------------------------------------------
(* Lemmas about slots and the order of events.                             *)

\* The parent of a slot other than the root is a smaller slot.
LEMMA ParentLess == \A c \in Nat \ {0} : Parent(c) \in Nat /\ Parent(c) < c
  BY SMT DEF Parent

\* The children of slot i are 2i+1 and 2i+2.
LEMMA ParentOf ==
  /\ \A i \in Nat : Parent(2*i + 1) = i /\ Parent(2*i + 2) = i
  /\ \A c \in Nat \ {0} : c = 2*Parent(c) + 1 \/ c = 2*Parent(c) + 2
  BY SMT DEF Parent

\* ev_less is a strict order on events, total on events whose sequence
\* numbers differ.
LEMMA EvLessTransitive ==
  \A a, b, c \in Event : ev_less(a, b) /\ ev_less(b, c) => ev_less(a, c)
  <1>1. \A a \in Event : a.time \in Int /\ a.seq \in Nat
    BY TimeAssumption DEF Event
  <1> QED BY SMT, <1>1 DEF ev_less

LEMMA EvLessTotal ==
  \A a, b \in Event : a.seq # b.seq => ev_less(a, b) \/ ev_less(b, a)
  <1>1. \A a \in Event : a.time \in Int /\ a.seq \in Nat
    BY TimeAssumption DEF Event
  <1> QED BY SMT, <1>1 DEF ev_less

\* The parts of the type invariant the other proofs use.
LEMMA Types ==
  ASSUME IInv
  PROVE  /\ count \in Nat /\ next_seq \in Nat
         /\ heap \in [Slots -> Event]
         /\ node_heap_idx \in [Nodes -> -1 .. MaxEvents - 1]
         /\ \A s \in Slots : s \in Nat /\ s < count /\ At(s) \in Event
         /\ \A s \in Nat : s < count => s \in Slots
         /\ Sifting => hole \in Slots /\ start \in Slots /\ ev \in Event
  BY SMT, BoundAssumption DEF IInv, TypeOK, Slots, At

\* A slot's parent is a slot.
LEMMA ParentSlot ==
  ASSUME IInv, NEW c \in Slots, c # 0
  PROVE  c \in Nat \ {0} /\ Parent(c) \in Nat /\ Parent(c) < c /\ Parent(c) \in Slots
  <1>1. c \in Nat \ {0} /\ count \in Nat /\ c < count
    BY Types
  <1>2. Parent(c) \in Nat /\ Parent(c) < c
    BY <1>1, ParentLess
  <1>3. Parent(c) < count
    BY SMT, <1>1, <1>2
  <1> QED BY <1>1, <1>2, <1>3, Types

LEMMA InitInv == Init => IInv
  BY SMT, NodeAssumption, BoundAssumption
  DEF Init, IInv, TypeOK, Control, Distinct, OneWakeup, Order, Index, IndexAt,
      Live, Slots, Sifting, At, IsWakeup

-----------------------------------------------------------------------------
(* The sift loops.                                                         *)

\* Sliding the event of slot s into the hole moves the hole to s and changes
\* nothing else about which event is where; only the order is at stake.
LEMMA SlideInv ==
  ASSUME IInv, Sifting, NEW p \in Slots, p # hole, p # start, Slide(p)
  PROVE  /\ Slots' = Slots /\ Sifting'
         /\ At(hole) = ev /\ ev \in Event
         /\ \A s \in Slots :
              At(s)' = IF s = p THEN ev ELSE IF s = hole THEN At(p) ELSE At(s)
         /\ TypeOK' /\ Distinct' /\ OneWakeup' /\ Index'
  <1>1. /\ heap' = [heap EXCEPT ![hole] = heap[p]]
        /\ node_heap_idx' = track_slot(node_heap_idx, heap[p], hole)
        /\ hole' = p
        /\ UNCHANGED <<count, next_seq, popped, pc, start, ev, lo, victim, read, write>>
    BY DEF Slide, cursors
  <1>2. /\ Slots' = Slots /\ Live = Slots /\ Live' = Slots /\ Sifting'
        /\ hole \in Slots /\ start \in Slots /\ ev \in Event
        /\ heap \in [Slots -> Event] /\ pc # "compact"
    BY <1>1, Types DEF Slots, Live, Sifting
  <1>3. At(hole) = ev /\ At(p) = heap[p]
    BY DEF At
  <1>4. \A s \in Slots : At(s)' = IF s = p THEN ev ELSE IF s = hole THEN At(p) ELSE At(s)
    BY <1>1, <1>2, <1>3 DEF At
  <1>5. TypeOK'
    <2>1. heap' \in [Slots' -> Event]
      BY <1>1, <1>2
    <2>2. node_heap_idx' \in [Nodes -> -1 .. MaxEvents - 1]
      BY SMT, <1>1, <1>2, BoundAssumption DEF IInv, TypeOK, track_slot, Slots
    <2> QED BY <1>1, <1>2, <2>1, <2>2 DEF IInv, TypeOK
  <1>6. Distinct'
    BY SMT, <1>1, <1>2, <1>3, <1>4 DEF IInv, Distinct
  <1>7. \A n \in Nodes, s \in Slots, r \in Slots :
           IsWakeup(At(s), n) /\ IsWakeup(At(r), n) => s = r
    BY <1>2 DEF IInv, OneWakeup
  <1>8. OneWakeup'
    BY SMT, <1>2, <1>3, <1>4, <1>7 DEF OneWakeup, IsWakeup
  <1>9. ASSUME NEW n \in Nodes PROVE IndexAt(n)'
    <2>1. node_heap_idx'[n] = IF IsWakeup(At(p), n) THEN hole ELSE node_heap_idx[n]
      BY <1>1, <1>3 DEF track_slot
    <2>2. IndexAt(n)
      BY <1>2 DEF IInv, Index
    <2>3. (\A s \in Slots : ~IsWakeup(At(s)', n)) => node_heap_idx'[n] = -1
      BY <1>2, <1>3, <1>4, <2>1, <2>2 DEF IndexAt
    <2>4. ASSUME victim = NoNode, NEW s \in Slots, IsWakeup(At(s)', n), ~InTheAir(s)'
          PROVE  node_heap_idx'[n] = s
      <3>1. s # p
        BY <1>1, <1>2, <2>4 DEF InTheAir
      <3>2. CASE s = hole
        BY <1>4, <2>1, <2>4, <3>2
      <3>3. CASE s # hole
        BY <1>2, <1>4, <1>7, <2>1, <2>2, <2>4, <3>1, <3>3 DEF IndexAt, InTheAir
      <3> QED BY <3>2, <3>3
    <2> QED BY <1>1, <1>2, <2>3, <2>4 DEF IndexAt, IsWakeup
  <1>10. Index'
    BY <1>1, <1>2, <1>9 DEF Index
  <1> QED BY <1>2, <1>3, <1>4, <1>5, <1>6, <1>8, <1>10

LEMMA SiftUpMoveInv == ASSUME IInv, SiftUpMove PROVE IInv'
  <1> DEFINE p == Parent(hole)
  <1>1. /\ pc = "up" /\ Sifting /\ lo = 0 /\ victim = NoNode
        /\ hole \in Slots /\ hole # 0 /\ ev_less(ev, heap[p]) /\ Slide(p)
        /\ hole <= start /\ start \in Slots
    BY SMT, Types DEF IInv, Control, SiftUpMove, Rises, Sifting, TypeOK
  <1>2. hole \in Nat \ {0} /\ p \in Slots /\ p \in Nat /\ p < hole /\ start \in Nat
    BY <1>1, ParentSlot, Types
  <1>3. p # hole /\ p # start
    BY SMT, <1>1, <1>2
  <1>4. hole' = p /\ UNCHANGED <<pc, start, lo, victim, read, write, count>>
    BY <1>1 DEF Slide, cursors
  <1>5. /\ Slots' = Slots /\ Sifting' /\ At(hole) = ev /\ ev \in Event
        /\ \A s \in Slots :
             At(s)' = IF s = p THEN ev ELSE IF s = hole THEN At(p) ELSE At(s)
        /\ TypeOK' /\ Distinct' /\ OneWakeup' /\ Index'
    BY <1>1, <1>2, <1>3, SlideInv
  <1>6. Control'
    BY SMT, <1>1, <1>2, <1>3, <1>4 DEF IInv, Control
  <1>7. ASSUME NEW c \in Slots \ {0} PROVE OrderAt(c)'
    <2>1. /\ Parent(c) \in Nat /\ Parent(c) \in Slots /\ Parent(c) < c /\ c \in Nat
          /\ p # 0 => Parent(p) \in Nat /\ Parent(p) \in Slots /\ Parent(p) < p
      BY <1>2, ParentSlot
    <2>2. OrderAt(c) /\ (p # 0 => OrderAt(p))
      BY <1>1, <1>2 DEF IInv, Order
    <2>3. /\ c # hole => ev_less(At(Parent(c)), At(c))
          /\ Parent(c) = hole => ev_less(At(p), At(c))
          /\ p # 0 => ev_less(At(Parent(p)), At(p))
      BY SMT, <1>1, <1>2, <2>1, <2>2 DEF OrderAt, Broken
    <2>4. /\ At(p) = heap[p] /\ At(p) \in Event /\ At(c) \in Event /\ At(Parent(c)) \in Event
          /\ p # 0 => At(Parent(p)) \in Event
      BY SMT, <1>2, <2>1, Types DEF At
    <2>5. c # p => ev_less(At(Parent(c))', At(c)')
      BY SMT, <1>1, <1>2, <1>5, <2>1, <2>3, <2>4, EvLessTransitive
    <2>6. ASSUME Parent(c) = p, p # 0, NEW q \in Slots, q = Parent(p)
          PROVE  ev_less(At(q)', At(c)')
      <3>1. q # p /\ q # hole /\ c # p /\ ev_less(At(q), At(p)) /\ At(q) \in Event
        BY SMT, <1>2, <2>1, <2>3, <2>4, <2>6
      <3>2. CASE c = hole
        BY <1>2, <1>5, <3>1, <3>2
      <3>3. CASE c # hole
        BY <1>2, <1>5, <2>3, <2>4, <2>6, <3>1, <3>3, EvLessTransitive
      <3> QED BY <3>2, <3>3
    <2>7. Sifting /\ Parent(c) = p /\ p # 0 => ev_less(At(Parent(hole))', At(c)')
      BY <1>4, <2>1, <2>6
    <2> QED BY SMT, <1>1, <1>2, <1>4, <2>5, <2>7 DEF OrderAt, Broken
  <1>8. Order'
    BY <1>1, <1>4, <1>5, <1>7 DEF Order
  <1> QED BY <1>5, <1>6, <1>8 DEF IInv

\* MinChild picks the child that precedes its sibling.
LEMMA MinChildFacts ==
  ASSUME IInv, pc = "down", 2*hole + 1 < count
  PROVE  LET m == MinChild(hole)
         IN  /\ m \in Slots /\ m \in Nat \ {0} /\ Parent(m) = hole /\ hole < m
             /\ \A c \in Slots \ {0} :
                  Parent(c) = hole /\ c # m => ev_less(At(m), At(c))
  <1> DEFINE m == MinChild(hole)
  <1>1. /\ Sifting /\ Live = Slots /\ hole \in Slots /\ hole \in Nat /\ count \in Nat
    BY Types DEF Sifting, Live
  <1>2. m = 2*hole + 1 \/ (m = 2*hole + 2 /\ m < count)
    BY DEF MinChild
  <1>3. m \in Nat \ {0} /\ hole < m /\ m < count
    BY SMT, <1>1, <1>2
  <1>4. m \in Slots /\ Parent(m) = hole
    BY <1>1, <1>2, <1>3, Types, ParentOf
  <1>5. ASSUME NEW c \in Slots \ {0}, Parent(c) = hole, c # m
        PROVE  ev_less(At(m), At(c))
    <2>1. c \in Nat \ {0} /\ c < count
      BY Types
    <2>2. c = 2*hole + 1 \/ c = 2*hole + 2
      BY <1>5, <2>1, ParentOf
    <2>3. c # hole /\ m # hole
      BY SMT, <1>1, <1>3, <2>2
    <2>4. /\ At(c) = heap[c] /\ At(m) = heap[m]
          /\ heap[c] \in Event /\ heap[m] \in Event /\ heap[c].seq # heap[m].seq
      BY <1>1, <1>4, <1>5, <2>3, Types DEF At, IInv, Distinct
    <2>5. CASE c = 2*hole + 1
      BY <1>2, <1>5, <2>4, <2>5 DEF MinChild
    <2>6. CASE c = 2*hole + 2
      <3>1. m = 2*hole + 1 /\ ~ev_less(heap[c], heap[m])
        BY <1>2, <1>5, <2>1, <2>6 DEF MinChild
      <3> QED BY <2>4, <3>1, EvLessTotal
    <2> QED BY <2>2, <2>5, <2>6
  <1> QED BY <1>3, <1>4, <1>5

LEMMA SiftDownMoveInv == ASSUME IInv, SiftDownMove PROVE IInv'
  <1> DEFINE m == MinChild(hole)
  <1>1. /\ pc = "down" /\ Sifting /\ 2*hole + 1 < count
        /\ ev_less(heap[m], ev) /\ Slide(m)
        /\ hole \in Slots /\ hole \in Nat /\ start \in Slots /\ start \in Nat
        /\ start <= hole /\ lo <= hole /\ lo \in Nat
    BY SMT, Types DEF IInv, Control, SiftDownMove, Sinks, Sifting, TypeOK
  <1>2. /\ m \in Slots /\ m \in Nat \ {0} /\ Parent(m) = hole /\ hole < m
        /\ \A c \in Slots \ {0} :
             Parent(c) = hole /\ c # m => ev_less(At(m), At(c))
    BY <1>1, MinChildFacts
  <1>3. m # hole /\ m # start
    BY SMT, <1>1, <1>2
  <1>4. hole' = m /\ UNCHANGED <<pc, start, lo, victim, read, write, count>>
    BY <1>1 DEF Slide, cursors
  <1>5. /\ Slots' = Slots /\ Sifting' /\ At(hole) = ev /\ ev \in Event
        /\ \A s \in Slots :
             At(s)' = IF s = m THEN ev ELSE IF s = hole THEN At(m) ELSE At(s)
        /\ TypeOK' /\ Distinct' /\ OneWakeup' /\ Index'
    BY <1>1, <1>2, <1>3, SlideInv
  <1>6. Control'
    BY SMT, <1>1, <1>2, <1>3, <1>4 DEF IInv, Control
  <1>7. ASSUME NEW c \in Slots \ {0} PROVE OrderAt(c)'
    <2>1. /\ Parent(c) \in Nat /\ Parent(c) \in Slots /\ Parent(c) < c /\ c \in Nat
          /\ hole # 0 => Parent(hole) \in Nat /\ Parent(hole) \in Slots /\ Parent(hole) < hole
      BY <1>1, ParentSlot
    <2>2. OrderAt(c) /\ OrderAt(m)
      BY <1>1, <1>2 DEF IInv, Order
    <2>3. At(m) = heap[m]
      BY <1>3 DEF At
    <2>4. ASSUME Parent(c) >= lo, Parent(c) # m
          PROVE  ev_less(At(Parent(c))', At(c)')
      <3>1. CASE c = m
        BY <1>1, <1>2, <1>3, <1>5, <2>3, <3>1
      <3>2. CASE Parent(c) = hole /\ c # m
        BY SMT, <1>1, <1>2, <1>3, <1>5, <2>1, <3>2
      <3>3. CASE c = hole
        BY SMT, <1>1, <1>2, <1>3, <1>5, <2>1, <2>2, <2>4, <3>3 DEF OrderAt
      <3>4. CASE Parent(c) # hole /\ c # hole /\ c # m
        BY <1>1, <1>5, <2>1, <2>2, <2>4, <3>4 DEF OrderAt, Broken
      <3> QED BY <3>1, <3>2, <3>3, <3>4
    <2>5. ASSUME Parent(c) = m, NEW q \in Slots, q = hole
          PROVE  ev_less(At(q)', At(c)')
      <3>1. c # m /\ c # hole /\ m >= lo
        BY SMT, <1>1, <1>2, <2>1, <2>5
      <3>2. ev_less(At(m), At(c))
        BY <1>1, <1>3, <2>2, <2>5, <3>1 DEF OrderAt, Broken
      <3> QED BY <1>3, <1>5, <2>5, <3>1, <3>2
    <2>6. Parent(c) = m => ev_less(At(Parent(hole))', At(c)')
      BY <1>1, <1>2, <1>4, <2>5
    <2> QED BY <1>1, <1>4, <2>4, <2>6 DEF OrderAt, Broken
  <1>8. Order'
    BY <1>1, <1>4, <1>5, <1>7 DEF Order
  <1> QED BY <1>5, <1>6, <1>8 DEF IInv

\* Ending a sift leaves every event where it was, so only the edges of the
\* hole are at stake.
LEMMA PlaceInv ==
  ASSUME IInv, Sifting, Place,
         \A c \in Slots \ {0} : Parent(c) >= lo => ev_less(At(Parent(c)), At(c))
  PROVE  IInv'
  <1>1. /\ pc' = (IF victim = NoNode THEN "idle" ELSE "heapify")
        /\ UNCHANGED <<count, next_seq, popped, lo, victim, read, write>>
    BY DEF Place, cursors
  <1>2. /\ Slots' = Slots /\ Live = Slots /\ Live' = Slots /\ ~Sifting'
        /\ hole \in Slots /\ start \in Slots /\ ev \in Event
        /\ heap \in [Slots -> Event] /\ pc # "compact" /\ pc' # "compact"
    BY <1>1, Types DEF Slots, Live, Sifting
  <1>3. At(hole) = ev
    BY DEF At
  <1>4. \A s \in Slots : At(s)' = At(s) /\ At(s) \in Event
    <2>1. CASE hole # start
      BY <1>2, <1>3, <2>1, Types DEF At, Place
    <2>2. CASE hole = start
      <3>1. heap' = heap
        BY <2>2 DEF Place
      <3>2. heap[hole] = ev
        BY <2>2 DEF IInv, Control
      <3> QED BY <1>2, <3>1, <3>2, Types DEF At
    <2> QED BY <2>1, <2>2
  <1>5. TypeOK'
    <2>1. heap' \in [Slots' -> Event]
      BY <1>2 DEF Place
    <2>2. node_heap_idx' \in [Nodes -> -1 .. MaxEvents - 1]
      BY SMT, <1>2, BoundAssumption DEF IInv, TypeOK, track_slot, Slots, Place
    <2> QED BY <1>1, <1>2, <2>1, <2>2 DEF IInv, TypeOK
  <1>6. Control'
    BY <1>1, <1>2, Types DEF IInv, Control, TypeOK, Sifting
  <1>7. Distinct'
    BY SMT, <1>1, <1>2, <1>4 DEF IInv, Distinct
  <1>8. \A n \in Nodes, s \in Slots, r \in Slots :
           IsWakeup(At(s), n) /\ IsWakeup(At(r), n) => s = r
    BY <1>2 DEF IInv, OneWakeup
  <1>9. OneWakeup'
    BY SMT, <1>2, <1>4, <1>8 DEF OneWakeup, IsWakeup
  <1>10. ASSUME NEW c \in Slots \ {0} PROVE OrderAt(c)'
    <2>1. Parent(c) \in Slots
      BY ParentSlot
    <2> QED BY <1>1, <1>2, <1>4, <2>1 DEF OrderAt
  <1>11. Order'
    BY <1>2, <1>10 DEF Order
  <1>12. ASSUME NEW n \in Nodes PROVE IndexAt(n)'
    <2>1. IndexAt(n)
      BY <1>2 DEF IInv, Index
    <2>2. CASE hole = start
      BY <1>1, <1>2, <1>4, <2>1, <2>2 DEF IndexAt, InTheAir, Place, IsWakeup
    <2>3. CASE hole # start
      <3>1. node_heap_idx'[n] = IF IsWakeup(At(hole), n) THEN hole ELSE node_heap_idx[n]
        BY <1>3, <2>3 DEF Place, track_slot
      <3>2. (\A s \in Slots : ~IsWakeup(At(s)', n)) => node_heap_idx'[n] = -1
        BY <1>2, <1>4, <2>1, <3>1 DEF IndexAt
      <3>3. ASSUME victim = NoNode, NEW s \in Slots, IsWakeup(At(s)', n)
            PROVE  node_heap_idx'[n] = s
        <4>1. IsWakeup(At(s), n)
          BY <1>4, <3>3
        <4>2. CASE s = hole
          BY <3>1, <4>1, <4>2
        <4>3. CASE s # hole
          BY <1>2, <1>8, <2>1, <3>1, <3>3, <4>1, <4>3 DEF IndexAt, InTheAir
        <4> QED BY <4>2, <4>3
      <3> QED BY <1>1, <1>2, <3>2, <3>3 DEF IndexAt, IsWakeup
    <2> QED BY <2>2, <2>3
  <1>13. Index'
    BY <1>2, <1>12 DEF Index
  <1> QED BY <1>5, <1>6, <1>7, <1>9, <1>11, <1>13 DEF IInv

LEMMA SiftUpPlaceInv == ASSUME IInv, SiftUpPlace PROVE IInv'
  <1>1. /\ pc = "up" /\ Sifting /\ ~Rises /\ Place /\ Live = Slots
        /\ hole \in Slots /\ hole \in Nat
    BY Types DEF SiftUpPlace, Sifting, Live
  <1>2. ASSUME NEW c \in Slots \ {0}, Parent(c) >= lo
        PROVE  ev_less(At(Parent(c)), At(c))
    <2>1. Parent(c) \in Slots /\ Parent(c) \in Nat /\ Parent(c) < c /\ c \in Nat
      BY ParentSlot
    <2>2. OrderAt(c)
      BY <1>1 DEF IInv, Order
    <2>3. CASE c # hole
      BY <1>1, <1>2, <2>2, <2>3 DEF OrderAt, Broken
    <2>4. CASE c = hole
      <3>1. At(hole) = ev /\ At(Parent(hole)) = heap[Parent(hole)]
        BY SMT, <1>1, <2>1, <2>4 DEF At
      <3>2. ~ev_less(ev, heap[Parent(hole)])
        BY SMT, <1>1, <2>1, <2>4 DEF Rises
      <3>3. /\ At(hole) \in Event /\ At(Parent(hole)) \in Event
            /\ At(Parent(hole)).seq # At(hole).seq
        BY SMT, <1>1, <2>1, <2>4, Types DEF IInv, Distinct
      <3> QED BY <2>4, <3>1, <3>2, <3>3, EvLessTotal
    <2> QED BY <2>3, <2>4
  <1> QED BY <1>1, <1>2, PlaceInv

LEMMA SiftDownPlaceInv == ASSUME IInv, SiftDownPlace PROVE IInv'
  <1>1. /\ pc = "down" /\ Sifting /\ ~Sinks /\ Place /\ Live = Slots
        /\ hole \in Slots /\ hole \in Nat /\ count \in Nat
    BY Types DEF SiftDownPlace, Sifting, Live
  <1>2. ASSUME NEW c \in Slots \ {0}, Parent(c) >= lo
        PROVE  ev_less(At(Parent(c)), At(c))
    <2>1. /\ Parent(c) \in Slots /\ Parent(c) \in Nat /\ Parent(c) < c
          /\ c \in Nat \ {0} /\ c < count
      BY ParentSlot, Types
    <2>2. OrderAt(c)
      BY <1>1 DEF IInv, Order
    <2>3. CASE Parent(c) # hole
      BY <1>1, <1>2, <2>2, <2>3 DEF OrderAt, Broken
    <2>4. CASE Parent(c) = hole
      <3> DEFINE m == MinChild(hole)
      <3>1. 2*hole + 1 < count
        <4>1. c = 2*hole + 1 \/ c = 2*hole + 2
          BY <2>1, <2>4, ParentOf
        <4>2. hole \in Nat /\ c < count /\ c \in Nat /\ count \in Nat
          BY <2>1, <2>4, Types
        <4> QED BY ONLY SMT, <4>1, <4>2
      <3>2. /\ m \in Slots /\ m \in Nat /\ hole < m
            /\ c # m => ev_less(At(m), At(c))
        BY <1>1, <2>4, <3>1, MinChildFacts
      <3>3. ~ev_less(heap[m], ev)
        BY <1>1, <3>1 DEF Sinks
      <3>4. At(hole) = ev /\ At(m) = heap[m]
        BY SMT, <1>1, <3>2 DEF At
      <3>5. /\ At(hole) \in Event /\ At(m) \in Event /\ At(c) \in Event
            /\ At(hole).seq # At(m).seq
        BY SMT, <1>1, <3>2, Types DEF IInv, Distinct
      <3>6. ev_less(At(hole), At(m))
        BY <3>3, <3>4, <3>5, EvLessTotal
      <3> QED BY <2>4, <3>2, <3>5, <3>6, EvLessTransitive
    <2> QED BY <2>3, <2>4
  <1> QED BY <1>1, <1>2, PlaceInv

-----------------------------------------------------------------------------
(* The calls.                                                              *)

\* What the invariant says between calls.
LEMMA Idle ==
  ASSUME IInv, pc = "idle"
  PROVE  /\ ~Sifting /\ Live = Slots /\ victim = NoNode /\ lo = 0
         /\ \A s \in Slots : /\ At(s) = heap[s] /\ heap[s] \in Event
                             /\ heap[s].seq \in Nat /\ heap[s].seq < next_seq
         /\ \A s, r \in Slots : r # s => heap[r].seq # heap[s].seq
         /\ \A n \in Nodes, s \in Slots, r \in Slots :
              IsWakeup(heap[s], n) /\ IsWakeup(heap[r], n) => s = r
         /\ \A c \in Slots \ {0} : ev_less(heap[Parent(c)], heap[c])
         /\ \A n \in Nodes :
              /\ (\A s \in Slots : ~IsWakeup(heap[s], n)) => node_heap_idx[n] = -1
              /\ \A s \in Slots : IsWakeup(heap[s], n) => node_heap_idx[n] = s
  <1>1. ~Sifting /\ Live = Slots /\ victim = NoNode /\ lo = 0
    BY DEF IInv, Control, Sifting, Live
  <1>2. \A s \in Slots : At(s) = heap[s] /\ heap[s] \in Event
    BY <1>1, Types DEF At
  <1>3. /\ \A s \in Slots : heap[s].seq \in Nat /\ heap[s].seq < next_seq
        /\ \A s, r \in Slots : r # s => heap[r].seq # heap[s].seq
    BY SMT, <1>1, <1>2 DEF IInv, Distinct, Event
  <1>4. \A n \in Nodes, s \in Slots, r \in Slots :
          IsWakeup(heap[s], n) /\ IsWakeup(heap[r], n) => s = r
    BY <1>1, <1>2 DEF IInv, OneWakeup
  <1>5. ASSUME NEW c \in Slots \ {0} PROVE ev_less(heap[Parent(c)], heap[c])
    <2>1. Parent(c) \in Slots /\ Parent(c) \in Nat
      BY ParentSlot
    <2>2. OrderAt(c)
      BY DEF IInv, Order
    <2> QED BY SMT, <1>1, <1>2, <2>1, <2>2 DEF OrderAt, Broken
  <1>6. ASSUME NEW n \in Nodes
        PROVE  /\ (\A s \in Slots : ~IsWakeup(heap[s], n)) => node_heap_idx[n] = -1
               /\ \A s \in Slots : IsWakeup(heap[s], n) => node_heap_idx[n] = s
    <2>1. IndexAt(n)
      BY DEF IInv, Index
    <2> QED BY <1>1, <1>2, <2>1 DEF IndexAt, InTheAir
  <1> QED BY <1>1, <1>2, <1>3, <1>4, <1>5, <1>6

LEMMA InsertInv ==
  ASSUME IInv, pc = "idle", NEW e \in Event, e.seq = next_seq,
         NEW idx, idx = track_slot(node_heap_idx, e, count), Insert(e, idx),
         \A n \in Nodes, s \in Slots : IsWakeup(e, n) => ~IsWakeup(heap[s], n)
  PROVE  IInv'
  <1>1. /\ count < MaxEvents /\ next_seq < MaxSeq
        /\ heap' = [s \in 0 .. count |-> IF s = count THEN e ELSE heap[s]]
        /\ count' = count + 1 /\ next_seq' = next_seq + 1
        /\ node_heap_idx' = track_slot(node_heap_idx, e, count)
        /\ pc' = "up" /\ hole' = count /\ start' = count /\ ev' = e
        /\ popped' = Empty /\ UNCHANGED <<lo, victim, read, write>>
    BY DEF Insert, Sift, cursors
  <1>2. /\ count \in Nat /\ next_seq \in Nat /\ victim = NoNode /\ lo = 0
        /\ \A s \in Slots : s \in Nat /\ s < count
    BY Types, Idle
  <1>3. Slots' = Slots \cup {count} /\ Slots' = 0 .. count /\ Sifting' /\ Live' = Slots'
    BY SMT, <1>1, <1>2 DEF Slots, Sifting, Live
  <1>4. \A s \in Slots' : At(s)' = IF s = count THEN e ELSE heap[s]
    BY <1>1, <1>3 DEF At
  <1>5. TypeOK'
    <2>1. heap' \in [Slots' -> Event]
      BY <1>1, <1>2, <1>3, Idle
    <2>2. node_heap_idx' \in [Nodes -> -1 .. MaxEvents - 1]
      BY SMT, <1>1, <1>2, BoundAssumption DEF IInv, TypeOK, track_slot
    <2>3. count' \in 0 .. MaxEvents /\ next_seq' \in 0 .. MaxSeq
      BY SMT, <1>1, <1>2, BoundAssumption
    <2>4. hole' \in Slots' /\ start' \in Slots' /\ ev' \in Event
      BY <1>1, <1>3
    <2> QED BY <1>1, <2>1, <2>2, <2>3, <2>4 DEF IInv, TypeOK
  <1>6. Control'
    <2>1. heap'[hole'] = ev'
      BY SMT, <1>1, <1>2
    <2> QED BY SMT, <1>1, <1>2, <2>1 DEF Control, Sifting
  <1>7. Distinct'
    BY SMT, <1>1, <1>2, <1>3, <1>4, Idle DEF Distinct
  <1>8. OneWakeup'
    <2>1. \A n \in Nodes, s \in Slots', r \in Slots' :
             IsWakeup(At(s)', n) /\ IsWakeup(At(r)', n) => s = r
      BY SMT, <1>2, <1>3, <1>4, Idle
    <2> QED BY <1>3, <2>1 DEF OneWakeup, IsWakeup
  <1>9. ASSUME NEW c \in Slots' \ {0} PROVE OrderAt(c)'
    <2>1. c \in Nat \ {0} /\ c <= count /\ Parent(c) \in Nat /\ Parent(c) < c
      BY SMT, <1>2, <1>3, ParentLess
    <2>2. Parent(c) # count
      BY SMT, <1>2, <2>1
    <2>3. CASE c = count
      BY <1>1, <2>2, <2>3 DEF OrderAt, Broken
    <2>4. CASE c # count
      <3>1. c \in Slots /\ Parent(c) \in Slots
        BY <1>3, <2>1, <2>4, ParentSlot
      <3>2. ev_less(At(Parent(c))', At(c)')
        BY SMT, <1>3, <1>4, <2>2, <2>4, <3>1, Idle
      <3> QED BY <1>1, <2>2, <3>2 DEF OrderAt
    <2> QED BY <2>3, <2>4
  <1>10. Order'
    BY <1>9 DEF Order
  <1>11. ASSUME NEW n \in Nodes PROVE IndexAt(n)'
    <2>1. node_heap_idx'[n] = IF IsWakeup(e, n) THEN count ELSE node_heap_idx[n]
      BY <1>1 DEF track_slot
    <2>2. /\ \A s \in Slots : s # count /\ s \in Slots' /\ At(s)' = heap[s]
          /\ \A s \in Slots' : s \in Slots \/ (s = count /\ At(s)' = e)
          /\ count \in Slots'
      BY SMT, <1>2, <1>3, <1>4
    <2>3. /\ (\A s \in Slots : ~IsWakeup(heap[s], n)) => node_heap_idx[n] = -1
          /\ \A s \in Slots : IsWakeup(heap[s], n) => node_heap_idx[n] = s
      BY Idle
    <2>4. (\A s \in Slots' : ~IsWakeup(At(s)', n)) => node_heap_idx'[n] = -1
      BY <1>3, <2>1, <2>2, <2>3
    <2>5. \A s \in Slots' : IsWakeup(At(s)', n) => node_heap_idx'[n] = s
      BY <2>1, <2>2, <2>3
    <2> QED BY <2>4, <2>5 DEF IndexAt, IsWakeup
  <1>12. Index'
    BY <1>11 DEF Index
  <1> QED BY <1>5, <1>6, <1>7, <1>8, <1>10, <1>12 DEF IInv

LEMMA RescheduleInv ==
  ASSUME IInv, pc = "idle", NEW n \in Nodes, NEW i \in Slots, IsWakeup(heap[i], n),
         NEW t \in Times, NEW g \in Gens, Reschedule(i, t, g)
  PROVE  IInv'
  <1> DEFINE e == [heap[i] EXCEPT !.time = t, !.seq = next_seq, !.gen = g]
             up == t < heap[i].time
  <1>1. /\ next_seq < MaxSeq
        /\ heap' = [heap EXCEPT ![i] = e]
        /\ next_seq' = next_seq + 1
        /\ pc' = (IF up THEN "up" ELSE "down")
        /\ hole' = i /\ start' = i /\ ev' = e
        /\ popped' = Empty /\ UNCHANGED <<count, node_heap_idx, lo, victim, read, write>>
    BY DEF Reschedule, Sift, cursors
  <1>2. /\ next_seq \in Nat /\ victim = NoNode /\ lo = 0 /\ i \in Nat
        /\ heap \in [Slots -> Event] /\ heap[i] \in Event
    BY Types, Idle
  <1>3. Slots' = Slots /\ Sifting' /\ Live' = Slots
    BY <1>1 DEF Slots, Sifting, Live
  <1>4. /\ e \in Event /\ e.seq = next_seq /\ e.time = t
        /\ e.kind = heap[i].kind /\ e.node = heap[i].node
        /\ heap[i].time \in Int /\ t \in Int /\ heap[i].seq \in Nat
        /\ heap[i].seq < next_seq
    BY <1>2, Idle, TimeAssumption DEF Event
  <1>5. /\ up => ev_less(e, heap[i])
        /\ ~up => ev_less(heap[i], e)
    BY SMT, <1>2, <1>4 DEF ev_less
  <1> HIDE DEF e, up
  <1>6. \A s \in Slots : At(s)' = IF s = i THEN e ELSE heap[s]
    BY <1>1, <1>2, <1>3 DEF At
  <1>7. TypeOK'
    <2>1. heap' \in [Slots' -> Event]
      BY <1>1, <1>2, <1>3, <1>4
    <2>2. next_seq' \in 0 .. MaxSeq
      BY SMT, <1>1, <1>2, BoundAssumption
    <2> QED BY <1>1, <1>3, <1>4, <2>1, <2>2 DEF IInv, TypeOK
  <1>8. Control'
    <2>1. heap'[hole'] = ev'
      BY <1>1, <1>2
    <2>2. lo' = 0 /\ victim' = NoNode /\ hole' = start' /\ hole' \in Nat /\ count' \in Nat
      BY <1>1, <1>2, Types
    <2> QED BY SMT, <1>1, <2>1, <2>2 DEF Control, Sifting
  <1>9. Distinct'
    BY SMT, <1>1, <1>2, <1>3, <1>4, <1>6, Idle DEF Distinct
  <1>10. \A s \in Slots, m \in Nodes : IsWakeup(At(s)', m) <=> IsWakeup(heap[s], m)
    BY <1>4, <1>6 DEF IsWakeup
  <1>11. OneWakeup'
    <2>1. \A m \in Nodes, s \in Slots, r \in Slots :
             IsWakeup(At(s)', m) /\ IsWakeup(At(r)', m) => s = r
      BY <1>10, Idle
    <2> QED BY <1>3, <2>1 DEF OneWakeup, IsWakeup
  <1>12. ASSUME NEW c \in Slots \ {0} PROVE OrderAt(c)'
    <2>1. /\ c \in Nat /\ Parent(c) \in Slots /\ Parent(c) \in Nat /\ Parent(c) < c
          /\ i # 0 => Parent(i) \in Slots /\ Parent(i) \in Nat /\ Parent(i) < i
      BY ParentSlot
    <2>2. /\ ev_less(heap[Parent(c)], heap[c])
          /\ i # 0 => ev_less(heap[Parent(i)], heap[i])
          /\ heap[c] \in Event /\ heap[Parent(c)] \in Event
          /\ i # 0 => heap[Parent(i)] \in Event
      BY <2>1, Idle
    <2>3. ASSUME ~(up /\ c = i), ~(~up /\ Parent(c) = i)
          PROVE  ev_less(At(Parent(c))', At(c)')
      <3>1. CASE c = i
        BY <1>2, <1>4, <1>5, <1>6, <2>1, <2>2, <2>3, <3>1, EvLessTransitive
      <3>2. CASE Parent(c) = i
        BY <1>2, <1>4, <1>5, <1>6, <2>1, <2>2, <2>3, <3>2, EvLessTransitive
      <3>3. CASE c # i /\ Parent(c) # i
        BY <1>6, <2>1, <2>2, <3>3
      <3> QED BY <3>1, <3>2, <3>3
    <2>4. ASSUME Parent(c) = i, i # 0, NEW q \in Slots, q = Parent(i)
          PROVE  ev_less(At(q)', At(c)')
      BY SMT, <1>2, <1>6, <2>1, <2>2, <2>4, EvLessTransitive
    <2>5. Parent(c) = hole' /\ hole' > 0 => ev_less(At(Parent(hole))', At(c)')
      BY SMT, <1>1, <1>2, <2>1, <2>4
    <2> QED BY <1>1, <2>3, <2>5 DEF OrderAt, Broken
  <1>13. Order'
    BY <1>3, <1>12 DEF Order
  <1>14. ASSUME NEW m \in Nodes PROVE IndexAt(m)'
    <2>1. /\ (\A s \in Slots : ~IsWakeup(heap[s], m)) => node_heap_idx[m] = -1
          /\ \A s \in Slots : IsWakeup(heap[s], m) => node_heap_idx[m] = s
      BY Idle
    <2> QED BY <1>1, <1>3, <1>10, <2>1 DEF IndexAt, IsWakeup
  <1>15. Index'
    BY <1>14 DEF Index
  <1> QED BY <1>7, <1>8, <1>9, <1>11, <1>13, <1>15 DEF IInv

\* wakeup_slot finds the node's wakeup exactly when it has one.
LEMMA WakeupSlot ==
  ASSUME IInv, pc = "idle", NEW n \in Nodes
  PROVE  /\ wakeup_slot(n) >= 0 => /\ wakeup_slot(n) \in Slots
                                   /\ IsWakeup(heap[wakeup_slot(n)], n)
         /\ ~(wakeup_slot(n) >= 0) => \A s \in Slots : ~IsWakeup(heap[s], n)
  <1>1. \A s \in Slots : s \in Nat /\ (IsWakeup(heap[s], n) => node_heap_idx[n] = s)
    BY Types, Idle
  <1> QED BY SMT, <1>1 DEF wakeup_slot

LEMMA ScheduleGenInv ==
  ASSUME IInv, NEW n \in Nodes, NEW t \in Times, NEW g \in Gens,
         sim_eq_schedule_gen(n, t, g)
  PROVE  IInv'
  <1> DEFINE e == NewEvent("NODE_WAKEUP", n, t, g)
  <1>1. pc = "idle"
    BY DEF sim_eq_schedule_gen
  <1>2. CASE wakeup_slot(n) >= 0
    BY <1>1, <1>2, WakeupSlot, RescheduleInv DEF sim_eq_schedule_gen
  <1>3. CASE ~(wakeup_slot(n) >= 0)
    <2>1. e \in Event /\ e.seq = next_seq /\ \A m \in Nodes : IsWakeup(e, m) => m = n
      BY Types DEF Event, Kind, NewEvent, IsWakeup
    <2>2. Insert(e, track_slot(node_heap_idx, e, count))
      BY <1>3 DEF sim_eq_schedule_gen
    <2> QED BY <1>1, <1>3, <2>1, <2>2, WakeupSlot, InsertInv
  <1> QED BY <1>2, <1>3

\* The other kinds are not indexed, so tracking them changes nothing.
LEMMA OtherKindInv ==
  ASSUME IInv, pc = "idle", NEW k \in Kind \ {"NODE_WAKEUP"}, NEW n \in Nodes \cup {NoNode},
         NEW t \in Times, NEW g \in Gens \cup {0},
         Insert(NewEvent(k, n, t, g), node_heap_idx)
  PROVE  IInv'
  <1> DEFINE e == NewEvent(k, n, t, g)
  <1>1. e \in Event /\ e.seq = next_seq /\ \A m \in Nodes : ~IsWakeup(e, m)
    BY Types DEF Event, NewEvent, IsWakeup
  <1>2. track_slot(node_heap_idx, e, count) = node_heap_idx
    BY <1>1, Types DEF track_slot
  <1> QED BY <1>1, <1>2, InsertInv

LEMMA PopInv == ASSUME IInv, sim_eq_pop PROVE IInv'
  <1> DEFINE k == count - 1
             last == heap[k]
             cleared == clear_index(node_heap_idx, heap[0])
  <1>1. /\ pc = "idle" /\ count > 0 /\ popped' = heap[0]
        /\ heap' = [s \in 0 .. count - 2 |-> IF s = 0 THEN last ELSE heap[s]]
        /\ count' = k /\ UNCHANGED <<next_seq, lo, victim, read, write>>
    BY DEF sim_eq_pop, cursors
  <1>2. /\ count \in Nat /\ count <= MaxEvents /\ MaxEvents \in Nat
        /\ \A s \in Slots : s \in Nat /\ s < count
        /\ 0 \in Slots /\ k \in Slots
        /\ victim = NoNode /\ lo = 0
        /\ heap[0] \in Event /\ last \in Event
    BY SMT, <1>1, Types, Idle, BoundAssumption DEF IInv, TypeOK
  <1>3. /\ Slots' = 0 .. count - 2 /\ Slots' = Slots \ {k}
        /\ 0 \in Slots' <=> count > 1
    BY SMT, <1>1, <1>2 DEF Slots
  <1>4. heap' \in [Slots' -> Event]
    BY <1>1, <1>2, <1>3, Idle
  <1>5. CASE count = 1
    <2>1. /\ Slots' = {} /\ node_heap_idx' = cleared
          /\ UNCHANGED <<pc, hole, start, ev>>
      BY SMT, <1>1, <1>2, <1>3, <1>5 DEF sim_eq_pop, sift
    <2>2. TypeOK'
      BY SMT, <1>1, <1>2, <1>4, <1>5, <2>1 DEF IInv, TypeOK, clear_index, track_slot, Sifting
    <2>3. Control'
      BY <1>1, <1>2, <1>5, <2>1 DEF IInv, Control, Sifting
    <2>4. Live' = {}
      BY <1>1, <2>1 DEF Live
    <2>5. ASSUME NEW n \in Nodes PROVE IndexAt(n)'
      <3>1. node_heap_idx'[n] = -1
        <4>1. \A s \in Slots : s = 0
          BY SMT, <1>2, <1>5
        <4> QED BY <1>1, <1>2, <2>1, <4>1, Idle DEF clear_index, track_slot
      <3> QED BY <2>1, <3>1 DEF IndexAt
    <2> QED BY <2>1, <2>2, <2>3, <2>4, <2>5
        DEF IInv, Distinct, OneWakeup, Order, Index
  <1>6. CASE count > 1
    <2>1. /\ pc' = "down" /\ hole' = 0 /\ start' = 0 /\ ev' = last
          /\ node_heap_idx' = track_slot(cleared, last, 0)
      BY <1>1, <1>6 DEF sim_eq_pop, Sift
    <2>2. Sifting' /\ Live' = Slots' /\ k # 0
      BY SMT, <1>2, <1>6, <2>1 DEF Sifting, Live
    <2>3. \A s \in Slots' : At(s)' = IF s = 0 THEN last ELSE heap[s]
      BY <1>1, <1>3, <2>1, <2>2 DEF At
    <2>4. TypeOK'
      <3>1. node_heap_idx' \in [Nodes -> -1 .. MaxEvents - 1]
        BY SMT, <1>2, <2>1, BoundAssumption DEF IInv, TypeOK, clear_index, track_slot
      <3>2. count' \in 0 .. MaxEvents
        BY SMT, <1>1, <1>2
      <3> QED BY <1>1, <1>2, <1>3, <1>4, <1>6, <2>1, <3>1, <3>2 DEF IInv, TypeOK
    <2>5. Control'
      <3>1. heap'[hole'] = ev'
        BY SMT, <1>1, <1>2, <1>6, <2>1
      <3>2. count' \in Nat
        BY <1>1, <1>2
      <3> QED BY SMT, <1>1, <1>2, <2>1, <3>1, <3>2 DEF Control, Sifting
    <2>6. Distinct'
      BY SMT, <1>1, <1>2, <1>3, <2>2, <2>3, Idle DEF Distinct
    <2>7. \A s \in Slots' : \E r \in Slots : /\ At(s)' = heap[r] /\ r # 0
                                             /\ IF s = 0 THEN r = k ELSE r = s
      BY <1>2, <1>3, <2>2, <2>3
    <2>8. OneWakeup'
      <3>1. \A n \in Nodes, s \in Slots', r \in Slots' :
               IsWakeup(At(s)', n) /\ IsWakeup(At(r)', n) => s = r
        BY SMT, <1>1, <1>2, <1>3, <2>7, Idle
      <3> QED BY <2>2, <3>1 DEF OneWakeup, IsWakeup
    <2>9. ASSUME NEW c \in Slots' \ {0} PROVE OrderAt(c)'
      <3>1. c \in Slots /\ c # 0 /\ c # k
        BY <1>3
      <3>2. Parent(c) \in Slots /\ Parent(c) \in Nat /\ Parent(c) < c /\ Parent(c) < k
        BY SMT, <1>2, <3>1, ParentSlot
      <3>3. Parent(c) # 0 => ev_less(At(Parent(c))', At(c)')
        BY SMT, <1>1, <1>2, <1>3, <2>3, <3>1, <3>2, Idle
      <3> QED BY SMT, <2>1, <3>3 DEF OrderAt, Broken
    <2>10. Order'
      BY <2>9 DEF Order
    <2>11. ASSUME NEW n \in Nodes PROVE IndexAt(n)'
      <3>1. node_heap_idx'[n] = IF IsWakeup(last, n) THEN 0
                                ELSE IF IsWakeup(heap[0], n) THEN -1 ELSE node_heap_idx[n]
        BY <2>1 DEF clear_index, track_slot
      <3>2. /\ (\A s \in Slots : ~IsWakeup(heap[s], n)) => node_heap_idx[n] = -1
            /\ \A s \in Slots : IsWakeup(heap[s], n) => node_heap_idx[n] = s
        BY <1>1, Idle
      <3>3. /\ \A s \in Slots : s # 0 /\ s # k => s \in Slots' /\ At(s)' = heap[s]
            /\ \A s \in Slots' : s = 0 => At(s)' = last
            /\ \A s \in Slots' : s \in Slots /\ s # k
            /\ 0 \in Slots'
        BY <1>3, <1>6, <2>3
      <3>4. (\A s \in Slots' : ~IsWakeup(At(s)', n)) => node_heap_idx'[n] = -1
        BY <1>2, <3>1, <3>2, <3>3
      <3>5. \A s \in Slots' : IsWakeup(At(s)', n) => node_heap_idx'[n] = s
        <4>1. \A s, r \in Slots : IsWakeup(heap[s], n) /\ IsWakeup(heap[r], n) => s = r
          BY <1>1, Idle
        <4> QED BY <1>2, <2>2, <3>1, <3>2, <3>3, <4>1
      <3> QED BY <3>4, <3>5 DEF IndexAt, IsWakeup
    <2>12. Index'
      BY <2>11 DEF Index
    <2> QED BY <2>4, <2>5, <2>6, <2>8, <2>10, <2>12 DEF IInv
  <1> QED BY SMT, <1>1, <1>2, <1>5, <1>6

-----------------------------------------------------------------------------
(* sim_eq_remove_node.                                                     *)

LEMMA RemoveNodeInv == ASSUME IInv, NEW n \in Nodes, sim_eq_remove_node(n) PROVE IInv'
  <1>1. /\ pc = "idle" /\ victim' = n /\ read' = 0 /\ write' = 0 /\ pc' = "compact"
        /\ popped' = Empty
        /\ UNCHANGED <<heap, count, next_seq, node_heap_idx, hole, start, ev, lo>>
    BY DEF sim_eq_remove_node, qvars, sift
  <1>2. victim = NoNode /\ lo = 0 /\ n # NoNode /\ count \in Nat
    BY <1>1, Idle, Types, NodeAssumption
  <1>3. Slots' = Slots /\ Live' = Slots /\ ~Sifting'
    BY SMT, <1>1, <1>2 DEF Slots, Live, Sifting
  <1>4. \A s \in Slots : At(s)' = heap[s]
    BY <1>1, <1>3 DEF At
  <1>5. TypeOK'
    BY SMT, <1>1, <1>3, BoundAssumption DEF IInv, TypeOK
  <1>6. Control'
    BY SMT, <1>1, <1>2, <1>3 DEF Control
  <1>7. Distinct'
    BY SMT, <1>1, <1>3, <1>4, Idle DEF Distinct
  <1>8. OneWakeup'
    <2>1. \A m \in Nodes, s \in Slots, r \in Slots :
             IsWakeup(At(s)', m) /\ IsWakeup(At(r)', m) => s = r
      BY SMT, <1>1, <1>4, Idle
    <2> QED BY <1>3, <2>1 DEF OneWakeup, IsWakeup
  <1> QED BY <1>1, <1>5, <1>6, <1>7, <1>8 DEF IInv, Order, Index

LEMMA CompactInv == ASSUME IInv, Compact PROVE IInv'
  <1> DEFINE keep == heap[read].node # victim
  <1>1. /\ pc = "compact" /\ pc' = "compact" /\ read < count /\ read' = read + 1
        /\ UNCHANGED <<count, next_seq, node_heap_idx, popped, hole, start, ev, lo, victim>>
        /\ keep => heap' = [heap EXCEPT ![write] = heap[read]] /\ write' = write + 1
        /\ ~keep => heap' = heap /\ write' = write
    BY DEF Compact, sift
  <1>2. /\ count \in Nat /\ count <= MaxEvents /\ MaxEvents \in Nat
        /\ read \in Nat /\ write \in Nat /\ write <= read
        /\ heap \in [Slots -> Event] /\ victim # NoNode /\ lo = 0
        /\ \A s \in 0 .. write - 1 : heap[s].node # victim
        /\ ~Sifting /\ ~Sifting' /\ Slots' = Slots
    BY SMT, <1>1, Types, BoundAssumption DEF IInv, TypeOK, Control, Sifting, Slots
  <1>3. read \in Slots /\ write \in Slots
    BY SMT, <1>1, <1>2 DEF Slots
  <1>4. /\ Live = (0 .. write - 1) \cup (read .. count - 1)
        /\ Live' = (0 .. write' - 1) \cup (read + 1 .. count - 1)
        /\ \A s : At(s) = heap[s] /\ At(s)' = heap'[s]
    BY <1>1, <1>2 DEF Live, At
  <1>5. \A s \in Slots : ~(keep /\ s = write) => heap'[s] = heap[s]
    <2>1. CASE keep
      BY <1>1, <1>2, <1>3, <2>1
    <2>2. CASE ~keep
      BY <1>1, <2>2
    <2> QED BY <2>1, <2>2
  <1>6. TypeOK'
    <2>1. heap' \in [Slots' -> Event]
      BY <1>1, <1>2, <1>3
    <2>2. read' \in 0 .. MaxEvents /\ write' \in 0 .. MaxEvents
      BY SMT, <1>1, <1>2
    <2> QED BY <1>1, <1>2, <2>1, <2>2 DEF IInv, TypeOK
  <1>7. Control'
    <2>1. ASSUME NEW s \in 0 .. write' - 1 PROVE heap'[s].node # victim
      <3>1. CASE keep /\ s = write
        BY <1>1, <1>2, <1>3, <3>1
      <3>2. CASE ~(keep /\ s = write)
        <4>1. s \in 0 .. write - 1 /\ s \in Slots
          BY SMT, <1>1, <1>2, <1>3, <3>2 DEF Slots
        <4>2. heap'[s] = heap[s]
          BY <1>5, <3>2, <4>1
        <4> QED BY <1>2, <4>1, <4>2
      <3> QED BY <3>1, <3>2
    <2> QED BY SMT, <1>1, <1>2, <2>1 DEF Control
  <1>8. \* Every live slot holds what a live slot held, no two the same.
        \A s \in Live' : \E r \in Live : /\ heap'[s] = heap[r]
                                         /\ IF keep /\ s = write THEN r = read
                                            ELSE r = s /\ r # read
    <2> SUFFICES ASSUME NEW s \in Live'
                 PROVE  \E r \in Live : /\ heap'[s] = heap[r]
                                        /\ IF keep /\ s = write THEN r = read
                                           ELSE r = s /\ r # read
      OBVIOUS
    <2>1. CASE keep /\ s = write
      BY SMT, <1>1, <1>2, <1>3, <1>4, <2>1
    <2>2. CASE ~(keep /\ s = write)
      <3>1. s \in Live /\ s # read
        BY SMT, <1>1, <1>2, <1>4, <2>2
      <3>2. s \in Slots
        BY SMT, <1>1, <1>2, <1>4, <3>1 DEF Slots
      <3>3. heap'[s] = heap[s]
        BY <1>5, <2>2, <3>2
      <3> QED BY <2>2, <3>1, <3>3
    <2> QED BY <2>1, <2>2
  <1>9. /\ \A s \in Live : heap[s].seq < next_seq
        /\ \A s \in Live, r \in Live : r # s => heap[r].seq # heap[s].seq
        /\ \A n \in Nodes, s \in Live, r \in Live :
             IsWakeup(heap[s], n) /\ IsWakeup(heap[r], n) => s = r
    BY <1>4 DEF IInv, Distinct, OneWakeup
  <1>10. Distinct'
    <2>1. \A s \in Live' : /\ heap'[s].seq < next_seq
                           /\ \A r \in Live' : r # s => heap'[r].seq # heap'[s].seq
      BY SMT, <1>8, <1>9
    <2> QED BY <1>1, <1>4, <2>1 DEF Distinct
  <1>11. OneWakeup'
    <2>1. \A n \in Nodes, s \in Live', r \in Live' :
            IsWakeup(heap'[s], n) /\ IsWakeup(heap'[r], n) => s = r
      BY ONLY ZenonT(30), <1>8, <1>9
    <2> QED BY SMT, <1>4, <2>1 DEF OneWakeup, IsWakeup
  <1> QED BY <1>1, <1>6, <1>7, <1>10, <1>11 DEF IInv, Order, Index

\* A slot whose parent is not one of the first n \div 2 is none of the first n.
LEMMA LeavesOnly ==
  ASSUME NEW n \in Nat, NEW c \in 1 .. n - 1
  PROVE  Parent(c) < n \div 2
  BY SMT DEF Parent

LEMMA CompactedInv == ASSUME IInv, Compacted PROVE IInv'
  <1>1. /\ pc = "compact" /\ pc' = "heapify" /\ read = count /\ count' = write
        /\ heap' = [s \in 0 .. write - 1 |-> heap[s]]
        /\ node_heap_idx' = [n \in Nodes |-> -1]
        /\ lo' = write \div 2 /\ read' = 0 /\ write' = 0
        /\ UNCHANGED <<next_seq, popped, hole, start, ev, victim>>
    BY DEF Compacted, sift
  <1>2. /\ count \in Nat /\ count <= MaxEvents /\ MaxEvents \in Nat
        /\ write \in Nat /\ write <= count
        /\ heap \in [Slots -> Event] /\ victim # NoNode
        /\ ~Sifting /\ ~Sifting'
        /\ Slots' = 0 .. write - 1 /\ Live' = Slots' /\ Slots' \subseteq Slots
    <2>1. /\ count \in 0 .. MaxEvents /\ write \in 0 .. MaxEvents /\ MaxEvents \in Nat
          /\ heap \in [Slots -> Event] /\ victim # NoNode /\ write <= read
      BY <1>1, BoundAssumption DEF IInv, TypeOK, Control
    <2>2. /\ ~Sifting /\ ~Sifting'
          /\ Slots' = 0 .. write - 1 /\ Live' = Slots'
      BY <1>1 DEF Sifting, Slots, Live
    <2>3. write <= count
      BY <1>1, <2>1
    <2>5. count \in Nat /\ count <= MaxEvents /\ write \in Nat
      BY ONLY SMT, <2>1
    <2>4. 0 .. write - 1 \subseteq Slots
      BY ONLY SMT, <2>3, <2>5 DEF Slots
    <2> QED BY <2>1, <2>2, <2>3, <2>4, <2>5
  <1>3. /\ Slots' \subseteq Live
        /\ \A s \in Slots' : At(s)' = heap[s] /\ At(s) = heap[s]
    BY <1>1, <1>2 DEF Live, At
  <1>4. lo' \in Nat /\ lo' <= write
    BY SMT, <1>1, <1>2
  <1>5. TypeOK'
    <2>1. heap' \in [Slots' -> Event]
      BY <1>1, <1>2
    <2>2. node_heap_idx' \in [Nodes -> -1 .. MaxEvents - 1]
      BY SMT, <1>1, BoundAssumption
    <2>3. count' \in 0 .. MaxEvents /\ lo' \in 0 .. MaxEvents /\ 0 \in 0 .. MaxEvents
      BY SMT, <1>1, <1>2, <1>4
    <2> QED BY <1>1, <1>2, <2>1, <2>2, <2>3 DEF IInv, TypeOK
  <1>6. Control'
    BY <1>1, <1>2, <1>4 DEF Control
  <1>7. Distinct'
    BY SMT, <1>1, <1>2, <1>3 DEF IInv, Distinct
  <1>8. OneWakeup'
    <2>1. \A n \in Nodes, s \in Slots', r \in Slots' :
            IsWakeup(At(s)', n) /\ IsWakeup(At(r)', n) => s = r
      BY <1>3 DEF IInv, OneWakeup
    <2> QED BY <1>2, <2>1 DEF OneWakeup, IsWakeup
  <1>9. ASSUME NEW c \in Slots' \ {0} PROVE OrderAt(c)'
    <2>1. c \in 1 .. write - 1 /\ c \in Nat \ {0}
      BY SMT, <1>2
    <2>2. Parent(c) < lo' /\ Parent(c) \in Nat
      BY <1>1, <1>2, <2>1, LeavesOnly, ParentLess
    <2>3. ~(Parent(c) >= lo')
      BY SMT, <1>4, <2>2
    <2> QED BY <1>2, <2>3 DEF OrderAt
  <1>10. Order'
    BY <1>9 DEF Order
  <1>11. Index'
    BY <1>1, <1>2 DEF Index, IndexAt
  <1> QED BY <1>5, <1>6, <1>7, <1>8, <1>10, <1>11 DEF IInv

LEMMA HeapifyInv == ASSUME IInv, Heapify PROVE IInv'
  <1> DEFINE i == lo - 1
  <1>1. /\ pc = "heapify" /\ pc' = "down" /\ lo > 0 /\ lo' = i
        /\ hole' = i /\ start' = i /\ ev' = heap[i]
        /\ UNCHANGED <<heap, count, next_seq, node_heap_idx, popped, victim, read, write>>
    BY DEF Heapify, Sift, qvars
  <1>2. /\ lo \in Nat /\ lo <= count /\ lo <= MaxEvents /\ MaxEvents \in Nat
        /\ count \in Nat /\ victim # NoNode
        /\ ~Sifting /\ Sifting' /\ Slots' = Slots /\ Live = Slots /\ Live' = Slots
    <2>1. /\ count \in Nat /\ lo \in 0 .. MaxEvents /\ MaxEvents \in Nat
          /\ lo <= count /\ victim # NoNode
      BY <1>1, Types, BoundAssumption DEF IInv, TypeOK, Control
    <2>2. /\ ~Sifting /\ Sifting' /\ Slots' = Slots
          /\ Live = Slots /\ Live' = Slots
      BY <1>1 DEF Sifting, Slots, Live
    <2>3. lo \in Nat /\ lo <= MaxEvents
      BY ONLY SMT, <2>1
    <2> QED BY <2>1, <2>2, <2>3
  <1>3. i \in Slots /\ i \in Nat /\ heap[i] \in Event
    BY SMT, <1>1, <1>2, Types DEF Slots
  <1>4. \A s \in Slots : At(s)' = At(s) /\ At(s) = heap[s]
    BY <1>1, <1>2 DEF At
  <1>5. TypeOK'
    <2>1. lo' \in 0 .. MaxEvents
      BY SMT, <1>1, <1>2
    <2> QED BY <1>1, <1>2, <1>3, <2>1 DEF IInv, TypeOK
  <1>6. Control'
    BY SMT, <1>1, <1>2, <1>3 DEF Control
  <1>7. Distinct'
    BY SMT, <1>1, <1>2, <1>4 DEF IInv, Distinct
  <1>8. OneWakeup'
    <2>1. \A n \in Nodes, s \in Slots, r \in Slots :
            IsWakeup(At(s)', n) /\ IsWakeup(At(r)', n) => s = r
      BY <1>2, <1>4 DEF IInv, OneWakeup
    <2> QED BY <1>2, <2>1 DEF OneWakeup, IsWakeup
  <1>9. ASSUME NEW c \in Slots \ {0} PROVE OrderAt(c)'
    <2>1. Parent(c) \in Slots /\ Parent(c) \in Nat
      BY ParentSlot
    <2>2. OrderAt(c)
      BY <1>1 DEF IInv, Order
    <2>3. ASSUME Parent(c) >= i, Parent(c) # i PROVE ev_less(At(Parent(c))', At(c)')
      <3>1. Parent(c) >= lo
        BY SMT, <1>2, <2>1, <2>3
      <3> QED BY <1>1, <1>2, <1>4, <2>1, <2>2, <3>1 DEF OrderAt, Broken
    <2>4. ~(i > 0 /\ Parent(i) >= i)
      BY SMT, <1>3, ParentSlot
    <2> QED BY <1>1, <2>3, <2>4 DEF OrderAt, Broken
  <1>10. Order'
    BY <1>2, <1>9 DEF Order
  <1>11. ASSUME NEW n \in Nodes PROVE IndexAt(n)'
    <2>1. IndexAt(n)
      BY <1>1 DEF IInv, Index
    <2>2. (\A s \in Slots : ~IsWakeup(At(s)', n)) => node_heap_idx'[n] = -1
      BY <1>1, <1>4, <2>1 DEF IndexAt
    <2> QED BY <1>1, <1>2, <2>2 DEF IndexAt, IsWakeup
  <1>12. Index'
    BY <1>11 DEF Index
  <1> QED BY <1>5, <1>6, <1>7, <1>8, <1>10, <1>12 DEF IInv

LEMMA HeapifiedInv == ASSUME IInv, Heapified PROVE IInv'
  <1> DEFINE S(n) == {s \in Slots : IsWakeup(heap[s], n)}
  <1>1. /\ pc = "heapify" /\ pc' = "idle" /\ lo = 0 /\ victim' = NoNode
        /\ node_heap_idx' =
             [n \in Nodes |-> IF S(n) = {} THEN node_heap_idx[n] ELSE Max(S(n))]
        /\ UNCHANGED <<heap, count, next_seq, popped, hole, start, ev, lo, read, write>>
    BY DEF Heapified, sift
  <1>2. /\ count \in Nat /\ count <= MaxEvents /\ MaxEvents \in Nat
        /\ ~Sifting /\ ~Sifting' /\ Slots' = Slots /\ Live = Slots /\ Live' = Slots
        /\ \A s \in Slots : s \in Nat /\ s < count
    BY SMT, <1>1, Types, BoundAssumption DEF IInv, TypeOK, Sifting, Slots, Live
  <1>3. \A s \in Slots : At(s)' = heap[s] /\ At(s) = heap[s]
    BY <1>1, <1>2 DEF At
  <1>4. \A n \in Nodes, s \in Slots, r \in Slots :
          IsWakeup(heap[s], n) /\ IsWakeup(heap[r], n) => s = r
    BY <1>2, <1>3 DEF IInv, OneWakeup
  <1>5. ASSUME NEW n \in Nodes, NEW s \in Slots, IsWakeup(heap[s], n)
        PROVE  node_heap_idx'[n] = s
    <2>1. S(n) = {s}
      BY <1>4, <1>5
    <2>2. Max({s}) = s
      BY SMT, <1>2 DEF Max
    <2> QED BY <1>1, <2>1, <2>2
  <1>6. ASSUME NEW n \in Nodes, \A s \in Slots : ~IsWakeup(heap[s], n)
        PROVE  node_heap_idx'[n] = -1
    <2>1. S(n) = {}
      BY <1>6
    <2>2. node_heap_idx[n] = -1
      BY <1>1, <1>3, <1>6 DEF IInv, Index, IndexAt
    <2> QED BY <1>1, <2>1, <2>2
  <1>7. TypeOK'
    <2>1. ASSUME NEW n \in Nodes PROVE node_heap_idx'[n] \in -1 .. MaxEvents - 1
      BY SMT, <1>2, <1>5, <1>6, <2>1
    <2>2. node_heap_idx' \in [Nodes -> -1 .. MaxEvents - 1]
      BY <1>1, <2>1
    <2> QED BY <1>1, <1>2, <2>2 DEF IInv, TypeOK
  <1>8. Control'
    BY <1>1, <1>2 DEF Control
  <1>9. Distinct'
    <2>1. \A s \in Slots : /\ heap[s].seq < next_seq
                           /\ \A r \in Slots : r # s => heap[r].seq # heap[s].seq
      BY <1>2, <1>3 DEF IInv, Distinct
    <2>2. next_seq' = next_seq
      BY <1>1
    <2>3. \A s \in Slots : /\ At(s)'.seq < next_seq'
                           /\ \A r \in Slots : r # s => At(r)'.seq # At(s)'.seq
      BY ONLY Zenon, <1>3, <2>1, <2>2
    <2> QED BY ONLY Zenon, <1>2, <2>3 DEF Distinct
  <1>10. OneWakeup'
    <2>1. \A n \in Nodes, s \in Slots, r \in Slots :
            IsWakeup(At(s)', n) /\ IsWakeup(At(r)', n) => s = r
      BY <1>3, <1>4
    <2> QED BY <1>2, <2>1 DEF OneWakeup, IsWakeup
  <1>11. ASSUME NEW c \in Slots \ {0} PROVE OrderAt(c)'
    <2>1. Parent(c) \in Slots /\ Parent(c) \in Nat
      BY ParentSlot
    <2>2. OrderAt(c)
      BY <1>1 DEF IInv, Order
    <2>3. ev_less(At(Parent(c))', At(c)')
      BY SMT, <1>1, <1>2, <1>3, <2>1, <2>2 DEF OrderAt, Broken
    <2> QED BY <1>2, <2>3 DEF OrderAt
  <1>12. Order'
    BY <1>2, <1>11 DEF Order
  <1>13. ASSUME NEW n \in Nodes PROVE IndexAt(n)'
    BY SMT, <1>2, <1>3, <1>5, <1>6 DEF IndexAt, IsWakeup
  <1>14. Index'
    BY <1>13 DEF Index
  <1> QED BY <1>7, <1>8, <1>9, <1>10, <1>12, <1>14 DEF IInv

-----------------------------------------------------------------------------
(* Every step.                                                             *)

\* A pop of an empty queue and a drop by a full one change no slot.
LEMMA UnchangedInv ==
  ASSUME IInv, UNCHANGED <<qvars, pc, sift, cursors>>, popped' \in {popped, Empty}
  PROVE  IInv'
  <1>1. UNCHANGED <<heap, count, next_seq, node_heap_idx, pc, hole, start, ev, lo,
                    victim, read, write>>
    BY DEF qvars, sift, cursors
  <1>2. TypeOK'
    BY <1>1 DEF IInv, TypeOK, Slots, Sifting
  <1>3. Control' /\ Distinct' /\ OneWakeup'
    <2>1. Control'
      BY <1>1 DEF IInv, Control, Sifting
    <2>2. Sifting' = Sifting /\ Live' = Live /\ Slots' = Slots
      BY <1>1 DEF Sifting, Live, Slots
    <2>3. \A s : At(s)' = At(s)
      BY <1>1, <2>2 DEF At
    <2>4. Distinct'
      BY <1>1, <2>2, <2>3 DEF IInv, Distinct
    <2>5. OneWakeup'
      BY <1>1, <2>2, <2>3 DEF IInv, OneWakeup
    <2> QED BY <2>1, <2>4, <2>5
  <1>4. Order'
    <2>1. Sifting' = Sifting /\ Slots' = Slots
      BY <1>1 DEF Sifting, Slots
    <2>2. \A s : At(s)' = At(s)
      BY <1>1, <2>1 DEF At
    <2>3. \A s : OrderAt(s)' <=> OrderAt(s)
      BY <1>1, <2>1, <2>2 DEF OrderAt, Broken, Parent, ev_less
    <2> QED BY <2>1, <2>3 DEF IInv, Order
  <1>5. Index'
    BY <1>1 DEF IInv, Index, IndexAt, InTheAir, Sifting, Slots, At, IsWakeup
  <1> QED BY <1>2, <1>3, <1>4, <1>5 DEF IInv

LEMMA CallInv == ASSUME IInv, Call PROVE IInv'
  <1>1. ASSUME NEW n \in Nodes, NEW t \in Times, NEW g \in Gens,
               sim_eq_schedule_gen(n, t, g)
        PROVE  IInv'
    BY <1>1, ScheduleGenInv
  <1>2. ASSUME NEW n \in Nodes, NEW t \in Times, NEW g \in Gens,
               sim_eq_schedule_if_earlier_gen(n, t, g)
        PROVE  IInv'
    BY <1>2, ScheduleGenInv DEF sim_eq_schedule_if_earlier_gen
  <1>3. ASSUME NEW n \in Nodes, NEW t \in Times, NEW g \in Gens,
               sim_eq_schedule_rx_byte_gen(n, t, g)
        PROVE  IInv'
    BY <1>3, OtherKindInv DEF sim_eq_schedule_rx_byte_gen, Kind
  <1>4. ASSUME NEW n \in Nodes, NEW t \in Times, NEW g \in Gens,
               sim_eq_schedule_radio_timer_gen(n, t, g)
        PROVE  IInv'
    BY <1>4, OtherKindInv DEF sim_eq_schedule_radio_timer_gen, Kind
  <1>5. ASSUME NEW t \in Times, sim_eq_schedule_test_action(t) PROVE IInv'
    BY <1>5, OtherKindInv DEF sim_eq_schedule_test_action, Kind
  <1>6. CASE DropFull
    BY <1>6, UnchangedInv DEF DropFull
  <1>7. ASSUME NEW n \in Nodes, sim_eq_remove_node(n) PROVE IInv'
    BY <1>7, RemoveNodeInv
  <1>8. CASE sim_eq_pop
    BY <1>8, PopInv
  <1>9. CASE sim_eq_pop_empty
    BY <1>9, UnchangedInv DEF sim_eq_pop_empty
  <1> QED BY <1>1, <1>2, <1>3, <1>4, <1>5, <1>6, <1>7, <1>8, <1>9 DEF Call

LEMMA LoopInv == ASSUME IInv, Loop PROVE IInv'
  BY SiftUpMoveInv, SiftUpPlaceInv, SiftDownMoveInv, SiftDownPlaceInv,
     CompactInv, CompactedInv, HeapifyInv, HeapifiedInv DEF Loop

\* The inductive invariant: whatever the number of slots, nodes and times, it
\* holds at every iteration of every loop of every call.
THEOREM Invariant == Spec => []IInv
  <1>1. IInv /\ [Next]_vars => IInv'
    BY CallInv, LoopInv, UnchangedInv DEF Next, vars
  <1> QED BY InitInv, <1>1, PTL DEF Spec

\* Every variable of the queue keeps its type; in particular no call writes
\* outside heap[0 .. SIM_EQ_MAX_EVENTS-1] or reads beyond count.
THEOREM TypeCorrect == Spec => []TypeOK
  BY Invariant, PTL DEF IInv

-----------------------------------------------------------------------------
(* What the invariant means to the callers.                                *)

\* When every slot is preceded by its parent, the root precedes every slot:
\* the least slot it does not precede would have an even lesser parent.
LEMMA RootIsEarliest ==
  ASSUME IInv, pc = "idle", NEW s \in Slots \ {0}
  PROVE  ev_less(heap[0], heap[s])
  <1> DEFINE Bad == {r \in Slots \ {0} : ~ev_less(heap[0], heap[r])}
  <1>1. Bad \subseteq Nat
    BY Types
  <1>2. ASSUME Bad # {} PROVE FALSE
    <2>1. PICK r \in Bad : \A q \in Bad : ~(<<q, r>> \in OpToRel(<, Nat))
      BY <1>1, <1>2, NatLessThanWellFounded, WFMin
    <2>2. /\ Parent(r) \in Slots /\ Parent(r) \in Nat /\ r \in Nat /\ Parent(r) < r
          /\ 0 \in Slots
      <3>1. Parent(r) \in Slots /\ Parent(r) \in Nat /\ r \in Nat /\ Parent(r) < r
        BY ParentSlot
      <3>2. count \in Nat /\ r < count
        BY Types
      <3> QED BY SMT, <3>1, <3>2, Types
    <2>3. ev_less(heap[Parent(r)], heap[r])
      BY Idle
    <2>4. Parent(r) \notin Bad
      BY <2>1, <2>2 DEF OpToRel
    <2>5. heap[0] \in Event /\ heap[r] \in Event /\ heap[Parent(r)] \in Event
      BY <2>2, Idle
    <2> QED BY <2>2, <2>3, <2>4, <2>5, EvLessTransitive
  <1> QED BY <1>2

\* Between calls heap[0] is the earliest pending event, so that sim_eq_pop and
\* sim_eq_peek return events in (time_ns, seq) order.
THEOREM HeapIsOrdered == Spec => []HeapOrdered
  <1>1. IInv => HeapOrdered
    BY Idle, RootIsEarliest DEF HeapOrdered
  <1> QED BY Invariant, <1>1, PTL

\* Between calls node_heap_idx is exact: a reschedule finds the pending wakeup
\* whenever there is one, so no node ever has two.
THEOREM IndexIsExact == Spec => []IndexExact
  <1>1. ASSUME IInv, pc = "idle", NEW n \in Nodes, NEW s \in Slots
        PROVE  IsWakeup(heap[s], n) <=> node_heap_idx[n] = s
    <2>1. s \in Nat
      BY <1>1, Types
    <2>2. /\ (\A r \in Slots : ~IsWakeup(heap[r], n)) => node_heap_idx[n] = -1
          /\ \A r \in Slots : IsWakeup(heap[r], n) => node_heap_idx[n] = r
      BY <1>1, Idle
    <2> QED BY SMT, <2>1, <2>2
  <1>2. IInv => IndexExact
    BY <1>1 DEF IndexExact
  <1> QED BY Invariant, <1>2, PTL

-----------------------------------------------------------------------------
(* The heap implements the abstract queue: every step of SimEventQueue is  *)
(* a step of EventQueue on the set of pending events, or leaves it alone.  *)

\* Outside the compaction loop the pending events are those of the slots, and
\* there are as many of them as slots.
LEMMA PendingSlots ==
  ASSUME IInv, pc # "compact"
  PROVE  /\ Pending = {At(s) : s \in Slots}
         /\ IsFiniteSet(Pending) /\ Cardinality(Pending) = count
  <1>1. Pending = {At(s) : s \in Slots}
    BY DEF Pending
  <1>2. \A s, r \in Slots : r # s => At(r) # At(s)
    BY DEF IInv, Distinct, Live
  <1> DEFINE f == [s \in Slots |-> At(s)]
  <1>3. f \in Bijection(Slots, Pending)
    BY <1>1, <1>2 DEF Bijection, Injection, Surjection, IsInjective
  <1>4. count \in Nat
    BY Types
  <1>5. IsFiniteSet(Slots) /\ Cardinality(Slots) = count
    BY SMT, <1>4, FS_Interval DEF Slots
  <1> QED BY <1>1, <1>3, <1>5, FS_Bijection DEF ExistsBijection

\* Between calls they are the events of the heap, all different.
LEMMA IdlePending ==
  ASSUME IInv, pc = "idle"
  PROVE  /\ Pending = {heap[s] : s \in Slots} /\ Cardinality(Pending) = count
         /\ \A s, r \in Slots : r # s => heap[r] # heap[s]
  <1>1. pc # "compact"
    OBVIOUS
  <1>2. Pending = {At(s) : s \in Slots} /\ Cardinality(Pending) = count
    BY <1>1, PendingSlots
  <1>3. /\ \A s \in Slots : At(s) = heap[s]
        /\ \A s, r \in Slots : r # s => heap[r].seq # heap[s].seq
    BY Idle
  <1> QED BY <1>2, <1>3

\* The abstract queue's count of them is the same number.
LEMMA SameCardinality == \A S : EQ!Cardinality(S) = Cardinality(S)
  BY DEF EQ!Cardinality, Cardinality, EQ!IsFiniteSet, IsFiniteSet

\* A step that only moves events between slots is a stuttering step.
LEMMA MovePending ==
  ASSUME IInv, Sifting, NEW p \in Slots, p # hole, p # start, Slide(p)
  PROVE  UNCHANGED EQ!vars
  <1>1. /\ Slots' = Slots /\ Sifting' /\ At(hole) = ev /\ hole \in Slots
        /\ \A s \in Slots :
             At(s)' = IF s = p THEN ev ELSE IF s = hole THEN At(p) ELSE At(s)
    BY SlideInv, Types
  <1>2. Pending = {At(s) : s \in Slots} /\ Pending' = {At(s)' : s \in Slots}
    BY <1>1 DEF Pending, Sifting
  <1>3. Pending' = Pending
    BY <1>1, <1>2
  <1> QED BY <1>3 DEF EQ!vars, Slide

LEMMA PlacePending ==
  ASSUME IInv, Sifting, Place
  PROVE  UNCHANGED EQ!vars
  <1>1. /\ Slots' = Slots /\ ~Sifting' /\ pc # "compact" /\ pc' # "compact"
        /\ hole \in Slots /\ heap \in [Slots -> Event]
        /\ UNCHANGED <<next_seq, popped>>
    BY Types DEF Place, Slots, Sifting
  <1>2. \A s \in Slots : At(s)' = At(s)
    <2>1. CASE hole # start
      BY <1>1, <2>1 DEF At, Place
    <2>2. CASE hole = start
      <3>1. heap' = heap /\ heap[hole] = ev
        BY <2>2 DEF IInv, Control, Place
      <3> QED BY <1>1, <3>1 DEF At
    <2> QED BY <2>1, <2>2
  <1>3. Pending' = Pending
    BY <1>1, <1>2 DEF Pending
  <1> QED BY <1>1, <1>3 DEF EQ!vars

LEMMA LoopPending == ASSUME IInv, Loop PROVE UNCHANGED EQ!vars
  <1>1. CASE SiftUpMove
    <2>1. /\ pc = "up" /\ Sifting /\ hole \in Slots /\ hole # 0
          /\ hole <= start /\ start \in Slots /\ Slide(Parent(hole))
      BY SMT, <1>1, Types DEF IInv, Control, SiftUpMove, Rises, Sifting
    <2>2. /\ Parent(hole) \in Slots /\ Parent(hole) # hole /\ Parent(hole) # start
      BY SMT, <2>1, ParentSlot, Types
    <2> QED BY <2>1, <2>2, MovePending
  <1>2. CASE SiftDownMove
    <2>1. /\ pc = "down" /\ Sifting /\ 2*hole + 1 < count /\ hole \in Slots
          /\ start <= hole /\ start \in Slots /\ Slide(MinChild(hole))
      BY <1>2, Types DEF IInv, Control, SiftDownMove, Sinks, Sifting
    <2>2. MinChild(hole) \in Slots /\ MinChild(hole) # hole /\ MinChild(hole) # start
      BY SMT, <2>1, MinChildFacts, Types
    <2> QED BY <2>1, <2>2, MovePending
  <1>3. CASE SiftUpPlace \/ SiftDownPlace
    BY <1>3, PlacePending DEF SiftUpPlace, SiftDownPlace, Sifting
  <1>4. CASE Compact
    <2> DEFINE kept(r) == heap[r].node # victim
    <2>1. /\ pc = "compact" /\ pc' = "compact" /\ read < count /\ read' = read + 1
          /\ UNCHANGED <<count, next_seq, popped, victim>>
          /\ kept(read) => heap' = [heap EXCEPT ![write] = heap[read]] /\ write' = write + 1
          /\ ~kept(read) => heap' = heap /\ write' = write
      BY <1>4 DEF Compact
    <2>2. /\ count \in Nat /\ read \in Nat /\ write \in Nat /\ write <= read
          /\ heap \in [Slots -> Event] /\ read \in Slots /\ write \in Slots
      <3>1. count \in Nat /\ heap \in [Slots -> Event]
        BY Types
      <3>2. /\ read \in 0 .. MaxEvents /\ write \in 0 .. MaxEvents
            /\ write <= read /\ read <= count
        BY <2>1 DEF IInv, TypeOK, Control
      <3> QED BY ONLY SMT, <2>1, <3>1, <3>2, BoundAssumption DEF Slots
    <2>3. /\ Pending = {heap[s] : s \in 0 .. write - 1}
                       \cup {heap[s] : s \in {r \in read .. count - 1 : kept(r)}}
          /\ Pending' = {heap'[s] : s \in 0 .. write' - 1}
                        \cup {heap'[s] : s \in {r \in read + 1 .. count - 1 :
                                                  heap'[r].node # victim}}
      BY <2>1 DEF Pending
    <2>4. \A s \in Slots : ~(kept(read) /\ s = write) => heap'[s] = heap[s]
      <3>1. CASE kept(read)
        BY <2>1, <2>2, <3>1
      <3>2. CASE ~kept(read)
        BY <2>1, <3>2
      <3> QED BY <3>1, <3>2
    <2>5. /\ \A s \in 0 .. write - 1 : s \in Slots /\ s # write /\ heap'[s] = heap[s]
          /\ \A s \in read + 1 .. count - 1 : s \in Slots /\ s # write /\ heap'[s] = heap[s]
      BY SMT, <2>2, <2>4 DEF Slots
    <2>6. CASE kept(read)
      <3>1. heap'[write] = heap[read] /\ 0 .. write' - 1 = (0 .. write - 1) \cup {write}
        BY SMT, <2>1, <2>2, <2>6
      <3>2. read .. count - 1 = {read} \cup (read + 1 .. count - 1)
        BY SMT, <2>1, <2>2
      <3>3. Pending' = Pending
        BY SMT, <2>3, <2>5, <2>6, <3>1, <3>2
      <3> QED BY <2>1, <3>3 DEF EQ!vars
    <2>7. CASE ~kept(read)
      <3>1. read .. count - 1 = {read} \cup (read + 1 .. count - 1)
        BY SMT, <2>1, <2>2
      <3>2. Pending' = Pending
        BY <2>1, <2>3, <2>7, <3>1
      <3> QED BY <2>1, <3>2 DEF EQ!vars
    <2> QED BY <2>6, <2>7
  <1>5. CASE Compacted
    <2>1. /\ pc = "compact" /\ pc' = "heapify" /\ read = count /\ count' = write
          /\ heap' = [s \in 0 .. write - 1 |-> heap[s]]
          /\ UNCHANGED <<next_seq, popped>>
      BY <1>5 DEF Compacted
    <2>2. count \in Nat /\ read .. count - 1 = {}
      BY SMT, <2>1, Types
    <2>3. Pending = {heap[s] : s \in 0 .. write - 1}
      BY <2>1, <2>2 DEF Pending
    <2>4. Pending' = {heap'[s] : s \in 0 .. write - 1}
      BY <2>1 DEF Pending, Slots, At, Sifting
    <2> QED BY <2>1, <2>3, <2>4 DEF EQ!vars
  <1>6. CASE Heapify
    BY <1>6 DEF Heapify, Sift, qvars, Pending, Slots, At, Sifting, EQ!vars
  <1>7. CASE Heapified
    BY <1>7 DEF Heapified, sift, Pending, Slots, At, Sifting, EQ!vars
  <1> QED BY <1>1, <1>2, <1>3, <1>4, <1>5, <1>6, <1>7 DEF Loop

-----------------------------------------------------------------------------
(* The calls.                                                              *)

LEMMA InsertPending ==
  ASSUME IInv, pc = "idle", NEW e, NEW idx, Insert(e, idx)
  PROVE  /\ Pending' = Pending \cup {e} /\ ~EQ!Full
         /\ next_seq < MaxSeq /\ next_seq' = next_seq + 1 /\ popped' = Empty
  <1>1. /\ count < MaxEvents /\ next_seq < MaxSeq /\ next_seq' = next_seq + 1
        /\ heap' = [s \in 0 .. count |-> IF s = count THEN e ELSE heap[s]]
        /\ count' = count + 1 /\ pc' = "up" /\ hole' = count /\ ev' = e /\ popped' = Empty
    BY DEF Insert, Sift
  <1>2. count \in Nat /\ MaxEvents \in Nat /\ (\A s \in Slots : s \in Nat /\ s < count)
    BY Types, BoundAssumption
  <1>3. Slots' = Slots \cup {count} /\ Slots' = 0 .. count
    BY SMT, <1>1, <1>2 DEF Slots
  <1>4. \A s \in Slots' : At(s)' = IF s = count THEN e ELSE heap[s]
    BY <1>1, <1>3 DEF At, Sifting
  <1>5. Pending = {heap[s] : s \in Slots} /\ Cardinality(Pending) = count
    BY IdlePending
  <1>6. Pending' = {At(s)' : s \in Slots'}
    BY <1>1 DEF Pending
  <1>7. Pending' = Pending \cup {e}
    BY SMT, <1>2, <1>3, <1>4, <1>5, <1>6
  <1>8. ~EQ!Full
    BY SMT, <1>1, <1>2, <1>5, SameCardinality DEF EQ!Full
  <1> QED BY <1>1, <1>7, <1>8

LEMMA ReschedulePending ==
  ASSUME IInv, pc = "idle", NEW n \in Nodes, NEW i \in Slots, IsWakeup(heap[i], n),
         NEW t \in Times, NEW g \in Gens, Reschedule(i, t, g)
  PROVE  EQ!Schedule(n, t, g)
  <1> DEFINE e == [heap[i] EXCEPT !.time = t, !.seq = next_seq, !.gen = g]
  <1>1. /\ next_seq < MaxSeq /\ next_seq' = next_seq + 1 /\ popped' = Empty
        /\ heap' = [heap EXCEPT ![i] = e] /\ count' = count
        /\ pc' \in {"up", "down"} /\ hole' = i /\ ev' = e
    BY DEF Reschedule, Sift
  <1>2. /\ heap \in [Slots -> Event] /\ heap[i] \in Event
        /\ \A s \in Slots : s # i => heap[s] # heap[i] /\ ~IsWakeup(heap[s], n)
    BY Types, Idle
  <1>3. e = EQ!NewEvent("NODE_WAKEUP", n, t, g)
    <2>1. heap[i].kind = "NODE_WAKEUP" /\ heap[i].node = n
      BY DEF IsWakeup
    <2>2. /\ e \in Event /\ e.kind = heap[i].kind /\ e.node = heap[i].node
          /\ e.time = t /\ e.seq = next_seq /\ e.gen = g
      BY <1>2, Types DEF Event
    <2>3. e = [kind |-> e.kind, node |-> e.node, time |-> e.time, seq |-> e.seq, gen |-> e.gen]
      <3> HIDE DEF e
      <3> QED BY <2>2 DEF Event
    <2> QED BY <2>1, <2>2, <2>3 DEF EQ!NewEvent
  <1> HIDE DEF e
  <1>4. Slots' = Slots /\ \A s \in Slots : At(s)' = IF s = i THEN e ELSE heap[s]
    BY <1>1, <1>2 DEF Slots, At, Sifting
  <1>5. Pending = {heap[s] : s \in Slots}
    BY IdlePending
  <1>6. Pending' = {At(s)' : s \in Slots}
    BY <1>1, <1>4 DEF Pending
  <1>7. EQ!Wakeups(n) = {heap[i]}
    BY <1>2, <1>5 DEF EQ!Wakeups, EQ!IsWakeup, IsWakeup
  <1>8. Pending' = (Pending \ {heap[i]}) \cup {e}
    BY <1>2, <1>4, <1>5, <1>6
  <1> QED BY <1>1, <1>3, <1>7, <1>8 DEF EQ!Schedule, EQ!Empty, Empty

LEMMA SchedulePending ==
  ASSUME IInv, NEW n \in Nodes, NEW t \in Times, NEW g \in Gens,
         sim_eq_schedule_gen(n, t, g)
  PROVE  EQ!Next
  <1>1. pc = "idle"
    BY DEF sim_eq_schedule_gen
  <1>2. CASE wakeup_slot(n) >= 0
    <2>1. EQ!Schedule(n, t, g)
      BY <1>1, <1>2, WakeupSlot, ReschedulePending DEF sim_eq_schedule_gen
    <2> QED BY <2>1 DEF EQ!Next
  <1>3. CASE ~(wakeup_slot(n) >= 0)
    <2> DEFINE e == NewEvent("NODE_WAKEUP", n, t, g)
    <2>1. Insert(e, track_slot(node_heap_idx, e, count))
      BY <1>3 DEF sim_eq_schedule_gen
    <2>2. \A s \in Slots : ~IsWakeup(heap[s], n)
      BY <1>1, <1>3, WakeupSlot
    <2>3. Pending = {heap[s] : s \in Slots}
      BY <1>1, IdlePending
    <2>4. EQ!Wakeups(n) = {}
      BY <2>2, <2>3 DEF EQ!Wakeups, EQ!IsWakeup, IsWakeup
    <2>5. /\ Pending' = Pending \cup {e} /\ ~EQ!Full
          /\ next_seq < MaxSeq /\ next_seq' = next_seq + 1 /\ popped' = Empty
      BY <1>1, <2>1, InsertPending
    <2>6. EQ!Schedule(n, t, g)
      BY <2>4, <2>5 DEF EQ!Schedule, EQ!NewEvent, NewEvent, EQ!Empty, Empty
    <2> QED BY <2>6 DEF EQ!Next
  <1> QED BY <1>2, <1>3

LEMMA AddPending ==
  ASSUME IInv, pc = "idle", NEW k, NEW n, NEW t, NEW g,
         Insert(NewEvent(k, n, t, g), node_heap_idx)
  PROVE  EQ!Add(EQ!NewEvent(k, n, t, g))
  BY InsertPending DEF EQ!Add, EQ!NewEvent, NewEvent, EQ!Empty, Empty

LEMMA PopPending == ASSUME IInv, sim_eq_pop PROVE EQ!Pop
  <1> DEFINE k == count - 1
  <1>1. /\ pc = "idle" /\ count > 0 /\ popped' = heap[0]
        /\ heap' = [s \in 0 .. count - 2 |-> IF s = 0 THEN heap[k] ELSE heap[s]]
        /\ count' = k /\ next_seq' = next_seq
    BY DEF sim_eq_pop
  <1>2. /\ count \in Nat /\ \A s \in Slots : s \in Nat /\ s < count
        /\ 0 \in Slots /\ k \in Slots /\ k \in Nat
    BY SMT, <1>1, Types
  <1>3. Slots' = 0 .. count - 2 /\ Slots' = Slots \ {k}
    BY SMT, <1>1, <1>2 DEF Slots
  <1>4. /\ Pending = {heap[s] : s \in Slots}
        /\ \A s \in Slots : s # 0 => heap[s] # heap[0]
    BY <1>1, <1>2, IdlePending
  <1>5. \A f \in Pending \ {heap[0]} : ev_less(heap[0], f)
    BY <1>1, <1>4, RootIsEarliest
  <1>6. Pending' = Pending \ {heap[0]}
    <2>1. CASE count = 1
      <3>1. Slots' = {} /\ Slots = {0}
        BY SMT, <1>2, <1>3, <2>1 DEF Slots
      <3>2. pc' = pc
        BY SMT, <1>1, <2>1 DEF sim_eq_pop
      <3>3. Pending' = {}
        BY <1>1, <3>1, <3>2 DEF Pending
      <3> QED BY <1>4, <3>1, <3>3
    <2>2. CASE count > 1
      <3>1. pc' = "down" /\ hole' = 0 /\ ev' = heap[k] /\ k # 0 /\ 0 \in Slots'
        BY SMT, <1>1, <1>2, <1>3, <2>2 DEF sim_eq_pop, Sift
      <3>2. \A s \in Slots' : At(s)' = IF s = 0 THEN heap[k] ELSE heap[s]
        BY <1>1, <1>3, <3>1 DEF At, Sifting
      <3>3. Pending' = {At(s)' : s \in Slots'}
        BY <3>1 DEF Pending
      <3> QED BY <1>2, <1>3, <1>4, <3>1, <3>2, <3>3
    <2> QED BY SMT, <1>1, <1>2, <2>1, <2>2
  <1> QED BY <1>1, <1>2, <1>4, <1>5, <1>6 DEF EQ!Pop, EQ!ev_less, ev_less

LEMMA RemoveNodePending ==
  ASSUME IInv, NEW n \in Nodes, sim_eq_remove_node(n)
  PROVE  EQ!RemoveNode(n)
  <1>1. /\ pc = "idle" /\ victim' = n /\ read' = 0 /\ write' = 0 /\ pc' = "compact"
        /\ popped' = Empty /\ UNCHANGED <<heap, count, next_seq>>
    BY DEF sim_eq_remove_node, qvars
  <1>2. Pending = {heap[s] : s \in Slots}
    BY <1>1, IdlePending
  <1>3. Pending' = {heap[s] : s \in {r \in Slots : heap[r].node # n}}
    BY SMT, <1>1 DEF Pending, Slots
  <1> QED BY <1>1, <1>2, <1>3 DEF EQ!RemoveNode, EQ!Empty, Empty

LEMMA CallPending == ASSUME IInv, Call PROVE [EQ!Next]_EQ!vars
  <1>1. ASSUME NEW n \in Nodes, NEW t \in Times, NEW g \in Gens,
               sim_eq_schedule_gen(n, t, g) \/ sim_eq_schedule_if_earlier_gen(n, t, g)
        PROVE  EQ!Next
    BY <1>1, SchedulePending DEF sim_eq_schedule_if_earlier_gen
  <1>2. ASSUME NEW n \in Nodes, NEW t \in Times, NEW g \in Gens,
               sim_eq_schedule_rx_byte_gen(n, t, g)
        PROVE  EQ!Next
    BY SMT, <1>2, AddPending DEF sim_eq_schedule_rx_byte_gen, EQ!Next
  <1>3. ASSUME NEW n \in Nodes, NEW t \in Times, NEW g \in Gens,
               sim_eq_schedule_radio_timer_gen(n, t, g)
        PROVE  EQ!Next
    BY SMT, <1>3, AddPending DEF sim_eq_schedule_radio_timer_gen, EQ!Next
  <1>4. ASSUME NEW t \in Times, sim_eq_schedule_test_action(t) PROVE EQ!Next
    BY <1>4, AddPending DEF sim_eq_schedule_test_action, EQ!Next
  <1>5. CASE DropFull
    <2>1. /\ pc = "idle" /\ count >= MaxEvents /\ popped' = Empty
          /\ UNCHANGED <<heap, count, next_seq, pc, hole, ev, victim, read, write>>
      BY <1>5 DEF DropFull, qvars, sift, cursors
    <2>2. Pending' = Pending
      BY <2>1 DEF Pending, At, Sifting, Slots
    <2>3. EQ!Full
      BY <2>1, PendingSlots, SameCardinality DEF EQ!Full
    <2> QED BY <2>1, <2>2, <2>3 DEF EQ!Next, EQ!DropFull, EQ!Empty, Empty
  <1>6. ASSUME NEW n \in Nodes, sim_eq_remove_node(n) PROVE EQ!Next
    BY <1>6, RemoveNodePending DEF EQ!Next
  <1>7. CASE sim_eq_pop
    BY <1>7, PopPending DEF EQ!Next
  <1>8. CASE sim_eq_pop_empty
    <2>1. /\ pc = "idle" /\ count = 0 /\ popped' = Empty
          /\ UNCHANGED <<heap, count, next_seq, pc, hole, ev, victim, read, write>>
      BY <1>8 DEF sim_eq_pop_empty, qvars, sift, cursors
    <2>2. Pending' = Pending /\ Pending = {}
      BY SMT, <2>1 DEF Pending, At, Sifting, Slots
    <2> QED BY <2>1, <2>2 DEF EQ!Next, EQ!PopEmpty, EQ!Empty, Empty
  <1> QED BY <1>1, <1>2, <1>3, <1>4, <1>5, <1>6, <1>7, <1>8 DEF Call

-----------------------------------------------------------------------------
\* The binary heap implements the abstract queue, for every capacity and every
\* sequence of calls: sim_eq_pop returns the earliest pending event, equal
\* times leave in insertion order, a reschedule replaces exactly the node's
\* wakeup, and no sift, compaction or heapify loses or duplicates an event.
THEOREM Implements == Spec => Refines
  <1>1. Init => EQ!Init
    BY SMT DEF Init, EQ!Init, Pending, Slots, EQ!Empty, Empty
  <1>2. IInv /\ [Next]_vars => [EQ!Next]_EQ!vars
    <2>1. ASSUME UNCHANGED vars PROVE UNCHANGED EQ!vars
      BY <2>1 DEF vars, qvars, sift, cursors, EQ!vars, Pending, At, Sifting, Slots
    <2> QED BY CallPending, LoopPending, <2>1 DEF Next
  <1> QED BY Invariant, <1>1, <1>2, PTL DEF Spec, Refines, EQ!Spec
=============================================================================
