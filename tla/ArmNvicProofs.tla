--------------------------- MODULE ArmNvicProofs ---------------------------
(***************************************************************************)
(* Proofs about the interrupt controller of ArmNvic, for any number of     *)
(* interrupt lines, priorities and nested handlers.                        *)
(***************************************************************************)
EXTENDS ArmNvic, TLAPS, WellFoundedInduction, SequenceTheorems

\* Leaves are first-order unless they cite SMT, for arithmetic and sequences.
USE Zenon

\* A non-empty set of numbers has a smallest one.
LEMMA Smallest ==
    ASSUME NEW T, T \subseteq Nat, T # {}
    PROVE  \E x \in T : \A y \in T : x <= y
<1> DEFINE R == OpToRel(<, Nat)
<1>1. IsWellFoundedOn(R, Nat)
  BY NatLessThanWellFounded
<1>2. PICK x \in T : \A y \in T : ~ (<<y, x>> \in R)
  <2> HIDE DEF R
  <2> QED BY <1>1, WFMin
<1>3. ASSUME NEW y \in T PROVE x <= y
  <2>1. x \in Nat /\ y \in Nat
    OBVIOUS
  <2>2. y < x => <<y, x>> \in R
    BY <2>1 DEF OpToRel
  <2> HIDE DEF R
  <2> QED BY SMT, <1>2, <2>1, <2>2
<1> QED BY <1>3

\* A scan of a non-empty set finds one of its members of the best priority.
LEMMA BestExists ==
    ASSUME NEW R, R \subseteq Nat, R # {}, NEW prio, \A e \in R : prio[e] \in Nat
    PROVE  /\ first_of_best(R, prio) \in R
           /\ \A f \in R : prio[first_of_best(R, prio)] <= prio[f]
<1> DEFINE P == {prio[e] : e \in R}
<1>1. PICK p \in P : \A q \in P : p <= q
  BY Smallest
<1> DEFINE B == {e \in R : prio[e] = p}
<1>2. PICK e \in B : \A f \in B : e <= f
  BY Smallest
<1>3. \A f \in R : prio[e] < prio[f] \/ (prio[e] = prio[f] /\ e <= f)
  <2> SUFFICES ASSUME NEW f \in R
               PROVE  prio[e] < prio[f] \/ (prio[e] = prio[f] /\ e <= f)
    OBVIOUS
  <2>1. p <= prio[f] /\ p \in Nat /\ prio[f] \in Nat /\ prio[e] = p
    BY <1>1
  <2>2. prio[f] = p => e <= f
    BY <1>2
  <2> QED BY SMT, <2>1, <2>2
<1>4. \E x \in R : \A f \in R : prio[x] < prio[f] \/ (prio[x] = prio[f] /\ x <= f)
  BY <1>3
<1> DEFINE w == CHOOSE x \in R : \A f \in R : prio[x] < prio[f] \/ (prio[x] = prio[f] /\ x <= f)
<1>5. w \in R /\ \A f \in R : prio[w] < prio[f] \/ (prio[w] = prio[f] /\ w <= f)
  BY <1>4
<1>6. w = first_of_best(R, prio)
  BY DEF first_of_best
<1>7. \A f \in R : prio[w] <= prio[f]
  <2> SUFFICES ASSUME NEW f \in R
               PROVE  prio[w] <= prio[f]
    OBVIOUS
  <2>1. prio[w] \in Nat /\ prio[f] \in Nat /\ (prio[w] < prio[f] \/ prio[w] = prio[f])
    BY <1>5
  <2> HIDE DEF w
  <2> QED BY ONLY SMT, <2>1
<1> QED BY <1>5, <1>6, <1>7

\* The order of two numbers is total.
LEMMA NotAtLeast ==
    ASSUME NEW a \in Int, NEW b \in Int, ~(a >= b)
    PROVE  a < b
BY SMT

\* What is at most b lies below what b lies below.
LEMMA Below ==
    ASSUME NEW a \in Int, NEW b \in Int, NEW d \in Int, a <= b, b < d
    PROVE  a < d
BY SMT

\* What is at least b is not less than it.
LEMMA NotLess ==
    ASSUME NEW a \in Int, NEW b \in Int, a >= b
    PROVE  ~(a < b)
BY SMT

\* The controller and the core as a set of records.
Pendable == Irqs \cup System
PendingType == SUBSET Pendable
IserType == SUBSET Irqs
PrioType == [Configurable -> 0 .. 255]
ExcType == {0} \cup Exceptions
StackType == Seq(ExcType)
ByteType == 0 .. 255
ScanType == {NoExc} \cup Pendable
ScanPrioType == 0 .. NoPrio
NvicState ==
    [pending : PendingType, iser : IserType, prio : PrioType, active : ExcType,
     ipsr : ExcType, stack : StackType, primask : BOOLEAN, faultmask : BOOLEAN,
     basepri : ByteType, busfault_enabled : BOOLEAN, has_pending : BOOLEAN,
     scan_valid : BOOLEAN, scan_exc : ScanType, scan_prio : ScanPrioType,
     cpu_off : BOOLEAN, dbg_halted : BOOLEAN]

\* The memo of a state is what a scan of it would find.
Fresh(n) == n.scan_valid => n.scan_exc = Winner(n) /\ n.scan_prio = WinnerPrio(n)

\* The exceptions that can be pended have configurable priorities.
LEMMA PendableFacts ==
    /\ Pendable \subseteq Configurable
    /\ \A e \in Pendable : e \in Nat /\ e >= 4 /\ e # NoExc /\ e # 0 /\ e # HardFault
    /\ \A e \in Configurable : e \in Nat /\ e >= 4
BY SMT, NvicAssumption DEF Pendable, Configurable, NoExc, HardFault, BusFault, SecureFault

\* The priority of an active exception is a fixed or a configurable one.
LEMMA ActivePriority ==
    ASSUME NEW n \in NvicState, n.active > 0
    PROVE  arm_nvic_get_priority(n, n.active) \in -1 .. 255
<1>1. n.active \in ExcType /\ n.prio \in PrioType
  BY DEF NvicState
<1>2. n.active < 4 \/ n.active \in Configurable
  BY SMT, <1>1, PendableFacts DEF ExcType, Exceptions, HardFault
<1>3. \A e \in Configurable : n.prio[e] \in 0 .. 255 /\ ~(e < 4)
  <2>1. \A e \in Configurable : e \in Nat /\ e >= 4
    BY PendableFacts
  <2>2. \A e \in Nat : e >= 4 => ~(e < 4)
    BY ONLY SMT
  <2> QED BY <1>1, <2>1, <2>2 DEF PrioType
<1>4. -1 \in -1 .. 255 /\ \A v \in 0 .. 255 : v \in -1 .. 255
  BY ONLY SMT
<1> QED BY <1>2, <1>3, <1>4 DEF arm_nvic_get_priority

\* The winner is pending, and nothing that is ready has a better priority.
LEMMA WinnerFacts ==
    ASSUME NEW n \in NvicState
    PROVE  /\ Ready(n) \subseteq Pendable
           /\ Ready(n) = {} => Winner(n) = NoExc /\ WinnerPrio(n) = NoPrio
           /\ Ready(n) # {} =>
                 /\ Winner(n) \in Ready(n)
                 /\ WinnerPrio(n) = n.prio[Winner(n)]
                 /\ WinnerPrio(n) \in 0 .. 255
                 /\ \A f \in Ready(n) : WinnerPrio(n) <= n.prio[f]
<1>1. Ready(n) \subseteq Pendable
  BY DEF Ready, NvicState, PendingType
<1>2. \A e \in Ready(n) : n.prio[e] \in 0 .. 255
  BY <1>1, PendableFacts DEF NvicState, PrioType
<1>3. \A e \in Ready(n) : n.prio[e] \in Nat /\ e \in Nat
  BY SMT, <1>1, <1>2, PendableFacts
<1>4. ASSUME Ready(n) # {}
      PROVE  /\ first_of_best(Ready(n), n.prio) \in Ready(n)
             /\ \A f \in Ready(n) : n.prio[first_of_best(Ready(n), n.prio)] <= n.prio[f]
  BY <1>3, <1>4, BestExists
<1> QED BY <1>1, <1>2, <1>4 DEF Winner, WinnerPrio

\* What a scan finds depends on what is pending, enabled and of which priority.
LEMMA SameScan ==
    ASSUME NEW n, NEW m, n.pending = m.pending, n.iser = m.iser, n.prio = m.prio
    PROVE  Ready(n) = Ready(m) /\ Winner(n) = Winner(m) /\ WinnerPrio(n) = WinnerPrio(m)
BY DEF Ready, Winner, WinnerPrio

Base(n) == n \in NvicState /\ Fresh(n)

\* What arm_nvic_check_pending never touches.
SameMasks(n, m) ==
    /\ m.iser = n.iser /\ m.prio = n.prio
    /\ m.primask = n.primask /\ m.faultmask = n.faultmask /\ m.basepri = n.basepri
    /\ m.busfault_enabled = n.busfault_enabled /\ m.dbg_halted = n.dbg_halted

\* The same handler runs on the same stack, with the same exceptions pending.
SameRun(n, m) ==
    /\ m.pending = n.pending /\ m.active = n.active /\ m.ipsr = n.ipsr
    /\ m.stack = n.stack /\ m.cpu_off = n.cpu_off

\* A scan brings the memo up to date and changes nothing else.
LEMMA ScanFacts ==
    ASSUME NEW n, Base(n)
    PROVE  LET s == scanned(n)
           IN  /\ s \in NvicState /\ s.scan_valid = TRUE
               /\ s.scan_exc = Winner(n) /\ s.scan_prio = WinnerPrio(n)
               /\ SameMasks(n, s) /\ SameRun(n, s) /\ s.has_pending = n.has_pending
<1> DEFINE s == scanned(n)
<1>1. n \in NvicState /\ Fresh(n)
  BY DEF Base
<1>2. CASE n.scan_valid
  <2>1. s = n
    BY <1>2 DEF scanned
  <2> QED BY <1>1, <1>2, <2>1 DEF Fresh, SameMasks, SameRun, NvicState
<1>3. CASE ~n.scan_valid
  <2>1. s = [n EXCEPT !.scan_exc = Winner(n), !.scan_prio = WinnerPrio(n),
                      !.scan_valid = TRUE]
    BY <1>3 DEF scanned
  <2>2. Winner(n) \in ScanType
    BY <1>1, WinnerFacts DEF ScanType
  <2>20. WinnerPrio(n) \in ScanPrioType
    BY SMT, <1>1, WinnerFacts DEF NoPrio, ScanPrioType
  <2>3. s \in NvicState
    BY <1>1, <2>1, <2>2, <2>20 DEF NvicState
  <2>4. s.scan_valid = TRUE /\ s.scan_exc = Winner(n) /\ s.scan_prio = WinnerPrio(n)
    BY <1>1, <2>1 DEF NvicState
  <2>5. SameMasks(n, s) /\ SameRun(n, s) /\ s.has_pending = n.has_pending
    BY <1>1, <2>1 DEF NvicState, SameMasks, SameRun
  <2> QED BY <2>3, <2>4, <2>5
<1> QED BY <1>2, <1>3

\* The exception w, the best that is ready, has been entered from n.
Entered(n, m, w) ==
    /\ w \in Ready(n) /\ w = Winner(n)
    /\ n.active > 0 => WinnerPrio(n) < arm_nvic_get_priority(n, n.active)
    /\ ~n.faultmask /\ (n.basepri = 0 \/ WinnerPrio(n) < n.basepri)
    /\ m.pending = n.pending \ {w} /\ m.active = w /\ m.ipsr = w
    /\ m.stack = <<n.ipsr>> \o n.stack
    /\ m.has_pending = FALSE

\* The four outcomes of a check.
Checked(n, m) ==
    \/ (n.primask \/ n.dbg_halted) /\ SameRun(n, m) /\ m.has_pending = n.has_pending
    \/ /\ ~n.primask /\ ~n.dbg_halted
       /\ \/ Ready(n) = {} /\ SameRun(n, m)
          \/ /\ Ready(n) # {} /\ SameRun(n, m) /\ m.has_pending = n.has_pending
             /\ \/ n.faultmask
                \/ n.basepri # 0 /\ WinnerPrio(n) >= n.basepri
                \/ n.active > 0 /\ WinnerPrio(n) >= arm_nvic_get_priority(n, n.active)
          \/ \E w \in Pendable : Entered(n, m, w)

\* arm_nvic_check_pending ends in one of its four outcomes, with a right memo.
LEMMA CheckFacts ==
    ASSUME NEW n, Base(n)
    PROVE  LET m == arm_nvic_check_pending(n)
           IN  Base(m) /\ SameMasks(n, m) /\ Checked(n, m)
<1> DEFINE s == scanned(n)
           m == arm_nvic_check_pending(n)
<1>1. n \in NvicState /\ Fresh(n)
  BY DEF Base
<1>2. /\ s \in NvicState /\ s.scan_valid = TRUE
      /\ s.scan_exc = Winner(n) /\ s.scan_prio = WinnerPrio(n)
      /\ SameMasks(n, s) /\ SameRun(n, s) /\ s.has_pending = n.has_pending
  BY ScanFacts
<1>20. Fresh(s)
  BY <1>2, SameScan DEF Fresh, SameMasks, SameRun
<1>3. CASE n.primask \/ n.dbg_halted
  <2>1. m = n
    BY <1>3 DEF arm_nvic_check_pending
  <2> QED BY <1>1, <1>3, <2>1 DEF Base, SameMasks, SameRun, Checked
<1>4. CASE ~(n.primask \/ n.dbg_halted) /\ s.scan_exc = NoExc
  <2>1. m = [s EXCEPT !.has_pending = FALSE]
    BY <1>4 DEF arm_nvic_check_pending
  <2>2. m \in NvicState
    BY <1>2, <2>1 DEF NvicState
  <2>3. SameMasks(n, m) /\ SameRun(n, m) /\ m.scan_exc = s.scan_exc
        /\ m.scan_prio = s.scan_prio /\ m.scan_valid = TRUE
    BY SMT, <1>2, <2>1 DEF NvicState, SameMasks, SameRun
  <2>4. Fresh(m)
    BY <1>2, <2>3, SameScan DEF Fresh, SameMasks, SameRun
  <2>5. Ready(n) = {}
    BY <1>1, <1>2, <1>4, WinnerFacts, PendableFacts
  <2> QED BY <1>4, <2>2, <2>3, <2>4, <2>5 DEF Base, Checked
<1>5. CASE ~(n.primask \/ n.dbg_halted) /\ s.scan_exc # NoExc /\ held_back(n, s)
  <2>1. m = s
    BY <1>5 DEF arm_nvic_check_pending
  <2>2. Ready(n) # {}
    BY <1>1, <1>2, <1>5, WinnerFacts
  <2>3. \/ n.faultmask
        \/ n.basepri # 0 /\ WinnerPrio(n) >= n.basepri
        \/ n.active > 0 /\ WinnerPrio(n) >= arm_nvic_get_priority(n, n.active)
    BY <1>2, <1>5 DEF held_back
  <2> QED BY <1>2, <1>20, <1>5, <2>1, <2>2, <2>3 DEF Base, Checked
<1>6. CASE ~(n.primask \/ n.dbg_halted) /\ s.scan_exc # NoExc /\ ~held_back(n, s)
  <2> DEFINE w == Winner(n)
  <2>1. m = arm_exception_entry(taken(s), s.scan_exc)
    BY <1>6 DEF arm_nvic_check_pending
  <2>2. Ready(n) # {} /\ w \in Ready(n) /\ w \in Pendable
        /\ WinnerPrio(n) \in 0 .. 255
    BY <1>1, <1>2, <1>6, WinnerFacts
  <2>3. w \in ExcType
    BY <2>2, PendableFacts DEF ExcType, Exceptions
  <2> DEFINE t == [s EXCEPT !.has_pending = FALSE, !.scan_valid = FALSE,
                            !.pending = s.pending \ {w}, !.active = w]
  <2>4. taken(s) = t
    BY <1>2 DEF taken
  <2>5. s.pending \ {w} \in PendingType
    BY <1>2 DEF NvicState, PendingType
  <2>6. t \in NvicState
    BY <1>2, <2>3, <2>5 DEF NvicState
  <2>7. /\ SameMasks(n, t) /\ t.pending = n.pending \ {w} /\ t.active = w /\ t.ipsr = n.ipsr
        /\ t.stack = n.stack /\ t.has_pending = FALSE /\ t.scan_valid = FALSE
    BY <1>2 DEF NvicState, SameMasks, SameRun
  <2>8. m = [t EXCEPT !.stack = <<t.ipsr>> \o t.stack, !.ipsr = w, !.cpu_off = FALSE]
    BY <1>2, <2>1, <2>4 DEF arm_exception_entry
  <2>9. <<t.ipsr>> \o t.stack \in StackType
    <3>1. t.ipsr \in ExcType /\ t.stack \in Seq(ExcType)
      BY <2>6 DEF NvicState, StackType
    <3> HIDE DEF t
    <3> QED BY SMT, <3>1 DEF StackType
  <2> HIDE DEF t, m
  <2>10. m \in NvicState
    BY <2>3, <2>6, <2>8, <2>9 DEF NvicState
  <2>11. /\ SameMasks(n, m) /\ m.pending = n.pending \ {w} /\ m.active = w /\ m.ipsr = w
         /\ m.stack = <<n.ipsr>> \o n.stack /\ m.has_pending = FALSE /\ m.scan_valid = FALSE
    BY <2>6, <2>7, <2>8 DEF NvicState, SameMasks
  <2>12. Fresh(m)
    BY <2>11 DEF Fresh
  <2>13. ~n.faultmask
    BY <1>6 DEF held_back
  <2>14. n.basepri \in 0 .. 255
    BY <1>1 DEF NvicState, ByteType
  <2>140. /\ ~(n.basepri # 0 /\ WinnerPrio(n) >= n.basepri)
          /\ ~(n.active > 0 /\ WinnerPrio(n) >= arm_nvic_get_priority(n, n.active))
    <3>1. s.scan_prio = WinnerPrio(n)
      BY <1>2
    <3> HIDE DEF s
    <3> QED BY <1>6, <3>1 DEF held_back
  <2>15. n.basepri = 0 \/ WinnerPrio(n) < n.basepri
    <3> HIDE DEF s, w
    <3>1. WinnerPrio(n) \in Int /\ n.basepri \in Int
      BY SMT, <2>2, <2>14
    <3> QED BY ONLY <2>140, <3>1, NotAtLeast
  <2>16. n.active > 0 => arm_nvic_get_priority(n, n.active) \in -1 .. 255
    BY <1>1, ActivePriority
  <2>17. n.active > 0 => WinnerPrio(n) < arm_nvic_get_priority(n, n.active)
    <3> HIDE DEF s, w
    <3> SUFFICES ASSUME n.active > 0 
                 PROVE  WinnerPrio(n) < arm_nvic_get_priority(n, n.active)
      OBVIOUS
    <3>1. WinnerPrio(n) \in Int /\ arm_nvic_get_priority(n, n.active) \in Int
      BY SMT, <2>2, <2>16
    <3> QED BY <2>140, <3>1, NotAtLeast
  <2>18. Entered(n, m, w)
    BY <2>2, <2>11, <2>13, <2>15, <2>17 DEF Entered
  <2>19. Checked(n, m)
    <3> HIDE DEF w
    <3>1. \E x \in Pendable : Entered(n, m, x)
      BY <2>2, <2>18
    <3> QED BY <1>6, <3>1 DEF Checked
  <2>20. Base(m) /\ SameMasks(n, m)
    BY <2>10, <2>11, <2>12 DEF Base
  <2> QED BY <2>19, <2>20 DEF m
<1> QED BY <1>3, <1>4, <1>5, <1>6

\* What the checks after an update of n can make of it: none, one or two of
\* them run.
Reached(n, m) ==
    \/ m = n
    \/ m = arm_nvic_check_pending(n)
    \/ m = arm_nvic_check_pending(arm_nvic_check_pending(n))

\* The end of an instruction and the gated check reach what checks reach.
LEMMA ReachedFacts ==
    ASSUME NEW n
    PROVE  /\ Reached(n, insn_done(n))
           /\ Reached(n, arm_nvic_check_pending(n))
           /\ Reached(n, insn_done(arm_nvic_check_pending(n)))
           /\ Reached(n, insn_done(recheck_when_pending(n)))
BY DEF Reached, insn_done, recheck_when_pending

\* Checks keep the ranges and the memo.
LEMMA ReachedBase ==
    ASSUME NEW n, NEW m, Base(n), Reached(n, m)
    PROVE  Base(m) /\ SameMasks(n, m)
<1> DEFINE d == arm_nvic_check_pending(n)
           f == arm_nvic_check_pending(d)
<1>1. Base(d) /\ SameMasks(n, d)
  BY CheckFacts
<1> HIDE DEF d
<1>2. Base(f) /\ SameMasks(d, f)
  BY <1>1, CheckFacts
<1>3. m = n \/ m = d \/ m = f
  BY DEF Reached, d
<1> HIDE DEF f
<1> QED BY <1>1, <1>2, <1>3 DEF SameMasks

\* An update keeps the memo right if it invalidates it or leaves the scan alone.
LEMMA UpdateBase ==
    ASSUME NEW n, NEW m \in NvicState, Base(n),
           \/ m.scan_valid = FALSE
           \/ /\ m.pending = n.pending /\ m.iser = n.iser /\ m.prio = n.prio
              /\ m.scan_valid = n.scan_valid /\ m.scan_exc = n.scan_exc
              /\ m.scan_prio = n.scan_prio
    PROVE  Base(m)
BY SameScan DEF Base, Fresh

\* The updates that instructions, peripherals and the debugger make.
enabled_in(n, i) == [n EXCEPT !.iser = @ \cup {i}, !.scan_valid = FALSE, !.has_pending = TRUE]
unpended(n, e) == [n EXCEPT !.pending = @ \ {e}, !.scan_valid = FALSE]
prioritised(n, e, p) == [n EXCEPT !.prio[e] = p, !.scan_valid = FALSE]
popped(n) == [n EXCEPT !.ipsr = Head(n.stack), !.stack = Tail(@), !.active = returned_to(n)]

\* Each of the updates that concern the pending, enabled and priority state
\* keeps the ranges and leaves no stale memo.
LEMMA ScanUpdates ==
    ASSUME NEW n, Base(n)
    PROVE  /\ \A i \in Irqs : Base(enabled_in(n, i)) /\ Base(disabled(n, i))
           /\ \A e \in Pendable : Base(unpended(n, e))
                                  /\ Base(arm_nvic_set_pending_deferred(n, e))
           /\ \A e \in Pendable, p \in Prios : Base(prioritised(n, e, p))
<1>0. n \in NvicState
  BY DEF Base
<1>1. ASSUME NEW i \in Irqs PROVE Base(enabled_in(n, i)) /\ Base(disabled(n, i))
  <2>1. n.iser \cup {i} \in IserType /\ n.iser \ {i} \in IserType
    BY <1>0 DEF NvicState, IserType
  <2>2. enabled_in(n, i) \in NvicState /\ enabled_in(n, i).scan_valid = FALSE
    BY <1>0, <2>1 DEF NvicState, enabled_in
  <2>3. disabled(n, i) \in NvicState /\ disabled(n, i).scan_valid = FALSE
    BY <1>0, <2>1 DEF NvicState, disabled
  <2> QED BY <2>2, <2>3, UpdateBase
<1>2. ASSUME NEW e \in Pendable
      PROVE  Base(unpended(n, e)) /\ Base(arm_nvic_set_pending_deferred(n, e))
  <2> DEFINE d == arm_nvic_set_pending_deferred(n, e)
  <2>1. n.pending \cup {e} \in PendingType /\ n.pending \ {e} \in PendingType
    BY <1>0 DEF NvicState, PendingType
  <2>2. unpended(n, e) \in NvicState /\ unpended(n, e).scan_valid = FALSE
    BY <1>0, <2>1 DEF NvicState, unpended
  <2>3. d \in NvicState /\ d.scan_valid = FALSE
    BY <1>0, <2>1 DEF NvicState, arm_nvic_set_pending_deferred
  <2> QED BY <2>2, <2>3, UpdateBase
<1>3. ASSUME NEW e \in Pendable, NEW p \in Prios PROVE Base(prioritised(n, e, p))
  <2>1. [n.prio EXCEPT ![e] = p] \in PrioType
    BY <1>0, NvicAssumption, PendableFacts DEF NvicState, PrioType
  <2>2. prioritised(n, e, p) = [n EXCEPT !.prio = [n.prio EXCEPT ![e] = p], !.scan_valid = FALSE]
    BY <1>0 DEF NvicState, prioritised
  <2>3. prioritised(n, e, p) \in NvicState /\ prioritised(n, e, p).scan_valid = FALSE
    BY <1>0, <2>1, <2>2 DEF NvicState
  <2> QED BY <2>3, UpdateBase
<1> QED BY <1>1, <1>2, <1>3

\* Each of the updates that concern the core keeps the ranges and leaves the
\* memo as it is.
LEMMA CoreUpdates ==
    ASSUME NEW n, Base(n)
    PROVE  /\ \A b \in BOOLEAN : /\ Base([n EXCEPT !.primask = b])
                                 /\ Base([n EXCEPT !.faultmask = b])
                                 /\ Base([n EXCEPT !.cpu_off = b])
                                 /\ Base([n EXCEPT !.dbg_halted = b])
           /\ \A v \in 0 .. 255 : Base([n EXCEPT !.basepri = v])
           /\ n.stack # <<>> => Base(popped(n))
<1>0. n \in NvicState
  BY DEF Base
<1>1. ASSUME NEW b \in BOOLEAN
      PROVE  /\ Base([n EXCEPT !.primask = b]) /\ Base([n EXCEPT !.faultmask = b])
             /\ Base([n EXCEPT !.cpu_off = b]) /\ Base([n EXCEPT !.dbg_halted = b])
  <2>1. Base([n EXCEPT !.primask = b])
    BY <1>0, UpdateBase DEF NvicState
  <2>2. Base([n EXCEPT !.faultmask = b])
    BY <1>0, UpdateBase DEF NvicState
  <2>3. Base([n EXCEPT !.cpu_off = b])
    BY <1>0, UpdateBase DEF NvicState
  <2>4. Base([n EXCEPT !.dbg_halted = b])
    BY <1>0, UpdateBase DEF NvicState
  <2> QED BY <2>1, <2>2, <2>3, <2>4
<1>2. ASSUME NEW v \in 0 .. 255 PROVE Base([n EXCEPT !.basepri = v])
  <2>1. v \in ByteType
    BY DEF ByteType
  <2> QED BY <1>0, <2>1, UpdateBase DEF NvicState
<1>3. ASSUME n.stack # <<>> PROVE Base(popped(n))
  <2>1. n.stack \in Seq(ExcType)
    BY <1>0 DEF NvicState, StackType
  <2>2. Head(n.stack) \in ExcType /\ Tail(n.stack) \in Seq(ExcType)
    BY SMT, <1>3, <2>1
  <2>3. popped(n) = [n EXCEPT !.ipsr = Head(n.stack), !.stack = Tail(n.stack),
                              !.active = Head(n.stack)]
    BY DEF popped, returned_to
  <2>4. popped(n) \in NvicState
    BY <1>0, <2>2, <2>3 DEF NvicState, StackType
  <2>5. /\ popped(n).pending = n.pending /\ popped(n).iser = n.iser
        /\ popped(n).prio = n.prio /\ popped(n).scan_valid = n.scan_valid
        /\ popped(n).scan_exc = n.scan_exc /\ popped(n).scan_prio = n.scan_prio
    BY <1>0, <2>3 DEF NvicState
  <2> QED BY <2>4, <2>5, UpdateBase
<1> QED BY <1>1, <1>2, <1>3

\* Thread mode, exception 0, lies at the bottom of the stack and nowhere else.
Grounded(n) ==
    /\ n.ipsr = 0 <=> n.stack = <<>>
    /\ \A k \in 1 .. Len(n.stack) : n.stack[k] = 0 <=> k = Len(n.stack)

Good(n) == Base(n) /\ Grounded(n)

\* Pushing the running exception and entering another keeps thread mode at
\* the bottom.
LEMMA PushGrounded ==
    ASSUME NEW n, n \in NvicState, Grounded(n), NEW m, m.ipsr # 0,
           m.stack = <<n.ipsr>> \o n.stack
    PROVE  Grounded(m)
<1>1. n.stack \in Seq(ExcType) /\ n.ipsr \in ExcType
  BY DEF NvicState, StackType
<1> DEFINE st == n.stack
           ip == n.ipsr
           tt == m.stack
<1>2. st \in Seq(ExcType) /\ ip \in ExcType /\ tt = <<ip>> \o st
  BY <1>1
<1>3. /\ ip = 0 <=> st = <<>>
      /\ \A k \in 1 .. Len(st) : st[k] = 0 <=> k = Len(st)
  BY DEF Grounded
<1>4. tt # <<>> /\ \A k \in 1 .. Len(tt) : tt[k] = 0 <=> k = Len(tt)
  <2> HIDE DEF st, ip, tt
  <2>1. Len(tt) = Len(st) + 1 /\ tt[1] = ip /\ Len(st) \in Nat
        /\ \A k \in 1 .. Len(st) : tt[k + 1] = st[k]
    BY SMT, <1>2
  <2>2. tt # <<>>
    BY SMT, <2>1
  <2>3. Len(st) = 0 <=> st = <<>>
    BY SMT, <1>2
  <2>4. ASSUME NEW k \in 1 .. Len(tt) PROVE tt[k] = 0 <=> k = Len(tt)
    <3>1. CASE k = 1
      BY SMT, <1>3, <2>1, <2>3, <3>1
    <3>2. CASE k # 1
      <4>1. k - 1 \in 1 .. Len(st) /\ (k - 1) + 1 = k
        BY SMT, <2>1, <3>2
      <4>2. tt[k] = st[k - 1]
        BY <2>1, <4>1
      <4> QED BY SMT, <1>3, <2>1, <4>1, <4>2
    <3> QED BY <3>1, <3>2
  <2> QED BY <2>2, <2>4
<1> QED BY <1>4 DEF Grounded

\* Returning from a handler keeps thread mode at the bottom.
LEMMA PopGrounded ==
    ASSUME NEW n, n \in NvicState, Grounded(n), n.stack # <<>>
    PROVE  Grounded(popped(n))
<1> DEFINE st == n.stack
           m == popped(n)
<1>1. st \in Seq(ExcType)
  BY DEF NvicState, StackType
<1>2. m.ipsr = Head(st) /\ m.stack = Tail(st)
  BY DEF popped, NvicState
<1>3. st # <<>> /\ \A k \in 1 .. Len(st) : st[k] = 0 <=> k = Len(st)
  BY DEF Grounded
<1> HIDE DEF st, m
<1> DEFINE hd == Head(st)
           tl == Tail(st)
<1>4. Len(st) \in Nat /\ Len(st) >= 1 /\ hd = st[1]
      /\ Len(tl) = Len(st) - 1 /\ \A k \in 1 .. Len(tl) : tl[k] = st[k + 1]
  <2>1. Len(st) \in Nat \ {0}
    BY <1>1, <1>3, EmptySeq
  <2>2. Len(tl) = Len(st) - 1 /\ \A k \in 1 .. Len(tl) : tl[k] = st[k + 1]
    BY <1>1, <1>3, HeadTailProperties
  <2>3. hd = st[1]
    BY SMT, <1>1, <1>3
  <2> QED BY SMT, <2>1, <2>2, <2>3
<1>40. tl \in Seq(ExcType)
  BY <1>1, <1>3, HeadTailProperties
<1> HIDE DEF hd, tl
<1>5. tl = <<>> <=> Len(st) = 1
  <2>1. tl = <<>> <=> Len(tl) = 0
    BY <1>40, EmptySeq
  <2> QED BY SMT, <1>4, <2>1
<1>6. hd = 0 <=> tl = <<>>
  BY SMT, <1>3, <1>4, <1>5
<1>7. ASSUME NEW k \in 1 .. Len(tl) PROVE tl[k] = 0 <=> k = Len(tl)
  BY SMT, <1>3, <1>4
<1>8. Grounded(m)
  BY <1>2, <1>6, <1>7 DEF Grounded, hd, tl
<1> QED BY <1>8 DEF m

\* A check keeps all of it: it leaves the stack alone or pushes.
LEMMA CheckGood ==
    ASSUME NEW n, Good(n)
    PROVE  Good(arm_nvic_check_pending(n))
<1> DEFINE m == arm_nvic_check_pending(n)
<1>1. Base(n) /\ n \in NvicState /\ Grounded(n)
  BY DEF Good, Base
<1>2. Base(m) /\ Checked(n, m)
  BY <1>1, CheckFacts
<1> SUFFICES Good(m)
  OBVIOUS
<1> HIDE DEF m
<1>3. SameRun(n, m) \/ \E w \in Pendable : Entered(n, m, w)
  BY <1>2 DEF Checked
<1>4. CASE SameRun(n, m)
  BY <1>1, <1>2, <1>4 DEF SameRun, Grounded, Good
<1>5. CASE \E w \in Pendable : Entered(n, m, w)
  <2>1. PICK w \in Pendable : Entered(n, m, w)
    BY <1>5
  <2>2. m.ipsr # 0 /\ m.stack = <<n.ipsr>> \o n.stack
    BY <2>1, PendableFacts DEF Entered
  <2> QED BY <1>1, <1>2, <2>2, PushGrounded DEF Good
<1> QED BY <1>3, <1>4, <1>5

\* So do any checks after an update.
LEMMA ReachedGood ==
    ASSUME NEW n, NEW m, Good(n), Reached(n, m)
    PROVE  Good(m)
BY CheckGood DEF Reached

\* An update of Base that leaves the stack alone keeps all of it.
LEMMA UpdateGood ==
    ASSUME NEW n, NEW m, Good(n), Base(m), m.ipsr = n.ipsr, m.stack = n.stack
    PROVE  Good(m)
BY DEF Good, Grounded

\* A refused access enters a HardFault, or a BusFault that outranks what runs.
LEMMA FaultFacts ==
    ASSUME NEW n, Good(n)
    PROVE  LET m == fault_taken(n)
           IN  /\ Good(m) /\ SameMasks(n, m)
               /\ m.pending = n.pending /\ m.has_pending = n.has_pending
               /\ m.stack = <<n.ipsr>> \o n.stack /\ m.active = m.ipsr
               /\ \/ m.ipsr = HardFault
                  \/ /\ m.ipsr = BusFault
                     /\ n.active > 0 => n.prio[BusFault] < arm_nvic_get_priority(n, n.active)
<1> DEFINE m == fault_taken(n)
           x == arm_nvic_execution_priority(n)
           e == IF ~n.busfault_enabled \/ n.prio[BusFault] >= x THEN HardFault ELSE BusFault
<1>0. Base(n) /\ n \in NvicState /\ Grounded(n)
  BY DEF Good, Base
<1>1. m = [n EXCEPT !.stack = <<n.ipsr>> \o n.stack, !.ipsr = e, !.cpu_off = FALSE, !.active = e]
  BY <1>0 DEF fault_taken, arm_exception_entry, NvicState
<1>2. e \in ExcType /\ e # 0
  BY SMT DEF ExcType, Exceptions, Configurable, HardFault, BusFault
<1>3. <<n.ipsr>> \o n.stack \in StackType
  <2>1. n.ipsr \in ExcType /\ n.stack \in Seq(ExcType)
    BY <1>0 DEF NvicState, StackType
  <2> QED BY SMT, <2>1 DEF StackType
<1>4. e = HardFault \/ (e = BusFault /\ ~(n.prio[BusFault] >= x))
  OBVIOUS
<1>5. n.prio[BusFault] \in 0 .. 255 /\ n.basepri \in 0 .. 255
  BY <1>0 DEF NvicState, PrioType, Configurable, ByteType
<1>6. n.active > 0 => arm_nvic_get_priority(n, n.active) \in -1 .. 255
  BY <1>0, ActivePriority
<1>7. ASSUME n.active > 0
      PROVE  x <= arm_nvic_get_priority(n, n.active) /\ x \in Int
  <2> DEFINE h == arm_nvic_get_priority(n, n.active)
             bp == n.basepri
  <2>1. h \in -1 .. 255 /\ bp \in 0 .. 255
    BY <1>5, <1>6, <1>7
  <2>2. x = IF n.faultmask THEN -1
            ELSE LET b == IF bp # 0 /\ bp < h THEN bp ELSE h
                 IN  IF n.primask /\ b > 0 THEN 0 ELSE b
    BY <1>7 DEF arm_nvic_execution_priority
  <2> HIDE DEF h, bp, x
  <2>3. x <= h /\ x \in Int
    BY SMT, <2>1, <2>2
  <2> QED BY <2>3 DEF h
<1> HIDE DEF e, x
<1>8. m \in NvicState
  BY <1>0, <1>1, <1>2, <1>3 DEF NvicState
<1>9. /\ SameMasks(n, m) /\ m.pending = n.pending /\ m.has_pending = n.has_pending
      /\ m.stack = <<n.ipsr>> \o n.stack /\ m.active = e /\ m.ipsr = e
      /\ m.scan_valid = n.scan_valid /\ m.scan_exc = n.scan_exc /\ m.scan_prio = n.scan_prio
  BY <1>0, <1>1 DEF NvicState, SameMasks
<1> HIDE DEF m
<1>10. Base(m)
  BY <1>0, <1>8, <1>9, UpdateBase DEF SameMasks
<1>11. Good(m)
  BY <1>0, <1>2, <1>9, <1>10, PushGrounded DEF Good
<1>12. ASSUME e = BusFault, n.active > 0
       PROVE  n.prio[BusFault] < arm_nvic_get_priority(n, n.active)
  <2>1. ~(n.prio[BusFault] >= x)
    BY SMT, <1>4, <1>12 DEF HardFault, BusFault
  <2>2. n.prio[BusFault] < x
    <3>1. \A v \in 0 .. 255 : v \in Int
      BY ONLY SMT
    <3> QED BY <1>5, <1>7, <1>12, <2>1, <3>1, NotAtLeast
  <2>3. x <= arm_nvic_get_priority(n, n.active) /\ x \in Int
        /\ arm_nvic_get_priority(n, n.active) \in Int /\ n.prio[BusFault] \in Int
    <3>1. \A v \in -1 .. 255 : v \in Int
      BY ONLY SMT
    <3>2. \A v \in 0 .. 255 : v \in Int
      BY ONLY SMT
    <3> QED BY <1>5, <1>6, <1>7, <1>12, <3>1, <3>2
  <2> QED BY SMT, <2>2, <2>3
<1> QED BY <1>4, <1>9, <1>11, <1>12 DEF m

\* An attribution violation enters its handler.
LEMMA SecureFacts ==
    ASSUME NEW n, Good(n)
    PROVE  Good(arm_exception_entry(n, SecureFault))
<1> DEFINE m == arm_exception_entry(n, SecureFault)
<1>0. Base(n) /\ n \in NvicState /\ Grounded(n)
  BY DEF Good, Base
<1>1. m = [n EXCEPT !.stack = <<n.ipsr>> \o n.stack, !.ipsr = SecureFault, !.cpu_off = FALSE]
  BY DEF arm_exception_entry
<1>2. SecureFault \in ExcType /\ SecureFault # 0
  BY SMT DEF ExcType, Exceptions, Configurable, SecureFault
<1>3. <<n.ipsr>> \o n.stack \in StackType
  <2>1. n.ipsr \in ExcType /\ n.stack \in Seq(ExcType)
    BY <1>0 DEF NvicState, StackType
  <2> QED BY SMT, <2>1 DEF StackType
<1>4. m \in NvicState
  BY <1>0, <1>1, <1>2, <1>3 DEF NvicState
<1>5. /\ m.pending = n.pending /\ m.iser = n.iser /\ m.prio = n.prio
      /\ m.scan_valid = n.scan_valid /\ m.scan_exc = n.scan_exc /\ m.scan_prio = n.scan_prio
      /\ m.stack = <<n.ipsr>> \o n.stack /\ m.ipsr = SecureFault
  BY <1>0, <1>1 DEF NvicState
<1> SUFFICES Good(m)
  OBVIOUS
<1> HIDE DEF m
<1>6. Base(m)
  BY <1>0, <1>4, <1>5, UpdateBase
<1>7. Grounded(m)
  BY <1>0, <1>2, <1>5, PushGrounded
<1> QED BY <1>6, <1>7 DEF Good

\* The controller after a reset, whatever the priorities.
LEMMA ResetGood ==
    ASSUME NEW p \in PrioType, NEW b \in BOOLEAN
    PROVE  Good(Reset(p, b))
<1> DEFINE m == Reset(p, b)
<1>1. {} \in PendingType /\ {} \in IserType /\ 0 \in ExcType /\ <<>> \in StackType
      /\ 0 \in ByteType /\ NoExc \in ScanType /\ NoPrio \in ScanPrioType
  BY SMT DEF PendingType, IserType, ExcType, StackType, ByteType, ScanType, ScanPrioType, NoPrio
<1>2. m \in NvicState
  BY <1>1 DEF Reset, NvicState
<1>3. m.scan_valid = FALSE /\ m.ipsr = 0 /\ m.stack = <<>>
  BY DEF Reset
<1>4. Base(m)
  BY <1>2, <1>3 DEF Base, Fresh
<1>5. Grounded(m)
  BY SMT, <1>3 DEF Grounded
<1> QED BY <1>4, <1>5 DEF Good

\* What a pending, an enabling or a priority write leaves alone.
LEMMA ScanUpdatesStack ==
    ASSUME NEW n \in NvicState
    PROVE  /\ \A i \in Irqs : /\ enabled_in(n, i).ipsr = n.ipsr /\ enabled_in(n, i).stack = n.stack
                              /\ disabled(n, i).ipsr = n.ipsr /\ disabled(n, i).stack = n.stack
           /\ \A e \in Pendable :
                 /\ unpended(n, e).ipsr = n.ipsr /\ unpended(n, e).stack = n.stack
                 /\ arm_nvic_set_pending_deferred(n, e).ipsr = n.ipsr
                 /\ arm_nvic_set_pending_deferred(n, e).stack = n.stack
           /\ \A e \in Pendable, p \in Prios : /\ prioritised(n, e, p).ipsr = n.ipsr
                                               /\ prioritised(n, e, p).stack = n.stack
BY DEF NvicState, enabled_in, disabled, unpended, arm_nvic_set_pending_deferred, prioritised

\* Pending an exception keeps all of it.
LEMMA PendGood ==
    ASSUME NEW n, Good(n), NEW e \in Pendable
    PROVE  Good(arm_nvic_set_pending_deferred(n, e))
BY ScanUpdates, ScanUpdatesStack, UpdateGood DEF Good, Base

\* No step changes the firmware.
LEMMA FirmwareKept == [Next]_vars => fw' = fw
BY DEF Next, vars

\* The firmware stays one of those considered.
THEOREM FirmwareFixed == Spec => [](fw \in Firmwares)
<1>1. Init => fw \in Firmwares
  BY DEF Init
<1>2. fw \in Firmwares /\ [Next]_vars => (fw \in Firmwares)'
  BY FirmwareKept
<1> QED BY <1>1, <1>2, PTL DEF Spec

\* What a firmware writes to BASEPRI is a byte.
LEMMA BasepriRange == fw \in Firmwares => Basepris \subseteq 0 .. 255
BY SMT, NvicAssumption DEF Firmware, Basepris

\* Every step keeps the ranges, the memo and the shape of the stack.
LEMMA NextGood ==
    ASSUME fw \in Firmwares, Good(c), [Next]_vars
    PROVE  Good(c')
<1>0. Base(c) /\ c \in NvicState /\ Grounded(c)
  BY DEF Good, Base
<1>a. ASSUME NEW b \in BOOLEAN
      PROVE  /\ Good([c EXCEPT !.primask = b]) /\ Good([c EXCEPT !.faultmask = b])
             /\ Good([c EXCEPT !.cpu_off = b]) /\ Good([c EXCEPT !.dbg_halted = b])
  <2>1. Good([c EXCEPT !.primask = b])
    BY <1>0, CoreUpdates, UpdateGood DEF NvicState
  <2>2. Good([c EXCEPT !.faultmask = b])
    BY <1>0, CoreUpdates, UpdateGood DEF NvicState
  <2>3. Good([c EXCEPT !.cpu_off = b])
    BY <1>0, CoreUpdates, UpdateGood DEF NvicState
  <2>4. Good([c EXCEPT !.dbg_halted = b])
    BY <1>0, CoreUpdates, UpdateGood DEF NvicState
  <2> QED BY <2>1, <2>2, <2>3, <2>4
<1>b. ASSUME NEW v \in Basepris PROVE Good([c EXCEPT !.basepri = v])
  BY <1>0, BasepriRange, CoreUpdates, UpdateGood DEF NvicState
<1>1. CASE Iser
  <2>1. PICK i \in Irqs : c' = insn_done(arm_nvic_check_pending(enabled_in(c, i)))
    BY <1>1 DEF Iser, enabled_in
  <2>2. Good(enabled_in(c, i))
    BY <1>0, ScanUpdates, ScanUpdatesStack, UpdateGood
  <2> QED BY <2>1, <2>2, ReachedFacts, ReachedGood
<1>2. CASE Icer
  <2>1. PICK i \in Irqs : c' = insn_done(disabled(c, i))
    BY <1>2 DEF Icer
  <2>2. Good(disabled(c, i))
    BY <1>0, ScanUpdates, ScanUpdatesStack, UpdateGood
  <2> QED BY <2>1, <2>2, ReachedFacts, ReachedGood
<1>3. CASE PendByWrite
  <2>1. PICK e \in Pendable : c' = insn_done(arm_nvic_set_pending(c, e))
    BY <1>3 DEF PendByWrite, Pendable
  <2>2. c' = insn_done(arm_nvic_check_pending(arm_nvic_set_pending_deferred(c, e)))
    BY <2>1 DEF arm_nvic_set_pending
  <2> QED BY SMT, <2>2, PendGood, ReachedFacts, ReachedGood
<1>4. CASE UnpendByWrite
  <2>1. PICK e \in Pendable : c' = insn_done(unpended(c, e))
    BY <1>4 DEF UnpendByWrite, Pendable, unpended
  <2>2. Good(unpended(c, e))
    BY <1>0, ScanUpdates, ScanUpdatesStack, UpdateGood
  <2> QED BY <2>1, <2>2, ReachedFacts, ReachedGood
<1>5. CASE SetPriority
  <2>1. PICK e \in Pendable, p \in Prios : c' = insn_done(prioritised(c, e, p))
    BY <1>5 DEF SetPriority, Pendable, prioritised
  <2>2. Good(prioritised(c, e, p))
    BY SMT, <1>0, ScanUpdates, ScanUpdatesStack, UpdateGood
  <2> QED BY <2>1, <2>2, ReachedFacts, ReachedGood
<1>6. CASE Mask
  BY <1>6, <1>a, ReachedFacts, ReachedGood DEF Mask
<1>7. CASE Unmask
  BY <1>7, <1>a, ReachedFacts, ReachedGood DEF Unmask
<1>8. CASE Basepri
  BY <1>8, <1>b, ReachedFacts, ReachedGood DEF Basepri
<1>9. CASE BasepriMax
  BY <1>9, <1>b, ReachedFacts, ReachedGood DEF BasepriMax
<1>10. CASE Faultmask
  <2>1. PICK on \in BOOLEAN :
           c' = insn_done(IF on THEN [c EXCEPT !.faultmask = TRUE]
                          ELSE recheck_when_pending([c EXCEPT !.faultmask = FALSE]))
    BY <1>10 DEF Faultmask
  <2>2. CASE on
    BY <2>1, <2>2, <1>a, ReachedFacts, ReachedGood
  <2>3. CASE ~on
    BY <2>1, <2>3, <1>a, ReachedFacts, ReachedGood
  <2> QED BY <2>2, <2>3
<1>11. CASE Wfi
  BY <1>11, <1>a, ReachedFacts, ReachedGood DEF Wfi
<1>12. CASE Return
  <2>1. c.stack # <<>> /\ c' = insn_done(arm_nvic_check_pending(popped(c)))
    BY <1>0, <1>12 DEF Return, Grounded, exception_return, popped
  <2>2. Good(popped(c))
    BY <1>0, <2>1, CoreUpdates, PopGrounded DEF Good
  <2> QED BY <2>1, <2>2, ReachedFacts, ReachedGood
<1>13. CASE RefusedAccess
  <2>1. PICK irq \in BOOLEAN : \E i \in Irqs :
            c' = insn_done(fault_taken(IF irq THEN arm_nvic_set_pending_deferred(c, i) ELSE c))
    BY <1>13 DEF RefusedAccess
  <2>2. PICK i \in Irqs :
            c' = insn_done(fault_taken(IF irq THEN arm_nvic_set_pending_deferred(c, i) ELSE c))
    BY <2>1
  <2>3. Good(IF irq THEN arm_nvic_set_pending_deferred(c, i) ELSE c)
    BY PendGood DEF Pendable
  <2>4. Good(fault_taken(IF irq THEN arm_nvic_set_pending_deferred(c, i) ELSE c))
    BY <2>3, FaultFacts
  <2> QED BY <2>2, <2>4, ReachedFacts, ReachedGood
<1>14. CASE AttributionViolation
  BY <1>14, SecureFacts, ReachedFacts, ReachedGood DEF AttributionViolation
<1>15. CASE SystemReset
  <2>1. [e \in Configurable |-> 0] \in PrioType
    BY SMT DEF PrioType
  <2> QED BY <1>15, <2>1, ResetGood DEF SystemReset
<1>16. CASE PeripheralIrq
  <2>1. PICK e \in Pendable : c' = arm_nvic_set_pending(c, e)
    BY <1>16 DEF PeripheralIrq, Pendable
  <2> QED BY <2>1, PendGood, CheckGood DEF arm_nvic_set_pending
<1>17. CASE Wake
  BY <1>17, <1>a, CheckGood DEF Wake
<1>18. CASE DebugHalt
  BY <1>18, <1>a DEF DebugHalt
<1>19. CASE DebugRelease
  BY <1>19, <1>a DEF DebugRelease
<1>20. CASE Step
  BY <1>20, ReachedFacts, ReachedGood DEF Step
<1>21. CASE UNCHANGED vars
  BY <1>21 DEF vars, Good, Base, Fresh, Grounded, Ready, Winner, WinnerPrio
<1> QED BY <1>1, <1>2, <1>3, <1>4, <1>5, <1>6, <1>7, <1>8, <1>9, <1>10, <1>11, <1>12,
          <1>13, <1>14, <1>15, <1>16, <1>17, <1>18, <1>19, <1>20, <1>21 DEF Next, Instruction

\* Initially nothing is pending and thread mode runs.
LEMMA InitGood ==
    ASSUME Init
    PROVE  Good(c)
<1>1. PICK p \in [Configurable -> Prios] : \E b \in BOOLEAN : c = Reset(p, b)
  BY DEF Init
<1>2. p \in PrioType
  BY NvicAssumption DEF PrioType
<1> QED BY <1>1, <1>2, ResetGood

\* The inductive invariant of the controller and the core: every field has
\* its range, the memo of the last scan is what a scan would find, thread mode
\* is at the bottom of the stack.
THEOREM NvicInvariant == Spec => []Good(c)
<1>1. Init => Good(c)
  BY InitGood
<1>2. fw \in Firmwares /\ Good(c) /\ [Next]_vars => Good(c)'
  BY NextGood
<1> QED BY <1>1, <1>2, FirmwareFixed, PTL DEF Spec

\* The memo that arm_nvic_check_pending reuses (scan_valid) is never stale.
THEOREM ScanIsFresh == Spec => []ScanFresh
<1>1. Good(c) => ScanFresh
  BY DEF Good, Base, Fresh, ScanFresh
<1> QED BY <1>1, NvicInvariant, PTL

\* Every field of the controller and the core keeps its range.
THEOREM NvicTypeCorrect == Spec => []TypeOK
<1>1. Good(c) => TypeOK
  BY SMT DEF Good, Base, NvicState, TypeOK, PendingType, IserType, PrioType, ExcType, StackType,
      ByteType, ScanType, ScanPrioType, Pendable
<1> QED BY <1>1, NvicInvariant, PTL

(***************************************************************************)
(* Nesting                                                                 *)
(***************************************************************************)

\* The handler that runs under k stacked ones.
Inner(n, k) == IF k = 1 THEN n.ipsr ELSE n.stack[k - 1]

\* Handler x may run on top of y.
Outranks(n, x, y) ==
    y # 0 => \/ arm_nvic_get_priority(n, x) < arm_nvic_get_priority(n, y)
             \/ x = HardFault

Nested(n) ==
    /\ n.active = n.ipsr
    /\ \A k \in 1 .. Len(n.stack) : Outranks(n, Inner(n, k), n.stack[k])

\* Entering an exception that outranks the running one keeps the nesting.
LEMMA PushNested ==
    ASSUME NEW n, n \in NvicState, Nested(n), NEW m, m.prio = n.prio,
           m.active = m.ipsr, m.stack = <<n.ipsr>> \o n.stack, Outranks(n, m.ipsr, n.ipsr)
    PROVE  Nested(m)
<1> DEFINE st == n.stack
           ip == n.ipsr
           tt == m.stack
<1>1. st \in Seq(ExcType) /\ ip \in ExcType /\ tt = <<ip>> \o st
  BY DEF NvicState, StackType
<1>2. /\ Len(tt) = Len(st) + 1 /\ tt[1] = ip /\ Len(st) \in Nat
      /\ \A k \in 1 .. Len(st) : tt[k + 1] = st[k]
  <2> HIDE DEF st, ip, tt
  <2> QED BY SMT, <1>1
<1>3. \A x, y : Outranks(n, x, y) = Outranks(m, x, y)
  BY DEF Outranks, arm_nvic_get_priority
<1>4. \A k \in 1 .. Len(st) : Outranks(n, IF k = 1 THEN ip ELSE st[k - 1], st[k])
  BY DEF Nested, Inner
<1>5. Outranks(n, m.ipsr, ip)
  OBVIOUS
<1>6. ASSUME NEW k \in 1 .. Len(tt)
      PROVE  Outranks(n, IF k = 1 THEN m.ipsr ELSE tt[k - 1], tt[k])
  <2> HIDE DEF st, ip, tt
  <2>1. CASE k = 1
    BY <1>2, <1>5, <2>1
  <2>2. CASE k = 2
    <3>1. tt[2] = st[1] /\ 1 \in 1 .. Len(st)
      BY SMT, <1>2, <2>2
    <3>2. Outranks(n, ip, st[1])
      BY <1>4, <3>1
    <3> QED BY SMT, <1>2, <2>2, <3>1, <3>2
  <2>3. CASE k # 1 /\ k # 2
    <3>1. /\ k - 1 \in 1 .. Len(st) /\ k - 2 \in 1 .. Len(st) /\ k - 1 # 1
          /\ (k - 1) + 1 = k /\ (k - 2) + 1 = k - 1 /\ (k - 1) - 1 = k - 2
      BY SMT, <1>2, <2>3
    <3>2. tt[k] = st[k - 1] /\ tt[k - 1] = st[k - 2]
      BY <1>2, <3>1
    <3>3. Outranks(n, st[k - 2], st[k - 1])
      BY <1>4, <3>1
    <3> QED BY <2>3, <3>2, <3>3
  <2> QED BY <2>1, <2>2, <2>3
<1> QED BY SMT, <1>3, <1>6 DEF Nested, Inner

\* Returning to the preempted handler keeps the nesting.
LEMMA PopNested ==
    ASSUME NEW n, n \in NvicState, Nested(n), n.stack # <<>>
    PROVE  Nested(popped(n))
<1> DEFINE st == n.stack
           m == popped(n)
           hd == Head(st)
           tl == Tail(st)
<1>1. st \in Seq(ExcType) /\ st # <<>>
  BY DEF NvicState, StackType
<1>2. m.ipsr = hd /\ m.active = hd /\ m.stack = tl /\ m.prio = n.prio
  BY DEF popped, returned_to, NvicState
<1>3. /\ Len(st) \in Nat \ {0} /\ hd = st[1]
      /\ Len(tl) = Len(st) - 1 /\ \A k \in 1 .. Len(tl) : tl[k] = st[k + 1]
  <2> HIDE DEF st
  <2>1. Len(st) \in Nat \ {0}
    BY <1>1, EmptySeq
  <2>2. Len(tl) = Len(st) - 1 /\ \A k \in 1 .. Len(tl) : tl[k] = st[k + 1]
    BY <1>1, HeadTailProperties
  <2>3. hd = st[1]
    BY SMT, <1>1
  <2> QED BY <2>1, <2>2, <2>3
<1>4. \A x, y : Outranks(n, x, y) = Outranks(m, x, y)
  BY <1>2 DEF Outranks, arm_nvic_get_priority
<1>5. \A k \in 1 .. Len(st) : Outranks(n, IF k = 1 THEN n.ipsr ELSE st[k - 1], st[k])
  BY DEF Nested, Inner
<1> HIDE DEF st, hd, tl
<1>6. ASSUME NEW k \in 1 .. Len(tl)
      PROVE  Outranks(n, IF k = 1 THEN hd ELSE tl[k - 1], tl[k])
  <2>1. k + 1 \in 1 .. Len(st) /\ k + 1 # 1 /\ (k + 1) - 1 = k
    BY SMT, <1>3
  <2>2. Outranks(n, st[k], st[k + 1])
    BY <1>5, <2>1
  <2>3. tl[k] = st[k + 1] /\ (k = 1 => hd = st[k]) /\ (k # 1 => tl[k - 1] = st[k])
    BY SMT, <1>3
  <2> QED BY <2>2, <2>3
<1> SUFFICES Nested(m)
  OBVIOUS
<1> HIDE DEF m
<1> QED BY SMT, <1>2, <1>4, <1>6 DEF Nested, Inner

\* An update that leaves what runs and the priorities alone keeps the nesting.
LEMMA UpdateNested ==
    ASSUME NEW n, NEW m, Nested(n), m.prio = n.prio, m.active = n.active,
           m.ipsr = n.ipsr, m.stack = n.stack
    PROVE  Nested(m)
BY DEF Nested, Inner, Outranks, arm_nvic_get_priority

\* A check enters only what outranks the running handler.
LEMMA CheckNested ==
    ASSUME NEW n, Good(n), Nested(n)
    PROVE  Nested(arm_nvic_check_pending(n))
<1> DEFINE m == arm_nvic_check_pending(n)
<1>1. Base(n) /\ n \in NvicState
  BY DEF Good, Base
<1>2. SameMasks(n, m) /\ Checked(n, m)
  BY <1>1, CheckFacts
<1> SUFFICES Nested(m)
  OBVIOUS
<1> HIDE DEF m
<1>3. SameRun(n, m) \/ \E w \in Pendable : Entered(n, m, w)
  BY <1>2 DEF Checked
<1>4. CASE SameRun(n, m)
  BY <1>2, <1>4, UpdateNested DEF SameRun, SameMasks
<1>5. CASE \E w \in Pendable : Entered(n, m, w)
  <2>1. PICK w \in Pendable : Entered(n, m, w)
    BY <1>5
  <2>2. /\ m.active = w /\ m.ipsr = w /\ m.stack = <<n.ipsr>> \o n.stack /\ m.prio = n.prio
        /\ w \in Ready(n) /\ w = Winner(n)
        /\ n.active > 0 => WinnerPrio(n) < arm_nvic_get_priority(n, n.active)
    BY <1>2, <2>1 DEF Entered, SameMasks
  <2>3. WinnerPrio(n) = arm_nvic_get_priority(n, w)
    BY SMT, <1>1, <2>2, WinnerFacts, PendableFacts DEF arm_nvic_get_priority
  <2>4. n.active = n.ipsr /\ (n.active # 0 => n.active > 0)
    BY SMT, <1>1, PendableFacts DEF Nested, NvicState, ExcType, Exceptions, HardFault
  <2>5. Outranks(n, m.ipsr, n.ipsr)
    BY <2>2, <2>3, <2>4 DEF Outranks
  <2> QED BY <1>1, <2>2, <2>5, PushNested
<1> QED BY <1>3, <1>4, <1>5

\* So do any checks after an update.
LEMMA ReachedNested ==
    ASSUME NEW n, NEW m, Good(n), Nested(n), Reached(n, m)
    PROVE  Nested(m)
BY CheckNested, CheckGood DEF Reached

\* A refused access enters a fault that outranks the running handler.
LEMMA FaultNested ==
    ASSUME NEW n, Good(n), Nested(n)
    PROVE  Nested(fault_taken(n))
<1> DEFINE m == fault_taken(n)
<1>1. n \in NvicState
  BY DEF Good, Base
<1>2. /\ SameMasks(n, m) /\ m.stack = <<n.ipsr>> \o n.stack /\ m.active = m.ipsr
      /\ \/ m.ipsr = HardFault
         \/ /\ m.ipsr = BusFault
            /\ n.active > 0 => n.prio[BusFault] < arm_nvic_get_priority(n, n.active)
  BY FaultFacts
<1> SUFFICES Nested(m)
  OBVIOUS
<1> HIDE DEF m
<1>3. n.active = n.ipsr /\ (n.active # 0 => n.active > 0)
  BY SMT, <1>1, PendableFacts DEF Nested, NvicState, ExcType, Exceptions, HardFault
<1>4. arm_nvic_get_priority(n, BusFault) = n.prio[BusFault]
  BY SMT DEF arm_nvic_get_priority, BusFault
<1>5. Outranks(n, m.ipsr, n.ipsr)
  BY <1>2, <1>3, <1>4 DEF Outranks
<1> QED BY <1>1, <1>2, <1>5, PushNested DEF SameMasks

\* A new priority for an exception that is not active keeps the nesting.
LEMMA PriorityNested ==
    ASSUME NEW n, n \in NvicState, Nested(n), NEW e \in Pendable, NEW p \in Prios, e # n.ipsr,
           \A k \in 1 .. Len(n.stack) : e # n.stack[k]
    PROVE  Nested(prioritised(n, e, p))
<1> DEFINE m == prioritised(n, e, p)
<1>1. m.active = n.active /\ m.ipsr = n.ipsr /\ m.stack = n.stack
      /\ m.prio = [n.prio EXCEPT ![e] = p]
  BY DEF prioritised, NvicState
<1>2. \A f : f # e => m.prio[f] = n.prio[f]
  BY SMT, <1>1 DEF NvicState, PrioType
<1>20. \A f : f # e => arm_nvic_get_priority(m, f) = arm_nvic_get_priority(n, f)
  BY <1>2 DEF arm_nvic_get_priority
<1> SUFFICES Nested(m)
  OBVIOUS
<1> HIDE DEF m
<1>3. Len(n.stack) \in Nat
  BY SMT DEF NvicState, StackType
<1>4. ASSUME NEW k \in 1 .. Len(n.stack) PROVE Outranks(m, Inner(m, k), m.stack[k])
  <2>1. k # 1 => k - 1 \in 1 .. Len(n.stack)
    BY SMT, <1>3
  <2>2. Inner(n, k) # e /\ n.stack[k] # e /\ Inner(m, k) = Inner(n, k)
    BY <1>1, <2>1 DEF Inner
  <2>3. Outranks(n, Inner(n, k), n.stack[k])
    BY DEF Nested
  <2> QED BY <1>1, <1>20, <2>2, <2>3 DEF Outranks
<1> QED BY <1>1, <1>4 DEF Nested

\* Nothing runs after a reset.
LEMMA ResetNested ==
    ASSUME NEW p, NEW b
    PROVE  Nested(Reset(p, b))
BY SMT DEF Nested, Reset

\* The updates of the core's masks and of what is pending or enabled keep what
\* runs, and Good.
LEMMA PlainUpdates ==
    ASSUME NEW n, Good(n)
    PROVE  /\ \A i \in Irqs : \A m \in {enabled_in(n, i), disabled(n, i)} :
                 Good(m) /\ (Nested(n) => Nested(m))
           /\ \A e \in Pendable : \A m \in {unpended(n, e), arm_nvic_set_pending_deferred(n, e)} :
                 Good(m) /\ (Nested(n) => Nested(m))
           /\ \A b \in BOOLEAN :
                 \A m \in {[n EXCEPT !.primask = b], [n EXCEPT !.faultmask = b],
                           [n EXCEPT !.cpu_off = b], [n EXCEPT !.dbg_halted = b]} :
                     Good(m) /\ (Nested(n) => Nested(m))
           /\ \A v \in 0 .. 255 : \A m \in {[n EXCEPT !.basepri = v]} :
                 Good(m) /\ (Nested(n) => Nested(m))
<1>0. Base(n) /\ n \in NvicState /\ Grounded(n)
  BY DEF Good, Base
<1>1. ASSUME NEW m, Base(m), m.prio = n.prio, m.active = n.active,
             m.ipsr = n.ipsr, m.stack = n.stack
      PROVE  Good(m) /\ (Nested(n) => Nested(m))
  BY <1>1, UpdateGood, UpdateNested
<1>2. ASSUME NEW i \in Irqs, NEW m \in {enabled_in(n, i), disabled(n, i)}
      PROVE  Good(m) /\ (Nested(n) => Nested(m))
  <2>1. /\ m.prio = n.prio /\ m.active = n.active /\ m.ipsr = n.ipsr /\ m.stack = n.stack
    BY <1>0 DEF NvicState, enabled_in, disabled
  <2>2. Base(m)
    BY <1>0, ScanUpdates
  <2> QED BY <1>1, <2>1, <2>2
<1>3. ASSUME NEW e \in Pendable, NEW m \in {unpended(n, e), arm_nvic_set_pending_deferred(n, e)}
      PROVE  Good(m) /\ (Nested(n) => Nested(m))
  <2>1. /\ m.prio = n.prio /\ m.active = n.active /\ m.ipsr = n.ipsr /\ m.stack = n.stack
    BY <1>0 DEF NvicState, unpended, arm_nvic_set_pending_deferred
  <2>2. Base(m)
    BY <1>0, ScanUpdates
  <2> QED BY <1>1, <2>1, <2>2
<1>4. ASSUME NEW b \in BOOLEAN,
             NEW m \in {[n EXCEPT !.primask = b], [n EXCEPT !.faultmask = b],
                        [n EXCEPT !.cpu_off = b], [n EXCEPT !.dbg_halted = b]}
      PROVE  Good(m) /\ (Nested(n) => Nested(m))
  <2>1. /\ m.prio = n.prio /\ m.active = n.active /\ m.ipsr = n.ipsr /\ m.stack = n.stack
    BY <1>0 DEF NvicState
  <2>2. Base(m)
    <3>1. CASE m = [n EXCEPT !.primask = b]
      BY <1>0, <3>1, CoreUpdates
    <3>2. CASE m = [n EXCEPT !.faultmask = b]
      BY <1>0, <3>2, CoreUpdates
    <3>3. CASE m = [n EXCEPT !.cpu_off = b]
      BY <1>0, <3>3, CoreUpdates
    <3>4. CASE m = [n EXCEPT !.dbg_halted = b]
      BY <1>0, <3>4, CoreUpdates
    <3> QED BY <3>1, <3>2, <3>3, <3>4
  <2> QED BY <1>1, <2>1, <2>2
<1>5. ASSUME NEW v \in 0 .. 255, NEW m \in {[n EXCEPT !.basepri = v]}
      PROVE  Good(m) /\ (Nested(n) => Nested(m))
  <2>1. /\ m.prio = n.prio /\ m.active = n.active /\ m.ipsr = n.ipsr /\ m.stack = n.stack
    BY <1>0 DEF NvicState
  <2>2. Base([n EXCEPT !.basepri = v])
    BY <1>0, CoreUpdates
  <2>3. m = [n EXCEPT !.basepri = v]
    OBVIOUS
  <2> QED BY <1>1, <2>1, <2>2, <2>3
<1> QED BY <1>2, <1>3, <1>4, <1>5

\* Without attribution violations every step keeps the nesting.
LEMMA NextNested ==
    ASSUME Good(c), Nested(c), fw \in Firmwares, ~SecureFaults, [Next]_vars
    PROVE  Nested(c')
<1>0. c \in NvicState /\ Grounded(c)
  BY DEF Good, Base
<1>1. CASE Iser
  <2>1. PICK i \in Irqs : c' = insn_done(arm_nvic_check_pending(enabled_in(c, i)))
    BY <1>1 DEF Iser, enabled_in
  <2>2. Good(enabled_in(c, i)) /\ Nested(enabled_in(c, i))
    BY PlainUpdates
  <2> QED BY <2>1, <2>2, ReachedFacts, ReachedNested
<1>2. CASE Icer
  <2>1. PICK i \in Irqs : c' = insn_done(disabled(c, i))
    BY <1>2 DEF Icer
  <2>2. Good(disabled(c, i)) /\ Nested(disabled(c, i))
    BY PlainUpdates
  <2> QED BY <2>1, <2>2, ReachedFacts, ReachedNested
<1>3. CASE PendByWrite
  <2>1. PICK e \in Pendable :
            c' = insn_done(arm_nvic_check_pending(arm_nvic_set_pending_deferred(c, e)))
    BY <1>3 DEF PendByWrite, Pendable, arm_nvic_set_pending
  <2>2. /\ Good(arm_nvic_set_pending_deferred(c, e))
        /\ Nested(arm_nvic_set_pending_deferred(c, e))
    BY PlainUpdates
  <2> QED BY <2>1, <2>2, ReachedFacts, ReachedNested
<1>4. CASE UnpendByWrite
  <2>1. PICK e \in Pendable : c' = insn_done(unpended(c, e))
    BY <1>4 DEF UnpendByWrite, Pendable, unpended
  <2>2. Good(unpended(c, e)) /\ Nested(unpended(c, e))
    BY PlainUpdates
  <2> QED BY <2>1, <2>2, ReachedFacts, ReachedNested
<1>5. CASE SetPriority
  <2>1. PICK e \in Pendable, p \in Prios :
            /\ c' = insn_done(prioritised(c, e, p))
            /\ e # c.ipsr /\ \A k \in 1 .. Len(c.stack) : e # c.stack[k]
    BY <1>5 DEF SetPriority, Pendable, prioritised
  <2>2. Good(prioritised(c, e, p))
    BY SMT, <1>0, ScanUpdates, ScanUpdatesStack, UpdateGood DEF Good
  <2>3. Nested(prioritised(c, e, p))
    BY <1>0, <2>1, PriorityNested
  <2> QED BY <2>1, <2>2, <2>3, ReachedFacts, ReachedNested
<1>6. CASE Mask
  BY <1>6, PlainUpdates, ReachedFacts, ReachedNested DEF Mask
<1>7. CASE Unmask
  <2>1. Good([c EXCEPT !.primask = FALSE]) /\ Nested([c EXCEPT !.primask = FALSE])
    BY PlainUpdates
  <2> QED BY <1>7, <2>1, ReachedFacts, ReachedNested DEF Unmask
<1>8. CASE Basepri
  <2>1. PICK v \in Basepris : c' = insn_done(recheck_when_pending([c EXCEPT !.basepri = v]))
    BY <1>8 DEF Basepri
  <2>2. Good([c EXCEPT !.basepri = v]) /\ Nested([c EXCEPT !.basepri = v])
    BY BasepriRange, PlainUpdates
  <2> QED BY <2>1, <2>2, ReachedFacts, ReachedNested
<1>9. CASE BasepriMax
  <2>1. PICK v \in Basepris : c' = insn_done([c EXCEPT !.basepri = v])
    BY <1>9 DEF BasepriMax
  <2>2. Good([c EXCEPT !.basepri = v]) /\ Nested([c EXCEPT !.basepri = v])
    BY BasepriRange, PlainUpdates
  <2> QED BY <2>1, <2>2, ReachedFacts, ReachedNested
<1>10. CASE Faultmask
  <2>1. PICK on \in BOOLEAN :
            c' = insn_done(IF on THEN [c EXCEPT !.faultmask = TRUE]
                           ELSE recheck_when_pending([c EXCEPT !.faultmask = FALSE]))
    BY <1>10 DEF Faultmask
  <2>2. ASSUME NEW b \in BOOLEAN
        PROVE  Good([c EXCEPT !.faultmask = b]) /\ Nested([c EXCEPT !.faultmask = b])
    BY PlainUpdates
  <2> QED BY <2>1, <2>2, ReachedFacts, ReachedNested
<1>11. CASE Wfi
  <2>1. Good([c EXCEPT !.cpu_off = TRUE]) /\ Nested([c EXCEPT !.cpu_off = TRUE])
    BY PlainUpdates
  <2> QED BY <1>11, <2>1, ReachedFacts, ReachedNested DEF Wfi
<1>12. CASE Return
  <2>1. c.stack # <<>> /\ c' = insn_done(arm_nvic_check_pending(popped(c)))
    BY <1>0, <1>12 DEF Return, Grounded, exception_return, popped
  <2>2. Good(popped(c))
    BY <1>0, <2>1, CoreUpdates, PopGrounded DEF Good
  <2>3. Nested(popped(c))
    BY <1>0, <2>1, PopNested
  <2> QED BY <2>1, <2>2, <2>3, ReachedFacts, ReachedNested
<1>13. CASE RefusedAccess
  <2>1. PICK irq \in BOOLEAN : \E i \in Irqs :
            c' = insn_done(fault_taken(IF irq THEN arm_nvic_set_pending_deferred(c, i) ELSE c))
    BY <1>13 DEF RefusedAccess
  <2>2. PICK i \in Irqs :
            c' = insn_done(fault_taken(IF irq THEN arm_nvic_set_pending_deferred(c, i) ELSE c))
    BY <2>1
  <2> DEFINE n == IF irq THEN arm_nvic_set_pending_deferred(c, i) ELSE c
  <2>3. Good(n) /\ Nested(n)
    BY PlainUpdates DEF Pendable
  <2> HIDE DEF n
  <2>4. Good(fault_taken(n)) /\ Nested(fault_taken(n))
    BY <2>3, FaultFacts, FaultNested
  <2>5. c' = insn_done(fault_taken(n))
    BY <2>2 DEF n
  <2> QED BY <2>4, <2>5, ReachedFacts, ReachedNested
<1>14. CASE AttributionViolation
  BY <1>14 DEF AttributionViolation
<1>15. CASE SystemReset
  BY <1>15, ResetNested DEF SystemReset
<1>16. CASE PeripheralIrq
  <2>1. PICK e \in Pendable :
            c' = arm_nvic_check_pending(arm_nvic_set_pending_deferred(c, e))
    BY <1>16 DEF PeripheralIrq, Pendable, arm_nvic_set_pending
  <2>2. /\ Good(arm_nvic_set_pending_deferred(c, e))
        /\ Nested(arm_nvic_set_pending_deferred(c, e))
    BY PlainUpdates
  <2> QED BY <2>1, <2>2, CheckNested
<1>17. CASE Wake
  BY <1>17, PlainUpdates, CheckNested DEF Wake
<1>18. CASE DebugHalt
  BY <1>18, PlainUpdates DEF DebugHalt
<1>19. CASE DebugRelease
  BY <1>19, PlainUpdates DEF DebugRelease
<1>20. CASE Step
  BY <1>20, ReachedFacts, ReachedNested DEF Step
<1>21. CASE UNCHANGED vars
  BY <1>21, UpdateNested DEF vars
<1> QED BY <1>1, <1>2, <1>3, <1>4, <1>5, <1>6, <1>7, <1>8, <1>9, <1>10, <1>11, <1>12,
          <1>13, <1>14, <1>15, <1>16, <1>17, <1>18, <1>19, <1>20, <1>21 DEF Next, Instruction

\* Where no attribution violation occurs, the handlers stay properly nested.
THEOREM NestingInvariant == Spec => [](~SecureFaults => Nested(c))
<1>1. Init => (~SecureFaults => Nested(c))
  BY ResetNested DEF Init
<1>2. fw \in Firmwares /\ Good(c) /\ (~SecureFaults => Nested(c)) /\ [Next]_vars
      => (~SecureFaults => Nested(c))'
  <2> SUFFICES ASSUME fw \in Firmwares, Good(c), ~SecureFaults => Nested(c), [Next]_vars,
                      ~SecureFaults'
               PROVE  Nested(c')
    OBVIOUS
  <2>1. ~SecureFaults
    BY FirmwareKept DEF SecureFaults
  <2> QED BY <2>1, NextNested
<1> QED BY <1>1, <1>2, FirmwareFixed, NvicInvariant, PTL DEF Spec

\* Where no attribution violation occurs, active_exception is the IPSR.
THEOREM ActiveFollowsIpsr == Spec => []ActiveIsRunning
<1>1. (~SecureFaults => Nested(c)) => ActiveIsRunning
  BY DEF Nested, ActiveIsRunning
<1> QED BY <1>1, NestingInvariant, PTL

\* Where no attribution violation occurs, a handler is preempted only by one of
\* strictly higher priority, or a HardFault.
THEOREM HandlersDescend == Spec => []NestingDescends
<1>1. (~SecureFaults => Nested(c)) => NestingDescends
  BY DEF Nested, NestingDescends, Outranks, Inner
<1> QED BY <1>1, NestingInvariant, PTL

(***************************************************************************)
(* No lost interrupt                                                       *)
(*                                                                         *)
(* For firmware that uses neither BASEPRI nor FAULTMASK nor run-time       *)
(* priority changes, and masks and sleeps only in thread mode.             *)
(***************************************************************************)

Calm(n) == n.basepri = 0 /\ ~n.faultmask

\* Something is ready that the running handler does not hold back, or would
\* not if PRIMASK did not.
Waiting(n) ==
    /\ Ready(n) # {}
    /\ \/ n.primask
       \/ n.active = 0
       \/ WinnerPrio(n) < arm_nvic_get_priority(n, n.active)

Flagged(n) == Waiting(n) => n.has_pending

\* The winner among fewer has no better priority.
LEMMA FewerReady ==
    ASSUME NEW n \in NvicState, NEW m \in NvicState, m.prio = n.prio,
           Ready(m) \subseteq Ready(n), Ready(m) # {}
    PROVE  /\ Ready(n) # {} /\ WinnerPrio(n) <= WinnerPrio(m)
           /\ WinnerPrio(n) \in 0 .. 255 /\ WinnerPrio(m) \in 0 .. 255
<1>1. Winner(m) \in Ready(n) /\ WinnerPrio(m) = n.prio[Winner(m)]
  BY WinnerFacts
<1> QED BY <1>1, WinnerFacts

\* The priority of what runs is a number.
LEMMA PriorityRange ==
    ASSUME NEW n \in NvicState, NEW e \in Exceptions
    PROVE  arm_nvic_get_priority(n, e) \in -1 .. 255
BY SMT, PendableFacts DEF NvicState, PrioType, Exceptions, Configurable,
    arm_nvic_get_priority, HardFault

\* An update that makes nothing ready and changes neither what runs nor the
\* flag keeps the flag right.
LEMMA ShrinkFlagged ==
    ASSUME NEW n \in NvicState, NEW m \in NvicState, Flagged(n), m.prio = n.prio,
           m.active = n.active, m.primask = n.primask, m.has_pending = n.has_pending,
           Ready(m) \subseteq Ready(n)
    PROVE  Flagged(m)
<1> SUFFICES ASSUME Waiting(m) PROVE Waiting(n)
  BY DEF Flagged
<1>1. /\ Ready(n) # {} /\ WinnerPrio(n) <= WinnerPrio(m)
      /\ WinnerPrio(n) \in 0 .. 255 /\ WinnerPrio(m) \in 0 .. 255
  BY FewerReady DEF Waiting
<1>2. CASE m.primask \/ m.active = 0
  BY <1>1, <1>2 DEF Waiting
<1>3. CASE m.active # 0 /\ WinnerPrio(m) < arm_nvic_get_priority(m, m.active)
  <2>1. m.active \in Exceptions
    BY <1>3 DEF NvicState, ExcType
  <2>2. arm_nvic_get_priority(m, m.active) \in Int
    BY SMT, <2>1, PriorityRange
  <2>3. arm_nvic_get_priority(m, m.active) = arm_nvic_get_priority(n, n.active)
    BY DEF arm_nvic_get_priority
  <2>4. WinnerPrio(n) < arm_nvic_get_priority(n, n.active)
    <3>1. WinnerPrio(n) \in Int /\ WinnerPrio(m) \in Int
      BY SMT, <1>1
    <3>2. arm_nvic_get_priority(n, n.active) \in Int
          /\ WinnerPrio(m) < arm_nvic_get_priority(n, n.active)
      BY ONLY <1>3, <2>2, <2>3
    <3> QED BY ONLY <1>1, <3>1, <3>2, Below
  <2> QED BY <1>1, <2>4 DEF Waiting
<1> QED BY <1>2, <1>3 DEF Waiting

\* A check leaves the flag right, even where it was not, unless it is skipped.
LEMMA CheckFlagged ==
    ASSUME NEW n, Good(n), Calm(n), n.primask \/ n.dbg_halted => Flagged(n)
    PROVE  LET m == arm_nvic_check_pending(n) IN Calm(m) /\ Flagged(m)
<1> DEFINE m == arm_nvic_check_pending(n)
<1>1. Base(n) /\ n \in NvicState
  BY DEF Good, Base
<1>2. Base(m) /\ m \in NvicState /\ SameMasks(n, m) /\ Checked(n, m)
  BY <1>1, CheckFacts DEF Base
<1> SUFFICES Calm(m) /\ Flagged(m)
  OBVIOUS
<1> HIDE DEF m
<1>3. Calm(m) /\ m.prio = n.prio /\ m.primask = n.primask
  BY <1>2 DEF Calm, SameMasks
<1>4. SameRun(n, m) => Ready(m) = Ready(n)
  BY <1>2, SameScan DEF SameRun, SameMasks
<1>5. CASE n.primask \/ n.dbg_halted
  <2>1. SameRun(n, m) /\ m.has_pending = n.has_pending
    BY <1>2, <1>5 DEF Checked
  <2>2. Flagged(m)
    BY <1>1, <1>2, <1>3, <1>4, <1>5, <2>1, ShrinkFlagged DEF SameRun
  <2> QED BY <1>3, <2>2
<1>6. CASE ~n.primask /\ ~n.dbg_halted /\ Ready(n) = {} /\ SameRun(n, m)
  BY <1>3, <1>4, <1>6 DEF Flagged, Waiting
<1>7. CASE /\ ~n.primask /\ SameRun(n, m)
           /\ n.active > 0 /\ WinnerPrio(n) >= arm_nvic_get_priority(n, n.active)
  <2>1. m.active = n.active /\ m.active # 0 /\ WinnerPrio(m) = WinnerPrio(n) /\ m.active \in Exceptions
    BY SMT, <1>2, <1>7, SameScan DEF SameRun, SameMasks, NvicState, ExcType
  <2>2. arm_nvic_get_priority(m, m.active) = arm_nvic_get_priority(n, n.active)
    BY <1>3, <2>1 DEF arm_nvic_get_priority
  <2>3. arm_nvic_get_priority(m, m.active) \in Int
    BY SMT, <1>2, <2>1, PriorityRange
  <2>4. Ready(m) # {} => WinnerPrio(m) \in Int
    BY SMT, <1>2, WinnerFacts
  <2>5. Ready(m) # {} => ~(WinnerPrio(m) < arm_nvic_get_priority(m, m.active))
    <3>1. WinnerPrio(m) >= arm_nvic_get_priority(m, m.active)
      BY ONLY <1>7, <2>1, <2>2
    <3> QED BY ONLY <2>3, <2>4, <3>1, NotLess
  <2> QED BY <1>3, <1>7, <2>1, <2>5 DEF Flagged, Waiting
<1>8. CASE ~n.primask /\ \E w \in Pendable : Entered(n, m, w)
  <2>1. PICK w \in Pendable : Entered(n, m, w)
    BY <1>8
  <2>2. /\ m.pending = n.pending \ {w} /\ m.active = w /\ w \in Ready(n) /\ w = Winner(n)
    BY <2>1 DEF Entered
  <2>3. Ready(m) \subseteq Ready(n)
    BY <1>2, <2>2 DEF Ready, SameMasks
  <2>4. arm_nvic_get_priority(m, m.active) = WinnerPrio(n)
    BY SMT, <1>1, <1>3, <2>2, WinnerFacts, PendableFacts DEF arm_nvic_get_priority
  <2>5. Ready(m) # {} => ~(WinnerPrio(m) < arm_nvic_get_priority(m, m.active))
    <3> SUFFICES ASSUME Ready(m) # {}
                 PROVE  ~(WinnerPrio(m) < WinnerPrio(n))
      BY <2>4
    <3>1. WinnerPrio(n) <= WinnerPrio(m) /\ WinnerPrio(n) \in Int /\ WinnerPrio(m) \in Int
      BY SMT, <1>1, <1>2, <1>3, <2>3, FewerReady
    <3> QED BY ONLY <3>1
  <2>6. m.active # 0
    BY <2>2, PendableFacts
  <2> QED BY <1>3, <1>8, <2>5, <2>6 DEF Flagged, Waiting
<1>9. n.basepri = 0 /\ ~n.faultmask
  BY DEF Calm
<1> QED BY <1>2, <1>5, <1>6, <1>7, <1>8, <1>9 DEF Checked

\* So do any checks after an update that leaves it right.
LEMMA ReachedFlagged ==
    ASSUME NEW n, NEW m, Good(n), Calm(n), Flagged(n), Reached(n, m)
    PROVE  Calm(m) /\ Flagged(m)
<1> DEFINE d == arm_nvic_check_pending(n)
           f == arm_nvic_check_pending(d)
<1>1. Good(d) /\ Calm(d) /\ Flagged(d)
  BY CheckFlagged, CheckGood
<1> HIDE DEF d
<1>2. Calm(f) /\ Flagged(f)
  BY <1>1, CheckFlagged
<1>3. m = n \/ m = d \/ m = f
  BY DEF Reached, d
<1> HIDE DEF f
<1> QED BY <1>1, <1>2, <1>3

\* Entering a fault leaves it right: what the fault does not hold back was
\* not held back before.
LEMMA FaultFlagged ==
    ASSUME NEW n, Good(n), Flagged(n)
    PROVE  Flagged(fault_taken(n))
<1> DEFINE m == fault_taken(n)
<1>1. n \in NvicState
  BY DEF Good, Base
<1>2. /\ m \in NvicState /\ SameMasks(n, m) /\ m.pending = n.pending
      /\ m.has_pending = n.has_pending /\ m.active = m.ipsr
      /\ \/ m.ipsr = HardFault
         \/ /\ m.ipsr = BusFault
            /\ n.active > 0 => n.prio[BusFault] < arm_nvic_get_priority(n, n.active)
  BY FaultFacts DEF Good, Base
<1> SUFFICES ASSUME Waiting(m) PROVE Waiting(n)
  BY <1>2 DEF Flagged
<1> HIDE DEF m
<1>3. /\ Ready(n) = Ready(m) /\ WinnerPrio(n) = WinnerPrio(m) /\ Ready(n) # {}
      /\ WinnerPrio(n) \in 0 .. 255
  BY SMT, <1>1, <1>2, SameScan, WinnerFacts DEF SameMasks, Waiting
<1>4. CASE m.primask
  BY <1>2, <1>3, <1>4 DEF Waiting, SameMasks
<1>5. CASE m.active = 0
  BY SMT, <1>2, <1>5 DEF HardFault, BusFault
<1>6. CASE m.active # 0 /\ WinnerPrio(m) < arm_nvic_get_priority(m, m.active)
  <2>1. CASE m.ipsr = HardFault
    <3>1. arm_nvic_get_priority(m, m.active) = -1
      BY SMT, <1>2, <2>1 DEF arm_nvic_get_priority, HardFault
    <3> QED BY SMT, <1>3, <1>6, <3>1
  <2>2. CASE m.ipsr = BusFault /\ n.active = 0
    BY <1>3, <2>2 DEF Waiting
  <2>3. CASE m.ipsr = BusFault /\ n.active # 0
    <3>1. n.active \in Exceptions /\ n.active > 0
      BY SMT, <1>1, <2>3, PendableFacts DEF NvicState, ExcType, Exceptions, HardFault
    <3>2. n.prio[BusFault] < arm_nvic_get_priority(n, n.active)
      BY SMT, <1>2, <2>3, <3>1 DEF HardFault, BusFault
    <3>3. arm_nvic_get_priority(m, m.active) = n.prio[BusFault]
      BY SMT, <1>2, <2>3 DEF arm_nvic_get_priority, SameMasks, BusFault
    <3>4. n.prio[BusFault] \in Int /\ arm_nvic_get_priority(n, n.active) \in Int
      <4>1. n.prio[BusFault] \in Int
        BY SMT, <1>1 DEF NvicState, PrioType, Configurable
      <4> QED BY SMT, <1>1, <3>1, <4>1, PriorityRange
    <3>5. WinnerPrio(n) < arm_nvic_get_priority(n, n.active)
      <4>1. WinnerPrio(n) < n.prio[BusFault] /\ WinnerPrio(n) \in Int
        BY SMT, <1>3, <1>6, <3>3
      <4>2. WinnerPrio(n) <= n.prio[BusFault]
        BY ONLY <3>4, <4>1
      <4> QED BY ONLY <3>2, <3>4, <4>1, <4>2, Below
    <3> QED BY <1>3, <3>5 DEF Waiting
  <2> QED BY <1>2, <2>1, <2>2, <2>3
<1> QED BY <1>4, <1>5, <1>6 DEF Waiting

\* What the updates of plain firmware do to the flag.
LEMMA PlainFlagged ==
    ASSUME NEW n, Good(n), Calm(n), Flagged(n)
    PROVE  /\ \A i \in Irqs : \A m \in {enabled_in(n, i), disabled(n, i)} : Calm(m) /\ Flagged(m)
           /\ \A e \in Pendable : \A m \in {unpended(n, e), arm_nvic_set_pending_deferred(n, e)} :
                 Calm(m) /\ Flagged(m)
           /\ \A b \in BOOLEAN : \A m \in {[n EXCEPT !.cpu_off = b], [n EXCEPT !.dbg_halted = b]} :
                 Calm(m) /\ Flagged(m)
           /\ n.active = 0 => \A b \in BOOLEAN : \A m \in {[n EXCEPT !.primask = b]} :
                                  Calm(m) /\ Flagged(m)
<1>0. n \in NvicState
  BY DEF Good, Base
<1>1. ASSUME NEW i \in Irqs, NEW m \in {enabled_in(n, i), disabled(n, i)}
      PROVE  Calm(m) /\ Flagged(m)
  <2>1. CASE m = enabled_in(n, i)
    BY <1>0, <2>1 DEF NvicState, enabled_in, Calm, Flagged
  <2>2. CASE m = disabled(n, i)
    <3>1. /\ m.prio = n.prio /\ m.active = n.active /\ m.primask = n.primask
          /\ m.has_pending = n.has_pending /\ m.pending = n.pending /\ m.iser = n.iser \ {i}
          /\ m.basepri = n.basepri /\ m.faultmask = n.faultmask
      BY <1>0, <2>2 DEF NvicState, disabled
    <3>2. Ready(m) \subseteq Ready(n)
      BY <3>1 DEF Ready
    <3>3. m \in NvicState
      <4>1. Good(m)
        BY PlainUpdates
      <4> QED BY <4>1 DEF Good, Base
    <3>4. Flagged(m)
      BY <1>0, <3>1, <3>2, <3>3, ShrinkFlagged
    <3> QED BY <3>1, <3>4 DEF Calm
  <2> QED BY <2>1, <2>2
<1>2. ASSUME NEW e \in Pendable, NEW m \in {unpended(n, e), arm_nvic_set_pending_deferred(n, e)}
      PROVE  Calm(m) /\ Flagged(m)
  <2>1. CASE m = arm_nvic_set_pending_deferred(n, e)
    BY <1>0, <2>1 DEF NvicState, arm_nvic_set_pending_deferred, Calm, Flagged
  <2>2. CASE m = unpended(n, e)
    <3>1. /\ m.prio = n.prio /\ m.active = n.active /\ m.primask = n.primask
          /\ m.has_pending = n.has_pending /\ m.pending = n.pending \ {e} /\ m.iser = n.iser
          /\ m.basepri = n.basepri /\ m.faultmask = n.faultmask
      BY <1>0, <2>2 DEF NvicState, unpended
    <3>2. Ready(m) \subseteq Ready(n)
      BY <3>1 DEF Ready
    <3>3. m \in NvicState
      <4>1. Good(m)
        BY PlainUpdates
      <4> QED BY <4>1 DEF Good, Base
    <3>4. Flagged(m)
      BY <1>0, <3>1, <3>2, <3>3, ShrinkFlagged
    <3> QED BY <3>1, <3>4 DEF Calm
  <2> QED BY <2>1, <2>2
<1>3. ASSUME NEW b \in BOOLEAN, NEW m \in {[n EXCEPT !.cpu_off = b], [n EXCEPT !.dbg_halted = b]}
      PROVE  Calm(m) /\ Flagged(m)
  <2>1. /\ m.prio = n.prio /\ m.active = n.active /\ m.primask = n.primask
        /\ m.has_pending = n.has_pending /\ m.pending = n.pending /\ m.iser = n.iser
        /\ m.basepri = n.basepri /\ m.faultmask = n.faultmask
    BY <1>0 DEF NvicState
  <2>2. Ready(m) \subseteq Ready(n)
    BY <2>1 DEF Ready
  <2>3. m \in NvicState
    <3>1. CASE m = [n EXCEPT !.cpu_off = b]
      BY <1>0, <3>1 DEF NvicState
    <3>2. CASE m = [n EXCEPT !.dbg_halted = b]
      BY <1>0, <3>2 DEF NvicState
    <3> QED BY <3>1, <3>2
  <2>4. Flagged(m)
    BY <1>0, <2>1, <2>2, <2>3, ShrinkFlagged
  <2> QED BY <2>1, <2>4 DEF Calm
<1>4. ASSUME n.active = 0, NEW b \in BOOLEAN, NEW m \in {[n EXCEPT !.primask = b]}
      PROVE  Calm(m) /\ Flagged(m)
  <2>1. /\ m.has_pending = n.has_pending /\ m.pending = n.pending /\ m.iser = n.iser
        /\ m.prio = n.prio /\ m.basepri = n.basepri /\ m.faultmask = n.faultmask
    BY <1>0 DEF NvicState
  <2>2. Ready(m) = Ready(n)
    BY <2>1, SameScan
  <2> QED BY <1>4, <2>1, <2>2 DEF Calm, Flagged, Waiting
<1> QED BY <1>1, <1>2, <1>3, <1>4

\* Every step of plain firmware keeps the flag right.
LEMMA NextFlagged ==
    ASSUME Plain, Good(c), Nested(c), Calm(c), Flagged(c), [Next]_vars
    PROVE  Calm(c') /\ Flagged(c')
<1>0. c \in NvicState /\ Grounded(c) /\ c.active = c.ipsr
  BY DEF Good, Base, Nested
<1>a. MayIdle => c.active = 0
  BY <1>0 DEF MayIdle, Plain
<1>1. CASE Iser
  <2>1. PICK i \in Irqs : c' = insn_done(arm_nvic_check_pending(enabled_in(c, i)))
    BY <1>1 DEF Iser, enabled_in
  <2>2. Good(enabled_in(c, i)) /\ Calm(enabled_in(c, i)) /\ Flagged(enabled_in(c, i))
    BY PlainUpdates, PlainFlagged
  <2> QED BY <2>1, <2>2, ReachedFacts, ReachedFlagged
<1>2. CASE Icer
  <2>1. PICK i \in Irqs : c' = insn_done(disabled(c, i))
    BY <1>2 DEF Icer
  <2>2. Good(disabled(c, i)) /\ Calm(disabled(c, i)) /\ Flagged(disabled(c, i))
    BY PlainUpdates, PlainFlagged
  <2> QED BY <2>1, <2>2, ReachedFacts, ReachedFlagged
<1>b. ASSUME NEW e \in Pendable
      PROVE  LET n == arm_nvic_set_pending_deferred(c, e) IN Good(n) /\ Calm(n) /\ Flagged(n)
  BY PlainUpdates, PlainFlagged
<1>3. CASE PendByWrite
  <2>1. PICK e \in Pendable :
            c' = insn_done(arm_nvic_check_pending(arm_nvic_set_pending_deferred(c, e)))
    BY <1>3 DEF PendByWrite, Pendable, arm_nvic_set_pending
  <2> QED BY <1>b, <2>1, ReachedFacts, ReachedFlagged
<1>4. CASE UnpendByWrite
  <2>1. PICK e \in Pendable : c' = insn_done(unpended(c, e))
    BY <1>4 DEF UnpendByWrite, Pendable, unpended
  <2>2. Good(unpended(c, e)) /\ Calm(unpended(c, e)) /\ Flagged(unpended(c, e))
    BY PlainUpdates, PlainFlagged
  <2> QED BY <2>1, <2>2, ReachedFacts, ReachedFlagged
<1>5. CASE SetPriority \/ Basepri \/ BasepriMax \/ Faultmask \/ AttributionViolation
  BY <1>5 DEF SetPriority, Basepri, BasepriMax, Faultmask, AttributionViolation, Plain
<1>c. ASSUME NEW b \in BOOLEAN, MayIdle
      PROVE  LET n == [c EXCEPT !.primask = b] IN Good(n) /\ Calm(n) /\ Flagged(n)
  BY <1>a, <1>c, PlainUpdates, PlainFlagged
<1>6. CASE Mask
  BY <1>6, <1>c, ReachedFacts, ReachedFlagged DEF Mask
<1>7. CASE Unmask
  BY <1>7, <1>c, ReachedFacts, ReachedFlagged DEF Unmask
<1>d. ASSUME NEW b \in BOOLEAN
      PROVE  LET n == [c EXCEPT !.cpu_off = b] IN Good(n) /\ Calm(n) /\ Flagged(n)
  BY PlainUpdates, PlainFlagged
<1>8. CASE Wfi
  BY <1>8, <1>d, ReachedFacts, ReachedFlagged DEF Wfi
<1>9. CASE Return
  <2> DEFINE n == popped(c)
             d == arm_nvic_check_pending(n)
  <2>1. c.stack # <<>> /\ ~c.dbg_halted /\ c' = insn_done(d)
    BY <1>0, <1>9 DEF Return, Running, Grounded, exception_return, popped
  <2>2. Good(n)
    BY <1>0, <2>1, CoreUpdates, PopGrounded DEF Good
  <2>3. /\ n.prio = c.prio /\ n.pending = c.pending /\ n.iser = c.iser /\ n.primask = c.primask
        /\ n.has_pending = c.has_pending /\ n.basepri = c.basepri /\ n.faultmask = c.faultmask
        /\ n.dbg_halted = c.dbg_halted
    BY <1>0 DEF popped, NvicState
  <2> HIDE DEF n
  <2>4. Calm(n) /\ (n.primask \/ n.dbg_halted => Flagged(n))
    BY <2>1, <2>3, SameScan DEF Calm, Flagged, Waiting
  <2>5. Good(d) /\ Calm(d) /\ Flagged(d)
    BY <2>2, <2>4, CheckGood, CheckFlagged
  <2> HIDE DEF d
  <2> QED BY <2>1, <2>5, ReachedFacts, ReachedFlagged
<1>10. CASE RefusedAccess
  <2>1. PICK irq \in BOOLEAN : \E i \in Irqs :
            c' = insn_done(fault_taken(IF irq THEN arm_nvic_set_pending_deferred(c, i) ELSE c))
    BY <1>10 DEF RefusedAccess
  <2>2. PICK i \in Irqs :
            c' = insn_done(fault_taken(IF irq THEN arm_nvic_set_pending_deferred(c, i) ELSE c))
    BY <2>1
  <2> DEFINE n == IF irq THEN arm_nvic_set_pending_deferred(c, i) ELSE c
  <2>3. Good(n) /\ Calm(n) /\ Flagged(n)
    BY <1>b DEF Pendable
  <2>4. c' = insn_done(fault_taken(n))
    BY <2>2
  <2> HIDE DEF n
  <2>5. Good(fault_taken(n)) /\ SameMasks(n, fault_taken(n)) /\ Flagged(fault_taken(n))
    BY <2>3, FaultFacts, FaultFlagged
  <2>6. Calm(fault_taken(n))
    BY <2>3, <2>5 DEF Calm, SameMasks
  <2> QED BY <2>4, <2>5, <2>6, ReachedFacts, ReachedFlagged
<1>11. CASE SystemReset
  BY <1>11 DEF SystemReset, Reset, Calm, Flagged, Waiting, Ready
<1>12. CASE PeripheralIrq
  <2>1. PICK e \in Pendable :
            c' = arm_nvic_check_pending(arm_nvic_set_pending_deferred(c, e))
    BY <1>12 DEF PeripheralIrq, Pendable, arm_nvic_set_pending
  <2> QED BY <1>b, <2>1, ReachedFacts, ReachedFlagged
<1>13. CASE Wake
  BY <1>13, <1>d, ReachedFacts, ReachedFlagged DEF Wake
<1>14. CASE DebugHalt \/ DebugRelease
  BY <1>14, PlainFlagged DEF DebugHalt, DebugRelease
<1>15. CASE Step
  BY <1>15, ReachedFacts, ReachedFlagged DEF Step
<1>16. CASE UNCHANGED vars
  BY <1>16, SameScan DEF vars, Calm, Flagged, Waiting, arm_nvic_get_priority
<1> QED BY <1>1, <1>2, <1>3, <1>4, <1>5, <1>6, <1>7, <1>8, <1>9, <1>10, <1>11, <1>12,
          <1>13, <1>14, <1>15, <1>16 DEF Next, Instruction

\* For plain firmware the flag is right in every state.
THEOREM FlagInvariant == Spec => [](Plain => Calm(c) /\ Flagged(c))
<1>1. Init => (Plain => Calm(c) /\ Flagged(c))
  BY SMT DEF Init, Reset, Calm, Flagged, Waiting, Ready
<1>2. /\ Good(c) /\ (~SecureFaults => Nested(c))
      /\ (Plain => Calm(c) /\ Flagged(c)) /\ [Next]_vars
      => (Plain => Calm(c) /\ Flagged(c))'
  <2> SUFFICES ASSUME Good(c), ~SecureFaults => Nested(c), Plain => Calm(c) /\ Flagged(c),
                      [Next]_vars, Plain'
               PROVE  Calm(c') /\ Flagged(c')
    OBVIOUS
  <2>1. Plain
    BY FirmwareKept DEF Plain, Basepris, HandlersMask, PriorityWrites, SecureFaults
  <2>2. ~SecureFaults
    BY <2>1 DEF Plain
  <2> QED BY <2>1, <2>2, NextFlagged
<1> QED BY <1>1, <1>2, NvicInvariant, NestingInvariant, PTL DEF Spec

\* Plain firmware loses no interrupt: whenever the check between two
\* instructions would take something, the flag that gates it is set.
THEOREM PlainLosesNone == Spec => []NoLostInterrupt
<1>1. Good(c) /\ (Plain => Calm(c) /\ Flagged(c)) => NoLostInterrupt
  <2> SUFFICES ASSUME Good(c), Flagged(c), Takeable PROVE Waiting(c)
    BY DEF NoLostInterrupt, LosesNone, Flagged
  <2> DEFINE s == [c EXCEPT !.scan_prio = WinnerPrio(c)]
  <2>1. c \in NvicState /\ Ready(c) # {} /\ ~held_back(c, s)
    BY DEF Good, Base, Takeable
  <2>2. s.scan_prio = WinnerPrio(c)
    BY <2>1 DEF NvicState
  <2>3. ~(c.active > 0 /\ WinnerPrio(c) >= arm_nvic_get_priority(c, c.active))
    BY <2>1, <2>2 DEF held_back
  <2>4. CASE c.active = 0
    BY <2>1, <2>4 DEF Waiting
  <2>5. CASE c.active # 0
    <3>1. c.active \in Exceptions /\ c.active > 0
      BY SMT, <2>1, <2>5, PendableFacts DEF NvicState, ExcType, Exceptions, HardFault
    <3>2. WinnerPrio(c) \in Int
      BY SMT, <2>1, WinnerFacts
    <3>3. arm_nvic_get_priority(c, c.active) \in Int
      BY SMT, <2>1, <3>1, PriorityRange
    <3>4. WinnerPrio(c) < arm_nvic_get_priority(c, c.active)
      BY <2>3, <3>1, <3>2, <3>3, NotAtLeast
    <3> QED BY <2>1, <3>4 DEF Waiting
  <2> QED BY <2>4, <2>5
<1> QED BY <1>1, NvicInvariant, FlagInvariant, PTL

\* Plain firmware does not sleep through a pending interrupt, masked or not.
THEOREM PlainWakes == Spec => []WfiWakes
<1>1. (~SecureFaults => Nested(c)) /\ (Plain => Calm(c) /\ Flagged(c)) => WfiWakes
  BY DEF Nested, Flagged, Waiting, WfiWakes, Plain
<1> QED BY <1>1, NestingInvariant, FlagInvariant, PTL

=============================================================================
