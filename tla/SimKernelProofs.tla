-------------------------- MODULE SimKernelProofs --------------------------
(***************************************************************************)
(* The safety properties of the kernel, for every number of slots, every   *)
(* configuration with its startup delays and timed actions, and every      *)
(* sequence of commands: no wakeup is lost (WInv), the run control stops   *)
(* exactly and timed actions find the air quiet (WInv and SInv).           *)
(***************************************************************************)
EXTENDS SimKernel, TLAPS

\* Leaves are first-order unless they cite SMT, for arithmetic and sequences.
USE Zenon

-----------------------------------------------------------------------------
(* The invariant.                                                          *)

Moment == Time \cup {Never}

Shape ==
  /\ now \in Time /\ sim_ns \in Time /\ slots \subseteq Nodes
  /\ pause_at \in Moment /\ horizon \in Moment
  /\ generation \in [Nodes -> Int]
  /\ start_ns \in [Nodes -> Moment] /\ wanted \in [Nodes -> Moment]
  /\ action_idx \in Nat \ {0} /\ Len(plan) \in Nat
  /\ \A i \in 1 .. Len(plan) : plan[i].at \in 0 .. MaxTime /\ plan[i].node \in Nodes

\* What is pending for a slot is of its present generation: every step that
\* bumps a generation cancels what is pending first.
Current(e) ==
  /\ e.time \in Time
  /\ \/ e.kind = "TEST_ACTION" /\ e.node = NoNode /\ e.gen = 0
     \/ e.kind \in {"NODE_WAKEUP", "RX_BYTE"} /\ e.node \in Nodes /\ e.gen = generation[e.node]

\* No wakeup comes before the start gate opens, where it would be swallowed.
NotEarly(e) ==
  e.kind = "NODE_WAKEUP" => start_ns[e.node] = Never \/ e.time >= start_ns[e.node]

\* The slot's wakeup is there when it is wanted, and as long as it has a gate.
Kept(n) ==
  /\ wanted[n] # Never => \E e \in queue : Wakes(e, n) /\ e.time <= wanted[n]
  /\ n \notin slots => wanted[n] = Never
  /\ n \in slots \ (dead \cup ReAdded) /\ start_ns[n] # Never => \E e \in queue : Wakes(e, n)

WInv ==
  /\ Shape
  /\ \A e \in queue : Current(e) /\ NotEarly(e)
  /\ \A n \in Nodes : Kept(n)

\* The budget of `step N`.  Only the pump may find a stepping run paused: by
\* the last event, and with nothing left to step.
Stepping ==
  /\ run_state \in {"RUNNING", "PAUSED", "STOP_REQUESTED"}
  /\ asked \in Nat /\ stepped \in Nat /\ step_left \in Nat /\ step_armed \in BOOLEAN
  /\ stepped <= asked
  /\ step_armed => /\ stepped + step_left = asked
                   /\ pause_at = Never /\ ~external
                   /\ run_state = "PAUSED" => pc = "pump" /\ step_left = 0
                   /\ Running => step_left > 0

\* Under its own clock the loop serves every instant before it leaves it: the
\* clock is the end of the slice, and nothing is due before.
Punctual ==
  /\ overran \in BOOLEAN
  /\ ~overran => sim_ns <= pause_at
  /\ ~external /\ ~overran =>
       /\ now = sim_ns /\ sim_ns <= MaxTime
       /\ \A e \in queue : e.time >= sim_ns
       /\ pc = "top" /\ Running => sim_ns < pause_at

RxDue == {e \in queue : e.kind = "RX_BYTE"}

\* Under an external clock the loop leaves no byte behind at the end of a
\* slice, so none is due before an action it stops on.
Quiet ==
  /\ pc = "pump" => ~TimedActionDue
  /\ external =>
       /\ pause_at = Never
       /\ pc \in {"poll", "pump"} => run_state # "PAUSED"
       /\ pc = "top" => \A e \in RxDue : e.time > sim_ns
       /\ pc = "top" /\ TimedActionDue => RxDue = {}
       /\ pc = "poll" /\ TimedActionDue => \A e \in RxDue : e.time >= sim_ns

SInv == Stepping /\ Punctual /\ Quiet

-----------------------------------------------------------------------------
(* What the wrappers of the queue do.                                      *)

\* Every time of the run comes before Never.
LEMMA TimeFacts ==
  /\ Past \in Nat /\ Never \in Nat /\ MaxTime \in Nat /\ Past >= MaxTime
  /\ \A t \in Time : t \in Int /\ t # Never /\ t < Never
  /\ \A t \in Moment : t \in Int /\ (t # Never => t \in Time)
  BY SMT, TimesAssumption DEF Past, Never, Time, Moment

LEMMA CappedTime ==
  ASSUME NEW t \in Nat
  PROVE  Capped(t) \in Time /\ (Capped(t) >= t \/ Capped(t) = Past)
  BY SMT, TimeFacts, TimesAssumption DEF Capped, Time, Past

LEMMA LatestTime ==
  ASSUME NEW a \in Time, NEW b \in Time
  PROVE  Latest(a, b) \in Time /\ Latest(a, b) >= a /\ Latest(a, b) >= b
  BY SMT, TimeFacts DEF Latest, Time

LEMMA LeastTime ==
  ASSUME NEW a \in Moment, NEW b \in Time
  PROVE  Least(a, b) \in Time /\ Least(a, b) # Never
         /\ (Least(a, b) = b \/ (Least(a, b) = a /\ a # Never))
  BY SMT, TimeFacts DEF Least, Time, Moment

LEMMA BumpedGeneration ==
  ASSUME NEW g \in Int
  PROVE  bump_mote_generation(g) \in Int
  BY SMT DEF bump_mote_generation

\* sim_schedule_mote_wakeup_if_earlier leaves one wakeup of the slot that is
\* no later than what was asked for and no later than what was pending.
LEMMA WakeEffect ==
  ASSUME NEW q, NEW n, NEW t \in Time, NEW g, NEW clock \in Time,
         \A e \in q : e.time \in Time
  PROVE  /\ \A e \in WakeIfEarlier(q, n, t, g, clock) :
              \/ e \in q
              \/ /\ e.kind = "NODE_WAKEUP" /\ e.node = n /\ e.gen = g
                 /\ e.time = Latest(t, clock)
         /\ \E e \in WakeIfEarlier(q, n, t, g, clock) : Wakes(e, n) /\ e.time <= Latest(t, clock)
         /\ \A e \in q : Wakes(e, n) =>
              \E f \in WakeIfEarlier(q, n, t, g, clock) : Wakes(f, n) /\ f.time <= e.time
         /\ \A e \in q : ~Wakes(e, n) => e \in WakeIfEarlier(q, n, t, g, clock)
<1> DEFINE at == Latest(t, clock)
           pending == {e \in q : Wakes(e, n)}
           new == [kind |-> "NODE_WAKEUP", node |-> n, time |-> at,
                   seq |-> FreshSeq(q \ pending, at), gen |-> g]
<1>1. at \in Time
  BY LatestTime
<1>2. CASE \E e \in pending : e.time <= at
  <2>1. WakeIfEarlier(q, n, t, g, clock) = q
    BY <1>2 DEF WakeIfEarlier, clamp_to_now
  <2>2. \A e \in q : e.time <= e.time
    BY SMT, TimeFacts
  <2> QED
    BY <1>2, <2>1, <2>2
<1>3. CASE ~ \E e \in pending : e.time <= at
  <2>1. WakeIfEarlier(q, n, t, g, clock) = (q \ pending) \cup {new}
    BY <1>3 DEF WakeIfEarlier, clamp_to_now, Added
  <2>2. new.kind = "NODE_WAKEUP" /\ new.node = n /\ new.gen = g /\ new.time = at
    OBVIOUS
  <2>3. Wakes(new, n) /\ new.time <= at
    BY SMT, <2>2, <1>1, TimeFacts DEF Wakes
  <2>4. \A e \in q : Wakes(e, n) => new.time <= e.time
    BY SMT, <1>3, <2>2, <1>1, TimeFacts
  <2> HIDE DEF new
  <2> QED
    BY <2>1, <2>2, <2>3, <2>4
<1> QED
  BY <1>2, <1>3

-----------------------------------------------------------------------------
(* Steps that leave the queue and the slots alone.                         *)

\* The slots a timed action added stay known.
LEMMA ReAddedGrows ==
  ASSUME plan' = plan, action_idx \in Nat \ {0}, action_idx' \in {action_idx, action_idx + 1}
  PROVE  ReAdded \subseteq ReAdded'
<1> DEFINE Adds(k) == {j \in 1 .. k - 1 : plan[j].type = "ADD"}
<1>1. Adds(action_idx) \subseteq Adds(action_idx')
  BY SMT
<1>2. ReAdded = {plan[i].node : i \in Adds(action_idx)}
  BY DEF ReAdded
<1>3. ReAdded' = {plan[i].node : i \in Adds(action_idx')}
  BY DEF ReAdded
<1> HIDE DEF Adds
<1> QED
  BY <1>1, <1>2, <1>3

LEMMA Unmoved ==
  ASSUME WInv, UNCHANGED <<kernel, motes, plan>>, action_idx' \in {action_idx, action_idx + 1},
         now' \in Time, sim_ns' \in Time, pause_at' \in Moment, horizon' \in Moment
  PROVE  WInv'
<1>1. Shape'
  BY SMT DEF WInv, Shape, kernel, motes
<1>2. ASSUME NEW e \in queue'
      PROVE  Current(e)' /\ NotEarly(e)'
  BY <1>2 DEF WInv, Current, NotEarly, kernel, motes
<1>3. ASSUME NEW n \in Nodes
      PROVE  Kept(n)'
  <2>1. ReAdded \subseteq ReAdded'
    BY ReAddedGrows DEF WInv, Shape
  <2> QED
    BY <1>3, <2>1 DEF WInv, Kept, Wakes, kernel, motes
<1> QED
  BY <1>1, <1>2, <1>3 DEF WInv

\* A slice ends within the run, or at most the minimum advance after it.
LEMMA SliceEndTime ==
  ASSUME sim_ns \in Time, sim_ns < MaxTime, pause_at \in Moment, horizon \in Moment,
         NEW next \in Moment
  PROVE  SliceEnd(next) \in Time
<1>1. slice_cap(Least(sim_ns + SliceCap, MaxTime)) \in Int
      /\ slice_cap(Least(sim_ns + SliceCap, MaxTime)) <= MaxTime
  BY SMT, TimeFacts, TimesAssumption DEF slice_cap, Least
<1> DEFINE cap == slice_cap(Least(sim_ns + SliceCap, MaxTime))
<1>2. Least(cap, next) \in Int /\ Least(cap, next) <= MaxTime
  BY SMT, <1>1, TimeFacts DEF Least
<1>3. SliceEnd(next) \in {sim_ns, sim_ns + MinAdvance}
      \/ (SliceEnd(next) = Least(cap, next) /\ Least(cap, next) > sim_ns)
  BY SMT, <1>2, TimeFacts DEF SliceEnd
<1> HIDE DEF cap
<1> QED
  BY SMT, <1>2, <1>3, TimesAssumption DEF Time, Past
LEMMA SubStepTime ==
  ASSUME WInv, NEW end \in sim_ns .. MaxTime
  PROVE  SubStep(end) \in Time
<1>1. end \in Time
  BY SMT, TimeFacts DEF WInv, Shape, Time
<1>2. action_idx <= Len(plan) => plan[action_idx].at \in 0 .. MaxTime
  BY SMT DEF WInv, Shape
<1>3. CASE /\ action_idx <= Len(plan)
           /\ sim_ns < plan[action_idx].at /\ plan[action_idx].at <= end
  <2> DEFINE at == plan[action_idx].at
  <2>1. SubStep(end) = IF at - 1 > sim_ns THEN at - 1 ELSE at
    BY <1>3 DEF SubStep
  <2>2. at \in 0 .. MaxTime /\ sim_ns \in Time
    BY <1>2, <1>3 DEF WInv, Shape
  <2> HIDE DEF at
  <2> QED
    BY SMT, <2>1, <2>2, TimeFacts DEF Time
<1>4. CASE ~ (/\ action_idx <= Len(plan)
              /\ sim_ns < plan[action_idx].at /\ plan[action_idx].at <= end)
  <2>1. SubStep(end) = end
    BY <1>4 DEF SubStep
  <2> QED
    BY <1>1, <2>1
<1> QED
  BY <1>3, <1>4

LEMMA TopKeeps ==
  ASSUME WInv, Top
  PROVE  WInv'
<1> USE DEF WInv, Shape
<1>1. CASE LoopExit
  BY <1>1, Unmoved DEF LoopExit, setup, control
<1>2. CASE LoopPaused
  BY <1>2, Unmoved DEF LoopPaused, vars, setup, control, loop
<1>3. CASE LoopOwnClock
  <2>1. PICK next \in Moment : EnterPoll(SliceEnd(next))
    BY <1>3 DEF LoopOwnClock, Moment
  <2>2. SliceEnd(next) \in Time
    BY <1>3, SliceEndTime DEF LoopOwnClock
  <2> QED
    BY <2>1, <2>2, Unmoved DEF EnterPoll, setup, control
<1>4. CASE LoopExternalClock
  <2>1. PICK end \in sim_ns .. MaxTime : EnterPoll(SubStep(end))
    BY <1>4 DEF LoopExternalClock
  <2>2. SubStep(end) \in Time
    BY SubStepTime
  <2> QED
    BY <2>1, <2>2, Unmoved DEF EnterPoll, setup, control
<1>5. CASE ClockGone
  BY <1>5, Unmoved DEF ClockGone, setup, control
<1> QED
  BY <1>1, <1>2, <1>3, <1>4, <1>5 DEF Top

LEMMA RunControlKeeps ==
  ASSUME WInv,
         \/ Pause \/ Resume \/ RequestExit
         \/ \E d \in Durations : RunFor(d)
         \/ \E n \in StepCounts : StepEvents(n)
  PROVE  WInv'
<1> USE DEF WInv, Shape
<1>1. Never \in Moment
  BY DEF Moment
<1>2. CASE Pause
  BY <1>1, <1>2, Unmoved DEF Pause, RunCommand, Disarmed, setup, loop
<1>3. CASE Resume
  BY <1>1, <1>3, Unmoved DEF Resume, RunCommand, Disarmed, setup, loop
<1>4. CASE RequestExit
  BY <1>4, Unmoved DEF RequestExit, Command, setup, loop
<1>5. ASSUME NEW d \in Durations, RunFor(d)
      PROVE  WInv'
  <2>1. now + d \in Nat
    BY SMT, TimesAssumption DEF Time
  <2>2. pause_at' \in Moment
    BY <1>5, <2>1, CappedTime DEF RunFor, Moment
  <2> QED
    BY <1>5, <2>2, Unmoved DEF RunFor, Command, setup, loop
<1>6. ASSUME NEW n \in StepCounts, StepEvents(n)
      PROVE  WInv'
  BY <1>1, <1>6, Unmoved DEF StepEvents, Command, setup, loop
<1> QED
  BY <1>2, <1>3, <1>4, <1>5, <1>6

LEMMA HandOverKeeps ==
  ASSUME WInv, PollDone \/ PumpStopped \/ AfterPump \/ Ended
  PROVE  WInv'
<1> USE DEF WInv, Shape
<1>1. CASE PollDone
  BY <1>1, Unmoved DEF PollDone, setup, control
<1>2. CASE PumpStopped
  BY <1>2, Unmoved DEF PumpStopped, setup, control
<1>3. CASE AfterPump
  <2>1. Never \in Moment
    BY DEF Moment
  <2>2. pause_at' \in Moment /\ horizon' \in Moment
    BY <1>3, <2>1 DEF AfterPump, Disarmed
  <2> QED
    BY <1>3, <2>2, Unmoved DEF AfterPump, setup
<1>4. CASE Ended
  BY <1>4, Unmoved DEF Ended, vars, setup, control, loop
<1> QED
  BY <1>1, <1>2, <1>3, <1>4

-----------------------------------------------------------------------------
(* Steps on one slot, or on a time pin (then n is NoNode).                 *)

LEMMA OneSlot ==
  ASSUME WInv, Shape', NEW n,
         \A m \in Nodes \ {n} :
           /\ generation'[m] = generation[m] /\ start_ns'[m] = start_ns[m]
           /\ wanted'[m] = wanted[m]
           /\ m \in slots' <=> m \in slots
           /\ m \in dead => m \in dead'
           /\ m \in ReAdded => m \in ReAdded',
         \A e \in queue : e.node # n => e \in queue',
         \A e \in queue' : (e \in queue /\ e.node # n) \/ (Current(e)' /\ NotEarly(e)'),
         n \in Nodes => Kept(n)'
  PROVE  WInv'
<1>1. ASSUME NEW e \in queue'
      PROVE  Current(e)' /\ NotEarly(e)'
  <2> SUFFICES ASSUME e \in queue, e.node # n
               PROVE  Current(e)' /\ NotEarly(e)'
    BY <1>1
  <2>1. Current(e) /\ NotEarly(e)
    BY DEF WInv
  <2> QED
    BY <2>1 DEF Current, NotEarly
<1>2. ASSUME NEW m \in Nodes
      PROVE  Kept(m)'
  <2> SUFFICES ASSUME m # n
               PROVE  Kept(m)'
    BY <1>2
  <2>1. Kept(m)
    BY DEF WInv
  <2>2. \A e \in queue : Wakes(e, m) => e \in queue'
    BY DEF Wakes
  <2> QED
    BY <2>1, <2>2 DEF Kept, Wakes
<1> QED
  BY <1>1, <1>2 DEF WInv
\* Closing the gate leaves the pending wakeup where it is.
LEMMA RemovedKeeps ==
  ASSUME WInv, NEW n \in slots, Removed(n), UNCHANGED <<plan, now, sim_ns, pause_at, horizon>>,
         action_idx' \in {action_idx, action_idx + 1}
  PROVE  WInv'
<1>0. n \in Nodes /\ Never \in Moment
  BY DEF WInv, Shape, Moment
<1>1. /\ start_ns' = [start_ns EXCEPT ![n] = Never]
      /\ UNCHANGED <<queue, generation, slots, dead, wanted>>
  BY DEF Removed, kernel
<1>2. Shape'
  BY SMT, <1>0, <1>1 DEF WInv, Shape
<1>3. start_ns'[n] = Never /\ \A m \in Nodes \ {n} : start_ns'[m] = start_ns[m]
  BY <1>0, <1>1 DEF WInv, Shape
<1>4. ReAdded \subseteq ReAdded'
  BY ReAddedGrows DEF WInv, Shape
<1>5. ASSUME NEW e \in queue'
      PROVE  (e \in queue /\ e.node # n) \/ (Current(e)' /\ NotEarly(e)')
  <2>1. Current(e)
    BY <1>1 DEF WInv
  <2> QED
    BY <1>1, <1>3, <2>1 DEF Current, NotEarly
<1>6. Kept(n)'
  <2>1. Kept(n)
    BY <1>0 DEF WInv
  <2> QED
    BY <1>1, <1>3, <2>1 DEF Kept, Wakes
<1> QED
  BY <1>1, <1>2, <1>3, <1>4, <1>5, <1>6, OneSlot

\* A slot without events, whose wakeup at t is put into the queue: a reboot,
\* an add.  Everything of the slot is new.
LEMMA FreshSlot ==
  ASSUME WInv, NEW n \in Nodes, UNCHANGED <<plan, now, sim_ns, pause_at, horizon>>,
         NEW g \in Int, generation' = [generation EXCEPT ![n] = g],
         NEW s \in Moment, start_ns' = [start_ns EXCEPT ![n] = s],
         NEW w \in Moment, wanted' = [wanted EXCEPT ![n] = w],
         action_idx' \in {action_idx, action_idx + 1},
         \A m \in Nodes \ {n} : (m \in slots' <=> m \in slots) /\ (m \in dead => m \in dead'),
         slots' \subseteq Nodes,
         \/ queue' = cancel_mote_events(queue, n) /\ w = Never
            /\ (n \notin slots' \/ n \in dead' \/ n \in ReAdded')
         \/ /\ queue' = WakeIfEarlier(cancel_mote_events(queue, n), n, now, g, now)
            /\ w = now /\ s = now /\ n \in slots'
  PROVE  WInv'
<1> DEFINE q == cancel_mote_events(queue, n)
<1>1. Shape'
  <2>1. generation' \in [Nodes -> Int] /\ start_ns' \in [Nodes -> Moment] /\ wanted' \in [Nodes -> Moment]
    BY DEF WInv, Shape
  <2> QED
    BY SMT, <2>1 DEF WInv, Shape
<1>2. /\ generation'[n] = g /\ start_ns'[n] = s /\ wanted'[n] = w
      /\ \A m \in Nodes \ {n} :
           /\ generation'[m] = generation[m] /\ start_ns'[m] = start_ns[m]
           /\ wanted'[m] = wanted[m]
  BY DEF WInv, Shape
<1>3. ReAdded \subseteq ReAdded'
  BY ReAddedGrows DEF WInv, Shape
<1>4. \A e : e \in q <=> e \in queue /\ e.node # n
  BY DEF cancel_mote_events
<1>5. \A e \in q : e.time \in Time
  BY <1>4 DEF WInv, Current
<1>6. now \in Time /\ Latest(now, now) = now
  BY TimeFacts DEF WInv, Shape, Latest
<1> HIDE DEF q
<1>7. CASE queue' = q /\ w = Never /\ (n \notin slots' \/ n \in dead' \/ n \in ReAdded')
  <2>1. Kept(n)'
    BY <1>2, <1>7 DEF Kept
  <2> QED
    BY <1>1, <1>2, <1>3, <1>4, <1>7, <2>1, OneSlot
<1>8. CASE queue' = WakeIfEarlier(q, n, now, g, now) /\ w = now /\ s = now /\ n \in slots'
  <2>1. /\ \A e \in queue' :
             \/ e \in q
             \/ e.kind = "NODE_WAKEUP" /\ e.node = n /\ e.gen = g /\ e.time = now
        /\ \E e \in queue' : Wakes(e, n) /\ e.time <= now
        /\ \A e \in q : ~Wakes(e, n) => e \in queue'
    BY SMT, <1>5, <1>6, <1>8, WakeEffect
  <2>2. ASSUME NEW e \in queue'
        PROVE  (e \in queue /\ e.node # n) \/ (Current(e)' /\ NotEarly(e)')
    <3>1. CASE e \in q
      BY <1>4, <3>1
    <3>2. CASE e.kind = "NODE_WAKEUP" /\ e.node = n /\ e.gen = g /\ e.time = now
      <4>1. e.time >= start_ns'[n]
        BY SMT, <1>2, <1>6, <1>8, <3>2, TimeFacts
      <4> QED
        BY <1>2, <1>6, <3>2, <4>1 DEF Current, NotEarly
    <3> QED
      BY <2>1, <3>1, <3>2
  <2>3. Kept(n)'
    BY <1>2, <1>8, <2>1 DEF Kept, Wakes
  <2>4. \A e \in queue : e.node # n => e \in queue'
    BY <1>4, <2>1 DEF Wakes
  <2> QED
    BY <1>1, <1>2, <1>3, <2>2, <2>3, <2>4, OneSlot
<1> QED
  BY <1>7, <1>8 DEF q
LEMMA RebootedKeeps ==
  ASSUME WInv, NEW n \in slots, NEW wake \in BOOLEAN, Rebooted(n, wake),
         UNCHANGED <<plan, now, sim_ns, pause_at, horizon>>,
         action_idx' \in {action_idx, action_idx + 1},
         wake \/ n \in ReAdded'
  PROVE  WInv'
<1> DEFINE g == bump_mote_generation(bump_mote_generation(generation[n]))
<1>1. n \in Nodes /\ g \in Int /\ now \in Moment /\ Never \in Moment
  BY BumpedGeneration DEF WInv, Shape, Moment
<1>2. generation' = [generation EXCEPT ![n] = g]
  BY DEF Rebooted
<1>3. /\ start_ns' = [start_ns EXCEPT ![n] = now] /\ dead' = dead \ {n} /\ slots' = slots
      /\ wanted' = [wanted EXCEPT ![n] = IF wake THEN now ELSE Never]
      /\ queue' = IF wake THEN WakeIfEarlier(cancel_mote_events(queue, n), n, now, g, now)
                  ELSE cancel_mote_events(queue, n)
  BY DEF Rebooted
<1>4. slots \subseteq Nodes
  BY DEF WInv, Shape
<1> HIDE DEF g
<1>5. CASE wake
  BY <1>1, <1>2, <1>3, <1>4, <1>5, FreshSlot
<1>6. CASE ~wake
  BY <1>1, <1>2, <1>3, <1>4, <1>6, FreshSlot
<1> QED
  BY <1>5, <1>6

LEMMA RebootFailedKeeps ==
  ASSUME WInv, NEW n \in slots, RebootFailed(n),
         UNCHANGED <<plan, now, sim_ns, pause_at, horizon>>,
         action_idx' \in {action_idx, action_idx + 1}
  PROVE  WInv'
<1> DEFINE g == bump_mote_generation(bump_mote_generation(generation[n]))
<1>1. n \in Nodes /\ g \in Int /\ start_ns[n] \in Moment /\ Never \in Moment
  BY BumpedGeneration DEF WInv, Shape, Moment
<1>2. generation' = [generation EXCEPT ![n] = g]
  BY DEF RebootFailed
<1>3. /\ start_ns' = [start_ns EXCEPT ![n] = start_ns[n]]
      /\ wanted' = [wanted EXCEPT ![n] = Never]
      /\ dead' = dead \cup {n} /\ slots' = slots
      /\ queue' = cancel_mote_events(queue, n)
  BY <1>1 DEF RebootFailed, WInv, Shape
<1>4. slots \subseteq Nodes
  BY DEF WInv, Shape
<1> HIDE DEF g
<1> QED
  BY <1>1, <1>2, <1>3, <1>4, FreshSlot

LEMMA AddKeeps ==
  ASSUME WInv, NEW n \in Nodes, Add(n)
  PROVE  WInv'
<1> DEFINE g == bump_mote_generation(generation[n])
           q == cancel_mote_events(queue, n)
<1>1. /\ n \notin slots /\ UNCHANGED <<plan, now, sim_ns, pause_at, horizon, action_idx>>
      /\ g \in Int /\ bump_mote_generation(g) \in Int
      /\ now \in Moment /\ start_ns[n] \in Moment /\ Never \in Moment /\ slots \subseteq Nodes
  BY BumpedGeneration DEF Add, Command, setup, control, loop, WInv, Shape, Moment
<1>2. CASE /\ generation' = [generation EXCEPT ![n] = g]
           /\ slots' = slots \cup {n} /\ dead' = dead
           /\ start_ns' = [start_ns EXCEPT ![n] = now]
           /\ queue' = WakeIfEarlier(q, n, now, g, now)
           /\ wanted' = [wanted EXCEPT ![n] = now]
  <2> HIDE DEF g
  <2> QED
    BY <1>1, <1>2, FreshSlot
<1>3. CASE /\ generation' = [generation EXCEPT ![n] = bump_mote_generation(g)]
           /\ queue' = cancel_mote_events(q, n)
           /\ UNCHANGED motes
  <2>1. queue' = q
    BY <1>3 DEF cancel_mote_events
  <2>2. wanted[n] = Never
    BY <1>1 DEF WInv, Kept
  <2>3. /\ wanted' = [wanted EXCEPT ![n] = Never]
        /\ start_ns' = [start_ns EXCEPT ![n] = start_ns[n]]
        /\ slots' = slots /\ dead' = dead
    BY <1>3, <2>2 DEF motes, WInv, Shape
  <2> HIDE DEF g
  <2> QED
    BY <1>1, <1>3, <2>1, <2>3, FreshSlot
<1>4. \/ /\ generation' = [generation EXCEPT ![n] = g]
         /\ slots' = slots \cup {n} /\ dead' = dead
         /\ start_ns' = [start_ns EXCEPT ![n] = now]
         /\ queue' = WakeIfEarlier(q, n, now, g, now)
         /\ wanted' = [wanted EXCEPT ![n] = now]
      \/ /\ generation' = [generation EXCEPT ![n] = bump_mote_generation(g)]
         /\ queue' = cancel_mote_events(q, n)
         /\ UNCHANGED motes
  BY DEF Add
<1> QED
  BY <1>2, <1>3, <1>4
LEMMA TimedActionKeeps ==
  ASSUME WInv, TimedAction
  PROVE  WInv'
<1> DEFINE act == plan[action_idx]
<1>1. /\ UNCHANGED <<plan, now, sim_ns, pause_at, horizon>> /\ action_idx' = action_idx + 1
      /\ action_idx \in 1 .. Len(plan)
  BY SMT DEF TimedAction, TimedActionDue, setup, control, WInv, Shape
<1>2. /\ now \in Time /\ sim_ns \in Time /\ pause_at \in Moment /\ horizon \in Moment
      /\ action_idx \in Nat
  BY DEF WInv, Shape
<1>3. act.type = "ADD" => act.node \in ReAdded'
  <2>1. action_idx \in 1 .. action_idx' - 1
    BY SMT, <1>1, <1>2
  <2> QED
    BY <1>1, <2>1 DEF ReAdded
<1>4. CASE act.node \notin slots /\ UNCHANGED <<kernel, motes>>
  BY <1>1, <1>2, <1>4, Unmoved
<1>5. CASE act.node \in slots /\ Removed(act.node)
  BY <1>1, <1>5, RemovedKeeps
<1>6. CASE act.node \in slots /\ act.type = "ADD" /\ Rebooted(act.node, FALSE)
  BY <1>1, <1>3, <1>6, RebootedKeeps
<1>7. CASE act.node \in slots /\ RebootFailed(act.node)
  BY <1>1, <1>7, RebootFailedKeeps
<1> QED
  BY <1>4, <1>5, <1>6, <1>7 DEF TimedAction

\* A slot past its gate gets a wakeup, of its present generation, into a queue
\* that kept what was pending for the others.
LEMMA ActiveSlotWoken ==
  ASSUME WInv, NEW n \in slots, NEW q, NEW t \in Time, NEW clock \in Time,
         start_ns[n] <= clock, NEW w \in Moment,
         queue' = WakeIfEarlier(q, n, t, generation[n], clock),
         wanted' = [wanted EXCEPT ![n] = w],
         UNCHANGED <<generation, start_ns, slots, dead, plan, action_idx, sim_ns,
                     pause_at, horizon>>,
         now' \in Time,
         \A e \in queue : e.node # n => e \in q,
         \A e \in q : e \in queue \/ (Current(e) /\ e.kind = "RX_BYTE"),
         \/ w = Latest(t, clock)
         \/ w = wanted[n] /\ w # Never /\ \A e \in queue : Wakes(e, n) => e \in q
  PROVE  WInv'
<1>1. n \in Nodes /\ start_ns[n] \in Int
  BY TimeFacts DEF WInv, Shape
<1>2. Latest(t, clock) \in Time /\ Latest(t, clock) >= clock
  BY LatestTime
<1>3. Shape'
  <2>1. wanted' \in [Nodes -> Moment]
    BY <1>1 DEF WInv, Shape
  <2> QED
    BY <2>1 DEF WInv, Shape
<1>4. wanted'[n] = w /\ \A m \in Nodes \ {n} : wanted'[m] = wanted[m]
  BY <1>1 DEF WInv, Shape
<1>5. \A e \in q : Current(e) /\ NotEarly(e)
  BY DEF WInv, NotEarly
<1>6. /\ \A e \in queue' :
           \/ e \in q
           \/ /\ e.kind = "NODE_WAKEUP" /\ e.node = n /\ e.gen = generation[n]
              /\ e.time = Latest(t, clock)
      /\ \E e \in queue' : Wakes(e, n) /\ e.time <= Latest(t, clock)
      /\ \A e \in q : Wakes(e, n) => \E f \in queue' : Wakes(f, n) /\ f.time <= e.time
      /\ \A e \in q : ~Wakes(e, n) => e \in queue'
  <2>1. \A e \in q : e.time \in Time
    BY <1>5 DEF Current
  <2> QED
    BY SMT, <2>1, WakeEffect
<1>7. ASSUME NEW e \in queue'
      PROVE  Current(e)' /\ NotEarly(e)'
  <2>1. CASE e \in q
    BY <1>5, <2>1 DEF Current, NotEarly
  <2>2. CASE /\ e.kind = "NODE_WAKEUP" /\ e.node = n /\ e.gen = generation[n]
             /\ e.time = Latest(t, clock)
    <3>1. e.time >= start_ns[n]
      BY SMT, <1>1, <1>2, <2>2, TimeFacts
    <3> QED
      BY <1>1, <1>2, <2>2, <3>1 DEF Current, NotEarly
  <2> QED
    BY <1>6, <2>1, <2>2
<1>8. \E e \in queue' : Wakes(e, n) /\ e.time <= w
  <2>1. CASE w = Latest(t, clock)
    BY <1>6, <2>1
  <2>2. CASE w = wanted[n] /\ w # Never /\ \A e \in queue : Wakes(e, n) => e \in q
    <3>1. PICK e \in queue : Wakes(e, n) /\ e.time <= w
      BY <1>1, <2>2 DEF WInv, Kept
    <3>2. PICK f \in queue' : Wakes(f, n) /\ f.time <= e.time
      BY <1>6, <2>2, <3>1
    <3>3. e.time \in Int /\ f.time \in Int /\ w \in Int
      BY <1>7, TimeFacts DEF WInv, Current
    <3>4. f.time <= w
      BY SMT, <3>1, <3>2, <3>3
    <3> QED
      BY <3>2, <3>4
  <2> QED
    BY <2>1, <2>2
<1>9. Kept(n)'
  BY <1>4, <1>8 DEF Kept, Wakes
<1>10. \A e \in queue : e.node # n => e \in queue'
  BY <1>6 DEF Wakes
<1>11. ReAdded' = ReAdded
  BY DEF ReAdded
<1> QED
  BY <1>3, <1>4, <1>7, <1>9, <1>10, <1>11, OneSlot

LEMMA SendWakeKeeps ==
  ASSUME WInv, NEW n \in Nodes, SendWake(n)
  PROVE  WInv'
<1> DEFINE at == Capped(now + WakeDelay)
<1>1. /\ n \in slots /\ start_ns[n] <= now
      /\ UNCHANGED <<generation, start_ns, slots, dead, plan, now, action_idx, sim_ns,
                     pause_at, horizon>>
      /\ now \in Time /\ wanted[n] \in Moment
      /\ queue' = WakeIfEarlier(queue, n, at, generation[n], now)
      /\ wanted' = [wanted EXCEPT ![n] = Least(wanted[n], Latest(at, now))]
  BY TimeFacts DEF SendWake, Command, node_active, Owe, clamp_to_now, setup, control, loop,
                   WInv, Shape
<1>2. at \in Time
  <2>1. now + WakeDelay \in Nat
    BY SMT, <1>1, TimesAssumption DEF Time
  <2> QED
    BY <2>1, CappedTime
<1>3. Latest(at, now) \in Time
  BY <1>1, <1>2, LatestTime
<1> DEFINE w == Least(wanted[n], Latest(at, now))
<1>4. w \in Time /\ (w = Latest(at, now) \/ (w = wanted[n] /\ w # Never))
  BY <1>1, <1>3, LeastTime
<1>5. w \in Moment
  BY <1>4 DEF Moment
<1> HIDE DEF at, w
<1> QED
  BY <1>1, <1>2, <1>4, <1>5, ActiveSlotWoken DEF w

LEMMA PinKeeps ==
  ASSUME WInv, NEW t \in 0 .. MaxTime \cup {Past}, Pin(t)
  PROVE  WInv'
<1>1. t \in Time
  BY SMT, TimeFacts DEF Time
<1>2. UNCHANGED <<generation, start_ns, slots, dead, wanted, plan, now, action_idx, sim_ns,
                  pause_at, horizon>>
  BY DEF Pin, Command, setup, motes, control, loop
<1>3. Shape'
  BY <1>2 DEF WInv, Shape
<1>4. \A e \in queue' : e \in queue \/
        (e.kind = "TEST_ACTION" /\ e.node = NoNode /\ e.gen = 0 /\ e.time = t)
  BY SMT DEF Pin, Added
<1>5. queue \subseteq queue'
  BY DEF Pin, Added
<1>6. ReAdded' = ReAdded
  BY <1>2 DEF ReAdded
<1>7. ASSUME NEW e \in queue'
      PROVE  Current(e)' /\ NotEarly(e)'
  BY <1>1, <1>2, <1>4 DEF WInv, Current, NotEarly
<1> QED
  BY <1>2, <1>3, <1>5, <1>6, <1>7, NodesAssumption, OneSlot
-----------------------------------------------------------------------------
(* The pump.                                                               *)

\* An event of slot n, or a pin, leaves the queue and nothing is posted.
LEMMA EventDropped ==
  ASSUME WInv, NEW e \in queue, queue' = queue \ {e}, now' \in Time,
         UNCHANGED <<generation, start_ns, slots, dead, plan, action_idx, sim_ns,
                     pause_at, horizon>>,
         \/ wanted' = wanted /\ e.kind # "NODE_WAKEUP"
         \/ /\ e.node \in Nodes /\ wanted' = [wanted EXCEPT ![e.node] = Never]
            /\ e.node \notin slots \/ start_ns[e.node] = Never
  PROVE  WInv'
<1>1. Shape'
  <2>1. wanted' \in [Nodes -> Moment]
    BY DEF WInv, Shape, Moment
  <2> QED
    BY <2>1 DEF WInv, Shape
<1>2. \A m \in Nodes \ {e.node} : wanted'[m] = wanted[m]
  BY DEF WInv, Shape
<1>3. ReAdded' = ReAdded
  BY DEF ReAdded
<1>4. ASSUME NEW f \in queue'
      PROVE  Current(f)' /\ NotEarly(f)'
  BY <1>4 DEF WInv, Current, NotEarly
<1>5. ASSUME e.node \in Nodes
      PROVE  Kept(e.node)'
  <2>1. Kept(e.node)
    BY <1>5 DEF WInv
  <2>2. CASE wanted' = wanted /\ e.kind # "NODE_WAKEUP"
    <3>1. \A f \in queue : Wakes(f, e.node) => f \in queue'
      BY <2>2 DEF Wakes
    <3> QED
      BY <1>3, <2>1, <2>2, <3>1 DEF Kept, Wakes
  <2>3. CASE /\ wanted' = [wanted EXCEPT ![e.node] = Never]
             /\ e.node \notin slots \/ start_ns[e.node] = Never
    <3>1. wanted'[e.node] = Never
      BY <1>5, <2>3 DEF WInv, Shape
    <3> QED
      BY <2>3, <3>1 DEF Kept
  <2> QED
    BY <2>2, <2>3
<1> QED
  BY <1>1, <1>2, <1>3, <1>4, <1>5, OneSlot

\* A byte put on the air is of the receiver's present generation.
LEMMA OnAirPosts ==
  ASSUME WInv, NEW rest, NEW n, NEW t \in Time, NEW q \in OnAir(rest, n, t)
  PROVE  rest \subseteq q /\ \A e \in q : e \in rest \/ (Current(e) /\ e.kind = "RX_BYTE")
<1>1. CASE q = rest
  BY <1>1
<1>2. CASE q # rest
  <2>1. PICK r \in slots, at \in {t, Capped(t + 1)} :
          q = Added(rest, "RX_BYTE", r, at, generation[r])
    BY SMT, <1>2 DEF OnAir
  <2>2. at \in Time
    <3>1. t + 1 \in Nat
      BY SMT DEF Time
    <3> QED
      BY <2>1, <3>1, CappedTime
  <2>3. r \in Nodes
    BY DEF WInv, Shape
  <2>4. \A e \in q : e \in rest \/
          (e.kind = "RX_BYTE" /\ e.node = r /\ e.gen = generation[r] /\ e.time = at)
    BY SMT, <2>1 DEF Added
  <2>5. rest \subseteq q
    BY <2>1 DEF Added
  <2> QED
    BY <2>2, <2>3, <2>4, <2>5 DEF Current
<1> QED
  BY <1>1, <1>2

LEMMA DispatchKeeps ==
  ASSUME WInv, NEW e \in queue, e.kind = "NODE_WAKEUP", dispatch_mote_wakeup(e, queue \ {e}),
         now' \in Time,
         UNCHANGED <<generation, start_ns, slots, dead, plan, action_idx, sim_ns,
                     pause_at, horizon>>
  PROVE  WInv'
<1> DEFINE n == e.node
<1>1. Current(e) /\ NotEarly(e)
  BY DEF WInv
<1>2. n \in Nodes /\ e.time \in Time /\ start_ns[n] \in Moment
      /\ (start_ns[n] = Never \/ e.time >= start_ns[n])
  BY <1>1 DEF Current, NotEarly, WInv, Shape
<1>3. CASE ~node_active(n, e.time)
  <2>1. n \notin slots \/ start_ns[n] = Never
    BY <1>2, <1>3 DEF node_active
  <2>2. queue' = queue \ {e} /\ wanted' = [wanted EXCEPT ![n] = Never]
    BY <1>3 DEF dispatch_mote_wakeup
  <2> QED
    BY <1>2, <2>1, <2>2, EventDropped
<1>4. CASE node_active(n, e.time)
  <2>1. PICK next \in e.time + 1 .. MaxTime \cup {Past}, q \in OnAir(queue \ {e}, n, e.time) :
          /\ queue' = WakeIfEarlier(q, n, next, generation[n], e.time)
          /\ wanted' = [wanted EXCEPT ![n] = next]
    BY <1>4 DEF dispatch_mote_wakeup
  <2>2. next \in Time /\ next = Latest(next, e.time)
    BY SMT, <1>2, TimeFacts DEF Time, Latest
  <2>3. next \in Moment
    BY <2>2 DEF Moment
  <2>4. n \in slots /\ start_ns[n] <= e.time
    BY <1>2, <1>4, TimeFacts DEF node_active
  <2>5. queue \ {e} \subseteq q
        /\ \A f \in q : f \in queue \ {e} \/ (Current(f) /\ f.kind = "RX_BYTE")
    BY SMT, <1>2, OnAirPosts
  <2> QED
    BY <1>2, <2>1, <2>2, <2>3, <2>4, <2>5, ActiveSlotWoken
<1> QED
  BY <1>3, <1>4

LEMMA DeliverKeeps ==
  ASSUME WInv, NEW e \in queue, e.kind = "RX_BYTE", deliver_rx_byte(e, queue \ {e}),
         now' \in Time,
         UNCHANGED <<generation, start_ns, slots, dead, plan, action_idx, sim_ns,
                     pause_at, horizon>>
  PROVE  WInv'
<1> DEFINE n == e.node
<1>1. Current(e)
  BY DEF WInv
<1>2. n \in Nodes /\ e.time \in Time /\ start_ns[n] \in Moment /\ wanted[n] \in Moment
  BY <1>1 DEF Current, WInv, Shape
<1>3. CASE ~node_active(n, e.time)
  <2>1. queue' = queue \ {e} /\ wanted' = wanted
    BY <1>3 DEF deliver_rx_byte
  <2> QED
    BY <2>1, EventDropped
<1>4. CASE node_active(n, e.time)
  <2> DEFINE w == Least(wanted[n], e.time)
  <2>1. /\ queue' = WakeIfEarlier(queue \ {e}, n, e.time, generation[n], e.time)
        /\ wanted' = [wanted EXCEPT ![n] = w]
    BY <1>2, <1>4 DEF deliver_rx_byte
  <2>2. w \in Time /\ (w = e.time \/ (w = wanted[n] /\ w # Never))
    BY <1>2, LeastTime
  <2>3. w \in Moment /\ Latest(e.time, e.time) = e.time
    BY <2>2 DEF Moment, Latest
  <2>4. n \in slots /\ start_ns[n] <= e.time
    BY <1>2, <1>4, TimeFacts DEF node_active
  <2> DEFINE rest == queue \ {e}
  <2>5. /\ \A f \in queue : f.node # n => f \in rest
        /\ \A f \in rest : f \in queue
        /\ \A f \in queue : Wakes(f, n) => f \in rest
    BY DEF Wakes
  <2>6. queue' = WakeIfEarlier(rest, n, e.time, generation[n], e.time)
    BY <2>1
  <2> HIDE DEF w, rest
  <2> QED
    BY <1>2, <2>1, <2>2, <2>3, <2>4, <2>5, <2>6, ActiveSlotWoken
<1> QED
  BY <1>3, <1>4

LEMMA PumpEventKeeps ==
  ASSUME WInv, PumpEvent
  PROVE  WInv'
<1>1. UNCHANGED <<generation, start_ns, slots, dead, plan, action_idx, sim_ns, pause_at, horizon>>
  BY DEF PumpEvent, setup, loop
<1>2. PICK e \in queue :
        /\ now' = e.time
        /\ IF event_is_current(e)
           THEN CASE e.kind = "NODE_WAKEUP" -> dispatch_mote_wakeup(e, queue \ {e})
                  [] e.kind = "RX_BYTE" -> deliver_rx_byte(e, queue \ {e})
                  [] OTHER -> queue' = queue \ {e} /\ UNCHANGED <<wanted, run_state, budget>>
           ELSE queue' = queue \ {e} /\ UNCHANGED <<wanted, run_state, budget, step_left, stepped>>
  BY DEF PumpEvent
<1>3. Current(e) /\ now' \in Time
  BY <1>2 DEF WInv, Current
<1>4. event_is_current(e)
  BY <1>3 DEF Current, event_is_current
<1>5. CASE e.kind = "NODE_WAKEUP"
  BY <1>1, <1>2, <1>3, <1>4, <1>5, DispatchKeeps
<1>6. CASE e.kind = "RX_BYTE"
  BY <1>1, <1>2, <1>3, <1>4, <1>6, DeliverKeeps
<1>7. CASE e.kind \notin {"NODE_WAKEUP", "RX_BYTE"}
  <2>1. queue' = queue \ {e} /\ wanted' = wanted
    BY <1>2, <1>4, <1>7
  <2> QED
    BY <1>1, <1>3, <1>7, <2>1, EventDropped
<1> QED
  BY <1>5, <1>6, <1>7
-----------------------------------------------------------------------------
(* The invariant holds, and with it the property.                          *)

LEMMA InitKept ==
  ASSUME Init
  PROVE  WInv
<1>1. PICK s \in Setups : external = s.external /\ plan = s.plan
  BY DEF Init
<1>2. plan \in Seq([at : 0 .. MaxTime, type : {"REMOVE", "ADD"}, node : Nodes])
  BY <1>1, SetupsAssumption
<1>3. /\ Len(plan) \in Nat
      /\ \A i \in 1 .. Len(plan) : plan[i].at \in 0 .. MaxTime /\ plan[i].node \in Nodes
  <2> DEFINE R == [at : 0 .. MaxTime, type : {"REMOVE", "ADD"}, node : Nodes]
  <2>1. \A r \in R : r.at \in 0 .. MaxTime /\ r.node \in Nodes
    OBVIOUS
  <2>2. plan \in Seq(R)
    BY <1>2
  <2> HIDE DEF R
  <2>3. Len(plan) \in Nat /\ \A i \in 1 .. Len(plan) : plan[i] \in R
    BY SMT, <2>2
  <2> QED
    BY <2>1, <2>3
<1>4. slots \subseteq Nodes /\ now = 0 /\ sim_ns = 0 /\ action_idx = 1 /\ pause_at = Never
  BY DEF Init
<1>5. start_ns \in [Nodes -> Time]
  <2>1. Starts \cup {0} \subseteq Time
    BY SMT, TimesAssumption, TimeFacts DEF Time
  <2>2. start_ns \in [Nodes -> Starts \cup {0}]
    BY DEF Init
  <2> QED
    BY <2>1, <2>2
<1>6. generation \in [Nodes -> Int]
  <2>1. bump_mote_generation(1) \in Int
    BY SMT, BumpedGeneration
  <2>2. generation = [n \in Nodes |-> IF n \in slots THEN bump_mote_generation(1) ELSE 1]
    BY DEF Init
  <2> QED
    BY SMT, <2>1, <2>2
<1>7. horizon \in Moment
  <2>1. \A h \in Horizons : h \in Time
    BY SMT, TimesAssumption DEF Time, Past
  <2> QED
    BY <2>1 DEF Init, Moment
<1>8. wanted = [n \in Nodes |-> IF n \in slots THEN start_ns[n] ELSE Never]
  BY DEF Init
<1>9. Shape
  <2>1. 0 \in Time /\ Never \in Moment
    BY SMT, TimeFacts DEF Time, Moment
  <2>2. start_ns \in [Nodes -> Moment] /\ wanted \in [Nodes -> Moment]
    BY <1>5, <1>8, <2>1 DEF Moment
  <2> QED
    BY SMT, <1>3, <1>4, <1>6, <1>7, <2>1, <2>2 DEF Shape
<1>10. PICK order :
         queue = {[kind |-> "NODE_WAKEUP", node |-> n, time |-> start_ns[n],
                   seq |-> order[n], gen |-> generation[n]] : n \in slots}
  BY DEF Init
<1>11. ASSUME NEW e \in queue
       PROVE  Current(e) /\ NotEarly(e)
  <2>1. PICK n \in slots :
          e.kind = "NODE_WAKEUP" /\ e.node = n /\ e.time = start_ns[n] /\ e.gen = generation[n]
    BY SMT, <1>10
  <2>2. n \in Nodes /\ start_ns[n] \in Time /\ start_ns[n] >= start_ns[n]
    BY SMT, <1>4, <1>5, TimeFacts
  <2> QED
    BY <2>1, <2>2 DEF Current, NotEarly
<1>12. ASSUME NEW n \in Nodes
       PROVE  Kept(n)
  <2>1. CASE n \in slots
    <3> DEFINE e == [kind |-> "NODE_WAKEUP", node |-> n, time |-> start_ns[n],
                     seq |-> order[n], gen |-> generation[n]]
    <3>1. e \in queue
      BY <1>10, <2>1
    <3>2. e.kind = "NODE_WAKEUP" /\ e.node = n /\ e.time = start_ns[n]
      OBVIOUS
    <3>3. wanted[n] = start_ns[n] /\ start_ns[n] <= start_ns[n]
      BY SMT, <1>5, <1>8, <2>1, TimeFacts
    <3> HIDE DEF e
    <3> QED
      BY <2>1, <3>1, <3>2, <3>3 DEF Kept, Wakes
  <2>2. CASE n \notin slots
    BY <1>8, <2>2 DEF Kept
  <2> QED
    BY <2>1, <2>2
<1> QED
  BY <1>9, <1>11, <1>12 DEF WInv

LEMMA NextKeeps ==
  ASSUME WInv, [Next]_vars
  PROVE  WInv'
<1>1. CASE UNCHANGED vars
  BY <1>1, Unmoved DEF vars, setup, control, loop, WInv, Shape
<1>2. CASE \E n \in Nodes : Remove(n) \/ Reboot(n) \/ Add(n) \/ SendWake(n)
  <2>1. PICK n \in Nodes : Remove(n) \/ Reboot(n) \/ Add(n) \/ SendWake(n)
    BY <1>2
  <2>2. CASE Remove(n)
    BY <2>2, RemovedKeeps DEF Remove, Command, setup, control, loop
  <2>3. CASE Reboot(n)
    BY <2>3, RebootedKeeps, RebootFailedKeeps DEF Reboot, Command, setup, control, loop
  <2> QED
    BY <2>1, <2>2, <2>3, AddKeeps, SendWakeKeeps
<1>3. CASE \E t \in 0 .. MaxTime \cup {Past} : Pin(t)
  BY <1>3, PinKeeps
<1>4. CASE Top
  BY <1>4, TopKeeps
<1>5. CASE TimedAction
  BY <1>5, TimedActionKeeps
<1>6. CASE PumpEvent
  BY <1>6, PumpEventKeeps
<1>7. CASE PollDone \/ PumpStopped \/ AfterPump \/ Ended
  BY <1>7, HandOverKeeps
<1>8. CASE \/ Pause \/ Resume \/ RequestExit
           \/ \E d \in Durations : RunFor(d)
           \/ \E n \in StepCounts : StepEvents(n)
  BY <1>8, RunControlKeeps
<1> QED
  BY <1>1, <1>2, <1>3, <1>4, <1>5, <1>6, <1>7, <1>8 DEF Next, Loop, Pump, Commands

\* What is pending for a slot is of its generation, and a gate that the clock
\* has reached is not Never.
LEMMA KeptMeansNotLost ==
  ASSUME WInv
  PROVE  NoLostWakeup
<1> SUFFICES ASSUME NEW n \in Nodes
             PROVE  LET pending == {e \in queue : Wakes(e, n) /\ e.gen = generation[n]} IN
                    /\ wanted[n] # Never => \E e \in pending : e.time <= wanted[n]
                    /\ n \in slots \ (dead \cup ReAdded) /\ start_ns[n] <= now => pending # {}
  BY DEF NoLostWakeup
<1>1. Kept(n)
  BY DEF WInv
<1>2. \A e \in queue : Wakes(e, n) => e.gen = generation[n]
  BY DEF WInv, Current, Wakes
<1>3. start_ns[n] <= now => start_ns[n] # Never
  BY SMT, TimeFacts DEF WInv, Shape
<1> QED
  BY <1>1, <1>2, <1>3 DEF Kept

\* Whatever reboots, removals, bytes and commands come between, a slot that
\* asked to run has a wakeup of its present generation pending in time, and a
\* started mote always has one (sim_runtime.c: if_earlier, cancel and bump).
THEOREM WakeupsAreKept == Spec => []NoLostWakeup
<1>1. Init => WInv
  BY InitKept
<1>2. WInv /\ [Next]_vars => WInv'
  BY NextKeeps
<1>3. WInv => NoLostWakeup
  BY KeptMeansNotLost
<1> QED
  BY <1>1, <1>2, <1>3, PTL DEF Spec

-----------------------------------------------------------------------------
(* What is posted is not due yet.                                          *)

LEMMA WakeIsLate ==
  ASSUME NEW q, NEW n, NEW t \in Time, NEW g, NEW clock \in Time,
         \A e \in q : e.time \in Time
  PROVE  \A e \in WakeIfEarlier(q, n, t, g, clock) :
           e \in q \/ (e.kind # "RX_BYTE" /\ e.time >= clock)
<1>1. \A e \in WakeIfEarlier(q, n, t, g, clock) :
        e \in q \/ (e.kind = "NODE_WAKEUP" /\ e.time = Latest(t, clock))
  BY SMT, WakeEffect
<1>2. Latest(t, clock) >= clock
  BY LatestTime
<1> QED
  BY <1>1, <1>2

\* Reboots and removals, by command or as a timed action.
LEMMA SlotStepPosts ==
  ASSUME WInv, NEW n \in slots,
         \/ Removed(n) \/ Rebooted(n, TRUE) \/ Rebooted(n, FALSE) \/ RebootFailed(n)
  PROVE  \A e \in queue' : e \in queue \/ (e.kind # "RX_BYTE" /\ e.time >= now)
<1> DEFINE q == cancel_mote_events(queue, n)
           g == bump_mote_generation(bump_mote_generation(generation[n]))
<1>1. q \subseteq queue
  BY DEF cancel_mote_events
<1>2. now \in Time /\ \A e \in q : e.time \in Time
  BY <1>1 DEF WInv, Shape, Current
<1>3. queue' \in {queue, q, WakeIfEarlier(q, n, now, g, now)}
  BY DEF Removed, Rebooted, RebootFailed, kernel
<1> HIDE DEF q, g
<1> QED
  BY <1>1, <1>2, <1>3, WakeIsLate

LEMMA TimedActionPosts ==
  ASSUME WInv, TimedAction
  PROVE  queue' \subseteq queue
<1> DEFINE n == plan[action_idx].node
<1>1. UNCHANGED kernel \/ Removed(n) \/ Rebooted(n, FALSE) \/ RebootFailed(n)
  BY DEF TimedAction
<1>2. queue' = queue \/ queue' = cancel_mote_events(queue, n)
  BY <1>1 DEF kernel, Removed, Rebooted, RebootFailed
<1> QED
  BY <1>2 DEF cancel_mote_events

LEMMA CommandPosts ==
  ASSUME WInv, Commands
  PROVE  \A e \in queue' : e \in queue \/ (e.kind # "RX_BYTE" /\ e.time >= now)
<1>0. now \in Time /\ WakeDelay \in Nat /\ \A e \in queue : e.time \in Time
  BY TimesAssumption DEF WInv, Shape, Current
<1>1. CASE \/ Pause \/ Resume \/ RequestExit
           \/ \E d \in Durations : RunFor(d)
           \/ \E n \in StepCounts : StepEvents(n)
  BY <1>1 DEF Pause, Resume, RunCommand, RequestExit, RunFor, StepEvents, kernel
<1>2. ASSUME NEW n \in Nodes, Remove(n) \/ Reboot(n)
      PROVE  \A e \in queue' : e \in queue \/ (e.kind # "RX_BYTE" /\ e.time >= now)
  BY <1>2, SlotStepPosts DEF Remove, Reboot
<1>3. ASSUME NEW n \in Nodes, Add(n)
      PROVE  \A e \in queue' : e \in queue \/ (e.kind # "RX_BYTE" /\ e.time >= now)
  <2> DEFINE q == cancel_mote_events(queue, n)
             g == bump_mote_generation(generation[n])
  <2>1. q \subseteq queue
    BY DEF cancel_mote_events
  <2>2. \A e \in q : e.time \in Time
    BY <1>0, <2>1
  <2>3. queue' \in {q, cancel_mote_events(q, n), WakeIfEarlier(q, n, now, g, now)}
    BY <1>3 DEF Add
  <2>4. cancel_mote_events(q, n) \subseteq q
    BY DEF cancel_mote_events
  <2> HIDE DEF q, g
  <2> QED
    BY <1>0, <2>1, <2>2, <2>3, <2>4, WakeIsLate
<1>4. ASSUME NEW n \in Nodes, SendWake(n)
      PROVE  \A e \in queue' : e \in queue \/ (e.kind # "RX_BYTE" /\ e.time >= now)
  <2> DEFINE at == Capped(now + WakeDelay)
  <2>1. now + WakeDelay \in Nat
    BY SMT, <1>0 DEF Time
  <2>2. at \in Time
    BY <2>1, CappedTime
  <2>3. queue' = WakeIfEarlier(queue, n, at, generation[n], now)
    BY <1>4 DEF SendWake
  <2> HIDE DEF at
  <2> QED
    BY <1>0, <2>2, <2>3, WakeIsLate
<1>5. ASSUME NEW t \in 0 .. MaxTime \cup {Past}, Pin(t)
      PROVE  \A e \in queue' : e \in queue \/ (e.kind # "RX_BYTE" /\ e.time >= now)
  <2>1. \A e \in queue' : e \in queue \/ (e.kind = "TEST_ACTION" /\ e.time = t)
    BY SMT, <1>5 DEF Pin, Added
  <2>2. t >= now
    BY SMT, <1>0, <1>5, TimeFacts DEF Pin, Time
  <2> QED
    BY <2>1, <2>2
<1> QED
  BY <1>1, <1>2, <1>3, <1>4, <1>5 DEF Commands

LEMMA PumpPosts ==
  ASSUME WInv, NEW e \in queue,
         \/ e.kind = "NODE_WAKEUP" /\ dispatch_mote_wakeup(e, queue \ {e})
         \/ e.kind = "RX_BYTE" /\ deliver_rx_byte(e, queue \ {e})
         \/ queue' = queue \ {e}
  PROVE  \A f \in queue' : f \in queue \/ f.time >= e.time
<1> DEFINE n == e.node
           rest == queue \ {e}
<1>1. e.time \in Time /\ \A f \in rest : f.time \in Time
  BY DEF WInv, Current
<1>2. CASE e.kind = "NODE_WAKEUP" /\ dispatch_mote_wakeup(e, rest) /\ node_active(n, e.time)
  <2>1. PICK next \in e.time + 1 .. MaxTime \cup {Past}, q \in OnAir(rest, n, e.time) :
          queue' = WakeIfEarlier(q, n, next, generation[n], e.time)
    BY <1>2 DEF dispatch_mote_wakeup
  <2>2. next \in Time
    BY SMT, <1>1, TimeFacts DEF Time
  <2>3. \A f \in q : f.time \in Time /\ (f \in rest \/ f.time >= e.time)
    <3>1. CASE q = rest
      BY <1>1, <3>1
    <3>2. CASE q # rest
      <4>1. PICK r \in slots, at \in {e.time, Capped(e.time + 1)} :
              q = Added(rest, "RX_BYTE", r, at, generation[r])
        BY SMT, <3>2 DEF OnAir
      <4>2. e.time + 1 \in Nat
        BY SMT, <1>1 DEF Time
      <4>3. at \in Time /\ at >= e.time
        BY SMT, <1>1, <4>1, <4>2, CappedTime, TimeFacts DEF Time
      <4>4. \A f \in q : f \in rest \/ f.time = at
        BY SMT, <4>1 DEF Added
      <4> HIDE DEF rest
      <4> QED
        BY <1>1, <4>3, <4>4
    <3> QED
      BY <3>1, <3>2
  <2>4. \A f \in queue' : f \in q \/ f.time >= e.time
    BY <1>1, <2>1, <2>2, <2>3, WakeIsLate
  <2> QED
    BY <2>3, <2>4
<1>3. CASE e.kind = "RX_BYTE" /\ deliver_rx_byte(e, rest) /\ node_active(n, e.time)
  <2>1. queue' = WakeIfEarlier(rest, n, e.time, generation[n], e.time)
    BY <1>3 DEF deliver_rx_byte
  <2>2. \A f \in rest : f \in queue
    OBVIOUS
  <2> HIDE DEF rest
  <2> QED
    BY <1>1, <2>1, <2>2, WakeIsLate
<1>4. CASE queue' = rest
  BY <1>4
<1> QED
  BY <1>2, <1>3, <1>4 DEF dispatch_mote_wakeup, deliver_rx_byte
\* What one turn of the pump does to the clock and to the run control.
LEMMA PumpEventFacts ==
  ASSUME WInv, PumpEvent
  PROVE  \E e \in queue :
           /\ now' = e.time /\ e.time <= sim_ns /\ note_event(e)
           /\ run_state' \in {StateAfterNote(e), "STOP_REQUESTED"}
           /\ \A f \in queue' : f \in queue \/ f.time >= e.time
<1>1. PICK e \in queue :
        /\ now' = e.time /\ e.time <= sim_ns
        /\ IF event_is_current(e)
           THEN /\ note_event(e)
                /\ CASE e.kind = "NODE_WAKEUP" -> dispatch_mote_wakeup(e, queue \ {e})
                     [] e.kind = "RX_BYTE" -> deliver_rx_byte(e, queue \ {e})
                     [] OTHER -> queue' = queue \ {e} /\ UNCHANGED <<wanted, run_state, budget>>
           ELSE queue' = queue \ {e}
  BY DEF PumpEvent
<1>2. Current(e)
  BY DEF WInv
<1>3. event_is_current(e)
  BY <1>2 DEF Current, event_is_current
<1>4. \/ e.kind = "NODE_WAKEUP" /\ dispatch_mote_wakeup(e, queue \ {e})
      \/ e.kind = "RX_BYTE" /\ deliver_rx_byte(e, queue \ {e})
      \/ e.kind = "TEST_ACTION" /\ queue' = queue \ {e} /\ run_state' = run_state
  BY <1>1, <1>2, <1>3 DEF Current
<1>5. run_state' \in {StateAfterNote(e), "STOP_REQUESTED"}
  <2>1. CASE e.kind = "NODE_WAKEUP" /\ dispatch_mote_wakeup(e, queue \ {e})
    BY <2>1 DEF dispatch_mote_wakeup
  <2>2. CASE e.kind = "RX_BYTE" /\ deliver_rx_byte(e, queue \ {e})
    BY <2>2 DEF deliver_rx_byte
  <2>3. CASE e.kind = "TEST_ACTION" /\ run_state' = run_state
    BY <2>3 DEF StateAfterNote
  <2> QED
    BY <1>4, <2>1, <2>2, <2>3
<1>6. \A f \in queue' : f \in queue \/ f.time >= e.time
  BY <1>4, PumpPosts
<1> QED
  BY <1>1, <1>3, <1>5, <1>6

-----------------------------------------------------------------------------
(* The invariant of the run control: the budget of `step N`.               *)

\* Steps that leave the run control alone, and do not leave the pump paused.
LEMMA SteppingUnmoved ==
  ASSUME Stepping, UNCHANGED <<control, stepped, external>>,
         pc' = pc \/ pc # "pump" \/ ~step_armed \/ run_state # "PAUSED"
  PROVE  Stepping'
  BY DEF Stepping, Running, control

\* Steps that disarm it.
LEMMA SteppingOff ==
  ASSUME Stepping, step_armed' = FALSE, step_left' = 0, UNCHANGED <<asked, stepped>>,
         run_state' \in {"RUNNING", "PAUSED", "STOP_REQUESTED"}
  PROVE  Stepping'
<1>1. step_armed' \in BOOLEAN /\ ~step_armed'
  OBVIOUS
<1> QED
  BY <1>1 DEF Stepping

LEMMA SteppingKept ==
  ASSUME WInv, Stepping, [Next]_vars
  PROVE  Stepping'
<1>1. CASE UNCHANGED vars
  BY <1>1, SteppingUnmoved DEF vars, setup, loop
<1>2. CASE Top
  <2>1. UNCHANGED <<control, stepped, external>> /\ pc = "top"
    BY <1>2 DEF Top, LoopExit, LoopPaused, LoopOwnClock, LoopExternalClock, ClockGone,
                EnterPoll, setup, vars
  <2> QED
    BY <2>1, SteppingUnmoved
<1>3. CASE TimedAction
  BY <1>3, SteppingUnmoved DEF TimedAction, setup
<1>4. CASE PollDone
  BY <1>4, SteppingUnmoved DEF PollDone, setup
<1>5. CASE Pause \/ Resume
  <2>1. run_state' \in {"RUNNING", "PAUSED", "STOP_REQUESTED"}
    BY <1>5 DEF Pause, Resume, Unless
  <2> QED
    BY <1>5, <2>1, SteppingOff DEF Pause, Resume, Disarmed
<1>6. CASE RequestExit
  BY <1>6 DEF RequestExit, Command, setup, loop, Stepping, Running
<1>7. CASE \E d \in Durations : RunFor(d)
  <2>1. run_state' \in {"RUNNING", "PAUSED", "STOP_REQUESTED"}
    BY <1>7 DEF RunFor, Unless
  <2> QED
    BY <1>7, <2>1, SteppingOff DEF RunFor
<1>8. ASSUME NEW n \in StepCounts, StepEvents(n)
      PROVE  Stepping'
  <2>1. n \in Nat \ {0}
    BY CountsAssumption
  <2>2. run_state' \in {"RUNNING", "STOP_REQUESTED"}
    BY <1>8 DEF StepEvents, Unless
  <2> QED
    BY SMT, <1>8, <2>1, <2>2 DEF StepEvents, Command, setup, Stepping, Running
<1>9. CASE \/ \E n \in Nodes : Remove(n) \/ Reboot(n) \/ Add(n) \/ SendWake(n)
           \/ \E t \in 0 .. MaxTime \cup {Past} : Pin(t)
  <2>1. UNCHANGED <<control, stepped, external, pc>>
    BY <1>9 DEF Remove, Reboot, Add, SendWake, Pin, Command, setup, loop
  <2> QED
    BY <2>1, SteppingUnmoved
<1>10. CASE PumpEvent
  <2>1. PICK e \in queue : note_event(e) /\ run_state' \in {StateAfterNote(e), "STOP_REQUESTED"}
    BY <1>10, PumpEventFacts
  <2>2. /\ pc = "pump" /\ pc' = pc /\ run_state = "RUNNING"
        /\ UNCHANGED <<asked, step_armed, pause_at, external>>
    BY <1>10 DEF PumpEvent, Running, setup, loop
  <2>3. CASE step_armed /\ e.kind # "TEST_ACTION"
    <3>1. step_left > 0 /\ step_left' = step_left - 1 /\ stepped' = stepped + 1
      BY <2>1, <2>2, <2>3 DEF note_event, Stepping, Running
    <3>2. run_state' = "STOP_REQUESTED" \/ run_state' = IF step_left <= 1 THEN "PAUSED" ELSE "RUNNING"
      BY <2>1, <2>2, <2>3 DEF StateAfterNote, Unless
    <3> QED
      BY SMT, <2>2, <2>3, <3>1, <3>2 DEF Stepping, Running
  <2>4. CASE ~(step_armed /\ e.kind # "TEST_ACTION")
    <3>1. UNCHANGED <<step_left, stepped>> /\ run_state' \in {"RUNNING", "STOP_REQUESTED"}
      BY <2>1, <2>2, <2>4 DEF note_event, StateAfterNote
    <3> QED
      BY <2>2, <3>1 DEF Stepping, Running
  <2> QED
    BY <2>3, <2>4
<1>11. CASE PumpStopped
  BY <1>11, SteppingUnmoved DEF PumpStopped, setup
<1>12. CASE AfterPump
  <2>1. CASE AutoPause
    BY <1>12, <2>1, SteppingOff DEF AfterPump, Disarmed
  <2>2. CASE ~AutoPause
    BY SMT, <1>12, <2>2 DEF AfterPump, AutoPause, setup, Stepping, Running
  <2> QED
    BY <2>1, <2>2
<1>13. CASE Ended
  BY <1>13, SteppingUnmoved DEF Ended, vars, setup, loop
<1> QED
  BY <1>1, <1>2, <1>3, <1>4, <1>5, <1>6, <1>7, <1>8, <1>9, <1>10, <1>11, <1>12, <1>13
     DEF Next, Loop, Pump, Commands
-----------------------------------------------------------------------------
(* The invariant of the loop's own clock.                                  *)

LEMMA PunctualUnmoved ==
  ASSUME WInv, Punctual, UNCHANGED <<now, sim_ns, external, overran, pause_at>>,
         \A e \in queue' : e \in queue \/ e.time >= now,
         pc' = "top" /\ run_state' = "RUNNING" => pc = "top" /\ run_state = "RUNNING"
  PROVE  Punctual'
  BY DEF Punctual, Running

\* Steps that clear the pause.
LEMMA PunctualFree ==
  ASSUME WInv, Punctual, UNCHANGED <<now, sim_ns, external, overran, queue>>, pause_at' = Never
  PROVE  Punctual'
<1>1. sim_ns < Never /\ sim_ns \in Int
  BY TimeFacts DEF WInv, Shape
<1> QED
  BY SMT, <1>1, TimeFacts DEF Punctual

LEMMA RunForPunctual ==
  ASSUME WInv, Punctual, NEW d \in Durations, RunFor(d)
  PROVE  Punctual'
<1>1. UNCHANGED <<now, sim_ns, external, queue>> /\ overran' = (overran \/ d = 0)
      /\ pause_at' = Capped(now + d) /\ ~external
  BY DEF RunFor, Command, setup, loop, kernel
<1>2. overran' \in BOOLEAN /\ (~overran' => ~overran /\ d # 0)
  BY <1>1 DEF Punctual
<1>3. CASE ~overran'
  <2>1. now = sim_ns /\ sim_ns <= MaxTime /\ \A e \in queue : e.time >= sim_ns
    BY <1>1, <1>2, <1>3 DEF Punctual
  <2>2. sim_ns \in Int /\ d \in Nat /\ d # 0 /\ MaxTime \in Nat /\ MinAdvance \in Nat \ {0}
    BY <1>2, <1>3, TimesAssumption, TimeFacts DEF WInv, Shape
  <2>3. sim_ns < pause_at'
    BY SMT, <1>1, <2>1, <2>2 DEF Capped, Past
  <2>4. pause_at' \in Int
    BY SMT, <1>1, <2>1, <2>2 DEF Capped, Past
  <2>5. sim_ns <= pause_at'
    BY SMT, <2>2, <2>3, <2>4
  <2> QED
    BY <1>1, <1>2, <2>1, <2>3, <2>5 DEF Punctual
<1>4. CASE overran'
  BY <1>2, <1>4 DEF Punctual
<1> QED
  BY <1>3, <1>4

\* A slice ends at the next event or earlier, and before a pause that lies
\* ahead; the minimum advance is only taken at the -t horizon.
LEMMA OwnClockPunctual ==
  ASSUME WInv, Punctual, LoopOwnClock
  PROVE  Punctual'
<1>1. PICK next \in Moment : IsNextTime(next) /\ EnterPoll(SliceEnd(next))
  BY DEF LoopOwnClock, Moment
<1> DEFINE t == SliceEnd(next)
<1>2. /\ sim_ns' = t /\ now' = t /\ pc' = "poll" /\ overran' = (overran \/ t > horizon)
      /\ UNCHANGED <<external, queue, pause_at>>
  BY <1>1 DEF EnterPoll, setup, kernel, control
<1>3. ~external /\ pc = "top" /\ Running /\ sim_ns < MaxTime
  BY DEF LoopOwnClock
<1>4. overran' \in BOOLEAN /\ (~overran' => ~overran /\ ~(t > horizon))
  BY <1>2 DEF Punctual
<1>5. CASE ~overran'
  <2>1. /\ sim_ns < pause_at /\ \A e \in queue : e.time >= sim_ns
    BY <1>3, <1>4, <1>5 DEF Punctual
  <2>2. /\ sim_ns \in Int /\ pause_at \in Int /\ horizon \in Int /\ next \in Int /\ MaxTime \in Int
        /\ \A e \in queue : e.time \in Int
    BY SMT, TimeFacts DEF WInv, Shape, Current
  <2>3. SliceCap \in Nat \ {0} /\ MinAdvance \in Nat \ {0}
    BY TimesAssumption
  <2> DEFINE cap == slice_cap(Least(sim_ns + SliceCap, MaxTime))
  <2>4. /\ cap \in Int /\ cap <= MaxTime /\ cap <= pause_at
        /\ cap > sim_ns \/ horizon <= sim_ns
    <3>1. PICK a \in Int : a = Least(sim_ns + SliceCap, MaxTime) /\ a <= MaxTime /\ a > sim_ns
      BY SMT, <1>3, <2>2, <2>3 DEF Least
    <3>2. PICK b \in Int : b = Least(pause_at, horizon) /\ b <= pause_at
                           /\ (b > sim_ns \/ horizon <= sim_ns)
      BY SMT, <2>1, <2>2 DEF Least
    <3>3. cap = Least(a, b)
      BY <3>1, <3>2 DEF slice_cap
    <3> HIDE DEF cap
    <3> QED
      BY SMT, <2>2, <3>1, <3>2, <3>3 DEF Least
  <2>5. \/ t = sim_ns
        \/ t = sim_ns + MinAdvance /\ next > sim_ns /\ Least(cap, next) <= sim_ns
        \/ t = Least(cap, next) /\ t > sim_ns
    <3>1. PICK m \in Int : m = Least(cap, next)
      BY <2>2, <2>4 DEF Least
    <3>2. t = IF next <= sim_ns THEN sim_ns ELSE IF m <= sim_ns THEN sim_ns + MinAdvance ELSE m
      BY <3>1 DEF SliceEnd
    <3> HIDE DEF cap, t
    <3> QED
      BY SMT, <2>2, <2>3, <3>1, <3>2
  <2> HIDE DEF cap, t
  <2>6. t \in Int /\ t <= MaxTime /\ t <= pause_at /\ (t = sim_ns \/ t <= next)
    <3>1. CASE t = sim_ns
      BY SMT, <1>3, <2>1, <2>2, <3>1
    <3>2. CASE t = sim_ns + MinAdvance /\ next > sim_ns /\ Least(cap, next) <= sim_ns
      <4>1. horizon <= sim_ns
        BY SMT, <2>2, <2>4, <3>2 DEF Least
      <4>2. t > horizon
        BY SMT, <2>2, <2>3, <3>2, <4>1
      <4> QED
        BY <1>4, <1>5, <4>2
    <3>3. CASE t = Least(cap, next) /\ t > sim_ns
      BY SMT, <2>2, <2>4, <3>3 DEF Least
    <3> QED
      BY <2>5, <3>1, <3>2, <3>3
  <2>7. \A e \in queue : e.time >= t
    <3>1. \A e \in queue : next <= e.time
      BY <1>1 DEF IsNextTime
    <3> QED
      BY SMT, <2>1, <2>2, <2>6, <3>1
  <2> QED
    BY <1>2, <1>4, <2>6, <2>7 DEF Punctual
<1>6. CASE overran'
  BY <1>4, <1>6 DEF Punctual
<1> QED
  BY <1>5, <1>6

LEMMA ExternalClockPunctual ==
  ASSUME WInv, Punctual, Quiet, LoopExternalClock
  PROVE  Punctual'
<1>1. PICK end \in sim_ns .. MaxTime : EnterPoll(SubStep(end))
  BY DEF LoopExternalClock
<1>2. external /\ external' = external /\ pause_at' = Never
  BY <1>1 DEF LoopExternalClock, EnterPoll, setup, control, Quiet
<1>3. sim_ns' \in Time
  BY <1>1, SubStepTime DEF EnterPoll
<1>4. overran' \in BOOLEAN
  BY <1>1 DEF EnterPoll, Punctual
<1>5. sim_ns' <= Never
  BY SMT, <1>3, TimeFacts
<1> QED
  BY <1>2, <1>4, <1>5 DEF Punctual

LEMMA PumpEventPunctual ==
  ASSUME WInv, Punctual, PumpEvent
  PROVE  Punctual'
<1>1. PICK e \in queue :
        now' = e.time /\ e.time <= sim_ns /\ \A f \in queue' : f \in queue \/ f.time >= e.time
  BY PumpEventFacts
<1>2. UNCHANGED <<sim_ns, external, overran, pause_at, pc>> /\ pc = "pump"
  BY DEF PumpEvent, setup, loop
<1>3. sim_ns \in Int /\ e.time \in Int
  BY TimeFacts DEF WInv, Shape, Current
<1>4. ~external /\ ~overran => e.time = sim_ns
  BY SMT, <1>1, <1>3 DEF Punctual
<1> QED
  BY <1>1, <1>2, <1>4 DEF Punctual

LEMMA AfterPumpPunctual ==
  ASSUME WInv, Punctual, AfterPump
  PROVE  Punctual'
<1>1. UNCHANGED <<now, sim_ns, external, overran, queue>>
  BY DEF AfterPump, setup, kernel
<1>2. CASE AutoPause
  BY <1>1, <1>2, PunctualFree DEF AfterPump, Disarmed
<1>3. CASE ~AutoPause
  <2>1. pause_at' = pause_at
    BY <1>3 DEF AfterPump
  <2>2. /\ pause_at \in Int /\ now \in Int /\ sim_ns \in Int /\ sim_ns < Never
        /\ pause_at = Never \/ ~(now >= pause_at)
    BY <1>3, TimeFacts DEF AutoPause, WInv, Shape
  <2> QED
    BY SMT, <1>1, <2>1, <2>2 DEF Punctual
<1> QED
  BY <1>2, <1>3
-----------------------------------------------------------------------------
(* The invariant of timed actions: the air is quiet before them.           *)

LEMMA QuietUnmoved ==
  ASSUME Quiet, UNCHANGED <<plan, external, sim_ns, action_idx, pc>>,
         \A e \in queue' : e \in queue \/ e.kind # "RX_BYTE",
         external => pause_at' = Never /\ (pc \in {"poll", "pump"} => run_state' # "PAUSED")
  PROVE  Quiet'
<1>1. RxDue' \subseteq RxDue /\ TimedActionDue' = TimedActionDue
  BY DEF RxDue, TimedActionDue
<1> QED
  BY <1>1 DEF Quiet

LEMMA CommandsQuiet ==
  ASSUME WInv, Stepping, Quiet, Commands
  PROVE  Quiet'
<1>1. UNCHANGED <<plan, external, sim_ns, action_idx, pc>>
  BY DEF Commands, Pause, Resume, RunCommand, RequestExit, RunFor, StepEvents, Remove, Reboot,
         Add, SendWake, Pin, Command, setup, loop
<1>2. \A e \in queue' : e \in queue \/ e.kind # "RX_BYTE"
  BY CommandPosts
<1>3. external => pause_at' = Never
  BY DEF Commands, Pause, Resume, RequestExit, RunFor, StepEvents, Remove, Reboot,
         Add, SendWake, Pin, Disarmed, control, Quiet
<1>4. external /\ pc \in {"poll", "pump"} => run_state' # "PAUSED"
  BY DEF Commands, Pause, Resume, RunCommand, RequestExit, RunFor, StepEvents, Remove, Reboot,
         Add, SendWake, Pin, Command, control, Quiet, Unless
<1> QED
  BY <1>1, <1>2, <1>3, <1>4, QuietUnmoved

LEMMA ExternalClockQuiet ==
  ASSUME WInv, Quiet, LoopExternalClock
  PROVE  Quiet'
<1>1. PICK end \in sim_ns .. MaxTime : EnterPoll(SubStep(end))
  BY DEF LoopExternalClock
<1>2. /\ external /\ pc = "top" /\ run_state = "RUNNING" /\ pc' = "poll" /\ sim_ns' = SubStep(end)
      /\ UNCHANGED <<plan, external, action_idx, queue, pause_at, run_state>>
  BY <1>1 DEF LoopExternalClock, EnterPoll, Running, setup, kernel, control
<1>3. RxDue' = RxDue
  BY <1>2 DEF RxDue
<1>4. /\ sim_ns \in Int /\ SubStep(end) \in Int /\ end \in Int /\ action_idx \in Nat \ {0}
      /\ Len(plan) \in Nat /\ (action_idx <= Len(plan) => plan[action_idx].at \in Int)
      /\ \A e \in RxDue : e.time \in Int
  BY SMT, SubStepTime, TimeFacts DEF WInv, Shape, Current, RxDue
<1>5. ASSUME TimedActionDue'
      PROVE  \A e \in RxDue : e.time >= sim_ns'
  <2>1. CASE TimedActionDue
    BY <1>2, <2>1 DEF Quiet
  <2>2. CASE ~TimedActionDue
    <3> DEFINE at == plan[action_idx].at
    <3>1. action_idx <= Len(plan) /\ SubStep(end) >= at /\ sim_ns < at /\ at \in Int
      BY SMT, <1>2, <1>4, <1>5, <2>2 DEF TimedActionDue
    <3>2. at <= end
      BY <1>4, <3>1 DEF SubStep
    <3>3. SubStep(end) = IF at - 1 > sim_ns THEN at - 1 ELSE at
      BY <3>1, <3>2 DEF SubStep
    <3> HIDE DEF at
    <3>4. sim_ns' = sim_ns + 1
      BY SMT, <1>2, <1>4, <3>1, <3>3
    <3>5. \A e \in RxDue : e.time > sim_ns
      BY <1>2 DEF Quiet
    <3> QED
      BY SMT, <1>4, <3>4, <3>5
  <2> QED
    BY <2>1, <2>2
<1> QED
  BY <1>2, <1>3, <1>5 DEF Quiet

LEMMA PumpQuiet ==
  ASSUME WInv, Stepping, Quiet, PumpEvent
  PROVE  Quiet'
<1>1. UNCHANGED <<plan, external, sim_ns, action_idx, pc, pause_at>> /\ pc = "pump"
      /\ run_state = "RUNNING"
  BY DEF PumpEvent, Running, setup, loop
<1>2. PICK e \in queue : run_state' \in {StateAfterNote(e), "STOP_REQUESTED"}
  BY PumpEventFacts
<1>3. external => run_state' # "PAUSED"
  BY <1>1, <1>2 DEF StateAfterNote, Stepping
<1>4. TimedActionDue' = TimedActionDue
  BY <1>1 DEF TimedActionDue
<1> QED
  BY <1>1, <1>3, <1>4 DEF Quiet

LEMMA AfterPumpQuiet ==
  ASSUME WInv, Stepping, Quiet, AfterPump
  PROVE  Quiet'
<1>1. UNCHANGED <<plan, external, sim_ns, action_idx, queue>> /\ pc = "pump" /\ pc' = "top"
      /\ run_state # "STOP_REQUESTED" /\ PumpReturns
  BY DEF AfterPump, setup, kernel
<1>2. ~TimedActionDue'
  BY <1>1 DEF TimedActionDue, Quiet
<1>3. external => pause_at' = Never
  BY DEF AfterPump, Disarmed, Quiet
<1>4. external => \A e \in RxDue' : e.time > sim_ns'
  BY <1>1 DEF PumpReturns, Running, RxDue, Quiet, Stepping
<1> QED
  BY <1>1, <1>2, <1>3, <1>4 DEF Quiet
-----------------------------------------------------------------------------
(* The second invariant holds.                                             *)

LEMMA InitPunctual ==
  ASSUME Init
  PROVE  SInv
<1>1. WInv
  BY InitKept
<1>2. /\ now = 0 /\ sim_ns = 0 /\ pc = "top" /\ pause_at = Never /\ overran = FALSE
      /\ step_armed = FALSE /\ step_left = 0 /\ asked = 0 /\ stepped = 0
      /\ run_state \in {"RUNNING", "PAUSED"}
  BY DEF Init
<1>3. Stepping
  <2>1. step_armed \in BOOLEAN /\ ~step_armed
    BY <1>2
  <2> QED
    BY SMT, <1>2, <2>1 DEF Stepping
<1>4. Punctual
  <2>1. \A e \in queue : e.time >= 0
    BY SMT, <1>1 DEF WInv, Current, Time
  <2>2. overran \in BOOLEAN /\ 0 < Never /\ 0 <= Never /\ 0 <= MaxTime
    <3>1. overran \in BOOLEAN
      BY <1>2
    <3>2. 0 < Never /\ 0 <= MaxTime
      BY SMT, TimesAssumption DEF Never, Past
    <3> QED
      BY SMT, <3>1, <3>2, TimeFacts
  <2>3. sim_ns <= pause_at /\ sim_ns < pause_at /\ now = sim_ns /\ sim_ns <= MaxTime
    BY <1>2, <2>2
  <2>4. \A e \in queue : e.time >= sim_ns
    BY <1>2, <2>1
  <2> QED
    BY <2>2, <2>3, <2>4 DEF Punctual
<1>5. Quiet
  <2>1. RxDue = {}
    BY SMT DEF Init, RxDue
  <2> QED
    BY <1>2, <2>1 DEF Quiet
<1> QED
  BY <1>3, <1>4, <1>5 DEF SInv

LEMMA NextPunctual ==
  ASSUME WInv, SInv, [Next]_vars
  PROVE  Punctual'
<1> USE DEF SInv
<1>1. CASE UNCHANGED vars \/ Ended \/ LoopPaused
  BY <1>1, PunctualUnmoved DEF Ended, LoopPaused, vars, setup, kernel, control, loop
<1>2. CASE LoopExit \/ ClockGone \/ PumpStopped
  BY <1>2, PunctualUnmoved DEF LoopExit, ClockGone, PumpStopped, setup, kernel, control
<1>3. CASE LoopOwnClock
  BY <1>3, OwnClockPunctual
<1>4. CASE LoopExternalClock
  BY <1>4, ExternalClockPunctual
<1>5. CASE TimedAction
  <2>1. queue' \subseteq queue
    BY <1>5, TimedActionPosts
  <2> QED
    BY <1>5, <2>1, PunctualUnmoved DEF TimedAction, setup, control
<1>6. CASE PollDone
  BY <1>6, PunctualUnmoved DEF PollDone, setup, kernel, control
<1>7. CASE Pause \/ Resume \/ \E n \in StepCounts : StepEvents(n)
  BY <1>7, PunctualFree DEF Pause, Resume, Disarmed, RunCommand, StepEvents, Command,
                            setup, kernel, loop
<1>8. CASE \E d \in Durations : RunFor(d)
  BY <1>8, RunForPunctual
<1>9. CASE \/ RequestExit
           \/ \E n \in Nodes : Remove(n) \/ Reboot(n) \/ Add(n) \/ SendWake(n)
           \/ \E t \in 0 .. MaxTime \cup {Past} : Pin(t)
  <2>1. /\ UNCHANGED <<now, sim_ns, external, overran, pause_at, pc>>
        /\ run_state' \in {run_state, "STOP_REQUESTED"}
    BY <1>9 DEF RequestExit, Remove, Reboot, Add, SendWake, Pin, Command, setup, control, loop
  <2>2. \A e \in queue' : e \in queue \/ e.time >= now
    BY <1>9, CommandPosts DEF Commands
  <2> QED
    BY <2>1, <2>2, PunctualUnmoved
<1>10. CASE PumpEvent
  BY <1>10, PumpEventPunctual
<1>11. CASE AfterPump
  BY <1>11, AfterPumpPunctual
<1> QED
  BY <1>1, <1>2, <1>3, <1>4, <1>5, <1>6, <1>7, <1>8, <1>9, <1>10, <1>11
     DEF Next, Loop, Top, Pump, Commands

LEMMA NextQuiet ==
  ASSUME WInv, SInv, [Next]_vars
  PROVE  Quiet'
<1> USE DEF SInv
<1>1. CASE UNCHANGED vars \/ Ended \/ LoopPaused
  <2>1. UNCHANGED <<plan, external, sim_ns, action_idx, pc, queue, pause_at, run_state>>
    BY <1>1 DEF Ended, LoopPaused, vars, setup, kernel, control, loop
  <2> QED
    BY <2>1, QuietUnmoved DEF Quiet
<1>2. CASE LoopExit \/ ClockGone \/ PumpStopped
  <2>1. pc' = "end" /\ UNCHANGED <<external, pause_at>>
    BY <1>2 DEF LoopExit, ClockGone, PumpStopped, setup, control
  <2> QED
    BY <2>1 DEF Quiet
<1>3. CASE LoopOwnClock
  <2>1. ~external' /\ pc' = "poll"
    BY SMT, <1>3 DEF LoopOwnClock, EnterPoll, setup
  <2> QED
    BY <2>1 DEF Quiet
<1>4. CASE LoopExternalClock
  BY <1>4, ExternalClockQuiet
<1>5. CASE TimedAction
  <2>1. queue' \subseteq queue
    BY <1>5, TimedActionPosts
  <2>2. RxDue' \subseteq RxDue
    BY <2>1 DEF RxDue
  <2>3. pc = "poll" /\ pc' = pc /\ TimedActionDue
        /\ UNCHANGED <<external, sim_ns, pause_at, run_state>>
    BY <1>5 DEF TimedAction, setup, control
  <2> QED
    BY <2>2, <2>3 DEF Quiet
<1>6. CASE PollDone
  <2>1. /\ pc = "poll" /\ ~TimedActionDue
        /\ UNCHANGED <<external, plan, sim_ns, action_idx, pause_at, run_state>>
    BY <1>6 DEF PollDone, setup, control
  <2>2. ~TimedActionDue'
    BY <2>1 DEF TimedActionDue
  <2>3. \/ pc' = "end" \/ (pc' = "top" /\ run_state = "PAUSED")
        \/ (pc' = "pump" /\ run_state # "PAUSED")
    BY <1>6 DEF PollDone, Stepping
  <2> QED
    BY <2>1, <2>2, <2>3 DEF Quiet
<1>7. CASE Commands
  BY <1>7, CommandsQuiet
<1>8. CASE PumpEvent
  BY <1>8, PumpQuiet
<1>9. CASE AfterPump
  BY <1>9, AfterPumpQuiet
<1> QED
  BY <1>1, <1>2, <1>3, <1>4, <1>5, <1>6, <1>7, <1>8, <1>9 DEF Next, Loop, Top, Pump

\* `step N` dispatches exactly N events, and `run <duration>` never runs past
\* its end, for every sequence of commands and whatever the motes do
\* (sim_control.c: note_event, slice_cap, after_pump).
THEOREM RunControlIsExact == Spec => []StopsExactly
<1>1. Init => WInv /\ SInv
  BY InitKept, InitPunctual
<1>2. WInv /\ SInv /\ [Next]_vars => (WInv /\ SInv)'
  BY NextKeeps, SteppingKept, NextPunctual, NextQuiet DEF SInv
<1>3. WInv /\ SInv => StopsExactly
  BY DEF SInv, Stepping, Punctual, StopsExactly
<1> QED
  BY <1>1, <1>2, <1>3, PTL DEF Spec

\* Every byte due before a timed action has been delivered when the action is
\* applied, for every plan and every quantum an external clock may give (the
\* loop's sub-step one nanosecond short of the action).
THEOREM ActionsFindTheAirQuiet == Spec => []ActionsInOrder
<1>1. Init => WInv /\ SInv
  BY InitKept, InitPunctual
<1>2. WInv /\ SInv /\ [Next]_vars => (WInv /\ SInv)'
  BY NextKeeps, SteppingKept, NextPunctual, NextQuiet DEF SInv
<1>3. WInv /\ SInv => ActionsInOrder
  <2> SUFFICES ASSUME WInv, SInv, pc = "poll", TimedActionDue, external \/ ~overran,
                      NEW e \in queue, e.kind = "RX_BYTE"
               PROVE  e.time >= plan[action_idx].at
    BY DEF ActionsInOrder
  <2>1. e.time >= sim_ns
    <3>1. e \in RxDue
      BY DEF RxDue
    <3>2. CASE external
      BY <3>1, <3>2 DEF SInv, Quiet
    <3>3. CASE ~external
      BY <3>3 DEF SInv, Punctual
    <3> QED
      BY <3>2, <3>3
  <2>2. sim_ns >= plan[action_idx].at
    BY DEF TimedActionDue
  <2>3. e.time \in Int /\ sim_ns \in Int
    BY TimeFacts DEF WInv, Shape, Current
  <2>4. plan[action_idx].at \in Int
    BY SMT DEF WInv, Shape, TimedActionDue
  <2> QED
    BY SMT, <2>1, <2>2, <2>3, <2>4
<1> QED
  BY <1>1, <1>2, <1>3, PTL DEF Spec
=============================================================================
