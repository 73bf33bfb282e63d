------------------------------ MODULE SimKernel ------------------------------
(***************************************************************************)
(* The simulation kernel: the clock, event pump and mote generations of    *)
(* src/sim/sim_runtime.c, the run control of src/sim/sim_control.c, and    *)
(* the loop of test/test_mixed_multinode.c that drives them.               *)
(*                                                                         *)
(* The queue is the set EventQueue specifies.  Its order is (time, seq);   *)
(* seq is renumbered per instant, which keeps the order of ties and drops  *)
(* the rest of the code's 64-bit counter.  Every mote is an emulated one   *)
(* (MSP430 or ARM): execute() returns a wakeup in the future, may put a    *)
(* byte on the air and may end in a stop request.                          *)
(***************************************************************************)
EXTENDS Integers, FiniteSets, Sequences

CONSTANTS
  Nodes, NoNode,  \* mote slots, and the -1 of an event tied to no slot
  MaxTime,        \* end_ns
  SliceCap,       \* longest slice (UI 100 ms, shell 1 s of simulated time)
  MinAdvance,     \* the loop's 1 us minimum advance
  WakeDelay,      \* the 1 ms after which a mote reads injected serial input
  GenWrap,        \* generations before the uint32_t wraps back to 1
  Starts,         \* start times the configuration's startup delay gives
  Durations,      \* arguments of `run <duration>`
  Horizons,       \* arguments of -t in a shell session
  StepCounts,     \* arguments of `step N`
  Setups,         \* sessions: is a sim_clock_source_t installed, and the timed
                  \* actions of the configuration (config.test.actions)
  Budget          \* bound on commands given and bytes put on the air

ASSUME NodesAssumption == NoNode \notin Nodes
ASSUME TimesAssumption ==
  /\ MaxTime \in Nat \ {0} /\ SliceCap \in Nat \ {0} /\ MinAdvance \in Nat \ {0}
  /\ WakeDelay \in Nat /\ Starts \subseteq 0 .. MaxTime /\ Durations \subseteq Nat
  /\ Horizons \subseteq Nat \ {0} /\ \A h \in Horizons : h + MinAdvance <= MaxTime
ASSUME CountsAssumption ==
  /\ GenWrap \in Nat \ {0} /\ StepCounts \subseteq Nat \ {0}
  /\ Budget \in Nat
ASSUME SetupsAssumption ==
  Setups \subseteq
    [external : BOOLEAN,
     plan : Seq([at : 0 .. MaxTime, type : {"REMOVE", "ADD"}, node : Nodes])]

VARIABLES
  external,     \* an external clock drives the run; fixed at start
  plan,         \* config.test.actions; fixed at start
  now,          \* sim_rt.now_ns
  sim_ns,       \* end of the loop's current slice
  queue,        \* sim_rt.event_queue
  generation,   \* sim_rt.mote_generation
  start_ns,     \* node_start_ns, the start gate
  slots,        \* slots below node_count
  dead,         \* slots whose reboot failed: their platform is freed
  run_state,    \* sim_rt.run_state
  pause_at,     \* sim_ctl.pause_at_ns
  step_armed,   \* sim_ctl.step_armed
  step_left,    \* sim_ctl.step_events_left
  horizon,      \* sim_ctl.horizon_ns
  quantum_end,  \* end of the external clock's current quantum
  action_idx,   \* next timed action
  pc,           \* "top" of the loop, service "poll", event "pump", "end"
  budget,       \* what is left of Budget
  wanted,       \* history: when each slot asked to run next (Never: not)
  asked,        \* history: argument of the last `step N`
  stepped,      \* history: events dispatched since then
  overran       \* history: the minimum advance may have passed a pause

kernel == <<queue, generation>>
motes == <<start_ns, slots, dead, wanted>>
control == <<run_state, pause_at, step_armed, step_left, horizon, asked>>
loop == <<sim_ns, quantum_end, action_idx, pc>>
setup == <<external, plan>>
vars == <<setup, now, kernel, motes, control, loop, budget, stepped, overran>>

Past == MaxTime + MinAdvance   \* any time after the last slice
Never == Past + 1              \* INT64_MAX
Time == 0 .. Past

Gens == 1 .. GenWrap
Event == [kind : {"NODE_WAKEUP", "RX_BYTE", "TEST_ACTION"},
          node : Nodes \cup {NoNode}, time : Time, seq : Nat, gen : Gens \cup {0}]

Least(a, b) == IF a <= b THEN a ELSE b
Latest(a, b) == IF a >= b THEN a ELSE b
\* Times beyond the end of the run are not told apart.
Capped(t) == IF t <= MaxTime THEN t ELSE Past

-----------------------------------------------------------------------------
(* Scheduling: the wrappers of sim_runtime.c over the queue.               *)

Wakes(e, n) == e.kind = "NODE_WAKEUP" /\ e.node = n

First(e) == \A f \in queue : e.time < f.time \/ (e.time = f.time /\ e.seq <= f.seq)

\* sim_eq_peek_time.
IsNextTime(t) ==
  /\ \A e \in queue : t <= e.time
  /\ IF queue = {} THEN t = Never ELSE \E e \in queue : e.time = t

\* A seq after those of the events pending at t.
FreshSeq(q, t) ==
  LET taken == {e.seq : e \in {f \in q : f.time = t}}
  IN  IF taken = {} THEN 1 ELSE 1 + (CHOOSE s \in taken : \A r \in taken : r <= s)

Added(q, k, n, t, g) ==
  q \cup {[kind |-> k, node |-> n, time |-> t, seq |-> FreshSeq(q, t), gen |-> g]}

clamp_to_now(t, clock) == Latest(t, clock)

\* sim_schedule_mote_wakeup_if_earlier: one wakeup per slot, moved only to
\* an earlier time.  The pending one is compared by time alone.
WakeIfEarlier(q, n, t, g, clock) ==
  LET at == clamp_to_now(t, clock)
      pending == {e \in q : Wakes(e, n)}
  IN  IF \E e \in pending : e.time <= at
      THEN q
      ELSE Added(q \ pending, "NODE_WAKEUP", n, at, g)

\* Mutation: a cancel that forgets the slot's wakeup.
cancel_bytes_only(q, n) == {e \in q : e.node # n \/ e.kind = "NODE_WAKEUP"}

cancel_mote_events(q, n) == {e \in q : e.node # n}

bump_mote_generation(g) == IF g = GenWrap THEN 1 ELSE g + 1

event_is_current(e) == e.gen = 0 \/ e.gen = generation[e.node]

node_active(n, clock) == n \in slots /\ clock >= start_ns[n]

-----------------------------------------------------------------------------
(* Start of the run: slots booted, one wakeup per slot at its start time   *)
(* (in slot order, so any order of ties), the clock at the first of them,  *)
(* paused or not (--paused).  The STOPPED of sim_runtime_init is RUNNING   *)
(* here: no code tells the two apart.                                      *)

Init ==
  /\ \E s \in Setups : external = s.external /\ plan = s.plan
  /\ slots \in SUBSET Nodes /\ slots # {}
  /\ start_ns \in [Nodes -> Starts \cup {0}] /\ \E n \in slots : start_ns[n] = 0
  /\ \A n \in Nodes \ slots : start_ns[n] = 0
  /\ generation = [n \in Nodes |-> IF n \in slots THEN bump_mote_generation(1) ELSE 1]
  /\ \E order \in [slots -> 1 .. Cardinality(slots)] :
       /\ \A m, n \in slots : m # n => order[m] # order[n]
       /\ queue = {[kind |-> "NODE_WAKEUP", node |-> n, time |-> start_ns[n],
                    seq |-> order[n], gen |-> generation[n]] : n \in slots}
  /\ wanted = [n \in Nodes |-> IF n \in slots THEN start_ns[n] ELSE Never]
  /\ now = 0 /\ sim_ns = 0
  /\ dead = {}
  /\ run_state \in {"RUNNING", "PAUSED"}
  /\ horizon \in {Never} \cup (IF run_state = "PAUSED" THEN {} ELSE Horizons)
  /\ pause_at = Never /\ step_armed = FALSE /\ step_left = 0
  /\ quantum_end = -1 /\ action_idx = 1 /\ pc = "top"
  /\ budget = Budget /\ asked = 0 /\ stepped = 0 /\ overran = FALSE

-----------------------------------------------------------------------------
(* The top of the loop.                                                    *)

Running == run_state = "RUNNING"

LoopExit ==
  /\ pc = "top"
  /\ run_state = "STOP_REQUESTED" \/ (~external /\ sim_ns >= MaxTime)
  /\ pc' = "end"
  /\ UNCHANGED <<setup, now, kernel, motes, control, sim_ns, quantum_end, action_idx,
                 budget, stepped, overran>>

\* A paused iteration in which no command arrives.
LoopPaused ==
  /\ pc = "top" /\ run_state = "PAUSED" /\ (external \/ sim_ns < MaxTime)
  /\ UNCHANGED vars

\* Mutation: the -t horizon alone caps a slice.
slice_cap_horizon(t) == Least(t, horizon)

slice_cap(t) == Least(t, Least(pause_at, horizon))

\* The slice ends at the next event, capped.
SliceEnd(next) ==
  LET max_ns == Least(slice_cap(Least(sim_ns + SliceCap, MaxTime)), next)
  IN  IF next <= sim_ns THEN sim_ns
      ELSE IF max_ns <= sim_ns THEN sim_ns + MinAdvance
      ELSE max_ns

EnterPoll(t) ==
  /\ sim_ns' = t /\ now' = t /\ pc' = "poll"
  /\ overran' = (overran \/ t > horizon)
  /\ UNCHANGED <<setup, kernel, motes, control, action_idx, budget, stepped>>

LoopOwnClock ==
  /\ ~external /\ pc = "top" /\ Running /\ sim_ns < MaxTime
  /\ \E next \in Time \cup {Never} : IsNextTime(next) /\ EnterPoll(SliceEnd(next))
  /\ UNCHANGED quantum_end

\* Mutation: the quantum stops on the action in one move.
SubStepOnce(end) ==
  IF /\ action_idx <= Len(plan)
     /\ sim_ns < plan[action_idx].at /\ plan[action_idx].at <= end
  THEN plan[action_idx].at
  ELSE end

\* The quantum is run in one slice, except that a timed action splits it.
SubStep(end) ==
  IF /\ action_idx <= Len(plan)
     /\ sim_ns < plan[action_idx].at /\ plan[action_idx].at <= end
  THEN LET at == plan[action_idx].at
       IN  IF at - 1 > sim_ns THEN at - 1 ELSE at
  ELSE end

LoopExternalClock ==
  /\ external /\ pc = "top" /\ Running
  /\ \E end \in sim_ns .. MaxTime :
       /\ IF quantum_end <= sim_ns THEN end > sim_ns ELSE end = quantum_end
       /\ quantum_end' = end
       /\ EnterPoll(SubStep(end))

\* next_horizon < 0: the master is gone.
ClockGone ==
  /\ external /\ pc = "top" /\ Running /\ quantum_end <= sim_ns
  /\ pc' = "end"
  /\ UNCHANGED <<setup, now, kernel, motes, control, sim_ns, quantum_end, action_idx,
                 budget, stepped, overran>>

-----------------------------------------------------------------------------
(* Mutations of sim_control.c over the runner's ctl_* primitives.          *)

Owe(n, t) == [wanted EXCEPT ![n] = Least(@, clamp_to_now(t, now))]

\* ctl_remove only closes the start gate; what is pending is swallowed.
Removed(n) ==
  /\ start_ns' = [start_ns EXCEPT ![n] = Never]
  /\ UNCHANGED <<kernel, slots, dead, wanted>>

\* reboot_node and init_node each cancel and bump; then boot, start, wake.
Rebooted(n, wake) ==
  LET g == bump_mote_generation(bump_mote_generation(generation[n]))
      q == cancel_mote_events(queue, n)
  IN  /\ generation' = [generation EXCEPT ![n] = g]
      /\ dead' = dead \ {n}
      /\ start_ns' = [start_ns EXCEPT ![n] = now]
      /\ queue' = IF wake THEN WakeIfEarlier(q, n, now, g, now) ELSE q
      /\ wanted' = [wanted EXCEPT ![n] = IF wake THEN now ELSE Never]
      /\ UNCHANGED slots

\* boot failed: the start gate and the radio registration stay as they were.
RebootFailed(n) ==
  /\ generation' = [generation EXCEPT
                      ![n] = bump_mote_generation(bump_mote_generation(@))]
  /\ dead' = dead \cup {n}
  /\ queue' = cancel_mote_events(queue, n)
  /\ wanted' = [wanted EXCEPT ![n] = Never]
  /\ UNCHANGED <<start_ns, slots>>

TimedActionDue == action_idx <= Len(plan) /\ sim_ns >= plan[action_idx].at

TimedAction ==
  /\ pc = "poll" /\ TimedActionDue
  /\ LET act == plan[action_idx]
     IN  \/ act.node \notin slots /\ UNCHANGED <<kernel, motes>>
         \/ act.node \in slots /\ act.type = "REMOVE" /\ Removed(act.node)
         \/ act.node \in slots /\ act.type = "ADD" /\ Rebooted(act.node, FALSE)
         \/ act.node \in slots /\ act.type = "ADD" /\ RebootFailed(act.node)
  /\ action_idx' = action_idx + 1
  /\ UNCHANGED <<setup, now, control, sim_ns, quantum_end, pc, budget, stepped, overran>>

-----------------------------------------------------------------------------
(* Commands: the shell and the UI while the services are polled, or while  *)
(* the loop waits paused.                                                  *)

Unless(state) == IF run_state = "STOP_REQUESTED" THEN run_state ELSE state

Command ==
  /\ budget > 0 /\ budget' = budget - 1
  /\ (pc = "poll" /\ ~TimedActionDue) \/ (pc = "top" /\ run_state = "PAUSED")
  /\ UNCHANGED <<setup, now, loop>>

\* The UI's buttons, read at the end of an iteration; the shell's commands,
\* which it refuses under an external clock.
RunCommand ==
  /\ budget > 0 /\ budget' = budget - 1
  /\ pc = "top" \/ (pc = "poll" /\ ~TimedActionDue /\ ~external)
  /\ UNCHANGED <<setup, now, loop, kernel, motes, horizon>>

Disarmed == pause_at' = Never /\ step_armed' = FALSE /\ step_left' = 0

Pause ==
  /\ RunCommand /\ Disarmed
  /\ run_state' = Unless("PAUSED")
  /\ UNCHANGED <<asked, stepped, overran>>

Resume ==
  /\ RunCommand /\ Disarmed
  /\ run_state' = Unless("RUNNING")
  /\ UNCHANGED <<asked, stepped, overran>>

RunFor(d) ==
  /\ ~external /\ Command
  /\ run_state' = Unless("RUNNING")
  /\ pause_at' = Capped(now + d) /\ step_armed' = FALSE /\ step_left' = 0
  /\ overran' = (overran \/ d = 0)
  /\ UNCHANGED <<kernel, motes, horizon, asked, stepped>>

StepEvents(n) ==
  /\ ~external /\ Command
  /\ run_state' = Unless("RUNNING")
  /\ pause_at' = Never /\ step_armed' = TRUE /\ step_left' = n
  /\ asked' = n /\ stepped' = 0
  /\ UNCHANGED <<kernel, motes, horizon, overran>>

RequestExit ==
  /\ Command
  /\ run_state' = "STOP_REQUESTED"
  /\ UNCHANGED <<kernel, motes, pause_at, step_armed, step_left, horizon, asked, stepped, overran>>

Remove(n) ==
  /\ Command /\ n \in slots /\ Removed(n)
  /\ UNCHANGED <<control, stepped, overran>>

Reboot(n) ==
  /\ Command /\ n \in slots
  /\ Rebooted(n, TRUE) \/ RebootFailed(n)
  /\ UNCHANGED <<control, stepped, overran>>

\* sim_control_add with START and WAKE, in the next free slot.  A failed
\* boot leaves the slot free, its events cancelled, its generation bumped.
Add(n) ==
  /\ Command /\ n \notin slots
  /\ LET g == bump_mote_generation(generation[n])
         q == cancel_mote_events(queue, n)
     IN  \/ /\ generation' = [generation EXCEPT ![n] = g]
            /\ slots' = slots \cup {n}
            /\ start_ns' = [start_ns EXCEPT ![n] = now]
            /\ queue' = WakeIfEarlier(q, n, now, g, now)
            /\ wanted' = [wanted EXCEPT ![n] = now]
            /\ UNCHANGED dead
         \/ /\ generation' = [generation EXCEPT ![n] = bump_mote_generation(g)]
            /\ queue' = cancel_mote_events(q, n)
            /\ UNCHANGED motes
  /\ UNCHANGED <<control, stepped, overran>>

\* sim_control_send with WAKE: the mote reads its input a little later.  Who
\* sends looks first whether the mote runs.
SendWake(n) ==
  /\ Command /\ node_active(n, now)
  /\ LET at == Capped(now + WakeDelay)
     IN  /\ queue' = WakeIfEarlier(queue, n, at, generation[n], now)
         /\ wanted' = Owe(n, at)
  /\ UNCHANGED <<generation, start_ns, slots, dead, control, stepped, overran>>

\* shell_pin: make the loop land on a deadline of the script.
Pin(t) ==
  /\ Command /\ t > now
  /\ queue' = Added(queue, "TEST_ACTION", NoNode, t, 0)
  /\ UNCHANGED <<generation, motes, control, stepped, overran>>

PollDone ==
  /\ pc = "poll" /\ ~TimedActionDue
  /\ pc' = CASE run_state = "STOP_REQUESTED" -> "end"
             [] run_state = "PAUSED" -> "top"
             [] OTHER -> "pump"
  /\ UNCHANGED <<setup, now, kernel, motes, control, sim_ns, quantum_end, action_idx,
                 budget, stepped, overran>>

-----------------------------------------------------------------------------
(* The pump: sim_runtime_run_until with mixed_dispatch_event.              *)

\* sim_control_note_event, before the event is dispatched.
note_event(e) ==
  IF step_armed /\ e.kind # "TEST_ACTION"
  THEN /\ step_left' = IF step_left > 0 THEN step_left - 1 ELSE 0
       /\ stepped' = stepped + 1
  ELSE UNCHANGED <<step_left, stepped>>

StateAfterNote(e) ==
  IF step_armed /\ e.kind # "TEST_ACTION" /\ step_left <= 1
  THEN Unless("PAUSED") ELSE run_state

\* A byte of n reaches an active receiver now or later in the slice.
OnAir(q, n, t) ==
  {q} \cup
  IF budget = 0 THEN {}
  ELSE {Added(q, "RX_BYTE", r, at, generation[r]) :
          r \in {m \in slots \ {n} : node_active(m, t)}, at \in {t, Capped(t + 1)}}

dispatch_mote_wakeup(e, rest) ==
  LET n == e.node
  IN  IF ~node_active(n, e.time)
      THEN /\ queue' = rest
           /\ wanted' = [wanted EXCEPT ![n] = Never]
           /\ run_state' = StateAfterNote(e)
           /\ UNCHANGED budget
      ELSE \E next \in e.time + 1 .. MaxTime \cup {Past}, q \in OnAir(rest, n, e.time) :
             /\ queue' = WakeIfEarlier(q, n, next, generation[n], e.time)
             /\ wanted' = [wanted EXCEPT ![n] = next]
             /\ budget' = IF q = rest THEN budget ELSE budget - 1
             /\ run_state' \in {StateAfterNote(e), "STOP_REQUESTED"}

\* sync_to_time, receive, then a wakeup at the byte's own time.
deliver_rx_byte(e, rest) ==
  LET n == e.node
  IN  /\ IF node_active(n, e.time)
         THEN /\ queue' = WakeIfEarlier(rest, n, e.time, generation[n], e.time)
              /\ wanted' = [wanted EXCEPT ![n] = Least(@, e.time)]
         ELSE queue' = rest /\ UNCHANGED wanted
      /\ run_state' = StateAfterNote(e)
      /\ UNCHANGED budget

\* One turn of the pump.  The clock moves before the generation check.
PumpEvent ==
  /\ pc = "pump" /\ Running
  /\ \E e \in queue :
       /\ First(e) /\ e.time <= sim_ns
       /\ now' = e.time
       /\ IF event_is_current(e)
          THEN /\ note_event(e)
               /\ CASE e.kind = "NODE_WAKEUP" -> dispatch_mote_wakeup(e, queue \ {e})
                    [] e.kind = "RX_BYTE" -> deliver_rx_byte(e, queue \ {e})
                    [] OTHER -> queue' = queue \ {e} /\ UNCHANGED <<wanted, run_state, budget>>
          ELSE /\ queue' = queue \ {e}
               /\ UNCHANGED <<wanted, run_state, budget, step_left, stepped>>
  /\ UNCHANGED <<setup, generation, start_ns, slots, dead, pause_at, step_armed, horizon,
                 asked, loop, overran>>

\* Mutation: the pump leaves the events at the horizon itself.
PumpReturnsEarly == ~Running \/ \A e \in queue : e.time >= sim_ns

PumpReturns == ~Running \/ \A e \in queue : e.time > sim_ns

\* The pump returned on a stop request: the loop breaks.
PumpStopped ==
  /\ pc = "pump" /\ run_state = "STOP_REQUESTED"
  /\ pc' = "end"
  /\ UNCHANGED <<setup, now, kernel, motes, control, sim_ns, quantum_end, action_idx,
                 budget, stepped, overran>>

\* sim_control_after_pump.
AutoPause ==
  \/ pause_at # Never /\ now >= pause_at
  \/ step_armed /\ step_left <= 0
  \/ horizon # Never /\ now >= horizon

AfterPump ==
  /\ pc = "pump" /\ run_state # "STOP_REQUESTED" /\ PumpReturns
  /\ horizon' = IF now >= horizon THEN Never ELSE horizon
  /\ IF AutoPause
     THEN run_state' = "PAUSED" /\ Disarmed
     ELSE UNCHANGED <<run_state, pause_at, step_armed, step_left>>
  /\ pc' = "top"
  /\ UNCHANGED <<setup, now, kernel, motes, asked, sim_ns, quantum_end, action_idx,
                 budget, stepped, overran>>

Ended == pc = "end" /\ UNCHANGED vars

Top == LoopExit \/ LoopPaused \/ LoopOwnClock \/ LoopExternalClock \/ ClockGone
Commands ==
  \/ Pause \/ Resume \/ RequestExit
  \/ \E d \in Durations : RunFor(d)
  \/ \E n \in StepCounts : StepEvents(n)
  \/ \E n \in Nodes : Remove(n) \/ Reboot(n) \/ Add(n) \/ SendWake(n)
  \/ \E t \in 0 .. MaxTime \cup {Past} : Pin(t)
Pump == PumpEvent \/ PumpStopped \/ AfterPump
Loop == Top \/ TimedAction \/ PollDone \/ Pump

Next == Loop \/ Commands \/ Ended

Spec == Init /\ [][Next]_vars
\* The runner's thread never stops taking its next step; nobody has to type.
FairSpec == Spec /\ WF_vars(Loop)

-----------------------------------------------------------------------------
(* Properties.                                                             *)

\* A wakeup a mote was promised is never lost: whatever reboots, removals and
\* bytes came between, a slot that asked to run at t has a wakeup of its
\* present generation pending at t or earlier (sim_runtime.c: if_earlier
\* compares times only, so a stale wakeup would swallow the request).  And a
\* started mote keeps running: a slot past its start gate, whose last boot
\* succeeded, always has a wakeup pending.  The timed add of a configuration
\* reboots its slot without a wakeup (TimedAction), so such a slot is left out.
ReAdded == {plan[i].node : i \in {j \in 1 .. action_idx - 1 : plan[j].type = "ADD"}}
NoLostWakeup ==
  \A n \in Nodes :
    LET pending == {e \in queue : Wakes(e, n) /\ e.gen = generation[n]} IN
    /\ wanted[n] # Never => \E e \in pending : e.time <= wanted[n]
    /\ n \in slots \ (dead \cup ReAdded) /\ start_ns[n] <= now => pending # {}

\* `step N` dispatches N events and no more before the run is paused again
\* (sim_control.c: "exactly N events run"), time pins not counted; and
\* `run <duration>` pauses on time: the loop never runs past pause_at
\* (sim_control.c, the slice cap and the check after the pump).  The last is
\* not claimed after `run 0`, nor once the -t horizon was passed: a slice that
\* begins where it should stop still advances by the loop's minimum.
StopsExactly ==
  /\ stepped <= asked
  /\ step_armed => stepped + step_left = asked
  /\ step_armed /\ pc = "top" => run_state # "PAUSED"
  /\ ~overran => sim_ns <= pause_at

\* A timed action finds the air quiet before it: every byte due before its
\* time has been delivered when it is applied, also inside an external clock's
\* quantum (the sub-step "so the pump reaches it").  Wakeups are not claimed:
\* a command typed while paused one nanosecond short of the action asks for
\* one in between; nor is a run of its own clock that overran.
ActionsInOrder ==
  pc = "poll" /\ TimedActionDue /\ (external \/ ~overran) =>
    \A e \in queue : e.kind = "RX_BYTE" => e.time >= plan[action_idx].at

\* Simulated time never stands still: a run that nobody pauses serves what is
\* due and comes to its end (the loop stays at an instant while events are due
\* there, and the pump must have taken them all before the next slice).
RunProgresses == run_state = "RUNNING" ~> run_state = "PAUSED" \/ pc = "end"
=============================================================================
