----------------------------- MODULE TestRunner -----------------------------
(***************************************************************************)
(* The loop of test/test_mixed_multinode.c as the two test engines see it: *)
(* a run has a script (JsTestEngine) or a configured test (JsonTest).      *)
(*                                                                         *)
(* One iteration advances the time, serves the script, pumps the events of *)
(* the interval and looks at the step timeouts.  What the motes print in   *)
(* it, and how far the event queue lets the time go, is left open.         *)
(***************************************************************************)
EXTENDS JsTestEngine, JsonTest, FiniteSetsExt

CONSTANTS
    Tests,              \* the configured tests, by name
    DrainMax,           \* actions the runner takes in one iteration
    Margin,             \* the horizon lies this far behind TIMEOUT
    GenMargin           \* and this far behind the last GENERATE_MSG

ASSUME RunnerAssumption ==
    /\ DrainMax \in Nat \ {0} /\ Margin \in Nat /\ GenMargin \in Nat
    /\ \A s \in Setups : s.test \in DOMAIN Tests
    /\ \A name \in DOMAIN Tests : Tests[name] \in TestConfig

VARIABLES
    now, end, pins,     \* sim_ns, end_ns, instants pinned in the event queue
    armed, known,       \* TIMEOUT and the messages known before the first YIELD
    sim_removed,        \* motes the runner has removed
    t,                  \* json_test_service_t
    console,            \* history: the lines printed
    reported            \* history: the script's verdict as printed

runnerVars == <<now, end, pins, armed, known, sim_removed, t, console, reported>>
vars == <<engineVars, runnerVars>>

cfg == Tests[setup.test]

Init ==
    /\ setup \in Setups
    /\ EngineInit
    /\ main = "boot"
    /\ now = 0 /\ end = setup.sim_ms /\ pins = {} /\ armed = FALSE /\ known = 0
    /\ sim_removed = {}
    /\ t = json_test_service_start(cfg, ~setup.js)
    /\ console = <<>> /\ reported = 0

-----------------------------------------------------------------------------
\* What a mote prints goes to the configured test, or to the script once its
\* service is attached: it sees nothing of the boot.
PrintLine(l) ==
    /\ main \in {"boot", "pump"} /\ Len(console) < setup.max_lines
    /\ console' = Append(console, l)
    /\ t' = json_test_check_line(t, cfg, l.node, l.text, now)
    /\ IF setup.js /\ main = "pump" THEN CallFeed("pump") ELSE UNCHANGED <<main, ret>>
    /\ UNCHANGED <<mainOnly, engine, asleep, now, end, pins, armed, known, sim_removed, reported>>

Booted ==
    /\ main = "boot"
    /\ Goto(IF setup.js THEN "create" ELSE "loop")
    /\ UNCHANGED <<mainOnly, engine, asleep, runnerVars>>

\* Mutant: the run ends at the timeout itself.
BeginRunShort ==
    /\ main = "begin"
    /\ armed' = (timeout > 0) /\ known' = Len(gen_msgs)
    /\ end' = IF timeout > 0 THEN timeout - 1 ELSE setup.sim_ms
    /\ pins' = {gen_msgs[i] : i \in DOMAIN gen_msgs}
    /\ Goto("loop")
    /\ UNCHANGED <<mainOnly, engine, asleep, now, sim_removed, t, console, reported>>

\* Mutant: the instants are not pinned.
BeginRunUnpinned ==
    /\ main = "begin"
    /\ armed' = (timeout > 0) /\ known' = Len(gen_msgs)
    /\ end' = IF timeout > 0 THEN timeout + Margin
              ELSE IF gen_msgs # <<>>
                   THEN Max({gen_msgs[i] : i \in DOMAIN gen_msgs}) + GenMargin
                   ELSE setup.sim_ms
    /\ pins' = {}
    /\ Goto("loop")
    /\ UNCHANGED <<mainOnly, engine, asleep, now, sim_removed, t, console, reported>>

\* The horizon and the pins of the messages generated so far.
BeginRun ==
    /\ main = "begin"
    /\ armed' = (timeout > 0) /\ known' = Len(gen_msgs)
    /\ end' = IF timeout > 0 THEN timeout + Margin
              ELSE IF gen_msgs # <<>>
                   THEN Max({gen_msgs[i] : i \in DOMAIN gen_msgs}) + GenMargin
                   ELSE setup.sim_ms
    /\ pins' = {gen_msgs[i] : i \in DOMAIN gen_msgs}
    /\ Goto("loop")
    /\ UNCHANGED <<mainOnly, engine, asleep, now, sim_removed, t, console, reported>>

\* The time moves on to the next event, whatever it is, at most to a pin.
Advance ==
    /\ main = "loop" /\ now < end
    /\ now' \in {n \in now + 1 .. end : \A p \in pins : n <= p}
    /\ Goto(IF setup.js THEN "gen" ELSE "pump")
    /\ UNCHANGED <<mainOnly, engine, asleep, end, pins, armed, known, sim_removed, t,
                   console, reported>>

LoopEnds ==
    /\ main = "loop" /\ now >= end
    /\ Goto("report")
    /\ UNCHANGED <<mainOnly, engine, asleep, runnerVars>>

CheckGenMsgs == js_test_check_gen_msgs(now) /\ UNCHANGED runnerVars

\* What a sequence of actions makes of the set of removed motes.
Applied(removed, acts) ==
    {m \in Motes :
        LET about == {i \in DOMAIN acts : acts[i].node = m /\ acts[i].type # "write"}
        IN  IF about = {} THEN m \in removed ELSE acts[Max(about)].type = "remove"}

\* Mutant: what does not fit into one iteration is forgotten.
DrainActionsAll ==
    LET count == Min({Len(pending), DrainMax})
    IN  /\ main = "drain"
        /\ sim_removed' = Applied(sim_removed, SubSeq(pending, 1, count))
        /\ pending' = <<>>
        /\ Goto("verdict")
        /\ UNCHANGED <<mainOnly, handover, finished, schedule, node_removed, dropped, asleep,
                       now, end, pins, armed, known, t, console, reported>>

\* js_test_drain_actions, and the runner's execution of what it returns.
DrainActions ==
    LET count == Min({Len(pending), DrainMax})
    IN  /\ main = "drain"
        /\ sim_removed' = Applied(sim_removed, SubSeq(pending, 1, count))
        /\ pending' = SubSeq(pending, count + 1, Len(pending))
        /\ Goto("verdict")
        /\ UNCHANGED <<mainOnly, handover, finished, schedule, node_removed, dropped, asleep,
                       now, end, pins, armed, known, t, console, reported>>

CheckVerdict ==
    /\ main = "verdict"
    /\ Goto(IF finished # 0 THEN "report" ELSE "timeout")
    /\ UNCHANGED <<mainOnly, engine, asleep, runnerVars>>

CheckTimeout == js_test_check_timeout(now) /\ UNCHANGED runnerVars

\* The pump is through; the step timeouts are looked at with the new time.
PumpEnds ==
    /\ main = "pump"
    /\ pins' = {p \in pins : p > now}
    /\ t' = json_test_check_step_timeout(t, cfg, now, setup.sim_ms)
    /\ Goto(IF t'.active /\ t'.finished # 0 THEN "report" ELSE "loop")
    /\ UNCHANGED <<mainOnly, engine, asleep, now, end, armed, known, sim_removed,
                   console, reported>>

Report ==
    /\ main = "report"
    /\ t' = IF t.active THEN json_test_report(t, cfg) ELSE t
    /\ reported' = IF setup.js THEN finished ELSE 0
    /\ Goto(IF setup.js THEN "destroy" ELSE "done")
    /\ UNCHANGED <<mainOnly, engine, asleep, now, end, pins, armed, known, sim_removed, console>>

Engine ==
    /\ \/ js_test_init \/ js_test_init_done \/ FeedTest \/ js_test_feed_line \/ FeedReturns
       \/ TimeoutTest \/ TimeoutFails \/ js_test_destroy \/ Join
    /\ UNCHANGED runnerVars

MainThread ==
    \/ \E l \in setup.prints : PrintLine(l)
    \/ Booted \/ BeginRun \/ Advance \/ LoopEnds \/ CheckGenMsgs \/ DrainActions
    \/ CheckVerdict \/ CheckTimeout \/ PumpEnds \/ Report \/ Engine

Script == JsThread /\ UNCHANGED runnerVars
Wait == (WaitsAgain \/ SpuriousWakeup) /\ UNCHANGED runnerVars

Terminated == main = "done" /\ UNCHANGED vars

Next == MainThread \/ Script \/ Wait \/ Terminated

Spec == Init /\ [][Next]_vars

\* The operating system runs both threads; nothing is asked of wakeups
\* without a signal.
FairSpec == Spec /\ WF_vars(MainThread) /\ WF_vars(Script)

-----------------------------------------------------------------------------
\* Where the main thread works on the simulation or on the engine's fields.
AtWork == {"begin", "loop", "gen", "drain", "verdict", "timeout", "pump", "feed", "feeding"}

\* While no verdict is in, the script's thread and the main thread never run
\* at once: when the main thread works, the script sits in yield_wait and has
\* seen every line that was fed, each once and in order.
HandOver ==
    setup.js /\ finished = 0 /\ main \in AtWork =>
        js = "wait" /\ seen = [i \in 1 .. line |-> i]

\* A verdict, once given, is never replaced: neither by a later testOK or
\* testFailed, nor by the end of the script, nor by the timeout.
VerdictStable == [][finished # 0 => finished' = finished]_vars

\* The script's view of the motes (getMoteWithID) is the runner's, with the
\* queued actions still to come, unless the action queue overflowed.
MotesAgree == ~dropped => Applied(sim_removed, pending) = node_removed

\* A message generated before the first YIELD is delivered at its instant; one
\* behind a later message waits for that one.
GenOnTime ==
    [][gen_msg_next' > gen_msg_next /\ gen_msg_next <= known =>
          now = Max({gen_msgs[i] : i \in 1 .. gen_msg_next})]_vars

\* A script that sets TIMEOUT before its first YIELD never ends without a
\* verdict: the loop reaches the timeout before it reaches its horizon.
TimeoutDecides == main \in {"destroy", "join", "done"} /\ armed => reported # 0

\* Every run ends: no signal is lost between the threads, and the script's
\* thread leaves YIELD and can be joined after the end of the loop.
RunEnds == <>(main = "done")

\* The lines between two positions of the console that match p.
Hits(p, first, last) ==
    Cardinality({i \in first .. last : Matches(p, console[i].node, console[i].text)})

\* A step waits for one line at least, also when its count is not positive.
Wanted(step) == IF step.count > 1 THEN step.count ELSE 1

\* The first n lines contain what the steps wait for, one step after the other.
Fulfilled(steps, n) ==
    \E cut \in [0 .. Len(steps) -> 0 .. n] :
        /\ cut[0] = 0
        /\ \A i \in DOMAIN steps :
               cut[i - 1] <= cut[i] /\ Hits(steps[i], cut[i - 1] + 1, cut[i]) >= Wanted(steps[i])

\* A configured test passes its steps exactly when the console shows them in
\* order with no fail_on line before their completion, whatever the interleaving
\* of the motes; and a passed test has met its validators.
JsonVerdictExact ==
    LET shown == {n \in 0 .. Len(console) : Fulfilled(cfg.steps, n)}
        bad == {n \in DOMAIN console : console[n].text \in cfg.fail_on}
        done == shown # {} /\ \A n \in bad : Min(shown) < n
    IN  ~setup.js /\ cfg.steps # <<>> =>
            /\ t.active => (t.finished = 1 <=> done)
            /\ main = "done" /\ t.finished = 1 =>
                  /\ done \/ (cfg.timeout_is_success /\ bad = {})
                  /\ \A i \in DOMAIN cfg.validators :
                        Hits(cfg.validators[i], 1, Len(console)) >= cfg.validators[i].min_count

=============================================================================
