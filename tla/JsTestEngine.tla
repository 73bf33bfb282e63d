---------------------------- MODULE JsTestEngine ----------------------------
(***************************************************************************)
(* The JavaScript test engine of src/common/js_test_engine.c: the script   *)
(* runs in a thread of its own and is handed one console line at a time.   *)
(*                                                                         *)
(* A section under the engine's mutex is one step, and so is every access  *)
(* to a shared field outside of it.  A thread that waits on a condition    *)
(* variable is in asleep until the other signals it (or it wakes without a *)
(* signal, as POSIX permits) and then tests its condition again.  A line   *)
(* is its number, an exception is only known to propagate or to be caught. *)
(***************************************************************************)
EXTENDS Integers, Sequences

CONSTANTS
    Motes,              \* node ids
    Times,              \* instants the script names, in ms; none is zero
    MaxPending,         \* JS_MAX_PENDING_ACTIONS
    MaxGen,             \* JS_MAX_GEN_MSGS
    Setups              \* the runs considered, records as under Setup

\* What the script of a run does, and the test the run has without a script.
Setup ==
    [js : BOOLEAN,              \* the configuration has a script
     calls : SUBSET {"timeout", "generate", "write", "remove", "add", "verdict"},
     max_calls : Nat,           \* bound: API calls of the script, YIELD aside
     catches : Nat,             \* bound: exceptions the script catches
     cb_throws : BOOLEAN,       \* the TIMEOUT callback may fail by itself
     prints : SUBSET [node : Motes, text : STRING],  \* lines its motes print
     max_lines : Nat,           \* bound: console lines printed
     sim_ms : Nat,              \* timeout_ms of the configuration
     test : STRING]             \* the test of the configuration, by name

ASSUME EngineAssumption ==
    /\ Times \subseteq Nat \ {0}
    /\ MaxPending \in Nat /\ MaxGen \in Nat
    /\ Setups \subseteq Setup

VARIABLES
    setup,              \* the run at hand; never changes
    \* js_test_engine_t
    has_line, js_waiting, shutdown, timeout_fired, finished, line,
    pending, node_removed, timeout, gen_msgs, gen_msg_next,
    \* where the threads are
    main, ret, js, cb, asleep,
    \* what is left to the script: calls and catches
    budget,
    \* history: lines handed to the script, an action was dropped
    seen, dropped

handover == <<has_line, js_waiting, shutdown, timeout_fired, line>>
schedule == <<timeout, gen_msgs, gen_msg_next>>
actions == <<pending, node_removed, dropped>>
engine == <<handover, finished, schedule, actions>>
engineVars == <<setup, engine, main, ret, js, cb, asleep, budget, seen>>

EngineInit ==
    /\ has_line = FALSE /\ js_waiting = FALSE /\ shutdown = FALSE /\ timeout_fired = FALSE
    /\ finished = 0 /\ line = 0
    /\ pending = <<>> /\ node_removed = {} /\ dropped = FALSE
    /\ timeout = 0 /\ gen_msgs = <<>> /\ gen_msg_next = 1
    /\ js = "none" /\ cb = FALSE /\ asleep = {} /\ ret = "none"
    /\ budget = [calls |-> setup.max_calls, catches |-> setup.catches]
    /\ seen = <<>>

-----------------------------------------------------------------------------
\* The script's thread.

\* The thread hands the turn back to the main thread.
SignalDone ==
    /\ js_waiting' = TRUE
    /\ asleep' = asleep \ {"main"}

jsOnly == <<setup, main, ret>>

\* JS_NewRuntime or JS_NewContext fails.
JsNewFails ==
    /\ js = "start"
    /\ js' = "done" /\ finished' = -1
    /\ SignalDone
    /\ UNCHANGED <<jsOnly, has_line, shutdown, timeout_fired, line, schedule, actions,
                   cb, budget, seen>>

JsStart ==
    /\ js = "start"
    /\ js' = "run"
    /\ UNCHANGED <<jsOnly, engine, cb, asleep, budget, seen>>

\* The first half of yield_wait, up to the wait for a line.
YieldBegin ==
    /\ js = "run"
    /\ js_waiting' = TRUE
    /\ asleep' = (asleep \ {"main"}) \cup (IF has_line \/ shutdown THEN {} ELSE {"js"})
    /\ js' = "wait"
    /\ UNCHANGED <<jsOnly, has_line, shutdown, timeout_fired, line, finished, schedule,
                   actions, cb, budget, seen>>

\* Its second half: the line is taken under the mutex, read after it.
YieldWake ==
    /\ js = "wait" /\ "js" \notin asleep
    /\ has_line \/ shutdown
    /\ has_line' = FALSE /\ js_waiting' = FALSE /\ timeout_fired' = FALSE
    /\ js' = IF shutdown THEN "throw" ELSE IF timeout_fired THEN "expired" ELSE "resumed"
    /\ UNCHANGED <<jsOnly, shutdown, line, finished, schedule, actions, cb, asleep, budget, seen>>

\* update_globals, then the callback of TIMEOUT if the time is up.
UpdateGlobals ==
    /\ js \in {"resumed", "expired"}
    /\ seen' = Append(seen, line)
    /\ cb' = (cb \/ js = "expired")
    /\ js' = "run"
    /\ UNCHANGED <<jsOnly, engine, asleep, budget>>

-----------------------------------------------------------------------------
\* The calls of the scripting API.

Call(name) ==
    /\ js = "run" /\ name \in setup.calls /\ budget.calls > 0
    /\ budget' = [budget EXCEPT !.calls = @ - 1]

\* Scripts call TIMEOUT once.
js_timeout(ms) ==
    /\ Call("timeout") /\ timeout = 0
    /\ timeout' = ms
    /\ UNCHANGED <<jsOnly, handover, finished, gen_msgs, gen_msg_next, actions, js, cb,
                   asleep, seen>>

js_generate_msg(ms) ==
    /\ Call("generate")
    /\ gen_msgs' = IF Len(gen_msgs) < MaxGen THEN Append(gen_msgs, ms) ELSE gen_msgs
    /\ UNCHANGED <<jsOnly, handover, finished, timeout, gen_msg_next, actions, js, cb,
                   asleep, seen>>

queue_action(a) ==
    /\ pending' = IF Len(pending) < MaxPending THEN Append(pending, a) ELSE pending
    /\ dropped' = (dropped \/ Len(pending) >= MaxPending)

\* write; setCoordinates queues a move in the same way.
js_write(m) ==
    /\ Call("write")
    /\ queue_action([type |-> "write", node |-> m])
    /\ UNCHANGED <<jsOnly, handover, finished, schedule, node_removed, js, cb, asleep, seen>>

js_sim_remove_mote(m) ==
    /\ Call("remove")
    /\ node_removed' = node_removed \cup {m}
    /\ queue_action([type |-> "remove", node |-> m])
    /\ UNCHANGED <<jsOnly, handover, finished, schedule, js, cb, asleep, seen>>

js_sim_add_mote(m) ==
    /\ Call("add")
    /\ node_removed' = node_removed \ {m}
    /\ queue_action([type |-> "add", node |-> m])
    /\ UNCHANGED <<jsOnly, handover, finished, schedule, js, cb, asleep, seen>>

\* Mutant: the later verdict counts.
js_log_test_last(v) ==
    /\ Call("verdict")
    /\ finished' = v
    /\ SignalDone
    /\ js' = "throw"
    /\ UNCHANGED <<jsOnly, has_line, shutdown, timeout_fired, line, schedule, actions, cb, seen>>

\* log.testOK and log.testFailed throw after the verdict.
js_log_test(v) ==
    /\ Call("verdict")
    /\ finished' = IF finished = 0 THEN v ELSE finished
    /\ SignalDone
    /\ js' = "throw"
    /\ UNCHANGED <<jsOnly, has_line, shutdown, timeout_fired, line, schedule, actions, cb, seen>>

-----------------------------------------------------------------------------
\* Exceptions and returns.

\* An error of the script itself.
ScriptFails ==
    /\ js = "run" /\ (cb => setup.cb_throws)
    /\ js' = "throw"
    /\ UNCHANGED <<jsOnly, engine, cb, asleep, budget, seen>>

ScriptCatches ==
    /\ js = "throw" /\ budget.catches > 0
    /\ budget' = [budget EXCEPT !.catches = @ - 1]
    /\ js' = "run"
    /\ UNCHANGED <<jsOnly, engine, cb, asleep, seen>>

\* An exception leaves the callback: yield_wait throws in its turn.
CallbackThrows ==
    /\ js = "throw" /\ cb
    /\ cb' = FALSE
    /\ SignalDone
    /\ UNCHANGED <<jsOnly, has_line, shutdown, timeout_fired, line, finished, schedule,
                   actions, js, budget, seen>>

\* The callback returns; finished is read without the mutex.
CallbackReturns ==
    /\ js = "run" /\ cb
    /\ cb' = FALSE
    /\ js' = IF finished = 0 THEN "undecided" ELSE "run"
    /\ UNCHANGED <<jsOnly, engine, asleep, budget, seen>>

CallbackUndecided ==
    /\ js = "undecided"
    /\ finished' = -1
    /\ SignalDone
    /\ js' = "throw"
    /\ UNCHANGED <<jsOnly, has_line, shutdown, timeout_fired, line, schedule, actions,
                   cb, budget, seen>>

ScriptEnds ==
    /\ ~cb /\ js \in {"run", "throw"}
    /\ js' = "end"
    /\ UNCHANGED <<jsOnly, engine, cb, asleep, budget, seen>>

\* The rest of js_thread_func; a script that ends without a verdict fails.
ThreadEnds ==
    /\ js = "end"
    /\ finished' = IF finished = 0 THEN -1 ELSE finished
    /\ SignalDone
    /\ js' = "done"
    /\ UNCHANGED <<jsOnly, has_line, shutdown, timeout_fired, line, schedule, actions,
                   cb, budget, seen>>

ScriptCall ==
    \/ \E ms \in Times : js_timeout(ms) \/ js_generate_msg(ms)
    \/ \E m \in Motes : js_write(m) \/ js_sim_remove_mote(m) \/ js_sim_add_mote(m)
    \/ \E v \in {1, -1} : js_log_test(v)

JsThread ==
    \/ JsStart \/ JsNewFails \/ YieldBegin \/ YieldWake \/ UpdateGlobals \/ ScriptCall
    \/ ScriptFails \/ ScriptCatches \/ CallbackThrows \/ CallbackReturns
    \/ CallbackUndecided \/ ScriptEnds \/ ThreadEnds

-----------------------------------------------------------------------------
\* The engine's functions, called from the main thread.

mainOnly == <<setup, js, cb, budget, seen>>

Goto(pc) == main' = pc /\ UNCHANGED ret
CallFeed(r) == main' = "feed" /\ ret' = r

TurnIsBack == js_waiting \/ finished # 0

\* js_test_init up to its wait for the first YIELD.
js_test_init ==
    /\ main = "create"
    /\ js' = "start"
    /\ Goto("init")
    /\ UNCHANGED <<setup, engine, cb, asleep, budget, seen>>

js_test_init_done ==
    /\ main = "init" /\ "main" \notin asleep /\ TurnIsBack
    /\ Goto("begin")
    /\ UNCHANGED <<mainOnly, engine, asleep>>

\* finished is read before the mutex is taken.
FeedTest ==
    /\ main = "feed"
    /\ Goto(IF finished # 0 THEN ret ELSE "feeding")
    /\ UNCHANGED <<mainOnly, engine, asleep>>

\* Mutant: js_waiting keeps the value of the last YIELD.
js_test_feed_line_hasty ==
    /\ main = "feeding"
    /\ line' = line + 1
    /\ has_line' = TRUE
    /\ asleep' = (asleep \ {"js"}) \cup (IF TurnIsBack THEN {} ELSE {"main"})
    /\ Goto("fed")
    /\ UNCHANGED <<mainOnly, js_waiting, shutdown, timeout_fired, finished, schedule, actions>>

js_test_feed_line ==
    /\ main = "feeding"
    /\ line' = line + 1
    /\ has_line' = TRUE /\ js_waiting' = FALSE
    /\ asleep' = (asleep \ {"js"}) \cup (IF finished = 0 THEN {"main"} ELSE {})
    /\ Goto("fed")
    /\ UNCHANGED <<mainOnly, shutdown, timeout_fired, finished, schedule, actions>>

FeedReturns ==
    /\ main = "fed" /\ "main" \notin asleep /\ TurnIsBack
    /\ Goto(ret)
    /\ UNCHANGED <<mainOnly, engine, asleep>>

\* A wait that ends before its condition holds is resumed.
WaitsAgain ==
    /\ \/ /\ main \in {"init", "fed"} /\ "main" \notin asleep /\ ~TurnIsBack
          /\ asleep' = asleep \cup {"main"}
       \/ /\ js = "wait" /\ "js" \notin asleep /\ ~has_line /\ ~shutdown
          /\ asleep' = asleep \cup {"js"}
    /\ UNCHANGED <<mainOnly, engine, main, ret>>

\* POSIX lets a wait end without a signal.
SpuriousWakeup ==
    /\ \E thread \in asleep : asleep' = asleep \ {thread}
    /\ UNCHANGED <<mainOnly, engine, main, ret>>

\* Time is the instant of the runner's loop.  The messages are looked at in
\* the order in which they were generated.
js_test_check_gen_msgs(time) ==
    /\ main = "gen"
    /\ IF /\ finished = 0 /\ gen_msg_next <= Len(gen_msgs)
          /\ gen_msgs[gen_msg_next] <= time
       THEN CallFeed("gen") /\ gen_msg_next' = gen_msg_next + 1
       ELSE Goto("drain") /\ UNCHANGED gen_msg_next
    /\ UNCHANGED <<mainOnly, handover, finished, timeout, gen_msgs, actions, asleep>>

js_test_check_timeout(time) ==
    /\ main = "timeout"
    /\ IF finished # 0 THEN Goto("report") /\ UNCHANGED timeout_fired
       ELSE IF timeout > 0 /\ time >= timeout
            THEN CallFeed("expire") /\ timeout_fired' = TRUE
            ELSE Goto("pump") /\ UNCHANGED timeout_fired
    /\ UNCHANGED <<mainOnly, has_line, js_waiting, shutdown, line, finished, schedule,
                   actions, asleep>>

\* After the timeout line: finished is read, then written, without the mutex.
TimeoutTest ==
    /\ main = "expire"
    /\ Goto(IF finished = 0 THEN "expired" ELSE "report")
    /\ UNCHANGED <<mainOnly, engine, asleep>>

TimeoutFails ==
    /\ main = "expired"
    /\ finished' = -1
    /\ Goto("report")
    /\ UNCHANGED <<mainOnly, handover, schedule, actions, asleep>>

\* Mutant: a sleeping script is not told that the run is over.
js_test_destroy_silent ==
    /\ main = "destroy"
    /\ shutdown' = TRUE /\ has_line' = TRUE
    /\ Goto("join")
    /\ UNCHANGED <<mainOnly, js_waiting, timeout_fired, line, finished, schedule, actions, asleep>>

js_test_destroy ==
    /\ main = "destroy"
    /\ shutdown' = TRUE /\ has_line' = TRUE
    /\ asleep' = asleep \ {"js"}
    /\ Goto("join")
    /\ UNCHANGED <<mainOnly, js_waiting, timeout_fired, line, finished, schedule, actions>>

Join ==
    /\ main = "join" /\ js = "done"
    /\ Goto("done")
    /\ UNCHANGED <<mainOnly, engine, asleep>>
=============================================================================
