-------------------------- MODULE TestRunnerProofs --------------------------
(***************************************************************************)
(* Proofs about the test engines: the main thread and the script's thread  *)
(* take turns, verdicts are final, messages and timeouts come on time, and *)
(* a configured test is judged exactly.                                    *)
(***************************************************************************)
EXTENDS TestRunner, TLAPS, WellFoundedInduction, FiniteSetTheorems

\* Leaves are first-order unless they cite SMT, for arithmetic and sequences.
USE Zenon

Iota(n) == [i \in 1 .. n |-> i]

\* Where the main thread can be once it has fed the line of the timeout.
Expiring == {"feed", "feeding", "fed", "expire", "expired", "report", "destroy", "join", "done"}

\* Which thread has the turn while there is no verdict.  The turn is with the
\* main thread, on its way to the script (has_line), or with the script; the
\* callback of TIMEOUT is the only code of the script that can give the turn
\* back and keep running, and then the main thread does not go back to work.
Turn ==
    /\ main \in AtWork =>
          js = "wait" /\ ~has_line /\ seen = Iota(line)
    /\ main = "fed" =>
          /\ has_line => js = "wait" /\ ~js_waiting
          /\ seen = Iota(IF has_line \/ js \in {"resumed", "expired"} THEN line - 1 ELSE line)
          /\ line > 0
    /\ main = "init" => ~has_line /\ seen = Iota(line) /\ js \notin {"resumed", "expired"}
    /\ main \in {"init", "fed"} /\ js_waiting => js = "wait" \/ ret = "expire"

TInv ==
    /\ line \in Nat /\ finished \in {-1, 0, 1}
    /\ {has_line, js_waiting, shutdown, timeout_fired, cb} \subseteq BOOLEAN
    /\ ret \in {"none", "gen", "pump", "expire"}
    /\ main \in {"feed", "feeding", "fed"} => ret # "none"
    /\ ret = "expire" => main \in Expiring
    /\ timeout_fired \/ cb \/ js \in {"expired", "undecided"} => ret = "expire"
    /\ shutdown => main \in {"join", "done"}
    /\ main \in {"boot", "create"} =>
          js = "none" /\ finished = 0 /\ ~has_line /\ ~js_waiting /\ seen = Iota(line)
          /\ ret = "none"
    /\ js \in {"none", "done"} /\ finished = 0 => main \notin {"init", "fed"}
    /\ ~setup.js => main \in {"boot", "loop", "pump", "report", "done"}
    /\ setup.js /\ finished = 0 => Turn

-----------------------------------------------------------------------------
\* One more line seen: the lines of Iota grow by their number.
LEMMA IotaAppend ==
  ASSUME NEW n \in Nat, n > 0
  PROVE  Append(Iota(n - 1), n) = Iota(n)
BY SMT DEF Iota

LEMMA IotaEmpty == Iota(0) = <<>>
BY SMT DEF Iota

LEMMA TInvInit == Init => TInv
<1> SUFFICES ASSUME Init PROVE TInv
  OBVIOUS
<1>1. /\ main = "boot" /\ js = "none" /\ ret = "none" /\ seen = <<>> /\ line = 0 /\ finished = 0
      /\ ~has_line /\ ~js_waiting /\ ~shutdown /\ ~timeout_fired /\ ~cb
      /\ {has_line, js_waiting, shutdown, timeout_fired, cb} \subseteq BOOLEAN
  BY DEF Init, EngineInit
<1>2. seen = Iota(line)
  BY <1>1, IotaEmpty
<1> QED
  BY <1>1, <1>2 DEF TInv, Turn, AtWork

\* The fields TInv speaks of.
tvars == <<setup, has_line, js_waiting, shutdown, timeout_fired, line, finished,
           main, ret, js, cb, seen>>

LEMMA TInvStutter == TInv /\ UNCHANGED tvars => TInv'
BY SMT DEF tvars, TInv, Turn

\* The steps of the script's thread.
LEMMA ScriptKeeps ==
  ASSUME TInv, JsThread
  PROVE  TInv'
<1>1. CASE JsStart
  BY SMT, <1>1 DEF JsStart, TInv, Turn, AtWork, Expiring, jsOnly, engine, handover
<1>2. CASE JsNewFails
  BY SMT, <1>2 DEF JsNewFails, TInv, Turn, AtWork, Expiring, jsOnly, engine, handover, SignalDone
<1>3. CASE YieldBegin
  BY SMT, <1>3 DEF YieldBegin, TInv, Turn, AtWork, Expiring, jsOnly, engine, handover
<1>4. CASE YieldWake
  <2>1. /\ js = "wait" /\ (has_line \/ shutdown)
        /\ has_line' = FALSE /\ js_waiting' = FALSE /\ timeout_fired' = FALSE
        /\ js' = IF shutdown THEN "throw" ELSE IF timeout_fired THEN "expired" ELSE "resumed"
        /\ UNCHANGED <<setup, main, ret, shutdown, line, finished, cb, seen>>
    BY <1>4 DEF YieldWake, jsOnly
  <2>2. setup.js /\ finished = 0 => Turn'
    BY SMT, <2>1 DEF TInv, Turn, AtWork
  <2> QED BY <2>1, <2>2 DEF TInv
<1>5. CASE UpdateGlobals
  <2>1. /\ js \in {"resumed", "expired"} /\ js' = "run"
        /\ seen' = Append(seen, line) /\ cb' = (cb \/ js = "expired")
        /\ UNCHANGED <<setup, main, ret, has_line, js_waiting, shutdown, timeout_fired, line,
                       finished>>
    BY <1>5 DEF UpdateGlobals, jsOnly, engine, handover
  <2>2. ASSUME setup.js, finished = 0 PROVE Turn'
    <3>1. main \notin AtWork /\ main # "init" /\ line \in Nat
          /\ (main = "fed" => /\ seen = Iota(line - 1) /\ line > 0
                             /\ ~has_line /\ (js_waiting => ret = "expire"))
      BY <2>1, <2>2 DEF TInv, Turn
    <3>2. main = "fed" => seen' = Iota(line)
      BY <2>1, <3>1, IotaAppend
    <3> QED BY <2>1, <3>1, <3>2 DEF Turn
  <2>3. cb' \in BOOLEAN /\ {has_line, js_waiting, shutdown, timeout_fired, cb}' \subseteq BOOLEAN
    BY <2>1 DEF TInv
  <2> QED BY <2>1, <2>2, <2>3 DEF TInv
<1>6. CASE ScriptFails
  BY SMT, <1>6 DEF ScriptFails, TInv, Turn, AtWork, Expiring, jsOnly, engine, handover
<1>7. CASE ScriptCatches
  BY SMT, <1>7 DEF ScriptCatches, TInv, Turn, AtWork, Expiring, jsOnly, engine, handover
<1>8. CASE CallbackThrows
  BY <1>8 DEF CallbackThrows, TInv, Turn, AtWork, Expiring, jsOnly, engine, handover, SignalDone
<1>9. CASE CallbackReturns
  BY <1>9 DEF CallbackReturns, TInv, Turn, AtWork, Expiring, jsOnly, engine, handover
<1>10. CASE CallbackUndecided
  BY SMT, <1>10 DEF CallbackUndecided, TInv, Turn, AtWork, Expiring, jsOnly, engine, handover, SignalDone
<1>11. CASE ScriptEnds
  BY SMT, <1>11 DEF ScriptEnds, TInv, Turn, AtWork, Expiring, jsOnly, engine, handover
<1>12. CASE ThreadEnds
  BY SMT, <1>12 DEF ThreadEnds, TInv, Turn, AtWork, Expiring, jsOnly, engine, handover, SignalDone
<1>13. ASSUME NEW ms \in Times, js_timeout(ms) PROVE TInv'
  BY <1>13, TInvStutter DEF js_timeout, Call, tvars, jsOnly, handover
<1>14. ASSUME NEW ms \in Times, js_generate_msg(ms) PROVE TInv'
  BY <1>14, TInvStutter DEF js_generate_msg, Call, tvars, jsOnly, handover
<1>15. ASSUME NEW m \in Motes, js_write(m) \/ js_sim_remove_mote(m) \/ js_sim_add_mote(m)
      PROVE  TInv'
  BY <1>15, TInvStutter
      DEF js_write, js_sim_remove_mote, js_sim_add_mote, Call, tvars, jsOnly, handover
<1>16. ASSUME NEW v \in {1, -1}, js_log_test(v) PROVE TInv'
  BY SMT, <1>16 DEF js_log_test, Call, TInv, Turn, AtWork, Expiring, jsOnly, engine, handover, SignalDone
<1> QED
  BY <1>1, <1>2, <1>3, <1>4, <1>5, <1>6, <1>7, <1>8, <1>9, <1>10, <1>11, <1>12, <1>13, <1>14,
      <1>15, <1>16 DEF JsThread, ScriptCall

\* The steps of the main thread.
LEMMA MainKeeps ==
  ASSUME TInv, MainThread
  PROVE  TInv'
<1>1. ASSUME NEW l \in setup.prints, PrintLine(l) PROVE TInv'
  BY <1>1 DEF PrintLine, CallFeed, TInv, Turn, AtWork, Expiring, mainOnly, engine, handover, Goto
<1>2. CASE Booted
  BY <1>2 DEF Booted, TInv, Turn, AtWork, Expiring, mainOnly, engine, handover, Goto
<1>3. CASE BeginRun
  BY <1>3 DEF BeginRun, TInv, Turn, AtWork, Expiring, mainOnly, engine, handover, Goto
<1>4. CASE Advance
  BY <1>4 DEF Advance, TInv, Turn, AtWork, Expiring, mainOnly, engine, handover, Goto
<1>5. CASE LoopEnds
  BY <1>5 DEF LoopEnds, TInv, Turn, AtWork, Expiring, mainOnly, engine, handover, Goto
<1>6. CASE CheckGenMsgs
  BY <1>6
      DEF CheckGenMsgs, js_test_check_gen_msgs, CallFeed, TInv, Turn, AtWork, Expiring,
      mainOnly, engine, handover, Goto
<1>7. CASE DrainActions
  BY <1>7 DEF DrainActions, TInv, Turn, AtWork, Expiring, mainOnly, engine, handover, Goto
<1>8. CASE CheckVerdict
  BY <1>8 DEF CheckVerdict, TInv, Turn, AtWork, Expiring, mainOnly, engine, handover, Goto
<1>9. CASE CheckTimeout
  BY <1>9
      DEF CheckTimeout, js_test_check_timeout, CallFeed, TInv, Turn, AtWork, Expiring,
      mainOnly, engine, handover, Goto
<1>10. CASE PumpEnds
  BY <1>10 DEF PumpEnds, TInv, Turn, AtWork, Expiring, mainOnly, engine, handover, Goto
<1>11. CASE Report
  BY <1>11 DEF Report, TInv, Turn, AtWork, Expiring, mainOnly, engine, handover, Goto
<1>12. CASE js_test_init
  BY <1>12 DEF js_test_init, TInv, Turn, AtWork, Expiring, mainOnly, engine, handover, Goto
<1>13. CASE js_test_init_done
  BY <1>13
      DEF js_test_init_done, TurnIsBack, TInv, Turn, AtWork, Expiring, mainOnly, engine,
      handover, Goto
<1>14. CASE FeedTest
  BY <1>14 DEF FeedTest, TInv, Turn, AtWork, Expiring, mainOnly, engine, handover, Goto
<1>15. CASE js_test_feed_line
  <2>1. line \in Nat /\ line' = line + 1 /\ line' - 1 = line /\ line' > 0
    BY SMT, <1>15 DEF js_test_feed_line, TInv
  <2>2. /\ main = "feeding" /\ main' = "fed" /\ has_line' = TRUE /\ js_waiting' = FALSE
        /\ UNCHANGED <<setup, js, cb, seen, ret, shutdown, timeout_fired, finished>>
    BY <1>15 DEF js_test_feed_line, mainOnly, Goto
  <2>3. setup.js /\ (finished = 0 => js = "wait" /\ seen = Iota(line))
    BY <2>2 DEF TInv, Turn, AtWork
  <2>4. finished' = 0 => Turn'
    BY <2>1, <2>2, <2>3 DEF Turn, AtWork
  <2>5. js' \in {"none", "done"} /\ finished' = 0 => FALSE
    BY <2>2, <2>3
  <2>6. {has_line, js_waiting, shutdown, timeout_fired, cb}' \subseteq BOOLEAN
    BY <2>2 DEF TInv
  <2>7. setup'.js
    BY <2>2, <2>3
  <2> QED
    BY SMT, <2>1, <2>2, <2>4, <2>5, <2>6, <2>7 DEF TInv, Expiring
<1>16. CASE FeedReturns
  BY <1>16
      DEF FeedReturns, TurnIsBack, TInv, Turn, AtWork, Expiring, mainOnly, engine, handover,
      Goto
<1>17. CASE TimeoutTest
  BY <1>17 DEF TimeoutTest, TInv, Turn, AtWork, Expiring, mainOnly, engine, handover, Goto
<1>18. CASE TimeoutFails
  BY <1>18 DEF TimeoutFails, TInv, Turn, AtWork, Expiring, mainOnly, engine, handover, Goto
<1>19. CASE js_test_destroy
  BY <1>19 DEF js_test_destroy, TInv, Turn, AtWork, Expiring, mainOnly, engine, handover, Goto
<1>20. CASE Join
  BY <1>20 DEF Join, TInv, Turn, AtWork, Expiring, mainOnly, engine, handover, Goto
<1> QED
  BY <1>1, <1>2, <1>3, <1>4, <1>5, <1>6, <1>7, <1>8, <1>9, <1>10, <1>11, <1>12, <1>13, <1>14,
      <1>15, <1>16, <1>17, <1>18, <1>19, <1>20 DEF MainThread, Engine

\* Every step keeps the invariant, those of a waiting thread included.
LEMMA TInvNext == TInv /\ [Next]_vars => TInv'
<1> SUFFICES ASSUME TInv, [Next]_vars PROVE TInv'
  OBVIOUS
<1>1. CASE MainThread
  BY <1>1, MainKeeps
<1>2. CASE Script
  BY <1>2, ScriptKeeps DEF Script
<1>3. CASE Wait
  BY <1>3, TInvStutter DEF Wait, WaitsAgain, SpuriousWakeup, tvars, mainOnly, engine, handover
<1>4. CASE UNCHANGED vars
  BY <1>4, TInvStutter DEF vars, engineVars, tvars, engine, handover
<1> QED
  BY <1>1, <1>2, <1>3, <1>4 DEF Next, Terminated

\* The main thread of test_mixed_multinode.c and the thread of js_thread_func
\* take turns: while there is no verdict the main thread works only when the
\* script waits in yield_wait, having seen every line once and in order.
THEOREM TakeTurns == Spec => []HandOver
<1>1. TInv => HandOver
  BY DEF TInv, Turn, HandOver, Iota
<1> QED
  BY TInvInit, TInvNext, <1>1, PTL DEF Spec

-----------------------------------------------------------------------------
\* What keeps a verdict in place when the TIMEOUT callback does not fail by
\* itself: then the main thread writes finished only while the script waits in
\* a YIELD of the callback.
VInv ==
    /\ TInv
    /\ ~setup.cb_throws
    /\ js = "start" => finished = 0 /\ main = "init"
    /\ js = "undecided" => finished = 0 /\ main = "fed"
    /\ main = "expired" => finished = 0
    /\ main \in {"expire", "expired"} /\ finished = 0 => js = "wait" /\ ~has_line
    /\ main \in {"report", "destroy", "join", "done"} /\ ret = "expire" => finished # 0
    /\ cb /\ js = "throw" => finished # 0
    /\ main = "fed" /\ finished = 0 /\ js_waiting => js = "wait" /\ ~has_line

Kept == finished # 0 => finished' = finished

LEMMA VInvStutter == VInv /\ UNCHANGED tvars => VInv' /\ Kept
BY SMT DEF tvars, VInv, TInv, Turn, Kept

LEMMA ScriptKeepsV ==
  ASSUME VInv, JsThread
  PROVE  VInv' /\ Kept
<1>0. TInv'
  BY ScriptKeeps DEF VInv
<1>1. CASE JsStart
  BY <1>0, <1>1 DEF JsStart, VInv, TInv, Turn, AtWork, Expiring, Kept, jsOnly, engine, handover
<1>2. CASE JsNewFails
  BY <1>0, <1>2
      DEF JsNewFails, VInv, TInv, Turn, AtWork, Expiring, Kept, jsOnly, engine, handover,
      SignalDone
<1>3. CASE YieldBegin
  BY <1>0, <1>3 DEF YieldBegin, VInv, TInv, Turn, AtWork, Expiring, Kept, jsOnly, engine, handover
<1>4. CASE YieldWake
  BY <1>0, <1>4 DEF YieldWake, VInv, TInv, Turn, AtWork, Expiring, Kept, jsOnly, engine, handover
<1>5. CASE UpdateGlobals
  BY <1>0, <1>5
      DEF UpdateGlobals, VInv, TInv, Turn, AtWork, Expiring, Kept, jsOnly, engine, handover
<1>6. CASE ScriptFails
  BY <1>0, <1>6 DEF ScriptFails, VInv, TInv, Turn, AtWork, Expiring, Kept, jsOnly, engine, handover
<1>7. CASE ScriptCatches
  BY <1>0, <1>7
      DEF ScriptCatches, VInv, TInv, Turn, AtWork, Expiring, Kept, jsOnly, engine, handover
<1>8. CASE CallbackThrows
  BY <1>0, <1>8
      DEF CallbackThrows, VInv, TInv, Turn, AtWork, Expiring, Kept, jsOnly, engine, handover,
      SignalDone
<1>9. CASE CallbackReturns
  BY <1>0, <1>9
      DEF CallbackReturns, VInv, TInv, Turn, AtWork, Expiring, Kept, jsOnly, engine, handover
<1>10. CASE CallbackUndecided
  BY SMT, <1>0, <1>10
      DEF CallbackUndecided, VInv, TInv, Turn, AtWork, Expiring, Kept, jsOnly, engine,
      handover, SignalDone
<1>11. CASE ScriptEnds
  BY <1>0, <1>11 DEF ScriptEnds, VInv, TInv, Turn, AtWork, Expiring, Kept, jsOnly, engine, handover
<1>12. CASE ThreadEnds
  BY <1>0, <1>12
      DEF ThreadEnds, VInv, TInv, Turn, AtWork, Expiring, Kept, jsOnly, engine, handover,
      SignalDone
<1>13. ASSUME NEW ms \in Times, js_timeout(ms) PROVE VInv' /\ Kept
  BY <1>13, VInvStutter DEF js_timeout, Call, tvars, jsOnly, handover
<1>14. ASSUME NEW ms \in Times, js_generate_msg(ms) PROVE VInv' /\ Kept
  BY <1>14, VInvStutter DEF js_generate_msg, Call, tvars, jsOnly, handover
<1>15. ASSUME NEW m \in Motes, js_write(m) \/ js_sim_remove_mote(m) \/ js_sim_add_mote(m)
      PROVE  VInv' /\ Kept
  BY <1>15, VInvStutter
      DEF js_write, js_sim_remove_mote, js_sim_add_mote, Call, tvars, jsOnly, handover
<1>16. ASSUME NEW v \in {1, -1}, js_log_test(v) PROVE VInv' /\ Kept
  <2>1. /\ js = "run" /\ js' = "throw" /\ UNCHANGED <<setup, main, ret, cb>>
        /\ finished' = IF finished = 0 THEN v ELSE finished
    BY <1>16 DEF js_log_test, Call, jsOnly
  <2>2. finished' # 0
    BY ONLY SMT, <2>1, v \in {1, -1}
  <2>3. main # "expired"
    BY <2>1, <2>2 DEF VInv
  <2> QED BY <1>0, <2>1, <2>2, <2>3 DEF VInv, Kept
<1> QED
  BY <1>1, <1>2, <1>3, <1>4, <1>5, <1>6, <1>7, <1>8, <1>9, <1>10, <1>11, <1>12, <1>13, <1>14,
      <1>15, <1>16 DEF JsThread, ScriptCall

LEMMA MainKeepsV ==
  ASSUME VInv, MainThread
  PROVE  VInv' /\ Kept
<1>0. TInv'
  BY MainKeeps DEF VInv
<1>1. ASSUME NEW l \in setup.prints, PrintLine(l) PROVE VInv' /\ Kept
  BY <1>0, <1>1
      DEF PrintLine, CallFeed, VInv, TInv, Turn, AtWork, Expiring, Kept, mainOnly, engine,
      handover, Goto
<1>2. CASE Booted
  BY <1>0, <1>2
      DEF Booted, VInv, TInv, Turn, AtWork, Expiring, Kept, mainOnly, engine, handover, Goto
<1>3. CASE BeginRun
  BY <1>0, <1>3
      DEF BeginRun, VInv, TInv, Turn, AtWork, Expiring, Kept, mainOnly, engine, handover, Goto
<1>4. CASE Advance
  BY <1>0, <1>4
      DEF Advance, VInv, TInv, Turn, AtWork, Expiring, Kept, mainOnly, engine, handover, Goto
<1>5. CASE LoopEnds
  BY <1>0, <1>5
      DEF LoopEnds, VInv, TInv, Turn, AtWork, Expiring, Kept, mainOnly, engine, handover, Goto
<1>6. CASE CheckGenMsgs
  BY <1>0, <1>6
      DEF CheckGenMsgs, js_test_check_gen_msgs, CallFeed, VInv, TInv, Turn, AtWork, Expiring,
      Kept, mainOnly, engine, handover, Goto
<1>7. CASE DrainActions
  BY <1>0, <1>7
      DEF DrainActions, VInv, TInv, Turn, AtWork, Expiring, Kept, mainOnly, engine, handover,
      Goto
<1>8. CASE CheckVerdict
  BY <1>0, <1>8
      DEF CheckVerdict, VInv, TInv, Turn, AtWork, Expiring, Kept, mainOnly, engine, handover,
      Goto
<1>9. CASE CheckTimeout
  BY <1>0, <1>9
      DEF CheckTimeout, js_test_check_timeout, CallFeed, VInv, TInv, Turn, AtWork, Expiring,
      Kept, mainOnly, engine, handover, Goto
<1>10. CASE PumpEnds
  BY <1>0, <1>10
      DEF PumpEnds, VInv, TInv, Turn, AtWork, Expiring, Kept, mainOnly, engine, handover, Goto
<1>11. CASE Report
  BY <1>0, <1>11
      DEF Report, VInv, TInv, Turn, AtWork, Expiring, Kept, mainOnly, engine, handover, Goto
<1>12. CASE js_test_init
  BY <1>0, <1>12
      DEF js_test_init, VInv, TInv, Turn, AtWork, Expiring, Kept, mainOnly, engine, handover,
      Goto
<1>13. CASE js_test_init_done
  BY <1>0, <1>13
      DEF js_test_init_done, TurnIsBack, VInv, TInv, Turn, AtWork, Expiring, Kept, mainOnly,
      engine, handover, Goto
<1>14. CASE FeedTest
  BY <1>0, <1>14
      DEF FeedTest, VInv, TInv, Turn, AtWork, Expiring, Kept, mainOnly, engine, handover, Goto
<1>15. CASE js_test_feed_line
  BY <1>0, <1>15
      DEF js_test_feed_line, VInv, TInv, Turn, AtWork, Expiring, Kept, mainOnly, engine,
      handover, Goto
<1>16. CASE FeedReturns
  BY <1>0, <1>16
      DEF FeedReturns, TurnIsBack, VInv, TInv, Turn, AtWork, Expiring, Kept, mainOnly, engine,
      handover, Goto
<1>17. CASE TimeoutTest
  BY <1>0, <1>17
      DEF TimeoutTest, VInv, TInv, Turn, AtWork, Expiring, Kept, mainOnly, engine, handover,
      Goto
<1>18. CASE TimeoutFails
  <2>1. -1 # 0
    BY SMT
  <2> QED BY <1>0, <1>18, <2>1
      DEF TimeoutFails, VInv, TInv, Turn, AtWork, Expiring, Kept, mainOnly, engine, handover,
      Goto
<1>19. CASE js_test_destroy
  BY <1>0, <1>19
      DEF js_test_destroy, VInv, TInv, Turn, AtWork, Expiring, Kept, mainOnly, engine,
      handover, Goto
<1>20. CASE Join
  BY <1>0, <1>20
      DEF Join, VInv, TInv, Turn, AtWork, Expiring, Kept, mainOnly, engine, handover, Goto
<1> QED
  BY <1>1, <1>2, <1>3, <1>4, <1>5, <1>6, <1>7, <1>8, <1>9, <1>10, <1>11, <1>12, <1>13, <1>14,
      <1>15, <1>16, <1>17, <1>18, <1>19, <1>20 DEF MainThread, Engine

LEMMA VInvNext == VInv /\ [Next]_vars => VInv' /\ Kept
<1> SUFFICES ASSUME VInv, [Next]_vars PROVE VInv' /\ Kept
  OBVIOUS
<1>1. CASE MainThread
  BY <1>1, MainKeepsV
<1>2. CASE Script
  BY <1>2, ScriptKeepsV DEF Script
<1>3. CASE Wait
  BY <1>3, VInvStutter DEF Wait, WaitsAgain, SpuriousWakeup, tvars, mainOnly, engine, handover
<1>4. CASE UNCHANGED vars
  BY <1>4, VInvStutter DEF vars, engineVars, tvars, engine, handover
<1> QED
  BY <1>1, <1>2, <1>3, <1>4 DEF Next, Terminated

\* With callbacks that do not fail by themselves a verdict is final: no call of
\* testOK or testFailed, no end of the script and no write of
\* js_test_check_timeout, which takes no mutex, replaces it.
THEOREM VerdictIsFinal ==
  ASSUME \A s \in Setups : ~s.cb_throws
  PROVE  Spec => VerdictStable
<1>1. Init => VInv
  <2> SUFFICES ASSUME Init PROVE VInv
    OBVIOUS
  <2>1. main = "boot" /\ js = "none" /\ ~cb /\ ~setup.cb_throws
    BY DEF Init, EngineInit
  <2> QED
    BY <2>1, TInvInit DEF VInv
<1>2. VInv /\ [Next]_vars => [finished # 0 => finished' = finished]_vars
  BY VInvNext DEF Kept
<1> QED
  BY <1>1, <1>2, VInvNext, PTL DEF Spec, VerdictStable

-----------------------------------------------------------------------------
\* Why an armed timeout decides the run: whenever the loop is about to look at
\* its horizon the timeout still lies ahead, and the horizon behind it.
DInv ==
    /\ now \in Nat /\ timeout \in Nat /\ armed \in BOOLEAN
    /\ armed => setup.js /\ timeout > 0 /\ end \in Nat /\ timeout <= end
    /\ setup.js => t.active = FALSE
    /\ main \in {"boot", "create", "init", "begin"} => ~armed /\ now = 0
    /\ armed /\ finished = 0 /\ main \in {"loop", "pump"} => now < timeout
    /\ armed /\ finished = 0 /\ main \in {"feed", "feeding", "fed"} /\ ret = "pump" => now < timeout
    /\ armed /\ main = "report" => finished # 0
    /\ armed /\ main \in {"destroy", "join", "done"} => reported # 0
    /\ main = "expired" \/ main = "expire" => setup.js

\* The fields DInv speaks of, besides those of tvars.
dvars == <<now, timeout, end, armed, reported, t>>

LEMMA DInvStutter == DInv /\ UNCHANGED tvars /\ UNCHANGED dvars => DInv'
BY SMT DEF tvars, dvars, DInv

\* The script's thread sets a timeout at most once and never takes a verdict back.
LEMMA ScriptKeepsD ==
  ASSUME TInv, DInv, JsThread, UNCHANGED runnerVars
  PROVE  DInv'
<1>1. UNCHANGED <<setup, main, ret, now, end, armed, reported, t>>
  BY DEF JsThread, JsStart, JsNewFails, YieldBegin, YieldWake, UpdateGlobals, ScriptCall,
     js_timeout, js_generate_msg, js_write, js_sim_remove_mote, js_sim_add_mote, js_log_test,
     ScriptFails, ScriptCatches,
     CallbackThrows, CallbackReturns, CallbackUndecided, ScriptEnds, ThreadEnds, jsOnly, runnerVars
<1>2. finished' = 0 => finished = 0
  <2>1. ASSUME NEW v \in {1, -1}, js_log_test(v) PROVE finished' = 0 => finished = 0
    BY <2>1 DEF js_log_test
  <2>2. CASE JsNewFails \/ CallbackUndecided \/ ThreadEnds
    BY SMT, <2>2 DEF JsNewFails, CallbackUndecided, ThreadEnds
  <2>3. CASE UNCHANGED finished
    BY <2>3
  <2> QED
    BY <2>1, <2>2, <2>3
        DEF JsThread, JsStart, YieldBegin, YieldWake, UpdateGlobals, ScriptCall, js_timeout,
       js_generate_msg, js_write, js_sim_remove_mote, js_sim_add_mote, ScriptFails,
       ScriptCatches, CallbackThrows, CallbackReturns, ScriptEnds, engine
<1>3. timeout' = timeout \/ (timeout = 0 /\ timeout' \in Times)
  BY DEF JsThread, JsStart, JsNewFails, YieldBegin, YieldWake, UpdateGlobals, ScriptCall,
     js_timeout, js_generate_msg, js_write, js_sim_remove_mote, js_sim_add_mote, js_log_test,
     ScriptFails, ScriptCatches,
     CallbackThrows, CallbackReturns, CallbackUndecided, ScriptEnds, ThreadEnds, engine, schedule
<1>4. timeout' \in Nat /\ (armed => timeout' = timeout)
  <2>1. Times \subseteq Nat
    BY EngineAssumption
  <2>2. CASE timeout' = timeout
    BY <2>2 DEF DInv
  <2>3. CASE timeout = 0 /\ timeout' \in Times
    BY SMT, <2>1, <2>3 DEF DInv
  <2> QED
    BY <1>3, <2>2, <2>3
<1>5. armed => setup'.js /\ timeout' > 0 /\ timeout' <= end'
  BY <1>1, <1>4 DEF DInv
<1> QED
  BY <1>1, <1>2, <1>4, <1>5 DEF DInv

LEMMA MainKeepsD ==
  ASSUME TInv, DInv, MainThread
  PROVE  DInv'
<1>1. ASSUME NEW l \in setup.prints, PrintLine(l) PROVE DInv'
  <2>1. setup.js => t' = t
    BY <1>1 DEF PrintLine, DInv, json_test_check_line
  <2> QED
    BY <1>1, <2>1 DEF PrintLine, CallFeed, DInv, mainOnly, engine, schedule
<1>2. CASE Booted
  BY <1>2 DEF Booted, DInv, TInv, runnerVars, mainOnly, engine, schedule, Goto
<1>3. CASE BeginRun
  <2>1. setup.js /\ main = "begin" /\ main' = "loop" /\ armed' = (timeout > 0)
    BY <1>3 DEF BeginRun, TInv, Goto
  <2>2. UNCHANGED <<setup, timeout, now, finished, t>>
    BY <1>3 DEF BeginRun, mainOnly, engine, schedule
  <2>3. armed' => end' \in Nat /\ timeout' <= end'
    BY SMT, <1>3, <2>1, <2>2, RunnerAssumption DEF BeginRun, DInv
  <2>4. now = 0
    BY <2>1 DEF DInv
  <2> QED
    BY SMT, <2>1, <2>2, <2>3, <2>4 DEF DInv
<1>4. CASE Advance
  BY SMT, <1>4 DEF Advance, DInv, TInv, runnerVars, mainOnly, engine, schedule, Goto
<1>5. CASE LoopEnds
  BY SMT, <1>5 DEF LoopEnds, DInv, TInv, runnerVars, mainOnly, engine, schedule, Goto
<1>6. CASE CheckGenMsgs
  BY <1>6
      DEF CheckGenMsgs, js_test_check_gen_msgs, CallFeed, DInv, TInv, runnerVars, mainOnly,
      engine, schedule, Goto
<1>7. CASE DrainActions
  BY <1>7 DEF DrainActions, DInv, TInv, runnerVars, mainOnly, engine, schedule, Goto
<1>8. CASE CheckVerdict
  BY <1>8 DEF CheckVerdict, DInv, TInv, runnerVars, mainOnly, engine, schedule, Goto
<1>9. CASE CheckTimeout
  BY SMT, <1>9
      DEF CheckTimeout, js_test_check_timeout, CallFeed, DInv, TInv, runnerVars, mainOnly,
      engine, schedule, Goto
<1>10. CASE PumpEnds
  <2>1. setup.js => t' = t
    BY <1>10 DEF PumpEnds, DInv, json_test_check_step_timeout
  <2> QED
    BY <1>10, <2>1 DEF PumpEnds, DInv, mainOnly, engine, schedule, Goto
<1>11. CASE Report
  BY <1>11 DEF Report, DInv, TInv, runnerVars, mainOnly, engine, schedule, Goto
<1>12. CASE js_test_init /\ UNCHANGED runnerVars
  BY <1>12 DEF js_test_init, DInv, TInv, runnerVars, mainOnly, engine, schedule, Goto
<1>13. CASE js_test_init_done /\ UNCHANGED runnerVars
  BY <1>13 DEF js_test_init_done, DInv, TInv, runnerVars, mainOnly, engine, schedule, Goto
<1>14. CASE FeedTest /\ UNCHANGED runnerVars
  BY <1>14 DEF FeedTest, DInv, TInv, runnerVars, mainOnly, engine, schedule, Goto
<1>15. CASE js_test_feed_line /\ UNCHANGED runnerVars
  BY <1>15 DEF js_test_feed_line, DInv, TInv, runnerVars, mainOnly, engine, schedule, Goto
<1>16. CASE FeedReturns /\ UNCHANGED runnerVars
  BY <1>16 DEF FeedReturns, DInv, TInv, runnerVars, mainOnly, engine, schedule, Goto
<1>17. CASE TimeoutTest /\ UNCHANGED runnerVars
  BY <1>17 DEF TimeoutTest, DInv, TInv, runnerVars, mainOnly, engine, schedule, Goto
<1>18. CASE TimeoutFails /\ UNCHANGED runnerVars
  BY SMT, <1>18 DEF TimeoutFails, DInv, TInv, runnerVars, mainOnly, engine, schedule, Goto
<1>19. CASE js_test_destroy /\ UNCHANGED runnerVars
  BY <1>19 DEF js_test_destroy, DInv, TInv, runnerVars, mainOnly, engine, schedule, Goto
<1>20. CASE Join /\ UNCHANGED runnerVars
  BY <1>20 DEF Join, DInv, TInv, runnerVars, mainOnly, engine, schedule, Goto
<1> QED
  BY <1>1, <1>2, <1>3, <1>4, <1>5, <1>6, <1>7, <1>8, <1>9, <1>10, <1>11, <1>12, <1>13, <1>14,
      <1>15, <1>16, <1>17, <1>18, <1>19, <1>20 DEF MainThread, Engine

\* A script that calls TIMEOUT before its first YIELD gets a verdict: the loop
\* of the runner cannot reach its horizon before js_test_check_timeout has
\* found the timeout, and that never returns without a verdict.
THEOREM TimeoutAlwaysDecides == Spec => []TimeoutDecides
<1>1. Init => DInv
  <2> SUFFICES ASSUME Init PROVE DInv
    OBVIOUS
  <2>1. setup.js => t.active = FALSE
    BY DEF Init, json_test_service_start
  <2>2. now = 0 /\ timeout = 0 /\ armed = FALSE /\ main = "boot"
    BY DEF Init, EngineInit
  <2> QED
    BY <2>1, <2>2 DEF DInv
<1>2. TInv /\ DInv /\ [Next]_vars => DInv'
  <2> SUFFICES ASSUME TInv, DInv, [Next]_vars PROVE DInv'
    OBVIOUS
  <2>1. CASE MainThread
    BY <2>1, MainKeepsD
  <2>2. CASE Script
    BY <2>2, ScriptKeepsD DEF Script
  <2>3. CASE Wait
    BY <2>3, DInvStutter
        DEF Wait, WaitsAgain, SpuriousWakeup, tvars, dvars, mainOnly, engine, handover,
       schedule, runnerVars
  <2>4. CASE UNCHANGED vars
    BY <2>4, DInvStutter DEF vars, engineVars, tvars, dvars, engine, handover, schedule, runnerVars
  <2> QED
    BY <2>1, <2>2, <2>3, <2>4 DEF Next, Terminated
<1>3. DInv => TimeoutDecides
  BY DEF DInv, TimeoutDecides
<1> QED
  BY TInvInit, TInvNext, <1>1, <1>2, <1>3, PTL DEF Spec

-----------------------------------------------------------------------------
(* The largest of the numbers at hand.                                     *)

LEMMA MaxIs ==
  ASSUME NEW T, T \subseteq Nat, NEW x \in T, \A y \in T : y <= x
  PROVE  Max(T) = x
<1>1. \A y \in T : x >= y
  BY SMT
<1>2. Max(T) \in T /\ \A y \in T : Max(T) >= y
  BY <1>1 DEF Max
<1>3. Max(T) >= x /\ Max(T) <= x /\ x \in Nat /\ Max(T) \in Nat
  BY <1>2
<1> QED BY ONLY SMT, <1>3

LEMMA MaxFacts ==
  ASSUME NEW n \in Nat, NEW T, T \subseteq 1 .. n, T # {}
  PROVE  Max(T) \in T /\ \A y \in T : y <= Max(T)
<1> DEFINE R == OpToRel(<, Nat)
           D == {n - y : y \in T}
<1>1. \A y \in T : y \in Nat /\ n - y \in Nat
  BY SMT
<1>2. D \subseteq Nat /\ D # {}
  BY <1>1
<1>3. PICK d \in D : \A e \in D : ~ (<<e, d>> \in R)
  <2>1. IsWellFoundedOn(R, Nat)
    BY NatLessThanWellFounded
  <2> HIDE DEF R, D
  <2> QED BY <1>2, <2>1, WFMin
<1>4. PICK x \in T : d = n - x
  BY <1>3
<1>5. ASSUME NEW y \in T PROVE y <= x
  <2>1. n - y \in D /\ d \in Nat /\ n - y \in Nat
    BY <1>1, <1>2
  <2>2. ~ (n - y < d)
    BY <1>3, <2>1 DEF OpToRel
  <2>3. x \in Nat /\ y \in Nat
    BY <1>1
  <2> QED BY ONLY SMT, <1>4, <2>2, <2>3, n \in Nat
<1>6. T \subseteq Nat
  BY <1>1
<1>7. Max(T) = x
  BY <1>5, <1>6, MaxIs
<1> QED BY <1>4, <1>5, <1>7

-----------------------------------------------------------------------------
(* The actions of the script on the motes.                                 *)

Action == [type : {"write", "remove", "add"}, node : Motes]

\* The actions that remove or add m.
About(acts, m) == {i \in DOMAIN acts : acts[i].node = m /\ acts[i].type # "write"}

\* Whether m is removed after the actions.
Gone(removed, acts, m) ==
    IF About(acts, m) = {} THEN m \in removed ELSE acts[Max(About(acts, m))].type = "remove"

LEMMA AppliedIs ==
  ASSUME NEW R, NEW acts
  PROVE  Applied(R, acts) = {m \in Motes : Gone(R, acts, m)}
BY DEF Applied, Gone, About

LEMMA AboutFacts ==
  ASSUME NEW acts \in Seq(Action), NEW m, About(acts, m) # {}
  PROVE  /\ Max(About(acts, m)) \in About(acts, m)
         /\ \A y \in About(acts, m) : y <= Max(About(acts, m))
<1>1. Len(acts) \in Nat /\ About(acts, m) \subseteq 1 .. Len(acts)
  <2>1. Len(acts) \in Nat /\ DOMAIN acts = 1 .. Len(acts)
    BY SMT
  <2> QED BY <2>1 DEF About
<1> QED BY <1>1, MaxFacts

\* One more action decides about its mote alone, and not if it is a write.
LEMMA GoneAppend ==
  ASSUME NEW R, NEW s \in Seq(Action), NEW a \in Action, NEW m \in Motes
  PROVE  Gone(R, Append(s, a), m)
             <=> IF a.node = m /\ a.type # "write" THEN a.type = "remove" ELSE Gone(R, s, m)
<1> DEFINE z == Append(s, a)
           n == Len(s)
<1>1. /\ n \in Nat /\ DOMAIN s = 1 .. n /\ DOMAIN z = 1 .. n + 1 /\ z[n + 1] = a
      /\ \A i \in 1 .. n : z[i] = s[i]
  BY SMT
<1>2. 1 .. n + 1 = (1 .. n) \cup {n + 1} /\ n + 1 \in Nat
  BY SMT, <1>1
<1>3. \A i \in 1 .. n : i <= n + 1 /\ i \in Nat /\ i # n + 1
  BY SMT, <1>1
<1>4. n + 1 <= n + 1
  BY SMT, <1>1
<1> HIDE DEF z, n
<1>5. CASE a.node = m /\ a.type # "write"
  <2>1. About(z, m) = About(s, m) \cup {n + 1}
    BY <1>1, <1>2, <1>3, <1>5 DEF About
  <2>2. About(z, m) \subseteq Nat /\ \A y \in About(z, m) : y <= n + 1
    BY <1>1, <1>2, <1>3, <1>4, <2>1 DEF About
  <2>3. Max(About(z, m)) = n + 1
    BY <2>1, <2>2, MaxIs
  <2> QED BY <1>1, <1>5, <2>1, <2>3 DEF Gone, z
<1>6. CASE ~ (a.node = m /\ a.type # "write")
  <2>1. About(z, m) = About(s, m)
    BY <1>1, <1>2, <1>3, <1>6 DEF About
  <2>2. About(s, m) # {} => z[Max(About(s, m))] = s[Max(About(s, m))]
    <3>1. About(s, m) # {} => Max(About(s, m)) \in About(s, m)
      BY AboutFacts
    <3>2. About(s, m) \subseteq 1 .. n
      BY <1>1 DEF About
    <3> QED BY <1>1, <3>1, <3>2
  <2> QED BY <1>6, <2>1, <2>2 DEF Gone, z
<1> QED BY <1>5, <1>6

LEMMA AppliedWrite ==
  ASSUME NEW R, NEW s \in Seq(Action), NEW a \in Action, a.type = "write"
  PROVE  Applied(R, Append(s, a)) = Applied(R, s)
<1>1. \A k \in Motes : Gone(R, Append(s, a), k) <=> Gone(R, s, k)
  BY GoneAppend
<1> QED BY <1>1, AppliedIs

LEMMA AppliedRemove ==
  ASSUME NEW R, NEW s \in Seq(Action), NEW a \in Action, a.type = "remove"
  PROVE  Applied(R, Append(s, a)) = Applied(R, s) \cup {a.node}
<1>1. a.type # "write" /\ a.node \in Motes
  BY DEF Action
<1>2. \A k \in Motes : Gone(R, Append(s, a), k) <=> (k = a.node \/ Gone(R, s, k))
  BY <1>1, GoneAppend
<1> QED BY <1>1, <1>2, AppliedIs

LEMMA AppliedAdd ==
  ASSUME NEW R, NEW s \in Seq(Action), NEW a \in Action, a.type = "add"
  PROVE  Applied(R, Append(s, a)) = Applied(R, s) \ {a.node}
<1>1. a.type # "write" /\ a.type # "remove" /\ a.node \in Motes
  BY DEF Action
<1>2. \A k \in Motes : Gone(R, Append(s, a), k) <=> (k # a.node /\ Gone(R, s, k))
  BY <1>1, GoneAppend
<1> QED BY <1>1, <1>2, AppliedIs

\* The actions may be applied in two portions.
LEMMA AppliedSplit ==
  ASSUME NEW R, NEW s \in Seq(Action), NEW c \in 0 .. Len(s)
  PROVE  Applied(Applied(R, SubSeq(s, 1, c)), SubSeq(s, c + 1, Len(s))) = Applied(R, s)
<1> DEFINE p == SubSeq(s, 1, c)
           q == SubSeq(s, c + 1, Len(s))
           n == Len(s)
<1>1. /\ p \in Seq(Action) /\ q \in Seq(Action) /\ n \in Nat /\ c \in Nat /\ c <= n
      /\ DOMAIN s = 1 .. n /\ DOMAIN p = 1 .. c /\ DOMAIN q = 1 .. n - c
  BY SMT
<1>2. \A i \in 1 .. c : p[i] = s[i] /\ i \in 1 .. n
  BY SMT
<1>3. \A i \in 1 .. n - c : q[i] = s[i + c] /\ i + c \in 1 .. n /\ i + c > c
  BY SMT
<1>4. \A i \in 1 .. n : i \notin 1 .. c => i - c \in 1 .. n - c /\ (i - c) + c = i
  BY SMT, <1>1
<1> HIDE DEF p, q, n
<1> SUFFICES ASSUME NEW m \in Motes
             PROVE  Gone(Applied(R, p), q, m) <=> Gone(R, s, m)
  BY AppliedIs DEF p, q, n
<1>5. CASE About(q, m) = {}
  <2>1. About(s, m) = About(p, m)
    <3>1. ASSUME NEW i \in About(s, m) PROVE i \in About(p, m)
      <4>1. i \in 1 .. n /\ s[i].node = m /\ s[i].type # "write"
        BY <1>1, <3>1 DEF About
      <4>2. CASE i \in 1 .. c
        BY <1>1, <1>2, <4>1, <4>2 DEF About
      <4>3. CASE i \notin 1 .. c
        <5>1. i - c \in 1 .. n - c /\ q[i - c] = s[i]
          BY <1>3, <1>4, <4>1, <4>3
        <5>2. i - c \in About(q, m)
          BY <1>1, <4>1, <5>1 DEF About
        <5> QED BY <1>5, <5>2
      <4> QED BY <4>2, <4>3
    <3>2. ASSUME NEW i \in About(p, m) PROVE i \in About(s, m)
      BY <1>1, <1>2 DEF About
    <3> QED BY <3>1, <3>2
  <2>2. About(p, m) # {} => p[Max(About(p, m))] = s[Max(About(p, m))]
    <3>1. ASSUME About(p, m) # {} PROVE Max(About(p, m)) \in 1 .. c
      <4>1. Max(About(p, m)) \in About(p, m)
        BY <1>1, <3>1, AboutFacts
      <4> QED BY <1>1, <4>1 DEF About
    <3> QED BY <1>2, <3>1
  <2>3. Gone(Applied(R, p), q, m) <=> Gone(R, p, m)
    BY <1>5, AppliedIs DEF Gone
  <2> QED BY <2>1, <2>2, <2>3 DEF Gone
<1>6. CASE About(q, m) # {}
  <2> DEFINE x == Max(About(q, m))
  <2>1. x \in About(q, m) /\ \A y \in About(q, m) : y <= x
    BY <1>1, <1>6, AboutFacts
  <2>2. x \in 1 .. n - c /\ q[x].node = m /\ q[x].type # "write"
    BY <1>1, <2>1 DEF About
  <2> HIDE DEF x
  <2>3. x + c \in 1 .. n /\ q[x] = s[x + c]
    BY <1>3, <2>2
  <2>4. x + c \in About(s, m)
    BY <1>1, <2>2, <2>3 DEF About
  <2>5. ASSUME NEW y \in About(s, m) PROVE y <= x + c
    <3>1. y \in 1 .. n /\ s[y].node = m /\ s[y].type # "write"
      BY <1>1, <2>5 DEF About
    <3>2. CASE y \in 1 .. c
      BY SMT, <1>1, <2>2, <3>2
    <3>3. CASE y \notin 1 .. c
      <4>1. y - c \in 1 .. n - c /\ q[y - c] = s[y]
        BY <1>3, <1>4, <3>1, <3>3
      <4>2. y - c <= x
        BY <1>1, <2>1, <3>1, <4>1 DEF About
      <4> QED BY ONLY SMT, <1>1, <2>2, <3>1, <4>2
    <3> QED BY <3>2, <3>3
  <2>6. About(s, m) \subseteq Nat
    <3>1. \A i \in 1 .. n : i \in Nat
      BY SMT, <1>1
    <3> QED BY <1>1, <3>1 DEF About
  <2>7. Max(About(s, m)) = x + c
    BY <2>4, <2>5, <2>6, MaxIs
  <2> QED BY <1>6, <2>3, <2>4, <2>7 DEF Gone, x
<1> QED BY <1>5, <1>6

\* The queue of actions and both views of the motes; dropped is never taken back.
MInv ==
    /\ pending \in Seq(Action) /\ dropped \in BOOLEAN
    /\ sim_removed \subseteq Motes /\ node_removed \subseteq Motes
    /\ MotesAgree

mvars == <<pending, dropped, sim_removed, node_removed>>

LEMMA MInvStutter == MInv /\ UNCHANGED mvars => MInv'
<1> SUFFICES ASSUME MInv, UNCHANGED mvars PROVE MInv'
  OBVIOUS
<1>1. /\ pending' = pending /\ dropped' = dropped
      /\ sim_removed' = sim_removed /\ node_removed' = node_removed
  BY DEF mvars
<1>2. Applied(sim_removed', pending') = Applied(sim_removed, pending)
  BY <1>1
<1> QED BY <1>1, <1>2 DEF MInv, MotesAgree

\* queue_action, with what the call does to the script's view.
LEMMA QueueKeeps ==
  ASSUME MInv, NEW a \in Action, queue_action(a), UNCHANGED sim_removed,
         node_removed' \subseteq Motes,
         Applied(sim_removed, pending) = node_removed =>
             Applied(sim_removed, Append(pending, a)) = node_removed'
  PROVE  MInv'
<1>1. CASE Len(pending) < MaxPending
  <2>1. pending' = Append(pending, a) /\ Append(pending, a) \in Seq(Action)
    BY SMT, <1>1 DEF queue_action, MInv
  <2>2. dropped' = dropped
    <3>1. ~ (Len(pending) >= MaxPending)
      BY SMT, <1>1, EngineAssumption DEF MInv
    <3> QED BY <3>1 DEF queue_action, MInv
  <2> QED BY <2>1, <2>2 DEF MInv, MotesAgree
<1>2. CASE ~ (Len(pending) < MaxPending)
  <2>1. Len(pending) >= MaxPending
    BY SMT, <1>2, EngineAssumption DEF MInv
  <2>2. pending' = pending /\ dropped' = TRUE
    BY <1>2, <2>1 DEF queue_action
  <2> QED BY <2>2 DEF MInv, MotesAgree
<1> QED BY <1>1, <1>2

LEMMA DrainKeeps ==
  ASSUME MInv, DrainActions
  PROVE  MInv'
<1> DEFINE count == Min({Len(pending), DrainMax})
<1>1. /\ sim_removed' = Applied(sim_removed, SubSeq(pending, 1, count))
      /\ pending' = SubSeq(pending, count + 1, Len(pending))
      /\ UNCHANGED <<node_removed, dropped>>
  BY DEF DrainActions
<1>2. count \in 0 .. Len(pending)
  <2>1. Len(pending) \in Nat /\ DrainMax \in Nat
    BY SMT, RunnerAssumption DEF MInv
  <2>2. \E x \in {Len(pending), DrainMax} : \A y \in {Len(pending), DrainMax} : x <= y
    BY SMT, <2>1
  <2>3. count \in {Len(pending), DrainMax} /\ count <= Len(pending)
    BY <2>2 DEF Min
  <2> HIDE DEF count
  <2> QED BY SMT, <2>1, <2>3
<1> HIDE DEF count
<1>3. pending' \in Seq(Action) /\ sim_removed' \subseteq Motes
  <2>1. pending' \in Seq(Action)
    BY SMT, <1>1, <1>2 DEF MInv
  <2> QED BY <1>1, <2>1 DEF Applied
<1>4. Applied(sim_removed', pending') = Applied(sim_removed, pending)
  BY <1>1, <1>2, AppliedSplit DEF MInv
<1> QED BY <1>1, <1>3, <1>4 DEF MInv, MotesAgree

LEMMA MInvNext == MInv /\ [Next]_vars => MInv'
<1> SUFFICES ASSUME MInv, [Next]_vars PROVE MInv'
  OBVIOUS
<1>1. ASSUME NEW m \in Motes, js_write(m), UNCHANGED runnerVars PROVE MInv'
  <2> DEFINE a == [type |-> "write", node |-> m]
  <2>1. a \in Action /\ a.type = "write" /\ a.node = m
    BY DEF Action
  <2>2. queue_action(a) /\ UNCHANGED sim_removed /\ node_removed' = node_removed
    BY <1>1 DEF js_write, runnerVars
  <2> HIDE DEF a
  <2>3. node_removed' \subseteq Motes /\ pending \in Seq(Action)
    BY <2>2 DEF MInv
  <2>4. Applied(sim_removed, Append(pending, a)) = Applied(sim_removed, pending)
    <3>1. a \in Action /\ a.type = "write" /\ pending \in Seq(Action)
      BY <2>1, <2>3
    <3> QED BY <3>1, AppliedWrite
  <2> QED BY <2>1, <2>2, <2>3, <2>4, QueueKeeps
<1>2. ASSUME NEW m \in Motes, js_sim_remove_mote(m), UNCHANGED runnerVars PROVE MInv'
  <2> DEFINE a == [type |-> "remove", node |-> m]
  <2>1. a \in Action /\ a.type = "remove" /\ a.node = m
    BY DEF Action
  <2>2. queue_action(a) /\ UNCHANGED sim_removed /\ node_removed' = node_removed \cup {m}
    BY <1>2 DEF js_sim_remove_mote, runnerVars
  <2> HIDE DEF a
  <2>3. node_removed' \subseteq Motes /\ pending \in Seq(Action)
    BY <2>2 DEF MInv
  <2>4. Applied(sim_removed, Append(pending, a)) = Applied(sim_removed, pending) \cup {m}
    <3>1. a \in Action /\ a.type = "remove" /\ pending \in Seq(Action)
      BY <2>1, <2>3
    <3>2. Applied(sim_removed, Append(pending, a)) = Applied(sim_removed, pending) \cup {a.node}
      BY ONLY SMT, <3>1, AppliedRemove
    <3> QED BY <2>1, <3>2
  <2> QED BY <2>1, <2>2, <2>3, <2>4, QueueKeeps
<1>3. ASSUME NEW m \in Motes, js_sim_add_mote(m), UNCHANGED runnerVars PROVE MInv'
  <2> DEFINE a == [type |-> "add", node |-> m]
  <2>1. a \in Action /\ a.type = "add" /\ a.node = m
    BY DEF Action
  <2>2. queue_action(a) /\ UNCHANGED sim_removed /\ node_removed' = node_removed \ {m}
    BY <1>3 DEF js_sim_add_mote, runnerVars
  <2> HIDE DEF a
  <2>3. node_removed' \subseteq Motes /\ pending \in Seq(Action)
    BY <2>2 DEF MInv
  <2>4. Applied(sim_removed, Append(pending, a)) = Applied(sim_removed, pending) \ {m}
    <3>1. a \in Action /\ a.type = "add" /\ pending \in Seq(Action)
      BY <2>1, <2>3
    <3>2. Applied(sim_removed, Append(pending, a)) = Applied(sim_removed, pending) \ {a.node}
      BY ONLY SMT, <3>1, AppliedAdd
    <3> QED BY <2>1, <3>2
  <2> QED BY <2>1, <2>2, <2>3, <2>4, QueueKeeps
<1>4. CASE MainThread
  <2>1. CASE DrainActions
    BY <2>1, DrainKeeps
  <2>2. CASE UNCHANGED mvars
    BY <2>2, MInvStutter
  <2>3. ASSUME NEW l \in setup.prints, PrintLine(l) PROVE UNCHANGED mvars
    BY <2>3 DEF PrintLine, mvars, engine, actions
  <2>4. CASE Booted \/ BeginRun \/ Advance \/ LoopEnds \/ CheckVerdict \/ PumpEnds \/ Report
    BY <2>4, MInvStutter DEF Booted, BeginRun, Advance, LoopEnds, CheckVerdict, PumpEnds, Report,
       mvars, engine, actions, runnerVars
  <2>5. CASE CheckGenMsgs \/ CheckTimeout
    BY <2>5, MInvStutter DEF CheckGenMsgs, CheckTimeout, js_test_check_gen_msgs,
       js_test_check_timeout, mvars, actions, runnerVars
  <2>6. CASE Engine
    BY <2>6, MInvStutter DEF Engine, js_test_init, js_test_init_done, FeedTest, js_test_feed_line,
       FeedReturns, TimeoutTest, TimeoutFails, js_test_destroy, Join, mvars, engine, actions,
       runnerVars
  <2> QED BY <1>4, <2>1, <2>2, <2>3, <2>4, <2>5, <2>6 DEF MainThread
<1>5. CASE Script
  <2>1. JsThread /\ UNCHANGED runnerVars
    BY <1>5 DEF Script
  <2>2. ASSUME NEW v \in {1, -1}, js_log_test(v) PROVE MInv'
    BY <2>1, <2>2, MInvStutter DEF js_log_test, mvars, actions, runnerVars
  <2>3. ASSUME NEW ms \in Times, js_timeout(ms) \/ js_generate_msg(ms) PROVE MInv'
    BY <2>1, <2>3, MInvStutter DEF js_timeout, js_generate_msg, mvars, actions, runnerVars
  <2>4. CASE ScriptCall
    BY <1>1, <1>2, <1>3, <2>1, <2>2, <2>3, <2>4 DEF ScriptCall
  <2>5. CASE ~ ScriptCall
    BY <2>1, <2>5, MInvStutter DEF JsThread, JsStart, JsNewFails, YieldBegin, YieldWake,
       UpdateGlobals, ScriptFails, ScriptCatches, CallbackThrows, CallbackReturns,
       CallbackUndecided, ScriptEnds, ThreadEnds, mvars, engine, actions, runnerVars
  <2> QED BY <2>4, <2>5
<1>6. CASE Wait
  BY <1>6, MInvStutter DEF Wait, WaitsAgain, SpuriousWakeup, mvars, engine, actions, runnerVars
<1>7. CASE UNCHANGED vars
  BY <1>7, MInvStutter DEF vars, engineVars, mvars, engine, actions, runnerVars
<1> QED BY <1>4, <1>5, <1>6, <1>7 DEF Next, Terminated

\* The script's view of the motes and the runner's never part: what is queued by
\* queue_action, and taken out by js_test_drain_actions some at a time, is
\* exactly what is between them, unless an action found the queue full.
THEOREM ViewsOfMotesAgree == Spec => []MotesAgree
<1>1. Init => MInv
  <2> SUFFICES ASSUME Init PROVE MInv
    OBVIOUS
  <2>1. pending = <<>> /\ sim_removed = {} /\ node_removed = {} /\ dropped = FALSE
    BY DEF Init, EngineInit
  <2>2. pending \in Seq(Action) /\ DOMAIN pending = {}
    BY SMT, <2>1
  <2>3. \A m \in Motes : ~ Gone(sim_removed, pending, m)
    BY <2>1, <2>2 DEF Gone, About
  <2>4. Applied(sim_removed, pending) = {}
    BY <2>3, AppliedIs
  <2> QED BY <2>1, <2>2, <2>4 DEF MInv, MotesAgree
<1>2. MInv => MotesAgree
  BY DEF MInv
<1> QED BY <1>1, <1>2, MInvNext, PTL DEF Spec

-----------------------------------------------------------------------------
(* The messages of GENERATE_MSG.                                           *)

\* The next message still lies ahead, or it is due behind one that was at its
\* instant.
Ahead == gen_msg_next <= known => gen_msgs[gen_msg_next] > now
Served ==
    gen_msg_next <= known =>
        \/ gen_msgs[gen_msg_next] >= now
        \/ \E j \in 1 .. gen_msg_next - 1 : gen_msgs[j] = now

\* Where the main thread is before the loop, and where it feeds a line.
Early == {"boot", "create", "init", "begin"}
Feeding == {"feed", "feeding", "fed"}

\* The time never passes a message that is pinned, and every message known at
\* the begin of the run is pinned until its instant.
GInv ==
    /\ gen_msgs \in Seq(Nat \ {0}) /\ gen_msg_next \in Nat \ {0}
    /\ gen_msg_next <= Len(gen_msgs) + 1
    /\ known \in Nat /\ known <= Len(gen_msgs) /\ now \in Nat
    /\ \A i \in 1 .. gen_msg_next - 1 : gen_msgs[i] <= now
    /\ \A i \in 1 .. known : gen_msgs[i] > now => gen_msgs[i] \in pins
    /\ main \in Early => now = 0 /\ known = 0
    /\ ~setup.js => known = 0
    /\ finished = 0 /\ (main = "gen" \/ (main \in Feeding /\ ret = "gen")) => Served
    /\ finished = 0 /\ (main \in {"loop", "drain", "verdict", "timeout", "pump"}
                        \/ (main \in Feeding /\ ret = "pump")) => Ahead

\* Steps that leave the messages, the time and the pins alone.
gvars == <<setup, gen_msgs, gen_msg_next, known, now, pins>>

LEMMA GInvStep ==
  ASSUME GInv, UNCHANGED gvars, finished' = 0 => finished = 0,
         main' \in Early => main \in Early,
         finished' = 0 /\ (main' = "gen" \/ (main' \in Feeding /\ ret' = "gen")) =>
             Served \/ main = "gen" \/ (main \in Feeding /\ ret = "gen"),
         finished' = 0 /\ (main' \in {"loop", "drain", "verdict", "timeout", "pump"}
                           \/ (main' \in Feeding /\ ret' = "pump")) =>
             \/ Ahead
             \/ main \in {"loop", "drain", "verdict", "timeout", "pump"}
             \/ main \in Feeding /\ ret = "pump"
  PROVE  GInv'
<1>1. (Served' <=> Served) /\ (Ahead' <=> Ahead)
  BY DEF gvars, Served, Ahead
<1> QED BY <1>1 DEF GInv, gvars

\* The script can add messages; it takes no verdict back.
LEMMA ScriptLeaves ==
  ASSUME JsThread
  PROVE  /\ UNCHANGED <<setup, main, ret, gen_msg_next>>
         /\ TInv => (finished' = 0 => finished = 0)
         /\ gen_msgs' = gen_msgs \/ \E ms \in Times : gen_msgs' = Append(gen_msgs, ms)
<1>1. ASSUME NEW v \in {1, -1}, js_log_test(v)
      PROVE  UNCHANGED <<setup, main, ret, gen_msg_next, gen_msgs>> /\ (finished' = 0 => finished = 0)
  BY <1>1 DEF js_log_test, jsOnly, schedule
<1>2. ASSUME NEW m \in Motes, js_write(m) \/ js_sim_remove_mote(m) \/ js_sim_add_mote(m)
      PROVE  UNCHANGED <<setup, main, ret, gen_msg_next, gen_msgs, finished>>
  BY <1>2 DEF js_write, js_sim_remove_mote, js_sim_add_mote, jsOnly, schedule
<1>3. ASSUME NEW ms \in Times, js_timeout(ms)
      PROVE  UNCHANGED <<setup, main, ret, gen_msg_next, gen_msgs, finished>>
  BY <1>3 DEF js_timeout, jsOnly
<1>4. ASSUME NEW ms \in Times, js_generate_msg(ms)
      PROVE  /\ UNCHANGED <<setup, main, ret, gen_msg_next, finished>>
             /\ gen_msgs' = gen_msgs \/ gen_msgs' = Append(gen_msgs, ms)
  BY <1>4 DEF js_generate_msg, jsOnly
<1>5. CASE ScriptCall
  BY <1>1, <1>2, <1>3, <1>4, <1>5 DEF ScriptCall
<1>6. CASE JsNewFails \/ CallbackUndecided \/ ThreadEnds
  <2>1. UNCHANGED <<setup, main, ret, gen_msg_next, gen_msgs>>
    BY <1>6 DEF JsNewFails, CallbackUndecided, ThreadEnds, jsOnly, schedule
  <2>2. finished' = 0 => finished = 0
    BY SMT, <1>6 DEF JsNewFails, CallbackUndecided, ThreadEnds
  <2> QED BY <2>1, <2>2
<1>7. CASE JsStart \/ YieldBegin \/ YieldWake \/ UpdateGlobals \/ ScriptFails \/ ScriptCatches
           \/ CallbackThrows \/ CallbackReturns \/ ScriptEnds
  BY <1>7 DEF JsStart, YieldBegin, YieldWake, UpdateGlobals, ScriptFails, ScriptCatches,
     CallbackThrows, CallbackReturns, ScriptEnds, jsOnly, engine, schedule
<1> QED BY <1>5, <1>6, <1>7 DEF JsThread

LEMMA ScriptKeepsG ==
  ASSUME TInv, GInv, JsThread, UNCHANGED runnerVars
  PROVE  GInv'
<1>1. /\ UNCHANGED <<setup, main, ret, gen_msg_next, known, now, pins>>
      /\ finished' = 0 => finished = 0
      /\ gen_msgs' = gen_msgs \/ \E ms \in Times : gen_msgs' = Append(gen_msgs, ms)
  BY ScriptLeaves DEF runnerVars
<1>2. CASE gen_msgs' = gen_msgs
  BY <1>1, <1>2, GInvStep DEF gvars
<1>3. ASSUME NEW ms \in Times, gen_msgs' = Append(gen_msgs, ms) PROVE GInv'
  <2>1. ms \in Nat \ {0}
    BY EngineAssumption
  <2>2. /\ gen_msgs' \in Seq(Nat \ {0}) /\ Len(gen_msgs') = Len(gen_msgs) + 1
        /\ Len(gen_msgs) \in Nat /\ \A i \in 1 .. Len(gen_msgs) : gen_msgs'[i] = gen_msgs[i]
    BY SMT, <1>3, <2>1 DEF GInv
  <2>3. gen_msg_next <= Len(gen_msgs') + 1 /\ known <= Len(gen_msgs')
    BY SMT, <2>2 DEF GInv
  <2>4. /\ \A i \in 1 .. gen_msg_next - 1 : i \in 1 .. Len(gen_msgs)
        /\ \A i \in 1 .. known : i \in 1 .. Len(gen_msgs)
        /\ gen_msg_next <= known => gen_msg_next \in 1 .. Len(gen_msgs)
    BY SMT, <2>2 DEF GInv
  <2>5. (Served => Served') /\ (Ahead => Ahead')
    BY <1>1, <2>2, <2>4 DEF Served, Ahead
  <2> QED BY <1>1, <2>2, <2>3, <2>4, <2>5 DEF GInv
<1> QED BY <1>1, <1>2, <1>3

\* The next message is fed, or the messages are through for this instant.
LEMMA CheckGenKeeps ==
  ASSUME GInv, CheckGenMsgs
  PROVE  GInv' /\ (gen_msg_next' > gen_msg_next /\ gen_msg_next <= known =>
                       now = Max({gen_msgs[i] : i \in 1 .. gen_msg_next}))
<1> DEFINE k == gen_msg_next
           n == Len(gen_msgs)
<1>1. main = "gen" /\ UNCHANGED <<setup, gen_msgs, known, now, pins, finished>>
  BY DEF CheckGenMsgs, js_test_check_gen_msgs, mainOnly, runnerVars
<1>2. k \in Nat /\ k >= 1 /\ n \in Nat /\ known \in Nat /\ known <= n /\ k <= n + 1 /\ now \in Nat
  BY SMT DEF GInv
<1>3. \A i \in 1 .. n : gen_msgs[i] \in Nat
  BY SMT DEF GInv
<1>4. CASE finished = 0 /\ k <= n /\ gen_msgs[k] <= now
  <2>1. main' = "feed" /\ ret' = "gen" /\ gen_msg_next' = k + 1
    BY <1>1, <1>4 DEF CheckGenMsgs, js_test_check_gen_msgs, CallFeed
  <2>2. k \in 1 .. n /\ gen_msgs[k] \in Nat /\ k + 1 \in Nat \ {0} /\ k + 1 <= n + 1
    <3>1. k \in 1 .. n /\ k + 1 \in Nat \ {0} /\ k + 1 <= n + 1
      BY ONLY SMT, <1>2, <1>4
    <3> QED BY <1>3, <3>1
  <2>3. k \in 1 .. k /\ 1 .. (k + 1) - 1 = 1 .. k /\ 1 .. k = (1 .. k - 1) \cup {k}
    BY ONLY SMT, <1>2
  <2>4. \A i \in 1 .. k : gen_msgs[i] <= now
    BY <1>4, <2>3 DEF GInv
  <2>5. k <= known => \E j \in 1 .. k : gen_msgs[j] = now
    <3>1. ASSUME k <= known, gen_msgs[k] >= now PROVE gen_msgs[k] = now
      BY ONLY SMT, <1>2, <1>4, <2>2, <3>1
    <3>2. k <= known => Served
      BY <1>1, <1>4 DEF GInv
    <3> QED BY <2>3, <3>1, <3>2 DEF Served
  <2>6. Served'
    <3>1. k + 1 <= known => k <= known
      BY ONLY SMT, <1>2
    <3> QED BY <1>1, <2>1, <2>3, <2>5, <3>1 DEF Served
  <2>7. k <= known => now = Max({gen_msgs[i] : i \in 1 .. k})
    <3> DEFINE T == {gen_msgs[i] : i \in 1 .. k}
    <3>1. \A i \in 1 .. k : i \in 1 .. n
      BY ONLY SMT, <1>2, <2>2
    <3>2. T \subseteq Nat /\ \A y \in T : y <= now
      BY <1>3, <2>4, <3>1
    <3>3. k <= known => now \in T
      BY <2>5
    <3> HIDE DEF T
    <3>4. k <= known => Max(T) = now
      BY <3>2, <3>3, MaxIs
    <3> QED BY <3>4 DEF T
  <2>8. GInv'
    <3>1. \A i \in 1 .. gen_msg_next' - 1 : gen_msgs'[i] <= now'
      BY <1>1, <2>1, <2>3, <2>4
    <3> QED BY <1>1, <2>1, <2>2, <2>6, <3>1 DEF GInv, Early, Feeding
  <2> QED BY <2>7, <2>8
<1>5. CASE ~ (finished = 0 /\ k <= n /\ gen_msgs[k] <= now)
  <2>1. main' = "drain" /\ ret' = ret /\ gen_msg_next' = k
    BY <1>1, <1>5 DEF CheckGenMsgs, js_test_check_gen_msgs, Goto
  <2>2. finished = 0 => Ahead
    <3> SUFFICES ASSUME finished = 0, k <= known PROVE gen_msgs[k] > now
      BY DEF Ahead
    <3>1. k \in 1 .. n /\ k <= n
      BY ONLY SMT, <1>2, k <= known
    <3>2. gen_msgs[k] \in Nat /\ ~ (gen_msgs[k] <= now)
      BY <1>3, <1>5, <3>1
    <3> QED BY ONLY SMT, <1>2, <3>2
  <2>3. GInv'
    BY <1>1, <2>1, <2>2, GInvStep DEF gvars, Early, Feeding
  <2>4. ~ (gen_msg_next' > gen_msg_next)
    BY SMT, <1>2, <2>1
  <2> QED BY <2>3, <2>4
<1> QED BY <1>4, <1>5

LEMMA BeginKeepsG ==
  ASSUME TInv, GInv, BeginRun
  PROVE  GInv'
<1>1. /\ main = "begin" /\ main' = "loop" /\ ret' = ret /\ known' = Len(gen_msgs)
      /\ pins' = {gen_msgs[i] : i \in DOMAIN gen_msgs}
      /\ UNCHANGED <<setup, gen_msgs, gen_msg_next, now, finished>>
  BY DEF BeginRun, Goto, engine, schedule, mainOnly
<1>2. now = 0
  BY <1>1 DEF GInv, Early
<1>3. Len(gen_msgs) \in Nat /\ Len(gen_msgs) <= Len(gen_msgs)
      /\ DOMAIN gen_msgs = 1 .. Len(gen_msgs)
  BY SMT DEF GInv
<1>4. \A i \in 1 .. Len(gen_msgs) : gen_msgs[i] > 0
  BY SMT DEF GInv
<1>5. gen_msg_next <= known' => gen_msg_next \in 1 .. Len(gen_msgs)
  BY SMT, <1>1, <1>3 DEF GInv
<1>6. Ahead'
  BY <1>1, <1>2, <1>4, <1>5 DEF Ahead
<1>7. \A i \in 1 .. known' : gen_msgs'[i] > now' => gen_msgs'[i] \in pins'
  BY <1>1, <1>3
<1>8. setup.js
  BY <1>1 DEF TInv
<1> QED BY <1>1, <1>3, <1>6, <1>7, <1>8 DEF GInv, Early, Feeding

LEMMA AdvanceKeepsG ==
  ASSUME TInv, GInv, Advance
  PROVE  GInv'
<1>1. /\ main = "loop" /\ ret' = ret /\ now' \in now + 1 .. end /\ \A p \in pins : now' <= p
      /\ main' = IF setup.js THEN "gen" ELSE "pump"
      /\ UNCHANGED <<setup, gen_msgs, gen_msg_next, known, pins, finished>>
  BY DEF Advance, Goto, engine, schedule, mainOnly
<1>2. now' \in Nat /\ now' > now /\ now \in Nat
  BY SMT, <1>1 DEF GInv
<1>3. \A i \in 1 .. Len(gen_msgs) : gen_msgs[i] \in Nat
  BY SMT DEF GInv
<1>4. /\ \A i \in 1 .. gen_msg_next - 1 : i \in 1 .. Len(gen_msgs)
      /\ \A i \in 1 .. known : i \in 1 .. Len(gen_msgs)
      /\ gen_msg_next <= known => gen_msg_next \in 1 .. known
  BY SMT DEF GInv
<1>5. ASSUME NEW i \in 1 .. gen_msg_next - 1 PROVE gen_msgs[i] <= now'
  <2>1. gen_msgs[i] <= now /\ gen_msgs[i] \in Nat
    BY <1>3, <1>4 DEF GInv
  <2> QED BY ONLY SMT, <1>2, <2>1
<1>6. ASSUME NEW i \in 1 .. known, gen_msgs[i] > now' PROVE gen_msgs[i] \in pins
  <2>1. gen_msgs[i] \in Nat
    BY <1>3, <1>4
  <2>2. gen_msgs[i] > now
    BY ONLY SMT, <1>2, <1>6, <2>1
  <2> QED BY <2>2 DEF GInv
<1>7. finished = 0 /\ main' = "gen" => Served'
  <2> SUFFICES ASSUME finished = 0, gen_msg_next <= known PROVE gen_msgs[gen_msg_next] >= now'
    BY <1>1 DEF Served
  <2>1. gen_msgs[gen_msg_next] > now
    BY <1>1 DEF GInv, Ahead
  <2>2. now' <= gen_msgs[gen_msg_next] /\ gen_msgs[gen_msg_next] \in Nat
    BY <1>1, <1>3, <1>4, <2>1 DEF GInv
  <2> QED BY ONLY SMT, <1>2, <2>2
<1>8. ~setup.js => Ahead'
  <2>1. known = 0 => ~ (gen_msg_next <= known)
    BY SMT DEF GInv
  <2> QED BY <1>1, <2>1 DEF GInv, Ahead
<1> QED BY <1>1, <1>2, <1>5, <1>6, <1>7, <1>8 DEF GInv, Early, Feeding

LEMMA PumpKeepsG ==
  ASSUME GInv, PumpEnds
  PROVE  GInv'
<1>1. /\ main = "pump" /\ ret' = ret /\ pins' = {p \in pins : p > now}
      /\ main' \in {"report", "loop"}
      /\ UNCHANGED <<setup, gen_msgs, gen_msg_next, known, now, finished>>
  BY DEF PumpEnds, Goto, engine, schedule, mainOnly
<1>2. \A i \in 1 .. known' : gen_msgs'[i] > now' => gen_msgs'[i] \in pins'
  BY <1>1 DEF GInv
<1>3. finished' = 0 => Ahead'
  BY <1>1 DEF GInv, Ahead
<1> QED BY <1>1, <1>2, <1>3 DEF GInv, Early, Feeding

\* The other steps of the main thread.
LEMMA MainKeepsG ==
  ASSUME TInv, GInv, MainThread
  PROVE  GInv' /\ (CheckGenMsgs \/ gen_msg_next' = gen_msg_next)
<1>1. ASSUME NEW l \in setup.prints, PrintLine(l) PROVE GInv' /\ gen_msg_next' = gen_msg_next
  BY <1>1, GInvStep DEF PrintLine, CallFeed, mainOnly, engine, schedule, gvars, Early, Feeding
<1>2. CASE Booted
  <2>1. Ahead
    <3>1. known = 0 => ~ (gen_msg_next <= known)
      BY SMT DEF GInv
    <3> QED BY <1>2, <3>1 DEF Booted, GInv, Early, Ahead
  <2> QED BY <1>2, <2>1, GInvStep DEF Booted, Goto, runnerVars, mainOnly, engine, schedule, gvars,
     Early, Feeding
<1>3. CASE BeginRun
  BY <1>3, BeginKeepsG DEF BeginRun, engine, schedule
<1>4. CASE Advance
  BY <1>4, AdvanceKeepsG DEF Advance, engine, schedule
<1>5. CASE LoopEnds \/ CheckVerdict
  BY <1>5, GInvStep DEF LoopEnds, CheckVerdict, Goto, runnerVars, mainOnly, engine, schedule, gvars,
     Early, Feeding
<1>6. CASE CheckGenMsgs
  BY <1>6, CheckGenKeeps
<1>7. CASE DrainActions
  BY <1>7, GInvStep DEF DrainActions, Goto, mainOnly, schedule, gvars, Early, Feeding
<1>8. CASE CheckTimeout
  BY <1>8, GInvStep DEF CheckTimeout, js_test_check_timeout, CallFeed, Goto, runnerVars, mainOnly,
     schedule, gvars, Early, Feeding
<1>9. CASE PumpEnds
  BY <1>9, PumpKeepsG DEF PumpEnds, engine, schedule
<1>10. CASE Report
  BY <1>10, GInvStep DEF Report, Goto, mainOnly, engine, schedule, gvars, Early, Feeding
<1>11. CASE (js_test_init \/ js_test_init_done) /\ UNCHANGED runnerVars
  BY <1>11, GInvStep DEF js_test_init, js_test_init_done, Goto, runnerVars, mainOnly, engine,
     schedule, gvars, Early, Feeding
<1>12. CASE FeedTest /\ UNCHANGED runnerVars
  BY <1>12, GInvStep DEF FeedTest, Goto, runnerVars, mainOnly, engine, schedule, gvars, Early, Feeding, TInv
<1>13. CASE js_test_feed_line /\ UNCHANGED runnerVars
  BY <1>13, GInvStep DEF js_test_feed_line, Goto, runnerVars, mainOnly, schedule, gvars, Early, Feeding
<1>14. CASE FeedReturns /\ UNCHANGED runnerVars
  BY <1>14, GInvStep DEF FeedReturns, Goto, runnerVars, mainOnly, engine, schedule, gvars, Early, Feeding, TInv
<1>15. CASE TimeoutTest /\ UNCHANGED runnerVars
  BY <1>15, GInvStep DEF TimeoutTest, Goto, runnerVars, mainOnly, engine, schedule, gvars, Early, Feeding
<1>16. CASE TimeoutFails /\ UNCHANGED runnerVars
  <2>1. finished' # 0
    BY SMT, <1>16 DEF TimeoutFails
  <2> QED BY <1>16, <2>1, GInvStep DEF TimeoutFails, Goto, runnerVars, mainOnly, schedule, gvars,
     Early, Feeding
<1>17. CASE (js_test_destroy \/ Join) /\ UNCHANGED runnerVars
  BY <1>17, GInvStep DEF js_test_destroy, Join, Goto, runnerVars, mainOnly, engine, schedule, gvars,
     Early, Feeding
<1> QED
  BY <1>1, <1>2, <1>3, <1>4, <1>5, <1>6, <1>7, <1>8, <1>9, <1>10, <1>11, <1>12, <1>13, <1>14,
      <1>15, <1>16, <1>17 DEF MainThread, Engine

\* A message generated before the first YIELD is handed to the script at its
\* instant, or together with the later one it was generated behind: the loop of
\* the runner cannot step over an instant js_test_check_gen_msgs waits for.
THEOREM MessagesAreOnTime == Spec => GenOnTime
<1>1. Init => GInv
  <2> SUFFICES ASSUME Init PROVE GInv
    OBVIOUS
  <2>1. gen_msgs = <<>> /\ gen_msg_next = 1 /\ known = 0 /\ now = 0 /\ main = "boot"
    BY DEF Init, EngineInit
  <2>2. /\ gen_msgs \in Seq(Nat \ {0}) /\ gen_msg_next \in Nat \ {0} /\ Len(gen_msgs) = 0
        /\ gen_msg_next <= Len(gen_msgs) + 1 /\ known <= Len(gen_msgs)
        /\ 1 .. gen_msg_next - 1 = {} /\ 1 .. known = {} /\ known \in Nat /\ now \in Nat
    BY SMT, <2>1
  <2> QED BY <2>1, <2>2 DEF GInv, Feeding
<1>2. TInv /\ GInv /\ [Next]_vars =>
          GInv' /\ (CheckGenMsgs \/ gen_msg_next' = gen_msg_next)
  <2> SUFFICES ASSUME TInv, GInv, [Next]_vars
               PROVE  GInv' /\ (CheckGenMsgs \/ gen_msg_next' = gen_msg_next)
    OBVIOUS
  <2>1. CASE MainThread
    BY <2>1, MainKeepsG
  <2>2. CASE Script
    BY <2>2, ScriptKeepsG, ScriptLeaves DEF Script
  <2>3. CASE Wait
    BY <2>3, GInvStep
        DEF Wait, WaitsAgain, SpuriousWakeup, gvars, mainOnly, engine, schedule, runnerVars
  <2>4. CASE UNCHANGED vars
    BY <2>4, GInvStep DEF vars, engineVars, gvars, engine, schedule, runnerVars
  <2> QED BY <2>1, <2>2, <2>3, <2>4 DEF Next, Terminated
<1>3. TInv /\ GInv /\ [Next]_vars =>
          [gen_msg_next' > gen_msg_next /\ gen_msg_next <= known =>
              now = Max({gen_msgs[i] : i \in 1 .. gen_msg_next})]_vars
  <2>1. ASSUME GInv, gen_msg_next' = gen_msg_next PROVE ~ (gen_msg_next' > gen_msg_next)
    BY SMT, <2>1 DEF GInv
  <2> QED BY <1>2, <2>1, CheckGenKeeps
<1> QED BY <1>1, <1>2, <1>3, TInvInit, TInvNext, PTL DEF Spec, GenOnTime

-----------------------------------------------------------------------------
\* Every set of numbers has a smallest one.
LEMMA LeastFacts ==
  ASSUME NEW T, T \subseteq Nat, T # {}
  PROVE  \E x \in T : \A y \in T : x <= y
<1> DEFINE R == OpToRel(<, Nat)
<1>1. PICK x \in T : \A y \in T : ~ (<<y, x>> \in R)
  <2>1. IsWellFoundedOn(R, Nat)
    BY NatLessThanWellFounded
  <2> HIDE DEF R
  <2> QED BY <2>1, WFMin
<1>2. ASSUME NEW y \in T PROVE x <= y
  <2>1. x \in Nat /\ y \in Nat
    OBVIOUS
  <2>2. ~ (y < x)
    BY <1>1, <2>1 DEF OpToRel
  <2> QED BY ONLY SMT, <2>1, <2>2
<1> QED BY <1>1, <1>2

LEMMA MinIs ==
  ASSUME NEW T, T \subseteq Nat, NEW x \in T, \A y \in T : x <= y
  PROVE  Min(T) = x
<1>1. \A y \in T : x <= y
  OBVIOUS
<1>2. Min(T) \in T /\ \A y \in T : Min(T) <= y
  BY <1>1 DEF Min
<1>3. Min(T) >= x /\ Min(T) <= x /\ x \in Nat /\ Min(T) \in Nat
  <2>1. Min(T) \in T /\ x <= Min(T) /\ Min(T) <= x
    BY <1>1, <1>2
  <2>2. Min(T) \in Nat /\ x \in Nat
    BY <2>1
  <2> QED BY ONLY SMT, <2>1, <2>2
<1> QED BY ONLY SMT, <1>3

-----------------------------------------------------------------------------
(* The lines of a console that match.                                      *)

HitSet(con, p, a, b) == {i \in a .. b : Matches(p, con[i].node, con[i].text)}
HitsIn(con, p, a, b) == Cardinality(HitSet(con, p, a, b))

LEMMA HitsType ==
  ASSUME NEW con, NEW p, NEW a \in Int, NEW b \in Int
  PROVE  IsFiniteSet(HitSet(con, p, a, b)) /\ HitsIn(con, p, a, b) \in Nat
<1>1. IsFiniteSet(a .. b)
  BY FS_Interval
<1>2. HitSet(con, p, a, b) \in SUBSET (a .. b)
  BY DEF HitSet
<1>3. IsFiniteSet(HitSet(con, p, a, b))
  BY <1>1, <1>2, FS_Subset
<1> QED BY <1>3, FS_CardinalityType DEF HitsIn

LEMMA HitsWithin ==
  ASSUME NEW con, NEW p, NEW a \in Int, NEW b \in Int, NEW c \in Int, NEW d \in Int,
         a <= c, d <= b
  PROVE  HitsIn(con, p, c, d) <= HitsIn(con, p, a, b)
<1>1. c .. d \subseteq a .. b
  BY SMT
<1>2. HitSet(con, p, c, d) \in SUBSET HitSet(con, p, a, b)
  BY <1>1 DEF HitSet
<1>3. IsFiniteSet(HitSet(con, p, a, b))
  BY HitsType
<1> QED BY <1>2, <1>3, FS_Subset DEF HitsIn

\* The console z is con with one more line l.
Grown(P, con, l, z) ==
    /\ Len(con) \in Nat /\ con \in Seq(P) /\ z \in Seq(P) /\ Len(z) = Len(con) + 1
    /\ \A i \in 1 .. Len(con) : z[i] = con[i]
    /\ z[Len(con) + 1] = l

LEMMA LineFacts ==
  ASSUME NEW P, NEW con, NEW l, con \in Seq(P), l \in P
  PROVE  Grown(P, con, l, Append(con, l))
BY SMT DEF Grown

\* What was printed stays.
LEMMA HitsSame ==
  ASSUME NEW P, NEW con, NEW l, NEW z, Grown(P, con, l, z), NEW p, NEW a, NEW b,
         a \in Nat, 1 <= a, b \in Nat, b <= Len(con)
  PROVE  HitsIn(z, p, a, b) = HitsIn(con, p, a, b)
<1> DEFINE n == Len(con)
<1>1. n \in Nat /\ b \in Nat /\ b <= n /\ a \in Nat /\ 1 <= a /\ \A i \in 1 .. n : z[i] = con[i]
  BY DEF Grown
<1> HIDE DEF n
<1>2. a .. b \subseteq 1 .. n
  BY ONLY SMT, <1>1
<1>3. \A i \in a .. b : z[i] = con[i]
  BY ONLY Zenon, <1>1, <1>2
<1>4. HitSet(z, p, a, b) = HitSet(con, p, a, b)
  BY ONLY Zenon, <1>3 DEF HitSet
<1> QED BY ONLY Zenon, <1>4 DEF HitsIn

\* The new line counts if it matches.
LEMMA HitsNext ==
  ASSUME NEW P, NEW con, NEW l, NEW z, Grown(P, con, l, z), NEW p, NEW a,
         a \in 1 .. Len(con) + 1
  PROVE  HitsIn(z, p, a, Len(con) + 1) =
             IF Matches(p, l.node, l.text) THEN HitsIn(con, p, a, Len(con)) + 1
             ELSE HitsIn(con, p, a, Len(con))
<1> DEFINE n == Len(con)
<1>1. n \in Nat /\ z[n + 1] = l /\ a \in 1 .. n + 1 /\ Grown(P, con, l, z)
  BY DEF Grown
<1>2. HitsIn(z, p, a, n) = HitsIn(con, p, a, n)
  <2>1. a \in Nat /\ 1 <= a /\ n <= n
    <3> HIDE DEF n
    <3> QED BY ONLY SMT, <1>1
  <2>2. Grown(P, con, l, z) /\ Len(con) \in Nat /\ a \in Nat /\ 1 <= a /\ Len(con) <= Len(con)
    BY <1>1, <2>1
  <2> HIDE DEF n
  <2>3. HitsIn(z, p, a, Len(con)) = HitsIn(con, p, a, Len(con))
    BY ONLY SMT, <2>2, HitsSame
  <2> QED BY ONLY Zenon, <2>3 DEF n
<1> HIDE DEF n
<1>3. a .. n + 1 = (a .. n) \cup {n + 1} /\ n + 1 \notin a .. n /\ a \in Int /\ n \in Int
  BY ONLY SMT, <1>1
<1> DEFINE H == HitSet(z, p, a, n)
<1>4. IsFiniteSet(H) /\ n + 1 \notin H
  BY <1>3, HitsType DEF HitSet
<1>5. HitSet(z, p, a, n + 1) = IF Matches(p, l.node, l.text) THEN H \cup {n + 1} ELSE H
  BY <1>1, <1>3 DEF HitSet
<1>6. Cardinality(H \cup {n + 1}) = Cardinality(H) + 1
  <2> HIDE DEF H
  <2> QED BY <1>4, FS_AddElement
<1>7. HitsIn(z, p, a, n + 1) =
             IF Matches(p, l.node, l.text) THEN HitsIn(con, p, a, n) + 1
             ELSE HitsIn(con, p, a, n)
  BY <1>2, <1>5, <1>6 DEF HitsIn
<1> QED BY <1>7 DEF n

\* No line, no match.
LEMMA HitsNone ==
  ASSUME NEW con, NEW p, NEW n \in Nat
  PROVE  HitsIn(con, p, n + 1, n) = 0
<1>1. n + 1 .. n = {}
  BY SMT
<1>2. HitSet(con, p, n + 1, n) = {}
  BY <1>1 DEF HitSet
<1> QED BY <1>2, FS_EmptySet DEF HitsIn

-----------------------------------------------------------------------------
(* The cuts of a console into one stretch per step.                        *)

Shows(con, S, cut, i) ==
    cut[i - 1] <= cut[i] /\ HitsIn(con, S[i], cut[i - 1] + 1, cut[i]) >= Wanted(S[i])

\* cut ends the stretches of the first k steps within the first n lines.
Chain(con, S, cut, k, n) ==
    /\ cut \in [0 .. k -> 0 .. n] /\ cut[0] = 0
    /\ \A i \in 1 .. k : Shows(con, S, cut, i)

\* One that ends with line n.
Reaches(con, S, k, n) == \E cut : Chain(con, S, cut, k, n) /\ cut[k] = n

LEMMA ChainType ==
  ASSUME NEW con, NEW S, NEW cut, NEW k \in Nat, NEW n \in Nat, Chain(con, S, cut, k, n)
  PROVE  /\ \A i \in 0 .. k : cut[i] \in Nat /\ cut[i] <= n
         /\ cut[k] \in Nat /\ cut[k] <= n
<1>1. \A i \in 0 .. k : cut[i] \in 0 .. n
  BY DEF Chain
<1>2. k \in 0 .. k /\ \A x \in 0 .. n : x \in Nat /\ x <= n
  BY SMT
<1> QED BY <1>1, <1>2

LEMMA ChainGrows ==
  ASSUME NEW con, NEW S, NEW cut, NEW k \in Nat, NEW n \in Nat, Chain(con, S, cut, k, n),
         NEW j \in 0 .. k
  PROVE  cut[j] <= cut[k]
<1> DEFINE T == {d \in 0 .. k : ~ (cut[k - d] <= cut[k])}
<1>1. T = {}
  <2> SUFFICES ASSUME T # {} PROVE FALSE
    OBVIOUS
  <2>1. T \subseteq Nat
    BY SMT
  <2>2. PICK d \in T : \A y \in T : d <= y
    <3> HIDE DEF T
    <3> QED BY <2>1, LeastFacts
  <2>3. d \in 0 .. k /\ ~ (cut[k - d] <= cut[k])
    OBVIOUS
  <2>4. cut[k] \in Nat /\ \A i \in 0 .. k : cut[i] \in Nat
    BY ChainType
  <2>5. d \in 1 .. k
    <3>1. d # 0
      <4> SUFFICES ASSUME d = 0 PROVE FALSE
        OBVIOUS
      <4>1. k - d = k
        BY SMT
      <4> DEFINE x == cut[k]
      <4>2. ~ (x <= x) /\ x \in Nat
        BY <2>3, <2>4, <4>1
      <4> HIDE DEF x
      <4> QED BY ONLY SMT, <4>2
    <3> QED BY ONLY SMT, <2>3, <3>1, k \in Nat
  <2>6. /\ k - d \in 0 .. k /\ k - d + 1 \in 1 .. k /\ k - d + 1 \in 0 .. k
        /\ (k - d + 1) - 1 = k - d
        /\ d - 1 \in 0 .. k /\ k - (d - 1) = k - d + 1 /\ ~ (d <= d - 1)
    BY ONLY SMT, <2>5, k \in Nat
  <2>7. cut[k - d + 1] <= cut[k]
    <3>1. d - 1 \notin T
      BY <2>2, <2>6
    <3> QED BY <2>6, <3>1
  <2>8. cut[k - d] <= cut[k - d + 1]
    <3>1. Shows(con, S, cut, k - d + 1)
      BY <2>6 DEF Chain
    <3>2. cut[(k - d + 1) - 1] <= cut[k - d + 1]
      BY <3>1 DEF Shows
    <3>3. cut[(k - d + 1) - 1] = cut[k - d]
      BY <2>6
    <3> QED BY ONLY SMT, <3>2, <3>3
  <2> DEFINE x == cut[k - d]
             y == cut[k - d + 1]
             w == cut[k]
  <2>9. x \in Nat /\ y \in Nat /\ w \in Nat /\ x <= y /\ y <= w /\ ~ (x <= w)
    BY <2>3, <2>4, <2>6, <2>7, <2>8
  <2> HIDE DEF x, y, w
  <2> QED BY ONLY SMT, <2>9
<1>2. k - j \in 0 .. k /\ k - (k - j) = j
  BY SMT
<1>3. k - j \notin T
  <2> HIDE DEF T
  <2> QED BY <1>1
<1> QED BY <1>2, <1>3

\* A cut may be given another bound.
LEMMA ChainWithin ==
  ASSUME NEW con, NEW S, NEW cut, NEW k \in Nat, NEW n \in Nat, Chain(con, S, cut, k, n),
         NEW m \in Nat, cut[k] <= m
  PROVE  Chain(con, S, cut, k, m)
<1>1. ASSUME NEW i \in 0 .. k PROVE cut[i] \in 0 .. m
  <2>1. cut[i] \in Nat /\ cut[k] \in Nat
    BY ChainType
  <2>2. cut[i] <= cut[k]
    BY ChainGrows
  <2> DEFINE x == cut[i]
             y == cut[k]
  <2>3. x \in Nat /\ y \in Nat /\ x <= y /\ y <= m
    BY <2>1, <2>2
  <2>4. x \in 0 .. m
    <3> HIDE DEF x, y
    <3> QED BY ONLY SMT, <2>3, m \in Nat
  <2> QED BY <2>4
<1>2. cut \in [0 .. k -> 0 .. m]
  <2>1. cut = [i \in 0 .. k |-> cut[i]]
    BY DEF Chain
  <2> QED BY <1>1, <2>1
<1> QED BY <1>2 DEF Chain

\* The first j steps of a cut.
LEMMA ChainPrefix ==
  ASSUME NEW con, NEW S, NEW cut, NEW k \in Nat, NEW n \in Nat, Chain(con, S, cut, k, n),
         NEW j \in 0 .. k
  PROVE  Chain(con, S, [i \in 0 .. j |-> cut[i]], j, n)
<1> DEFINE f == [i \in 0 .. j |-> cut[i]]
<1>1. /\ 0 .. j \subseteq 0 .. k /\ 1 .. j \subseteq 1 .. k /\ 0 \in 0 .. j
      /\ \A i \in 1 .. j : i - 1 \in 0 .. j /\ i \in 0 .. j
  BY SMT
<1>2. f \in [0 .. j -> 0 .. n] /\ f[0] = 0
  BY <1>1 DEF Chain
<1>3. ASSUME NEW i \in 1 .. j PROVE Shows(con, S, f, i)
  <2>1. f[i - 1] = cut[i - 1] /\ f[i] = cut[i]
    BY <1>1
  <2>2. Shows(con, S, cut, i)
    BY <1>1 DEF Chain
  <2> HIDE DEF f
  <2> QED BY <2>1, <2>2 DEF Shows
<1> HIDE DEF f
<1>4. Chain(con, S, f, j, n)
  BY <1>2, <1>3 DEF Chain
<1> QED BY <1>4 DEF f

\* One step more: its stretch ends at line m.
LEMMA ChainExtend ==
  ASSUME NEW con, NEW S, NEW cut, NEW k \in Nat, NEW n \in Nat, Chain(con, S, cut, k, n),
         NEW m \in Nat, n <= m, HitsIn(con, S[k + 1], cut[k] + 1, m) >= Wanted(S[k + 1])
  PROVE  Reaches(con, S, k + 1, m)
<1> DEFINE c == [i \in 0 .. k + 1 |-> IF i = k + 1 THEN m ELSE cut[i]]
<1>1. /\ k + 1 \in 0 .. k + 1 /\ 0 \in 0 .. k + 1 /\ 0 # k + 1 /\ (k + 1) - 1 = k
      /\ k # k + 1 /\ k \in 0 .. k + 1
      /\ \A i \in 0 .. k : i \in 0 .. k + 1 /\ i # k + 1
      /\ \A i \in 0 .. k + 1 : i # k + 1 => i \in 0 .. k
      /\ \A i \in 1 .. k : i \in 0 .. k /\ i - 1 \in 0 .. k
      /\ \A i \in 1 .. k + 1 : i # k + 1 => i \in 1 .. k
      /\ \A x \in Nat : x <= n => x \in 0 .. m /\ x <= m
      /\ m \in 0 .. m
  BY SMT
<1>2. c[k + 1] = m /\ \A i \in 0 .. k : c[i] = cut[i]
  BY <1>1
<1>3. c[0] = 0 /\ c[k] = cut[k] /\ cut[k] <= m
  <2>1. 0 \in 0 .. k /\ k \in 0 .. k
    BY SMT
  <2>2. cut[0] = 0
    BY DEF Chain
  <2>3. cut[k] \in Nat /\ cut[k] <= n
    BY ChainType
  <2> HIDE DEF c
  <2> QED BY <1>1, <1>2, <2>1, <2>2, <2>3
<1>4. c \in [0 .. k + 1 -> 0 .. m]
  <2>1. \A i \in 0 .. k : cut[i] \in Nat /\ cut[i] <= n
    BY ChainType
  <2>2. \A i \in 0 .. k + 1 : (IF i = k + 1 THEN m ELSE cut[i]) \in 0 .. m
    BY <1>1, <2>1
  <2> QED BY <2>2
<1> HIDE DEF c
<1>5. ASSUME NEW i \in 1 .. k PROVE Shows(con, S, c, i)
  <2>1. Shows(con, S, cut, i)
    BY DEF Chain
  <2>2. c[i - 1] = cut[i - 1] /\ c[i] = cut[i]
    BY <1>1, <1>2
  <2> QED BY <2>1, <2>2 DEF Shows
<1>6. Shows(con, S, c, k + 1)
  <2>1. c[(k + 1) - 1] = cut[k] /\ c[k + 1] = m
    BY <1>1, <1>2, <1>3
  <2> QED BY <1>3, <2>1 DEF Shows
<1>7. \A i \in 1 .. k + 1 : Shows(con, S, c, i)
  BY <1>1, <1>5, <1>6
<1> QED BY <1>2, <1>3, <1>4, <1>7 DEF Chain, Reaches

\* A new line does not change what the earlier ones show.
LEMMA ChainSame ==
  ASSUME NEW P, NEW con, NEW l, NEW z, Grown(P, con, l, z), NEW S, NEW cut, NEW k \in Nat,
         NEW n \in Nat, n <= Len(con)
  PROVE  Chain(z, S, cut, k, n) <=> Chain(con, S, cut, k, n)
<1> SUFFICES ASSUME cut \in [0 .. k -> 0 .. n], NEW i \in 1 .. k
             PROVE  Shows(z, S, cut, i) <=> Shows(con, S, cut, i)
  BY DEF Chain
<1> DEFINE a == cut[i - 1] + 1
           b == cut[i]
           L == Len(con)
<1>1. i - 1 \in 0 .. k /\ i \in 0 .. k
  BY SMT
<1>2. cut[i - 1] \in 0 .. n /\ cut[i] \in 0 .. n /\ L \in Nat
  BY <1>1 DEF Grown
<1>3. a \in Nat /\ 1 <= a /\ b \in Nat /\ b <= L
  <2> DEFINE x == cut[i - 1]
  <2>1. x \in 0 .. n /\ b \in 0 .. n /\ n <= L
    BY <1>2
  <2>2. x + 1 \in Nat /\ 1 <= x + 1 /\ b \in Nat /\ b <= L
    <3> HIDE DEF x, b, L
    <3> QED BY ONLY SMT, <1>2, <2>1, n \in Nat
  <2> QED BY <2>2
<1>4. HitsIn(z, S[i], a, b) = HitsIn(con, S[i], a, b)
  <2> DEFINE p == S[i]
  <2>1. Grown(P, con, l, z) /\ a \in Nat /\ 1 <= a /\ b \in Nat /\ b <= Len(con)
    BY <1>3
  <2> HIDE DEF a, b, p
  <2>2. HitsIn(z, p, a, b) = HitsIn(con, p, a, b)
    BY ONLY SMT, <2>1, HitsSame
  <2> QED BY <2>2 DEF p
<1> QED BY <1>4 DEF Shows

\* g is the first line by which the first k steps are shown.
First(con, S, k, g) ==
    /\ g \in Nat /\ g <= Len(con) /\ \E cut : Chain(con, S, cut, k, g)
    /\ \A cut : Chain(con, S, cut, k, Len(con)) => g <= cut[k]

\* The first k steps are shown, the next one has m of the lines it waits for.
Waiting(con, S, k, m) ==
    /\ m \in Nat /\ m < Wanted(S[k + 1])
    /\ \E g : First(con, S, k, g) /\ m = HitsIn(con, S[k + 1], g + 1, Len(con))

LEMMA FirstCut ==
  ASSUME NEW con, Len(con) \in Nat, NEW S, NEW k \in Nat, NEW g, First(con, S, k, g)
  PROVE  Reaches(con, S, k, g)
<1>1. PICK cut : Chain(con, S, cut, k, g)
  BY DEF First
<1>2. g \in Nat /\ g <= Len(con)
  BY DEF First
<1>3. cut[k] \in Nat /\ cut[k] <= g
  BY <1>1, <1>2, ChainType
<1> DEFINE x == cut[k]
           L == Len(con)
<1>4. x <= L
  <2>1. x \in Nat /\ x <= g /\ g \in Nat /\ g <= L /\ L \in Nat
    BY <1>2, <1>3
  <2> HIDE DEF x, L
  <2> QED BY ONLY SMT, <2>1
<1>5. Chain(con, S, cut, k, Len(con))
  BY <1>1, <1>2, <1>4, ChainWithin
<1>6. g <= cut[k]
  BY <1>5 DEF First
<1>7. x = g
  <2>1. x \in Nat /\ x <= g /\ g \in Nat /\ g <= x
    BY <1>2, <1>3, <1>6
  <2> HIDE DEF x
  <2> QED BY ONLY SMT, <2>1
<1> QED BY <1>1, <1>7 DEF Reaches

\* More lines do not bring that line forward.
LEMMA FirstSame ==
  ASSUME NEW P, NEW con, NEW l, NEW z, Grown(P, con, l, z), NEW S, NEW k \in Nat, NEW g,
         First(con, S, k, g)
  PROVE  First(z, S, k, g)
<1> DEFINE L == Len(con)
<1>1. g \in Nat /\ g <= L /\ L \in Nat /\ Len(z) = L + 1
  BY DEF First, Grown
<1>2. g <= L + 1 /\ L + 1 \in Nat
  <2> HIDE DEF L
  <2> QED BY ONLY SMT, <1>1
<1>3. \E cut : Chain(z, S, cut, k, g)
  <2>1. PICK cut : Chain(con, S, cut, k, g)
    BY DEF First
  <2>2. Chain(z, S, cut, k, g)
    BY <1>1, <2>1, ChainSame
  <2> QED BY <2>2
<1>4. ASSUME NEW cut, Chain(z, S, cut, k, L + 1) PROVE g <= cut[k]
  <2> DEFINE x == cut[k]
  <2>1. x \in Nat /\ x <= L + 1
    BY <1>2, <1>4, ChainType
  <2>2. CASE x <= L
    <3>1. Chain(z, S, cut, k, L)
      BY <1>1, <1>2, <1>4, <2>2, ChainWithin
    <3>2. L <= L
      <4> HIDE DEF L
      <4> QED BY ONLY SMT, <1>1
    <3>3. Chain(con, S, cut, k, L)
      BY <1>1, <3>1, <3>2, ChainSame
    <3> QED BY <3>3 DEF First
  <2>3. CASE ~ (x <= L)
    <3>1. g <= x
      <4> HIDE DEF x, L
      <4> QED BY ONLY SMT, <1>1, <2>1, <2>3
    <3> QED BY <3>1
  <2> QED BY <2>2, <2>3
<1> QED BY <1>1, <1>2, <1>3, <1>4 DEF First

\* While a step waits, no cut shows it.
LEMMA NotYet ==
  ASSUME NEW con, Len(con) \in Nat, NEW S, NEW k \in Nat, NEW m, Waiting(con, S, k, m),
         Wanted(S[k + 1]) \in Nat, NEW cut, NEW j \in Nat, k + 1 <= j
  PROVE  ~ Chain(con, S, cut, j, Len(con))
<1> SUFFICES ASSUME Chain(con, S, cut, j, Len(con)) PROVE FALSE
  OBVIOUS
<1> DEFINE L == Len(con)
           p == S[k + 1]
           x == cut[k]
           y == cut[k + 1]
<1>1. k \in 0 .. j /\ k + 1 \in 1 .. j /\ k + 1 \in 0 .. j /\ (k + 1) - 1 = k /\ k \in 0 .. k
  BY SMT
<1>2. PICK g : First(con, S, k, g) /\ m = HitsIn(con, p, g + 1, L)
  BY DEF Waiting
<1>3. g \in Nat /\ x \in Nat /\ y \in Nat /\ y <= L /\ m \in Nat /\ m < Wanted(p)
  BY <1>1, <1>2, ChainType DEF First, Waiting
<1>4. g <= x
  <2> DEFINE f == [i \in 0 .. k |-> cut[i]]
  <2>1. Chain(con, S, f, k, L)
    BY <1>1, ChainPrefix
  <2>2. f[k] = x
    BY <1>1
  <2> HIDE DEF f
  <2>3. g <= f[k]
    BY <1>2, <2>1 DEF First
  <2> QED BY <2>2, <2>3
<1>5. HitsIn(con, p, x + 1, y) >= Wanted(p)
  <2>1. Shows(con, S, cut, k + 1)
    BY <1>1 DEF Chain
  <2>2. HitsIn(con, S[k + 1], cut[(k + 1) - 1] + 1, cut[k + 1]) >= Wanted(S[k + 1])
    BY <2>1 DEF Shows
  <2> QED BY <1>1, <2>2
<1>6. Wanted(p) \in Nat /\ L \in Nat
  OBVIOUS
<1> HIDE DEF x, y, L, p
<1>7. g + 1 <= x + 1 /\ g + 1 \in Int /\ x + 1 \in Int /\ y \in Int /\ L \in Int
  BY ONLY SMT, <1>3, <1>4, <1>6
<1>8. HitsIn(con, p, x + 1, y) <= HitsIn(con, p, g + 1, L)
  BY <1>3, <1>7, HitsWithin
<1>9. HitsIn(con, p, x + 1, y) \in Nat
  BY <1>7, HitsType
<1> DEFINE u == HitsIn(con, p, x + 1, y)
           w == Wanted(p)
<1>10. u \in Nat /\ w \in Nat /\ m \in Nat /\ u <= m /\ u >= w /\ m < w
  BY <1>2, <1>3, <1>5, <1>6, <1>8, <1>9
<1> HIDE DEF u, w
<1> QED BY ONLY SMT, <1>10

\* A line for a step that waits: it does not match, it counts, or it is the
\* last one the step waits for.
LEMMA WaitingLine ==
  ASSUME NEW P, NEW con, NEW l, NEW z, Grown(P, con, l, z), NEW S, NEW k \in Nat, NEW m,
         Waiting(con, S, k, m), Wanted(S[k + 1]) \in Nat
  PROVE  /\ ~ Matches(S[k + 1], l.node, l.text) => Waiting(z, S, k, m)
         /\ Matches(S[k + 1], l.node, l.text) =>
               IF m + 1 >= Wanted(S[k + 1]) THEN First(z, S, k + 1, Len(z))
               ELSE Waiting(z, S, k, m + 1)
<1> DEFINE p == S[k + 1]
           L == Len(con)
<1>1. PICK g : First(con, S, k, g) /\ m = HitsIn(con, p, g + 1, L)
  BY DEF Waiting
<1>2. First(z, S, k, g)
  BY <1>1, FirstSame
<1>3. g \in Nat /\ g <= L /\ L \in Nat /\ Len(z) = L + 1 /\ m \in Nat /\ m < Wanted(p)
      /\ Wanted(p) \in Nat
  BY <1>1 DEF First, Grown, Waiting
<1>4. g + 1 \in 1 .. L + 1 /\ L + 1 \in Nat /\ g <= L + 1
  <2> HIDE DEF L, p
  <2> QED BY ONLY SMT, <1>3
<1>5. HitsIn(z, p, g + 1, L + 1) = IF Matches(p, l.node, l.text) THEN m + 1 ELSE m
  <2> DEFINE a == g + 1
  <2>1. Grown(P, con, l, z) /\ a \in 1 .. Len(con) + 1
    BY <1>4
  <2> HIDE DEF a, p
  <2>2. HitsIn(z, p, a, Len(con) + 1) =
             IF Matches(p, l.node, l.text) THEN HitsIn(con, p, a, Len(con)) + 1
             ELSE HitsIn(con, p, a, Len(con))
    BY ONLY SMT, <2>1, HitsNext
  <2> QED BY <1>1, <2>2 DEF a
<1>6. ~ Matches(p, l.node, l.text) => Waiting(z, S, k, m)
  BY <1>2, <1>3, <1>5 DEF Waiting
<1>7. CASE Matches(p, l.node, l.text) /\ ~ (m + 1 >= Wanted(p))
  <2>1. m + 1 \in Nat /\ m + 1 < Wanted(p)
    <3> DEFINE w == Wanted(p)
    <3>1. m \in Nat /\ w \in Nat /\ ~ (m + 1 >= w)
      BY <1>3, <1>7
    <3>2. m + 1 \in Nat /\ m + 1 < w
      <4> HIDE DEF w
      <4> QED BY ONLY SMT, <3>1
    <3> QED BY <3>2
  <2>2. m + 1 = HitsIn(z, S[k + 1], g + 1, Len(z))
    BY <1>3, <1>5, <1>7
  <2>3. Waiting(z, S, k, m + 1)
    BY <1>2, <2>1, <2>2 DEF Waiting
  <2> QED BY <1>6, <1>7, <2>3
<1>8. CASE Matches(p, l.node, l.text) /\ m + 1 >= Wanted(p)
  <2>1. PICK cut : Chain(z, S, cut, k, g) /\ cut[k] = g
    <3>1. Len(z) \in Nat
      BY <1>3, <1>4
    <3>2. Reaches(z, S, k, g)
      BY <1>2, <3>1, FirstCut
    <3> QED BY <3>2 DEF Reaches
  <2>2. HitsIn(z, S[k + 1], cut[k] + 1, L + 1) >= Wanted(S[k + 1])
    BY <1>5, <1>8, <2>1
  <2>3. \E c : Chain(z, S, c, k + 1, L + 1)
    <3> DEFINE n == L + 1
    <3>1. g \in Nat /\ n \in Nat /\ g <= n /\ HitsIn(z, S[k + 1], cut[k] + 1, n) >= Wanted(S[k + 1])
      BY <1>3, <1>4, <2>2
    <3>2. \E c : Chain(z, S, c, k + 1, n)
      <4> HIDE DEF n
      <4>1. Reaches(z, S, k + 1, n)
        BY ONLY Zenon, k \in Nat, <2>1, <3>1, ChainExtend
      <4> QED BY ONLY Zenon, <4>1 DEF Reaches
    <3> QED BY <3>2
  <2>4. ASSUME NEW c, Chain(z, S, c, k + 1, L + 1) PROVE L + 1 <= c[k + 1]
    <3> DEFINE x == c[k + 1]
               j == k + 1
               n == L + 1
    <3>1. j \in Nat /\ k + 1 <= j /\ n \in Nat
      <4>1. k + 1 \in Nat /\ k + 1 <= k + 1
        BY ONLY SMT, k \in Nat
      <4> QED BY <1>4, <4>1
    <3>2. x \in Nat /\ x <= n
      <4>1. Chain(z, S, c, j, n)
        BY <2>4
      <4>2. c[j] \in Nat /\ c[j] <= n
        <5> HIDE DEF j, n
        <5> QED BY <3>1, <4>1, ChainType
      <4> QED BY <4>2
    <3>3. ~ (x <= L)
      <4> SUFFICES ASSUME x <= L PROVE FALSE
        OBVIOUS
      <4>1. Chain(z, S, c, j, n) /\ c[j] <= L /\ L \in Nat /\ L <= L
        <5>1. L <= L
          <6> HIDE DEF L
          <6> QED BY ONLY SMT, <1>3
        <5> QED BY <1>3, <2>4, <5>1
      <4> HIDE DEF j, n
      <4>2. Chain(z, S, c, j, L)
        BY <3>1, <4>1, ChainWithin
      <4>3. Chain(con, S, c, j, L)
        BY <3>1, <4>1, <4>2, ChainSame
      <4> QED BY <1>3, <3>1, <4>3, NotYet
    <3>4. n <= x
      <4>1. n = L + 1 /\ L \in Nat
        BY <1>3
      <4> HIDE DEF x, n, L
      <4> QED BY ONLY SMT, <3>2, <3>3, <4>1
    <3> QED BY <3>4
  <2>5. L + 1 <= L + 1
    <3> HIDE DEF L
    <3> QED BY ONLY SMT, <1>3
  <2>6. First(z, S, k + 1, Len(z))
    BY <1>3, <1>4, <2>3, <2>4, <2>5 DEF First
  <2> QED BY <1>6, <1>8, <2>6
<1>9. CASE ~ Matches(p, l.node, l.text)
  BY <1>6, <1>9
<1> QED BY <1>7, <1>8, <1>9

\* A step starts with no line.
LEMMA WaitingStarts ==
  ASSUME NEW con, Len(con) \in Nat, NEW S, NEW k \in Nat, First(con, S, k, Len(con)),
         Wanted(S[k + 1]) \in Nat \ {0}
  PROVE  Waiting(con, S, k, 0)
<1> DEFINE w == Wanted(S[k + 1])
           L == Len(con)
<1>1. w \in Nat \ {0} /\ L \in Nat
  OBVIOUS
<1>2. 0 \in Nat /\ 0 < w
  <2> HIDE DEF w
  <2> QED BY ONLY SMT, <1>1
<1>3. HitsIn(con, S[k + 1], L + 1, L) = 0
  BY <1>1, HitsNone
<1> QED BY <1>2, <1>3 DEF Waiting

LEMMA WaitingFirst ==
  ASSUME NEW con, Len(con) = 0, NEW S, Wanted(S[1]) \in Nat \ {0}
  PROVE  Waiting(con, S, 0, 0)
<1>1. First(con, S, 0, 0)
  <2> DEFINE f == [i \in 0 .. 0 |-> 0]
  <2>1. 0 \in Nat /\ 0 <= 0 /\ 0 .. 0 = {0} /\ 1 .. 0 = {}
    BY ONLY SMT
  <2>2. Chain(con, S, f, 0, 0)
    BY <2>1 DEF Chain
  <2>3. \A cut : Chain(con, S, cut, 0, 0) => 0 <= cut[0]
    BY <2>1 DEF Chain
  <2> QED BY <2>1, <2>2, <2>3 DEF First
<1>2. Len(con) \in Nat /\ 0 \in Nat /\ 0 + 1 = 1
  BY SMT
<1> QED BY <1>1, <1>2, WaitingStarts

-----------------------------------------------------------------------------
(* What the state of a configured test says of the console.                *)

Bad(c, con) == {n \in DOMAIN con : con[n].text \in c.fail_on}

\* The steps are shown before any fail_on line.
Passed(c, con) ==
    \E g : First(con, c.steps, Len(c.steps), g) /\ \A b \in Bad(c, con) : g < b

\* A fail_on line comes first.
Lost(c, con) ==
    \E b \in Bad(c, con) : \A cut :
        Chain(con, c.steps, cut, Len(c.steps), Len(con)) => b <= cut[Len(c.steps)]

Missed(c, con) == \A cut : ~ Chain(con, c.steps, cut, Len(c.steps), Len(con))

\* The steps are greedy: the one at hand starts where the ones before it can
\* end first.
Judged(c, con, s) ==
    /\ s.finished = 0 =>
          /\ Bad(c, con) = {}
          /\ \E k \in Nat : s.current_step = k + 1 /\ k + 1 <= Len(c.steps)
                            /\ Waiting(con, c.steps, k, s.match_count)
    /\ s.finished = 1 => Passed(c, con)
    /\ s.finished \notin {0, 1} => Lost(c, con)

\* A step timeout ends the run, so that no line follows it.
Expired(c, con, s) == s.finished \notin {0, 1} /\ Missed(c, con)

Fields(s) ==
    DOMAIN s = {"active", "finished", "current_step", "match_count", "step_start", "counts"}

\* A validator counts no line that is not there; after the verdict it stops.
Tallied(c, con, s) ==
    /\ DOMAIN s.counts = DOMAIN c.validators
    /\ \A i \in DOMAIN c.validators :
          s.counts[i] \in Nat /\ s.counts[i] <= HitsIn(con, c.validators[i], 1, Len(con))

Final(c, con, s) ==
    s.finished = 1 =>
        /\ Passed(c, con) \/ (c.timeout_is_success /\ Bad(c, con) = {})
        /\ \A i \in DOMAIN c.validators :
              HitsIn(con, c.validators[i], 1, Len(con)) >= c.validators[i].min_count

JInv ==
    /\ setup \in Setups /\ console \in Seq(setup.prints)
    /\ ~setup.js /\ cfg.steps # <<>> =>
          /\ Fields(t) /\ Tallied(cfg, console, t)
          /\ main # "done" =>
                /\ t.active = TRUE
                /\ Judged(cfg, console, t) \/ (main = "report" /\ Expired(cfg, console, t))
          /\ main = "done" => t.active = FALSE /\ Final(cfg, console, t)

LEMMA ConfigFacts ==
  ASSUME NEW c \in TestConfig
  PROVE  /\ Len(c.steps) \in Nat /\ DOMAIN c.steps = 1 .. Len(c.steps)
         /\ \A i \in 1 .. Len(c.steps) :
               c.steps[i].count \in Int /\ Wanted(c.steps[i]) \in Nat \ {0}
         /\ \A i \in DOMAIN c.validators : c.validators[i].min_count \in Int
<1> DEFINE Q == [pattern : SUBSET STRING, node : Int, count : Int, timeout : Int]
           V == [pattern : SUBSET STRING, node : Int, min_count : Int]
<1>1. c.steps \in Seq(Q) /\ c.validators \in Seq(V)
  BY DEF TestConfig
<1>2. (\A q \in Q : q.count \in Int) /\ \A v \in V : v.min_count \in Int
  OBVIOUS
<1>3. \A q \in Q : Wanted(q) \in Nat \ {0}
  <2>1. ASSUME NEW q \in Q PROVE Wanted(q) \in Nat \ {0}
    <3> DEFINE x == q.count
    <3>1. x \in Int
      BY <1>2
    <3>2. (IF x > 1 THEN x ELSE 1) \in Nat \ {0}
      <4> HIDE DEF x
      <4> QED BY ONLY SMT, <3>1
    <3> QED BY <3>2 DEF Wanted
  <2> QED BY <2>1
<1> DEFINE S == c.steps
           W == c.validators
<1> HIDE DEF Q, V, S, W
<1>4. /\ Len(S) \in Nat /\ DOMAIN S = 1 .. Len(S) /\ (\A i \in DOMAIN S : S[i] \in Q)
      /\ \A i \in DOMAIN W : W[i] \in V
  <2>1. S \in Seq(Q) /\ W \in Seq(V)
    BY <1>1 DEF S, W
  <2> QED BY ONLY SMT, <2>1
<1>5. \A i \in 1 .. Len(S) : S[i].count \in Int /\ Wanted(S[i]) \in Nat \ {0}
  BY <1>2, <1>3, <1>4
<1>6. \A i \in DOMAIN W : W[i].min_count \in Int
  BY <1>2, <1>4
<1> QED BY <1>4, <1>5, <1>6 DEF S, W

\* The new line is the only one that can be bad and was not before.
BadToo(c, con, l, z) ==
    /\ Bad(c, z) = IF l.text \in c.fail_on THEN Bad(c, con) \cup {Len(con) + 1} ELSE Bad(c, con)
    /\ \A b \in Bad(c, con) : b \in Nat /\ b <= Len(con)

LEMMA BadLine ==
  ASSUME NEW P, NEW con, NEW l, NEW z, Grown(P, con, l, z), NEW c
  PROVE  BadToo(c, con, l, z)
<1> DEFINE L == Len(con)
<1>1. L \in Nat /\ con \in Seq(P) /\ z \in Seq(P) /\ Len(z) = L + 1
      /\ (\A i \in 1 .. L : z[i] = con[i]) /\ z[L + 1] = l
  BY DEF Grown
<1>2. DOMAIN con = 1 .. L /\ DOMAIN z = 1 .. L + 1
  <2>1. DOMAIN con = 1 .. Len(con) /\ DOMAIN z = 1 .. Len(z)
    BY ONLY SMT, <1>1
  <2> QED BY <1>1, <2>1
<1> HIDE DEF L
<1>3. 1 .. L + 1 = (1 .. L) \cup {L + 1} /\ \A b \in 1 .. L : b \in Nat /\ b <= L
  BY ONLY SMT, <1>1
<1>4. Bad(c, z) = IF l.text \in c.fail_on THEN Bad(c, con) \cup {L + 1} ELSE Bad(c, con)
  <2>1. ASSUME NEW i
        PROVE  i \in Bad(c, z) <=> i \in Bad(c, con) \/ (i = L + 1 /\ l.text \in c.fail_on)
    <3>1. CASE i \in 1 .. L
      <4>1. i # L + 1
        BY ONLY SMT, <1>1, <3>1
      <4>2. z[i] = con[i] /\ i \in DOMAIN z /\ i \in DOMAIN con
        BY <1>1, <1>2, <1>3, <3>1
      <4> QED BY <4>1, <4>2 DEF Bad
    <3>2. CASE i = L + 1
      <4>1. L + 1 \notin 1 .. L
        BY ONLY SMT, <1>1
      <4>2. z[i] = l /\ i \in DOMAIN z /\ i \notin DOMAIN con
        BY <1>1, <1>2, <1>3, <3>2, <4>1
      <4> QED BY <3>2, <4>2 DEF Bad
    <3>3. CASE i \notin 1 .. L /\ i # L + 1
      <4>1. i \notin DOMAIN z /\ i \notin DOMAIN con
        <5>1. i \notin 1 .. L + 1
          BY ONLY Zenon, <1>3, <3>3
        <5> QED BY ONLY Zenon, <1>2, <3>3, <5>1
      <4> QED BY <3>3, <4>1 DEF Bad
    <3> QED BY <3>1, <3>2, <3>3
  <2>2. CASE l.text \in c.fail_on
    BY <2>1, <2>2
  <2>3. CASE l.text \notin c.fail_on
    BY <2>1, <2>3
  <2> QED BY <2>2, <2>3
<1>5. \A b \in Bad(c, con) : b \in Nat /\ b <= L
  BY <1>2, <1>3 DEF Bad
<1> QED BY <1>4, <1>5 DEF L, BadToo

LEMMA PassedStays ==
  ASSUME NEW P, NEW con, NEW l, NEW z, Grown(P, con, l, z), NEW c, Len(c.steps) \in Nat,
         Passed(c, con)
  PROVE  Passed(c, z)
<1> DEFINE L == Len(con)
<1>1. PICK g : First(con, c.steps, Len(c.steps), g) /\ \A b \in Bad(c, con) : g < b
  BY DEF Passed
<1>2. First(z, c.steps, Len(c.steps), g)
  BY <1>1, FirstSame
<1>3. g < L + 1
  <2>1. g \in Nat /\ g <= L /\ L \in Nat
    BY <1>1 DEF First, Grown
  <2> HIDE DEF L
  <2> QED BY ONLY SMT, <2>1
<1>4. \A b \in Bad(c, z) : b \in Bad(c, con) \/ b = L + 1
  <2>1. BadToo(c, con, l, z)
    BY BadLine
  <2> QED BY <2>1 DEF BadToo
<1> QED BY <1>1, <1>2, <1>3, <1>4 DEF Passed

\* A cut of the longer console is one of the shorter, or ends with the new line.
Either(con, S, cut, k) ==
    (Chain(con, S, cut, k, Len(con)) \/ cut[k] = Len(con) + 1) /\ cut[k] \in Nat

LEMMA CutOfMore ==
  ASSUME NEW P, NEW con, NEW l, NEW z, Grown(P, con, l, z), NEW S, NEW k \in Nat, NEW cut,
         Chain(z, S, cut, k, Len(z))
  PROVE  Either(con, S, cut, k)
<1> DEFINE L == Len(con)
           x == cut[k]
<1>1. L \in Nat /\ Len(z) = L + 1
  BY DEF Grown
<1>2. L + 1 \in Nat /\ L <= L
  <2> HIDE DEF L
  <2> QED BY ONLY SMT, <1>1
<1>3. x \in Nat /\ x <= L + 1
  BY <1>1, <1>2, ChainType
<1>4. x <= L \/ x = L + 1
  <2> HIDE DEF L, x
  <2> QED BY ONLY SMT, <1>1, <1>3
<1>5. CASE x <= L
  <2>1. Chain(z, S, cut, k, L)
    BY <1>1, <1>2, <1>5, ChainWithin
  <2>2. Chain(con, S, cut, k, L)
    BY <1>1, <1>2, <2>1, ChainSame
  <2> QED BY <1>3, <2>2 DEF Either
<1> QED BY <1>3, <1>4, <1>5 DEF Either

LEMMA LostStays ==
  ASSUME NEW P, NEW con, NEW l, NEW z, Grown(P, con, l, z), NEW c, Len(c.steps) \in Nat,
         Lost(c, con)
  PROVE  Lost(c, z)
<1> DEFINE L == Len(con)
           N == Len(c.steps)
<1>1. PICK b \in Bad(c, con) : \A cut : Chain(con, c.steps, cut, N, L) => b <= cut[N]
  BY DEF Lost
<1>2. b \in Nat /\ b <= L /\ L \in Nat /\ b \in Bad(c, z)
  <2>1. BadToo(c, con, l, z)
    BY BadLine
  <2> QED BY <2>1 DEF BadToo, Grown
<1>3. b <= L + 1
  <2> HIDE DEF L
  <2> QED BY ONLY SMT, <1>2
<1>4. ASSUME NEW cut, Chain(z, c.steps, cut, N, Len(z)) PROVE b <= cut[N]
  <2>1. Chain(con, c.steps, cut, N, L) \/ cut[N] = L + 1
    <3>1. Either(con, c.steps, cut, N)
      BY <1>4, CutOfMore
    <3> QED BY <3>1 DEF Either
  <2> QED BY <1>1, <1>3, <2>1
<1> QED BY <1>2, <1>4 DEF Lost

\* A fail_on line while a step waits.
LEMMA WaitingLoses ==
  ASSUME NEW P, NEW con, NEW l, NEW z, Grown(P, con, l, z), NEW c \in TestConfig,
         l.text \in c.fail_on, NEW k \in Nat, NEW m, Waiting(con, c.steps, k, m),
         k + 1 <= Len(c.steps)
  PROVE  Lost(c, z)
<1> DEFINE L == Len(con)
           N == Len(c.steps)
<1>1. L + 1 \in Bad(c, z) /\ L \in Nat
  <2>1. BadToo(c, con, l, z)
    BY BadLine
  <2> QED BY <2>1 DEF BadToo, Grown
<1>2. Wanted(c.steps[k + 1]) \in Nat /\ N \in Nat
  <2>1. N \in Nat /\ \A i \in 1 .. N : Wanted(c.steps[i]) \in Nat \ {0}
    BY ConfigFacts
  <2>2. k + 1 \in 1 .. N
    <3>1. k \in Nat /\ k + 1 <= N /\ N \in Nat
      BY <2>1
    <3> HIDE DEF N
    <3> QED BY ONLY SMT, <3>1
  <2> QED BY <2>1, <2>2
<1>3. ASSUME NEW cut, Chain(z, c.steps, cut, N, Len(z)) PROVE L + 1 <= cut[N]
  <2>1. Chain(con, c.steps, cut, N, L) \/ cut[N] = L + 1
    <3>1. Either(con, c.steps, cut, N)
      BY <1>2, <1>3, CutOfMore
    <3> QED BY <3>1 DEF Either
  <2>2. ~ Chain(con, c.steps, cut, N, L)
    <3> DEFINE S == c.steps
    <3>1. Waiting(con, S, k, m) /\ Wanted(S[k + 1]) \in Nat /\ k + 1 <= N /\ N \in Nat
          /\ Len(con) \in Nat
      BY <1>1, <1>2
    <3> HIDE DEF S, N
    <3>2. ~ Chain(con, S, cut, N, Len(con))
      BY <3>1, NotYet
    <3> QED BY <3>2 DEF S
  <2>3. L + 1 <= L + 1
    <3> HIDE DEF L
    <3> QED BY ONLY SMT, <1>1
  <2> QED BY <2>1, <2>2, <2>3
<1> QED BY <1>1, <1>3 DEF Lost

\* What a state of the test is worth after one more line.
Sound(c, con, s) == Fields(s) /\ Tallied(c, con, s) /\ s.active = TRUE /\ Judged(c, con, s)

LEMMA TallyLine ==
  ASSUME NEW P, NEW con, NEW l, NEW z, Grown(P, con, l, z), NEW c, NEW s, Fields(s),
         Tallied(c, con, s)
  PROVE  Tallied(c, z, s) /\ Tallied(c, z, Counted(s, c, l.node, l.text))
<1> DEFINE L == Len(con)
           d == Counted(s, c, l.node, l.text)
<1>1. L \in Nat /\ Len(z) = L + 1
  BY DEF Grown
<1>2. d.counts = [i \in DOMAIN s.counts |->
          IF Matches(c.validators[i], l.node, l.text) THEN s.counts[i] + 1 ELSE s.counts[i]]
  BY DEF Counted, Fields
<1> HIDE DEF d
<1>3. ASSUME NEW i \in DOMAIN c.validators
      PROVE  /\ s.counts[i] \in Nat /\ s.counts[i] <= HitsIn(z, c.validators[i], 1, L + 1)
             /\ d.counts[i] \in Nat /\ d.counts[i] <= HitsIn(z, c.validators[i], 1, L + 1)
  <2> DEFINE v == c.validators[i]
             x == s.counts[i]
             y == d.counts[i]
             h == HitsIn(con, v, 1, L)
             w == HitsIn(z, v, 1, L + 1)
  <2>1. x \in Nat /\ x <= h
    BY DEF Tallied
  <2>2. y = IF Matches(v, l.node, l.text) THEN x + 1 ELSE x
    BY <1>2 DEF Tallied
  <2>3. w = IF Matches(v, l.node, l.text) THEN h + 1 ELSE h
    <3>1. Grown(P, con, l, z) /\ 1 \in 1 .. Len(con) + 1
      <4>1. 1 \in 1 .. L + 1
        <5> HIDE DEF L
        <5> QED BY ONLY SMT, <1>1
      <4> QED BY <4>1
    <3> HIDE DEF v
    <3>2. HitsIn(z, v, 1, Len(con) + 1) =
             IF Matches(v, l.node, l.text) THEN HitsIn(con, v, 1, Len(con)) + 1
             ELSE HitsIn(con, v, 1, Len(con))
      BY ONLY SMT, <3>1, HitsNext
    <3> QED BY <3>2
  <2>4. h \in Nat
    <3>1. 1 \in Int /\ L \in Int
      <4> HIDE DEF L
      <4> QED BY ONLY SMT, <1>1
    <3> QED BY <3>1, HitsType
  <2>5. x <= w /\ y \in Nat /\ y <= w
    <3> DEFINE hit == Matches(v, l.node, l.text)
    <3>1. y = (IF hit THEN x + 1 ELSE x) /\ w = IF hit THEN h + 1 ELSE h
      BY <2>2, <2>3
    <3> HIDE DEF x, y, h, w, hit
    <3> QED BY ONLY SMT, <2>1, <2>4, <3>1
  <2> QED BY <2>1, <2>5
<1>4. DOMAIN s.counts = DOMAIN c.validators /\ DOMAIN d.counts = DOMAIN c.validators
  BY <1>2 DEF Tallied
<1>5. Tallied(c, z, s) /\ Tallied(c, z, d)
  BY <1>1, <1>3, <1>4 DEF Tallied
<1> QED BY <1>5 DEF d

\* A line after the verdict.
LEMMA LineLate ==
  ASSUME NEW P, NEW con, NEW l, NEW z, Grown(P, con, l, z), NEW c, Len(c.steps) \in Nat, NEW s,
         Sound(c, con, s), s.finished # 0
  PROVE  Sound(c, z, s)
<1>1. Tallied(c, z, s)
  BY TallyLine DEF Sound
<1>2. s.finished = 1 => Passed(c, z)
  BY PassedStays DEF Sound, Judged
<1>3. s.finished \notin {0, 1} => Lost(c, z)
  BY LostStays DEF Sound, Judged
<1> QED BY <1>1, <1>2, <1>3 DEF Sound, Judged

\* A fail_on line while the test runs.
LEMMA LineFails ==
  ASSUME NEW P, NEW con, NEW l, NEW z, Grown(P, con, l, z), NEW c \in TestConfig, NEW s,
         Sound(c, con, s), s.finished = 0, l.text \in c.fail_on
  PROVE  Sound(c, z, [s EXCEPT !.finished = -1])
<1> DEFINE d == [s EXCEPT !.finished = -1]
<1>1. /\ Fields(d) /\ d.finished = -1 /\ d.active = s.active /\ d.counts = s.counts
  BY DEF Sound, Fields
<1>2. d.finished # 0 /\ d.finished # 1
  <2>1. -1 # 0 /\ -1 # 1
    BY ONLY SMT
  <2> HIDE DEF d
  <2> QED BY <1>1, <2>1
<1> HIDE DEF d
<1>3. PICK k \in Nat : k + 1 <= Len(c.steps) /\ Waiting(con, c.steps, k, s.match_count)
  BY DEF Sound, Judged
<1>4. Lost(c, z)
  BY <1>3, WaitingLoses
<1>5. Tallied(c, z, d)
  <2>1. Tallied(c, z, s)
    BY TallyLine DEF Sound
  <2> QED BY <1>1, <2>1 DEF Tallied
<1>6. Sound(c, z, d)
  BY <1>1, <1>2, <1>4, <1>5 DEF Sound, Judged
<1> QED BY <1>6 DEF d

\* Any other line while the test runs.
LEMMA LineCounts ==
  ASSUME NEW P, NEW con, NEW l, NEW z, Grown(P, con, l, z), NEW c \in TestConfig, NEW s,
         Sound(c, con, s), s.finished = 0, l.text \notin c.fail_on, NEW time
  PROVE  LET d == Counted(s, c, l.node, l.text)
         IN  /\ ~ Matches(c.steps[s.current_step], l.node, l.text) => Sound(c, z, d)
             /\ Matches(c.steps[s.current_step], l.node, l.text) =>
                   Sound(c, z, StepMatched(d, c, time))
<1> DEFINE d == Counted(s, c, l.node, l.text)
           S == c.steps
           N == Len(c.steps)
           m == s.match_count
           hit == Matches(c.steps[s.current_step], l.node, l.text)
<1>1. /\ Fields(d) /\ d.finished = 0 /\ d.current_step = s.current_step /\ d.match_count = m
      /\ d.active = TRUE
  BY DEF Counted, Fields, Sound
<1>2. Tallied(c, z, d)
  BY TallyLine DEF Sound
<1> HIDE DEF d
<1>3. PICK k \in Nat : s.current_step = k + 1 /\ k + 1 <= N /\ Waiting(con, S, k, m)
  BY DEF Sound, Judged
<1>4. Bad(c, z) = {}
  <2>1. BadToo(c, con, l, z)
    BY BadLine
  <2> QED BY <2>1 DEF BadToo, Sound, Judged
<1>5. /\ N \in Nat /\ k + 1 \in 1 .. N
      /\ \A i \in 1 .. N : S[i].count \in Int /\ Wanted(S[i]) \in Nat \ {0}
  <2>1. N \in Nat /\ \A i \in 1 .. N : S[i].count \in Int /\ Wanted(S[i]) \in Nat \ {0}
    BY ConfigFacts
  <2>2. k + 1 \in 1 .. N
    <3>1. k \in Nat /\ k + 1 <= N /\ N \in Nat
      BY <1>3, <2>1
    <3> HIDE DEF N
    <3> QED BY ONLY SMT, <3>1
  <2> QED BY <2>1, <2>2
<1>6. S[k + 1].count \in Int /\ Wanted(S[k + 1]) \in Nat \ {0}
  BY <1>5
<1>7. m \in Nat
  BY <1>3 DEF Waiting
<1>8. /\ ~ Matches(S[k + 1], l.node, l.text) => Waiting(z, S, k, m)
      /\ Matches(S[k + 1], l.node, l.text) =>
               IF m + 1 >= Wanted(S[k + 1]) THEN First(z, S, k + 1, Len(z))
               ELSE Waiting(z, S, k, m + 1)
  <2>1. Waiting(con, S, k, m) /\ Wanted(S[k + 1]) \in Nat
    BY <1>3, <1>6
  <2> HIDE DEF m, S
  <2> QED BY <2>1, WaitingLine
<1>9. CASE ~ hit
  <2>1. Waiting(z, S, k, m)
    BY <1>3, <1>8, <1>9
  <2>2. 0 # 1 /\ 0 \in {0, 1}
    BY ONLY SMT
  <2>3. Judged(c, z, d)
    BY <1>1, <1>3, <1>4, <2>1, <2>2 DEF Judged
  <2> QED BY <1>1, <1>2, <1>9, <2>3 DEF Sound, d
<1>10. m + 1 >= S[k + 1].count <=> m + 1 >= Wanted(S[k + 1])
  <2> DEFINE x == S[k + 1].count
  <2>1. m \in Nat /\ x \in Int
    BY <1>6, <1>7
  <2>2. m + 1 >= x <=> m + 1 >= IF x > 1 THEN x ELSE 1
    <3> HIDE DEF m, x
    <3> QED BY ONLY SMT, <2>1
  <2> QED BY <2>2 DEF Wanted
<1>11. CASE hit /\ ~ (m + 1 >= S[k + 1].count)
  <2> DEFINE e == [d EXCEPT !.match_count = @ + 1]
  <2>1. StepMatched(d, c, time) = e
    BY <1>1, <1>3, <1>11 DEF StepMatched
  <2>2. /\ Fields(e) /\ e.finished = 0 /\ e.current_step = s.current_step /\ e.match_count = m + 1
        /\ e.active = TRUE /\ e.counts = d.counts
    BY <1>1 DEF Fields
  <2> HIDE DEF e
  <2>3. Waiting(z, S, k, m + 1)
    BY <1>3, <1>8, <1>10, <1>11
  <2>4. 0 # 1 /\ 0 \in {0, 1}
    BY ONLY SMT
  <2>5. Judged(c, z, e)
    BY <1>3, <1>4, <2>2, <2>3, <2>4 DEF Judged
  <2>6. Tallied(c, z, e)
    BY <1>2, <2>2 DEF Tallied
  <2> QED BY <1>11, <2>1, <2>2, <2>5, <2>6 DEF Sound, d
<1>12. CASE hit /\ m + 1 >= S[k + 1].count
  <2> DEFINE e == StepPassed(d, c, time)
  <2>1. StepMatched(d, c, time) = e
    BY <1>1, <1>3, <1>12 DEF StepMatched
  <2>2. /\ Fields(e) /\ e.finished = (IF s.current_step = N THEN 1 ELSE 0)
        /\ e.current_step = s.current_step + 1 /\ e.match_count = 0
        /\ e.active = TRUE /\ e.counts = d.counts
    BY <1>1 DEF Fields, StepPassed
  <2> HIDE DEF e
  <2>3. First(z, S, k + 1, Len(z))
    BY <1>3, <1>8, <1>10, <1>12
  <2>4. 0 # 1 /\ 0 \in {0, 1} /\ 1 \in {0, 1}
    BY ONLY SMT
  <2>5. ASSUME k + 1 = N PROVE Judged(c, z, e)
    <3>1. e.finished = 1
      BY <1>3, <2>2, <2>5
    <3>2. Passed(c, z)
      BY <1>4, <2>3, <2>5 DEF Passed
    <3> QED BY <2>4, <3>1, <3>2 DEF Judged
  <2>6. ASSUME k + 1 # N PROVE Judged(c, z, e)
    <3> DEFINE j == k + 1
    <3>1. e.finished = 0 /\ e.current_step = j + 1 /\ e.match_count = 0
      BY <1>3, <2>2, <2>6
    <3>2. j \in Nat /\ j + 1 \in 1 .. N /\ j + 1 <= N
      <4>1. k \in Nat /\ k + 1 <= N /\ k + 1 # N /\ N \in Nat
        BY <1>3, <1>5, <2>6
      <4> HIDE DEF N
      <4> QED BY ONLY SMT, <4>1
    <3>3. Len(z) \in Nat
      BY <2>3 DEF First
    <3>4. First(z, S, j, Len(z)) /\ Wanted(S[j + 1]) \in Nat \ {0}
      BY <1>5, <2>3, <3>2
    <3>5. Waiting(z, S, j, 0)
      <4> HIDE DEF S, j
      <4> QED BY <3>2, <3>3, <3>4, WaitingStarts
    <3> HIDE DEF j
    <3> QED BY <1>4, <2>4, <3>1, <3>2, <3>5 DEF Judged
  <2>7. Tallied(c, z, e)
    BY <1>2, <2>2 DEF Tallied
  <2> QED BY <1>12, <2>1, <2>2, <2>5, <2>6, <2>7 DEF Sound, d
<1> QED BY <1>9, <1>11, <1>12 DEF d

\* json_test_check_line, whatever the line.
LEMMA LineKeeps ==
  ASSUME NEW P, NEW con, NEW l, NEW z, Grown(P, con, l, z), NEW c \in TestConfig, c.steps # <<>>,
         NEW s, Sound(c, con, s), NEW time
  PROVE  Sound(c, z, json_test_check_line(s, c, l.node, l.text, time))
<1>1. Len(c.steps) \in Nat /\ s.active = TRUE
  BY ConfigFacts DEF Sound
<1>2. CASE s.finished # 0
  BY <1>1, <1>2, LineLate DEF json_test_check_line
<1>3. CASE s.finished = 0 /\ l.text \in c.fail_on
  BY <1>1, <1>3, LineFails DEF json_test_check_line
<1>4. CASE s.finished = 0 /\ l.text \notin c.fail_on
  BY <1>1, <1>4, LineCounts DEF json_test_check_line
<1> QED BY <1>2, <1>3, <1>4

-----------------------------------------------------------------------------
(* The verdict is the one the property asks for.                           *)

LEMMA LostIsNotPassed ==
  ASSUME NEW P, NEW con, con \in Seq(P), NEW c, Len(c.steps) \in Nat, Passed(c, con)
  PROVE  ~ Lost(c, con) /\ ~ Missed(c, con)
<1> DEFINE N == Len(c.steps)
           L == Len(con)
<1>1. PICK g : First(con, c.steps, N, g) /\ \A b \in Bad(c, con) : g < b
  BY DEF Passed
<1>0. Len(con) \in Nat /\ DOMAIN con \subseteq Nat
  BY ONLY SMT, con \in Seq(P)
<1>2. Reaches(con, c.steps, N, g)
  BY <1>0, <1>1, FirstCut
<1>3. PICK cut : Chain(con, c.steps, cut, N, g) /\ cut[N] = g
  BY <1>2 DEF Reaches
<1>4. g \in Nat /\ g <= L /\ L \in Nat
  BY <1>0, <1>1 DEF First
<1>5. Chain(con, c.steps, cut, N, L)
  BY <1>3, <1>4, ChainWithin
<1>6. ASSUME NEW b, g < b, b <= g, b \in Nat PROVE FALSE
  BY ONLY SMT, <1>4, <1>6
<1>7. ~ Missed(c, con)
  BY <1>5 DEF Missed
<1>8. ASSUME Lost(c, con) PROVE FALSE
  <2>1. PICK b \in Bad(c, con) : b <= cut[N]
    BY <1>5, <1>8 DEF Lost
  <2>2. g < b /\ b <= g /\ b \in Nat
    BY <1>0, <1>1, <1>3, <2>1 DEF Bad
  <2> QED BY <2>2, <1>6
<1> QED BY <1>7, <1>8

\* A test that still runs has not shown its steps.
LEMMA WaitingMisses ==
  ASSUME NEW con, Len(con) \in Nat, NEW c \in TestConfig, NEW k \in Nat, NEW m,
         Waiting(con, c.steps, k, m), k + 1 <= Len(c.steps)
  PROVE  Missed(c, con)
<1> DEFINE S == c.steps
           N == Len(c.steps)
<1>1. N \in Nat /\ \A i \in 1 .. N : Wanted(S[i]) \in Nat \ {0}
  BY ConfigFacts
<1>2. k + 1 \in 1 .. N
  <2>1. k \in Nat /\ k + 1 <= N /\ N \in Nat
    BY <1>1
  <2> HIDE DEF N
  <2> QED BY ONLY SMT, <2>1
<1>3. Waiting(con, S, k, m) /\ Wanted(S[k + 1]) \in Nat /\ k + 1 <= N
  BY <1>1, <1>2
<1>4. ASSUME NEW cut PROVE ~ Chain(con, S, cut, N, Len(con))
  <2> HIDE DEF S, N
  <2> QED BY <1>1, <1>3, NotYet
<1> QED BY <1>4 DEF Missed

\* The console of the state at hand.
Shown(c) == {n \in 0 .. Len(console) : Fulfilled(c.steps, n)}

LEMMA FulfilledIs ==
  ASSUME NEW S, DOMAIN S = 1 .. Len(S), NEW n
  PROVE  Fulfilled(S, n) <=> \E cut : Chain(console, S, cut, Len(S), n)
<1>1. ASSUME NEW cut, NEW i
      PROVE  Shows(console, S, cut, i) <=>
                cut[i - 1] <= cut[i] /\ Hits(S[i], cut[i - 1] + 1, cut[i]) >= Wanted(S[i])
  BY DEF Shows, HitsIn, HitSet, Hits
<1> QED BY <1>1 DEF Fulfilled, Chain

LEMMA PassedIs ==
  ASSUME NEW c \in TestConfig, Len(console) \in Nat
  PROVE  Passed(c, console) <=>
             Shown(c) # {} /\ \A n \in Bad(c, console) : Min(Shown(c)) < n
<1> DEFINE S == c.steps
           N == Len(c.steps)
           L == Len(console)
           X == Shown(c)
<1>1. N \in Nat /\ DOMAIN S = 1 .. N
  BY ConfigFacts
<1>2. \A n : Fulfilled(S, n) <=> \E cut : Chain(console, S, cut, N, n)
  BY <1>1, FulfilledIs
<1>3. X \subseteq Nat /\ \A n : n \in X <=> n \in Nat /\ n <= L /\ Fulfilled(S, n)
  <2>1. L \in Nat
    OBVIOUS
  <2>2. \A n : n \in 0 .. L <=> n \in Nat /\ n <= L
    <3> HIDE DEF L
    <3> QED BY ONLY SMT, <2>1
  <2> QED BY <2>2 DEF Shown
<1> HIDE DEF X
<1>4. ASSUME NEW g PROVE First(console, S, N, g) <=> g \in X /\ \A y \in X : g <= y
  <2>1. ASSUME First(console, S, N, g) PROVE g \in X /\ \A y \in X : g <= y
    <3>1. g \in X
      BY <1>2, <1>3, <2>1 DEF First
    <3>2. ASSUME NEW y \in X PROVE g <= y
      <4>1. PICK cut : Chain(console, S, cut, N, y)
        BY <1>2, <1>3
      <4>2. y \in Nat /\ y <= L /\ L \in Nat /\ g \in Nat
        BY <1>3, <3>1
      <4>3. cut[N] \in Nat /\ cut[N] <= y
        BY <1>1, <4>1, <4>2, ChainType
      <4> DEFINE x == cut[N]
      <4>4. x <= L
        <5>1. x \in Nat /\ x <= y
          BY <4>3
        <5> HIDE DEF x, L
        <5> QED BY ONLY SMT, <4>2, <5>1
      <4>5. Chain(console, S, cut, N, L)
        BY <1>1, <4>1, <4>2, <4>4, ChainWithin
      <4>6. g <= x
        BY <2>1, <4>5 DEF First
      <4> QED
        <5>1. x \in Nat /\ x <= y /\ g <= x
          BY <4>3, <4>6
        <5> HIDE DEF x, L
        <5> QED BY ONLY SMT, <4>2, <5>1
    <3> QED BY <3>1, <3>2
  <2>2. ASSUME g \in X, \A y \in X : g <= y PROVE First(console, S, N, g)
    <3>1. g \in Nat /\ g <= L /\ \E cut : Chain(console, S, cut, N, g)
      BY <1>2, <1>3, <2>2
    <3>2. ASSUME NEW cut, Chain(console, S, cut, N, L) PROVE g <= cut[N]
      <4> DEFINE x == cut[N]
      <4>1. x \in Nat /\ x <= L
        BY <1>1, <3>2, ChainType
      <4>2. x <= x
        <5> HIDE DEF x
        <5> QED BY ONLY SMT, <4>1
      <4>3. Chain(console, S, cut, N, x)
        BY <1>1, <3>2, <4>1, <4>2, ChainWithin
      <4>4. x \in X
        BY <1>2, <1>3, <4>1, <4>3
      <4> QED BY <2>2, <4>4
    <3> QED BY <3>1, <3>2 DEF First
  <2> QED BY <2>1, <2>2
<1>5. ASSUME X # {} PROVE \E g : First(console, S, N, g) /\ g = Min(X)
  <2>1. PICK g \in X : \A y \in X : g <= y
    BY <1>3, <1>5, LeastFacts
  <2>2. Min(X) = g
    BY <1>3, <2>1, MinIs
  <2> QED BY <1>4, <2>1, <2>2
<1>6. ASSUME NEW g, First(console, S, N, g) PROVE X # {} /\ Min(X) = g
  <2>1. g \in X /\ \A y \in X : g <= y
    BY <1>4, <1>6
  <2> QED BY <1>3, <2>1, MinIs
<1> QED BY <1>5, <1>6 DEF Passed, X

LEMMA StepsThere ==
  ASSUME NEW c \in TestConfig, c.steps # <<>>
  PROVE  Len(c.steps) \in Nat \ {0}
<1> DEFINE Q == [pattern : SUBSET STRING, node : Int, count : Int, timeout : Int]
           S == c.steps
<1>1. S \in Seq(Q) /\ S # <<>>
  BY DEF TestConfig
<1>2. Len(S) \in Nat \ {0}
  <2> HIDE DEF Q, S
  <2> QED BY ONLY SMT, <1>1
<1> QED BY <1>2

\* Init and the steps of the runner.  A run with a script has no configured
\* test, and without a script no step of the engine or the script is taken.
LEMMA SetupFacts ==
  ASSUME JInv
  PROVE  /\ cfg \in TestConfig /\ Len(console) \in Nat
         /\ cfg.steps # <<>> => Len(cfg.steps) \in Nat \ {0}
<1>1. setup \in Setups /\ console \in Seq(setup.prints)
  BY DEF JInv
<1>2. cfg \in TestConfig
  BY <1>1, RunnerAssumption DEF cfg
<1>3. Len(console) \in Nat
  <2> DEFINE P == setup.prints
  <2>1. console \in Seq(P)
    BY <1>1
  <2> HIDE DEF P
  <2> QED BY ONLY SMT, <2>1
<1>4. cfg.steps # <<>> => Len(cfg.steps) \in Nat \ {0}
  BY <1>2, StepsThere
<1> QED BY <1>2, <1>3, <1>4

LEMMA JInvInit == Init => JInv
<1> SUFFICES ASSUME Init PROVE JInv
  OBVIOUS
<1>1. /\ setup \in Setups /\ main = "boot" /\ console = <<>>
      /\ t = json_test_service_start(cfg, ~setup.js)
  BY DEF Init
<1>2. console \in Seq(setup.prints) /\ Len(console) = 0 /\ DOMAIN console = {}
  <2> DEFINE P == setup.prints
  <2>1. <<>> \in Seq(P) /\ Len(<<>>) = 0 /\ DOMAIN <<>> = {}
    <3> HIDE DEF P
    <3> QED BY ONLY SMT
  <2> QED BY <1>1, <2>1
<1> SUFFICES ASSUME ~setup.js, cfg.steps # <<>>
             PROVE  Sound(cfg, console, t)
  BY <1>1, <1>2 DEF JInv, Sound
<1>3. cfg \in TestConfig
  BY <1>1, RunnerAssumption DEF cfg
<1> DEFINE N == Len(cfg.steps)
<1>4. N \in Nat \ {0} /\ \A i \in 1 .. N : Wanted(cfg.steps[i]) \in Nat \ {0}
  BY <1>3, StepsThere, ConfigFacts
<1>5. 1 \in 1 .. N /\ 0 \in Nat /\ 0 + 1 = 1 /\ 1 <= N
  <2> HIDE DEF N
  <2> QED BY ONLY SMT, <1>4
<1>6. Waiting(console, cfg.steps, 0, 0)
  BY <1>2, <1>4, <1>5, WaitingFirst
<1>7. /\ Fields(t) /\ t.active = TRUE /\ t.finished = 0 /\ t.current_step = 1 /\ t.match_count = 0
      /\ t.counts = [i \in DOMAIN cfg.validators |-> 0]
  BY <1>1 DEF json_test_service_start, Fields
<1>8. Bad(cfg, console) = {}
  BY <1>2 DEF Bad
<1>9. Judged(cfg, console, t)
  <2>1. 0 # 1 /\ 0 \in {0, 1}
    BY ONLY SMT
  <2> QED BY <1>5, <1>6, <1>7, <1>8, <2>1 DEF Judged
<1>10. Tallied(cfg, console, t)
  <2>1. ASSUME NEW i \in DOMAIN cfg.validators
        PROVE  0 <= HitsIn(console, cfg.validators[i], 1, Len(console))
    <3> DEFINE h == HitsIn(console, cfg.validators[i], 1, Len(console))
    <3>1. 1 \in Int /\ 0 \in Int
      BY ONLY SMT
    <3>2. h \in Nat
      BY <1>2, <3>1, HitsType
    <3>3. 0 <= h
      <4> HIDE DEF h
      <4> QED BY ONLY SMT, <3>2
    <3> QED BY <3>3
  <2> QED BY <1>5, <1>7, <2>1 DEF Tallied
<1> QED BY <1>7, <1>9, <1>10 DEF Sound

jvars == <<setup, main, t, console>>

LEMMA JInvStutter == JInv /\ UNCHANGED jvars => JInv'
BY DEF jvars, JInv, cfg

\* Steps between two places of the loop.
LEMMA JInvMoves ==
  ASSUME JInv, UNCHANGED <<setup, t, console>>, main # "done", main' # "done",
         main = "report" => main' = "report"
  PROVE  JInv'
BY DEF JInv, cfg

\* Runs with a script only need their console typed.
LEMMA JInvScripted ==
  ASSUME JInv, setup.js, UNCHANGED <<setup, console>>
  PROVE  JInv'
BY DEF JInv

LEMMA PrintKeepsJ ==
  ASSUME TInv, JInv, NEW l \in setup.prints, PrintLine(l)
  PROVE  JInv'
<1> DEFINE P == setup.prints
<1>1. /\ main \in {"boot", "pump"} /\ setup' = setup /\ console' = Append(console, l)
      /\ t' = json_test_check_line(t, cfg, l.node, l.text, now) /\ (~setup.js => main' = main)
  BY DEF PrintLine, mainOnly
<1>2. console \in Seq(P) /\ l \in P /\ setup \in Setups
  BY DEF JInv
<1>3. Grown(P, console, l, console')
  <2> HIDE DEF P
  <2>1. Grown(P, console, l, Append(console, l))
    BY <1>2, LineFacts
  <2> QED BY <1>1, <2>1
<1>4. console' \in Seq(setup'.prints) /\ setup' \in Setups
  BY <1>1, <1>2, <1>3 DEF Grown
<1>5. cfg' = cfg /\ cfg \in TestConfig
  BY <1>1, SetupFacts DEF cfg
<1>6. ASSUME ~setup.js, cfg.steps # <<>>
      PROVE  Sound(cfg, console', t') /\ main' \notin {"report", "done"}
  <2>1. main # "report" /\ main # "done" /\ main' = main
    BY <1>1, <1>6
  <2>2. Sound(cfg, console, t)
    BY <1>6, <2>1 DEF JInv, Sound
  <2>3. Sound(cfg, console', json_test_check_line(t, cfg, l.node, l.text, now))
    <3> DEFINE c == cfg
               z == console'
    <3>1. c \in TestConfig /\ c.steps # <<>> /\ Sound(c, console, t) /\ Grown(P, console, l, z)
      BY <1>3, <1>5, <1>6, <2>2
    <3> HIDE DEF c, z, P
    <3>2. Sound(c, z, json_test_check_line(t, c, l.node, l.text, now))
      BY <3>1, LineKeeps
    <3> QED BY <3>2 DEF c, z
  <2> QED BY <1>1, <2>1, <2>3
<1> QED BY <1>1, <1>4, <1>5, <1>6 DEF JInv, Sound

\* The timeout of a step ends the test while the step still waits.
LEMMA PumpKeepsJ ==
  ASSUME TInv, JInv, PumpEnds, ~setup.js
  PROVE  JInv'
<1>1. /\ main = "pump" /\ setup' = setup /\ console' = console
      /\ t' = json_test_check_step_timeout(t, cfg, now, setup.sim_ms)
      /\ main' = IF t'.active /\ t'.finished # 0 THEN "report" ELSE "loop"
  BY DEF PumpEnds, Goto, mainOnly
<1>2. cfg' = cfg /\ cfg \in TestConfig /\ Len(console) \in Nat
  BY <1>1, SetupFacts DEF cfg
<1> SUFFICES ASSUME cfg.steps # <<>>
             PROVE  /\ Fields(t') /\ Tallied(cfg, console, t') /\ t'.active = TRUE
                    /\ Judged(cfg, console, t') \/ (main' = "report" /\ Expired(cfg, console, t'))
  BY <1>1, <1>2 DEF JInv
<1>3. Sound(cfg, console, t)
  BY <1>1 DEF JInv, Sound
<1>4. CASE t' = t
  BY <1>3, <1>4 DEF Sound
<1>5. CASE t' = [t EXCEPT !.finished = -1] /\ t.finished = 0
  <2>1. Fields(t') /\ t'.finished = -1 /\ t'.active = TRUE /\ t'.counts = t.counts
    BY <1>3, <1>5 DEF Sound, Fields
  <2>2. -1 # 0 /\ -1 \notin {0, 1}
    BY ONLY SMT
  <2>3. t'.finished # 0 /\ t'.finished \notin {0, 1} /\ main' = "report"
    BY <1>1, <2>1, <2>2
  <2>4. PICK k \in Nat : k + 1 <= Len(cfg.steps) /\ Waiting(console, cfg.steps, k, t.match_count)
    BY <1>3, <1>5 DEF Sound, Judged
  <2>5. Missed(cfg, console)
    <3> DEFINE c == cfg
    <3>1. c \in TestConfig /\ k + 1 <= Len(c.steps) /\ Waiting(console, c.steps, k, t.match_count)
      BY <1>2, <2>4
    <3> HIDE DEF c
    <3>2. Missed(c, console)
      BY <1>2, <3>1, WaitingMisses
    <3> QED BY <3>2 DEF c
  <2>6. Tallied(cfg, console, t')
    BY <1>3, <2>1 DEF Sound, Tallied
  <2> QED BY <2>1, <2>3, <2>5, <2>6 DEF Expired
<1> QED BY <1>1, <1>4, <1>5 DEF json_test_check_step_timeout

\* json_test_report gives a verdict to the tests that have none.
LEMMA ReportKeepsJ ==
  ASSUME TInv, JInv, Report, ~setup.js
  PROVE  JInv'
<1>1. /\ main = "report" /\ setup' = setup /\ console' = console /\ main' = "done"
      /\ t' = IF t.active THEN json_test_report(t, cfg) ELSE t
  BY DEF Report, Goto, mainOnly
<1>2. cfg' = cfg /\ cfg \in TestConfig /\ Len(console) \in Nat
  BY <1>1, SetupFacts DEF cfg
<1> SUFFICES ASSUME cfg.steps # <<>>
             PROVE  /\ Fields(t') /\ Tallied(cfg, console, t') /\ t'.active = FALSE
                    /\ Final(cfg, console, t')
  BY <1>1, <1>2 DEF JInv
<1>3. /\ Fields(t) /\ Tallied(cfg, console, t) /\ t.active = TRUE
      /\ Judged(cfg, console, t) \/ Expired(cfg, console, t)
  BY <1>1 DEF JInv
<1> DEFINE met == \A i \in DOMAIN cfg.validators : t.counts[i] >= cfg.validators[i].min_count
<1>4. t' = json_test_report(t, cfg)
  BY <1>1, <1>3
<1>5. /\ Fields(t') /\ t'.active = FALSE /\ t'.counts = t.counts
      /\ t'.finished = IF Resolved(t, cfg) = 1 /\ met THEN 1 ELSE -1
  BY <1>3, <1>4 DEF json_test_report, Fields
<1>6. Tallied(cfg, console, t')
  BY <1>3, <1>5 DEF Tallied
<1>7. ASSUME t'.finished = 1
      PROVE  /\ Passed(cfg, console) \/ (cfg.timeout_is_success /\ Bad(cfg, console) = {})
             /\ \A i \in DOMAIN cfg.validators :
                  HitsIn(console, cfg.validators[i], 1, Len(console)) >= cfg.validators[i].min_count
  <2>0. -1 # 1 /\ 0 # 1 /\ 0 \in {0, 1} /\ 1 \in {0, 1}
    BY ONLY SMT
  <2>1. Resolved(t, cfg) = 1 /\ met
    BY <1>5, <1>7, <2>0
  <2>2. Passed(cfg, console) \/ (cfg.timeout_is_success /\ Bad(cfg, console) = {})
    <3>1. CASE t.finished = 0
      <4>1. cfg.timeout_is_success
        BY <2>0, <2>1, <3>1 DEF Resolved
      <4>2. Bad(cfg, console) = {}
        BY <1>3, <2>0, <3>1 DEF Judged, Expired
      <4> QED BY <4>1, <4>2
    <3>2. CASE t.finished # 0
      <4>1. t.finished = 1
        BY <2>1, <3>2 DEF Resolved
      <4> QED BY <1>3, <2>0, <4>1 DEF Judged, Expired
    <3> QED BY <3>1, <3>2
  <2>3. ASSUME NEW i \in DOMAIN cfg.validators
        PROVE  HitsIn(console, cfg.validators[i], 1, Len(console)) >= cfg.validators[i].min_count
    <3> DEFINE x == t.counts[i]
               h == HitsIn(console, cfg.validators[i], 1, Len(console))
               v == cfg.validators[i].min_count
    <3>1. x \in Nat /\ x <= h /\ x >= v
      BY <1>3, <2>1 DEF Tallied
    <3>2. v \in Int
      <4> DEFINE c == cfg
      <4>1. c \in TestConfig
        BY <1>2
      <4>2. \A j \in DOMAIN c.validators : c.validators[j].min_count \in Int
        <5> HIDE DEF c
        <5> QED BY <4>1, ConfigFacts
      <4> QED BY <4>2
    <3>3. h \in Nat
      <4>1. 1 \in Int /\ Len(console) \in Int
        <5> DEFINE L == Len(console)
        <5>1. L \in Nat
          BY <1>2
        <5>2. 1 \in Int /\ L \in Int
          <6> HIDE DEF L
          <6> QED BY ONLY SMT, <5>1
        <5> QED BY <5>2
      <4> QED BY <4>1, HitsType
    <3>4. h >= v
      <4> HIDE DEF x, h, v
      <4> QED BY ONLY SMT, <3>1, <3>2, <3>3
    <3> QED BY <3>4
  <2> QED BY <2>2, <2>3
<1> QED BY <1>5, <1>6, <1>7 DEF Final

LEMMA JInvNext == TInv /\ JInv /\ [Next]_vars => JInv'
<1> SUFFICES ASSUME TInv, JInv, [Next]_vars PROVE JInv'
  OBVIOUS
<1>1. ASSUME NEW l \in setup.prints, PrintLine(l) PROVE JInv'
  BY <1>1, PrintKeepsJ
<1>2. CASE setup.js /\ UNCHANGED <<setup, console>>
  BY <1>2, JInvScripted
<1>3. ASSUME ~setup.js
      PROVE  main \in {"boot", "loop", "pump", "report", "done"}
  BY <1>3 DEF TInv
<1>4. CASE Booted \/ Advance \/ LoopEnds
  <2>1. UNCHANGED <<setup, t, console>> /\ main \in {"boot", "loop"}
    BY <1>4 DEF Booted, Advance, LoopEnds, runnerVars, mainOnly
  <2>2. CASE ~setup.js
    <3>1. main' \in {"loop", "pump", "report"}
      BY <1>4, <2>2 DEF Booted, Advance, LoopEnds, Goto
    <3> QED BY <2>1, <3>1, JInvMoves
  <2> QED BY <1>2, <2>1, <2>2
<1>5. CASE PumpEnds
  <2>1. UNCHANGED <<setup, console>>
    BY <1>5 DEF PumpEnds, mainOnly
  <2> QED BY <1>2, <1>5, <2>1, PumpKeepsJ
<1>6. CASE Report
  <2>1. UNCHANGED <<setup, console>>
    BY <1>6 DEF Report, mainOnly
  <2> QED BY <1>2, <1>6, <2>1, ReportKeepsJ
<1>7. CASE BeginRun \/ CheckGenMsgs \/ DrainActions \/ CheckVerdict \/ CheckTimeout
  <2>1. UNCHANGED <<setup, console>> /\ main \in {"begin", "gen", "drain", "verdict", "timeout"}
    BY <1>7 DEF BeginRun, CheckGenMsgs, js_test_check_gen_msgs, DrainActions, CheckVerdict,
       CheckTimeout, js_test_check_timeout, runnerVars, mainOnly
  <2> QED BY <1>2, <1>3, <2>1
<1>8. CASE Engine
  <2>1. UNCHANGED <<setup, console>>
    BY <1>8 DEF Engine, js_test_init, js_test_init_done, FeedTest, js_test_feed_line, FeedReturns,
       TimeoutTest, TimeoutFails, js_test_destroy, Join, runnerVars, mainOnly
  <2>2. main \in {"create", "init", "feed", "feeding", "fed", "expire", "expired", "destroy", "join"}
    BY <1>8 DEF Engine, js_test_init, js_test_init_done, FeedTest, js_test_feed_line, FeedReturns,
       TimeoutTest, TimeoutFails, js_test_destroy, Join
  <2> QED BY <1>2, <1>3, <2>1, <2>2
<1>9. CASE Script \/ Wait
  <2>1. CASE Script
    BY <2>1, ScriptLeaves, JInvStutter DEF Script, runnerVars, jvars
  <2>2. CASE Wait
    BY <2>2, JInvStutter DEF Wait, WaitsAgain, SpuriousWakeup, mainOnly, runnerVars, jvars
  <2> QED BY <1>9, <2>1, <2>2
<1>10. CASE UNCHANGED vars
  BY <1>10, JInvStutter DEF vars, engineVars, runnerVars, jvars
<1> QED BY <1>1, <1>4, <1>5, <1>6, <1>7, <1>8, <1>9, <1>10 DEF Next, MainThread, Terminated

LEMMA JInvVerdict ==
  ASSUME TInv, JInv
  PROVE  JsonVerdictExact
<1> SUFFICES ASSUME ~setup.js, cfg.steps # <<>>
             PROVE  LET done == Shown(cfg) # {} /\ \A n \in Bad(cfg, console) : Min(Shown(cfg)) < n
                    IN  /\ t.active => (t.finished = 1 <=> done)
                        /\ main = "done" /\ t.finished = 1 =>
                              /\ done \/ (cfg.timeout_is_success /\ Bad(cfg, console) = {})
                              /\ \A i \in DOMAIN cfg.validators :
                                    Hits(cfg.validators[i], 1, Len(console)) >=
                                        cfg.validators[i].min_count
  BY DEF JsonVerdictExact, Shown, Bad
<1> DEFINE c == cfg
           done == Shown(cfg) # {} /\ \A n \in Bad(cfg, console) : Min(Shown(cfg)) < n
<1>1. c \in TestConfig /\ Len(console) \in Nat /\ Len(c.steps) \in Nat
  BY SetupFacts
<1>2. Passed(cfg, console) <=> done
  <2>1. Passed(c, console) <=> Shown(c) # {} /\ \A n \in Bad(c, console) : Min(Shown(c)) < n
    <3> HIDE DEF c
    <3> QED BY <1>1, PassedIs
  <2> QED BY <2>1
<1> HIDE DEF done
<1>3. ASSUME t.active PROVE t.finished = 1 <=> Passed(cfg, console)
  <2>1. main # "done"
    BY <1>3 DEF JInv
  <2>2. Judged(cfg, console, t) \/ Expired(cfg, console, t)
    BY <2>1 DEF JInv
  <2>3. t.finished = 1 => Passed(cfg, console)
    BY <2>2 DEF Judged, Expired
  <2>4. ASSUME Passed(cfg, console) PROVE ~ Lost(cfg, console) /\ ~ Missed(cfg, console)
    <3> DEFINE P == setup.prints
    <3>1. console \in Seq(P) /\ Passed(c, console)
      BY <2>4 DEF JInv
    <3>2. ~ Lost(c, console) /\ ~ Missed(c, console)
      <4> HIDE DEF c, P
      <4> QED BY <1>1, <3>1, LostIsNotPassed
    <3> QED BY <3>2
  <2>5. t.finished = 0 /\ Judged(cfg, console, t) => Missed(cfg, console)
    <3> SUFFICES ASSUME t.finished = 0, Judged(cfg, console, t) PROVE Missed(c, console)
      OBVIOUS
    <3>1. PICK k \in Nat : k + 1 <= Len(c.steps) /\ Waiting(console, c.steps, k, t.match_count)
      BY DEF Judged
    <3> HIDE DEF c
    <3> QED BY <1>1, <3>1, WaitingMisses
  <2> QED BY <2>2, <2>3, <2>4, <2>5 DEF Judged, Expired
<1>4. ASSUME main = "done", t.finished = 1
      PROVE  /\ Passed(cfg, console) \/ (cfg.timeout_is_success /\ Bad(cfg, console) = {})
             /\ \A i \in DOMAIN cfg.validators :
                  Hits(cfg.validators[i], 1, Len(console)) >= cfg.validators[i].min_count
  <2>1. Final(cfg, console, t)
    BY <1>4 DEF JInv
  <2>2. \A i \in DOMAIN cfg.validators :
          HitsIn(console, cfg.validators[i], 1, Len(console)) >= cfg.validators[i].min_count
    BY <1>4, <2>1 DEF Final
  <2> QED BY <1>4, <2>1, <2>2 DEF Final, Hits, HitsIn, HitSet
<1> QED BY <1>2, <1>3, <1>4 DEF done

\* The verdict of a configured test is exact for every test and every console:
\* the greedy steps of json_test_check_line pass exactly when some division of
\* the lines shows all steps in order before the first fail_on line, and a run
\* that json_test_report lets pass has met its validators.
THEOREM ConfiguredVerdictIsExact == Spec => []JsonVerdictExact
BY TInvInit, TInvNext, JInvInit, JInvNext, JInvVerdict, PTL DEF Spec
=============================================================================
