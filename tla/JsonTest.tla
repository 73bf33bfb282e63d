------------------------------ MODULE JsonTest ------------------------------
(***************************************************************************)
(* The step, validator and fail_on checker of                              *)
(* src/services/json_test_service.c, as functions from one state of the    *)
(* service to the next.  t is the json_test_service_t; cfg is its          *)
(* configuration.  A pattern is the set of console lines that contain it.  *)
(***************************************************************************)
EXTENDS Integers, Sequences

AnyNode == -1

\* sim_test_config_t; the parser takes any number for a count or a node.
TestConfig ==
    [steps : Seq([pattern : SUBSET STRING, node : Int, count : Int, timeout : Int]),
     fail_on : SUBSET STRING,
     validators : Seq([pattern : SUBSET STRING, node : Int, min_count : Int]),
     timeout_is_success : BOOLEAN]

\* Steps are numbered from 1; step_count is Len(cfg.steps).
json_test_service_start(cfg, active) ==
    [active |-> active, finished |-> 0, current_step |-> 1, match_count |-> 0,
     step_start |-> 0, counts |-> [i \in DOMAIN cfg.validators |-> 0]]

Matches(p, node, line) == (p.node < 0 \/ p.node = node) /\ line \in p.pattern

\* The validators count a line whatever the steps make of it.
Counted(t, cfg, node, line) ==
    [t EXCEPT !.counts = [i \in DOMAIN @ |->
        IF Matches(cfg.validators[i], node, line) THEN @[i] + 1 ELSE @[i]]]

\* Mutant: the matches of one step are carried over to the next.
StepPassedCarried(t, cfg, now) ==
    [t EXCEPT !.current_step = @ + 1, !.match_count = @ + 1, !.step_start = now,
              !.finished = IF t.current_step = Len(cfg.steps) THEN 1 ELSE 0]

StepPassed(t, cfg, now) ==
    [t EXCEPT !.current_step = @ + 1, !.match_count = 0, !.step_start = now,
              !.finished = IF t.current_step = Len(cfg.steps) THEN 1 ELSE 0]

StepMatched(t, cfg, now) ==
    IF t.match_count + 1 >= cfg.steps[t.current_step].count
    THEN StepPassed(t, cfg, now)
    ELSE [t EXCEPT !.match_count = @ + 1]

json_test_check_line(t, cfg, node, line, now) ==
    IF ~t.active \/ t.finished # 0 THEN t
    ELSE IF line \in cfg.fail_on THEN [t EXCEPT !.finished = -1]
    ELSE LET counted == Counted(t, cfg, node, line)
         IN  IF cfg.steps # <<>> /\ Matches(cfg.steps[t.current_step], node, line)
             THEN StepMatched(counted, cfg, now)
             ELSE counted

\* A step without a timeout of its own has that of the whole run.
StepTimeout(t, cfg, sim_ms) ==
    LET own == cfg.steps[t.current_step].timeout IN IF own > 0 THEN own ELSE sim_ms

json_test_check_step_timeout(t, cfg, now, sim_ms) ==
    IF /\ t.active /\ t.finished = 0 /\ cfg.steps # <<>>
       /\ now - t.step_start >= StepTimeout(t, cfg, sim_ms)
    THEN [t EXCEPT !.finished = -1] ELSE t

\* The verdict of a test that is still running when the simulation ends.
Resolved(t, cfg) ==
    IF t.finished # 0 THEN t.finished
    ELSE IF cfg.timeout_is_success \/ cfg.steps = <<>> THEN 1 ELSE -1

json_test_report(t, cfg) ==
    [t EXCEPT !.active = FALSE, !.finished =
        IF /\ Resolved(t, cfg) = 1
           /\ \A i \in DOMAIN cfg.validators : t.counts[i] >= cfg.validators[i].min_count
        THEN 1 ELSE -1]
=============================================================================
