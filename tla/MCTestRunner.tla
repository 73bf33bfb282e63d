---------------------------- MODULE MCTestRunner ----------------------------
(***************************************************************************)
(* Small instances of TestRunner.                                          *)
(***************************************************************************)
EXTENDS TestRunner

Says(node, text) == [node |-> node, text |-> text]
Step(pattern, node, count, limit) ==
    [pattern |-> pattern, node |-> node, count |-> count, timeout |-> limit]

NoTest == [steps |-> <<>>, fail_on |-> {}, validators |-> <<>>, timeout_is_success |-> FALSE]
\* First a line of any mote, then two of mote 1, with a timeout.
Steps == [steps |-> <<Step({"up", "data"}, AnyNode, 1, 0), Step({"data"}, 1, 2, 2)>>,
          fail_on |-> {"error"}, timeout_is_success |-> FALSE,
          validators |-> <<[pattern |-> {"up"}, node |-> 2, min_count |-> 1]>>]
\* A test that passes when its time is up, its steps without timeouts and the
\* first one with a count of zero.
Quiet == [Steps EXCEPT !.timeout_is_success = TRUE,
                       !.steps = <<Step({"up", "data"}, AnyNode, 0, 0), Step({"data"}, 1, 2, 0)>>]
MCTests == [none |-> NoTest, steps |-> Steps, quiet |-> Quiet]

Script1 == [js |-> TRUE, calls |-> {"timeout", "generate", "verdict"}, max_calls |-> 3,
            catches |-> 0, cb_throws |-> TRUE, prints |-> {Says(1, "up")}, max_lines |-> 2,
            sim_ms |-> 2, test |-> "none"]
\* One that catches what the engine throws at it.
Catching == [Script1 EXCEPT !.calls = {"timeout", "verdict"}, !.catches = 2, !.cb_throws = FALSE]
\* One that takes motes away and brings them back.
Scripting == [Script1 EXCEPT !.calls = {"write", "remove", "add"}, !.max_calls = 4, !.max_lines = 1]
Json(name) == [Script1 EXCEPT !.js = FALSE, !.test = name, !.max_lines = 4, !.sim_ms = 3,
    !.prints = {Says(1, "up"), Says(2, "up"), Says(1, "data"), Says(2, "data"), Says(1, "error")}]

MCSetups == {Script1, Catching, Scripting, Json("none"), Json("steps"), Json("quiet")}

=============================================================================
