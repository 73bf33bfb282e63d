--------------------------- MODULE MCMsp430Timer ---------------------------
(***************************************************************************)
(* Small instances of Msp430Timer: a counter of two bits, three channels,  *)
(* a DCO of two speeds.                                                    *)
(***************************************************************************)
EXTENDS Msp430Timer

MCRate == [d \in Dcos |-> [s \in Sels |->
              [num |-> IF d = "slow" THEN 2 ELSE 5, den |-> 2, cap |-> 1]]]

Run(mode) == [mode |-> mode, sel |-> "aclk", tclr |-> FALSE, tie |-> TRUE, tifg |-> FALSE]
Compare == [input |-> "compare", cm |-> {}, ie |-> TRUE, ifg |-> FALSE, cov |-> FALSE]

Steady == [ctls |-> {Run("CONT"), [Run("STOP") EXCEPT !.tclr = TRUE]},
           cctls |-> {Compare}, dcos |-> Dcos, keeps_flags |-> TRUE,
           stops_first |-> TRUE, reads_first |-> TRUE, max_ops |-> 3]

\* Captures of a pin and of ACLK next to the compare channels.
Capturing == [Steady EXCEPT !.dcos = {}, !.max_ops = 2, !.cctls =
                 {[Compare EXCEPT !.input = "pin", !.cm = {TRUE}],
                  [Compare EXCEPT !.input = "aclk", !.cm = BOOLEAN, !.ie = FALSE]}]
\* Every mode, and the control of a channel, changed under way.
Changing == [Steady EXCEPT !.dcos = {}, !.max_ops = 2, !.stops_first = FALSE, !.reads_first = FALSE,
                           !.ctls = {Run("UP"), Run("CONT"), Run("UPDOWN"), Run("STOP")}]

MCFirmwares == {Steady, Capturing, Changing}
=============================================================================
