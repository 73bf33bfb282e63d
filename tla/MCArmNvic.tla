----------------------------- MODULE MCArmNvic -----------------------------
(***************************************************************************)
(* Small instances of ArmNvic: two interrupt lines and PendSV.             *)
(***************************************************************************)
EXTENDS ArmNvic

Quiet == [basepris |-> {}, handlers_mask |-> FALSE, priority_writes |-> FALSE,
          bus_faults |-> FALSE, secure_faults |-> FALSE, debugger |-> FALSE,
          max_pends |-> 3]
\* Plain firmware, with refused accesses and a debugger.
Faulting == [Quiet EXCEPT !.bus_faults = TRUE, !.debugger = TRUE,
                           !.max_pends = 2]
\* Firmware that uses every mask and changes priorities, in handlers too.
Masking == [Quiet EXCEPT !.basepris = {0, 2}, !.handlers_mask = TRUE,
                         !.priority_writes = TRUE, !.max_pends = 1]

MCFirmwares ==
    {Quiet, Faulting, Masking,
     [Faulting EXCEPT !.priority_writes = TRUE, !.debugger = FALSE],
     [Masking EXCEPT !.basepris = {}, !.max_pends = 2],
     [Masking EXCEPT !.basepris = {}, !.priority_writes = FALSE, !.secure_faults = TRUE,
                     !.max_pends = 2]}

\* BASEPRI in thread mode is all it takes.
WithBasepri == {[Quiet EXCEPT !.basepris = {0, 2}]}
=============================================================================
