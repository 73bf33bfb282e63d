------------------------------ MODULE MCCC2420 ------------------------------
(***************************************************************************)
(* Small instances of CC2420 for model checking.                           *)
(***************************************************************************)
EXTENDS CC2420

Listen == {"SXOSCON", "SRXON", "SFLUSHRX"}

\* A driver that reads packets while others arrive and transmits in between.
Reader ==
    [kinds |-> {"ackreq"}, strobes |-> Listen \cup {"STXON"},
     reads_in_frame |-> TRUE, leaves_frame |-> FALSE, power_cycles |-> FALSE,
     max_frames |-> 2, max_strobes |-> 3]
\* One that hears frames for other nodes and reads between frames.
Filter ==
    [kinds |-> {"plain", "other", "badfcf"}, strobes |-> Listen,
     reads_in_frame |-> FALSE, leaves_frame |-> FALSE, power_cycles |-> FALSE,
     max_frames |-> 3, max_strobes |-> 3]
\* One that hears damaged frames between good ones.
Noisy ==
    [kinds |-> {"ackreq", "badcrc"}, strobes |-> Listen,
     reads_in_frame |-> FALSE, leaves_frame |-> FALSE, power_cycles |-> FALSE,
     max_frames |-> 2, max_strobes |-> 2]
\* One that does anything at any time.
Reckless ==
    [kinds |-> {"ackreq"}, strobes |-> StrobeNames,
     reads_in_frame |-> TRUE, leaves_frame |-> TRUE, power_cycles |-> TRUE,
     max_frames |-> 1, max_strobes |-> 4]

MCDrivers == {Reader, Filter, Noisy, Reckless}
=============================================================================
