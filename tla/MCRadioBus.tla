----------------------------- MODULE MCRadioBus -----------------------------
(***************************************************************************)
(* Small instances of the radio bus.                                       *)
(***************************************************************************)
EXTENDS RadioBus

\* A 2.4 GHz frame of length 3 and a sub-GHz one with a one-byte PHR of 3.
Frame24 == <<0, 0, 0, 0, 122, 3, 0, 122, 1>>
FrameSub == <<85, 85, 85, 85, 147, 11, 81, 222, 3, 1, 85, 1, 0, 0>>

Burst(bytes) == [bytes |-> bytes, pace |-> 0]
Paced(bytes) == [bytes |-> bytes, pace |-> 4]

Slots == Nodes \X Bands

\* Node 1 sends at 2.4 GHz, 5 below 1 GHz; 2 and 6 receive bytes, 3 takes
\* frames, 4 listens.  Node 7 sends to 2 and may abort.
MCFleets == {{1, 2, 3, 4}, {3, 4, 5, 6}, {2, 7}}
MCReach == [s \in Slots |-> CASE s[1] = 1 -> {2, 3, 4}
                              [] s[1] = 5 -> {3, 4, 6}
                              [] s[1] = 7 -> {2}
                              [] OTHER -> {}]
MCFrames == [s \in Slots |-> CASE s = <<1, "2.4GHz">> -> {Burst(Frame24), Paced(Frame24)}
                               [] s = <<7, "2.4GHz">> -> {Paced(Frame24)}
                               [] s = <<5, "868MHz">> -> {Burst(FrameSub)}
                               [] OTHER -> {}]

ASSUME TrafficAssumption == WellFormedFrames /\ OneBandEach /\ OneSender /\ Brisk
=============================================================================
