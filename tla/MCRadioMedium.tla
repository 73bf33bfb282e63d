--------------------------- MODULE MCRadioMedium ---------------------------
(***************************************************************************)
(* Instances of RadioMedium.  The frames are complete PHY frames: a short  *)
(* 802.15.4 frame with a zero in its payload, and an 802.15.4g frame whose *)
(* two-byte header counts the CRC.                                         *)
(***************************************************************************)
EXTENDS RadioMedium

Frame24 == <<0, 0, 0, 0, 122, 3, 1, 0, 2>>
FrameSub == <<85, 85, 85, 85, 110, 78, 144, 78, 16, 3, 1, 0, 2>>
\* Long enough for a tracker that is fed every byte twice to leave it early.
FrameLong == <<0, 0, 0, 0, 122, 63>> \o [k \in 1 .. 63 |-> 0]

BandFrames == [b \in {"2.4GHz", "868MHz"} |->
                  IF b = "2.4GHz" THEN {Frame24} ELSE {FrameSub}]
LongFrames == [b \in {"2.4GHz", "868MHz"} |-> {FrameLong}]

FirstSlots == Nodes \X {0}
SecondSlots == Nodes \X {1}

\* Two emulated motes, lossy, that retune, change power and lose the link.
Emulated(radios, sender) ==
    [radios |-> radios, native |-> {}, senders |-> {sender}, removable |-> {},
     powers |-> {1, 2}, success_tx |-> 1, success_rx |-> 1, cuts |-> {<<0, 1>>}]
\* Two native motes on a lossless medium, that hop and are rebooted.
TwoNative ==
    [radios |-> FirstSlots, native |-> {0, 1}, senders |-> FirstSlots,
     removable |-> {1}, powers |-> {}, success_tx |-> Scale, success_rx |-> Scale,
     cuts |-> {}]
MCNetworks ==
    {Emulated(FirstSlots, <<0, 0>>), Emulated(SecondSlots, <<0, 1>>), TwoNative}

\* One lossy sender and two receivers that keep still.
TwoReceivers ==
    {[Emulated(FirstSlots, <<0, 0>>) EXCEPT !.powers = {}, !.cuts = {}]}

\* Every receiver two steps away from every sender.
Apart == [p \in Nodes \X Nodes |-> IF p[1] = p[2] THEN 0 ELSE 4]
=============================================================================
