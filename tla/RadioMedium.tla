---------------------------- MODULE RadioMedium ----------------------------
(***************************************************************************)
(* The radio medium of src/common/radio_medium.c, driven by the radio bus  *)
(* loop that consults it for every byte (dispatch_tx_byte) and for every   *)
(* frame of a native mote (sim_radio_bus_tx_frame_at).                     *)
(*                                                                         *)
(* The medium answers one question, "does this byte reach this receiver?", *)
(* from a tracker that follows the framing of each sender radio and from a *)
(* per (sender, receiver) cache of the decisions taken for the frame on    *)
(* the air.  Bytes keep their values; a frame is a sequence of them.       *)
(***************************************************************************)
EXTENDS Integers, Sequences, FiniteSets

CONSTANTS
    NodeCount,      \* the nodes are 0 .. NodeCount - 1, visited in this order
    Networks,       \* the simulations considered, records as under Network
    Frames,         \* band -> the on-air frames sent in it
    Channels,       \* the channels a radio may be tuned to
    DistSq,         \* <<sender, receiver>> -> squared distance
    TxRange,        \* udgm.tx_range
    PowerMax,       \* the power steps are 0 .. PowerMax
    Scale,          \* success ratios are fractions of Scale
    MaxFrames,      \* bound: frames sent in a behaviour
    MaxHops         \* bound: retunes, power pushes, link cuts, removals

Nodes == 0 .. NodeCount - 1
Radios == {0, 1}
Slots == Nodes \X Radios
Unknown == -1

SFD_BYTE == 122
MIN_PREAMBLE == 4
SUBGHZ_SYNC_WORD == <<110, 78, 144, 78>>

\* What differs from one simulation to the next.
Network ==
    [radios : SUBSET Slots,         \* the radio slots the motes really have
     native : SUBSET Nodes,         \* the nodes that hand whole frames to the bus
     senders : SUBSET Slots,        \* the radio slots that transmit
     removable : SUBSET Nodes,      \* the nodes that may be removed and rebooted
     powers : SUBSET (0 .. PowerMax),      \* the power steps the firmware sets
     success_tx : 0 .. Scale,       \* udgm.success_ratio_tx
     success_rx : 0 .. Scale,       \* udgm.success_ratio_rx
     cuts : SUBSET (Nodes \X Nodes)]       \* the links the shell may cut

ASSUME NodesAssumption == NodeCount \in Nat \ {0}
ASSUME MediumAssumption ==
    /\ DistSq \in [Nodes \X Nodes -> Nat]
    /\ TxRange \in Nat
    /\ PowerMax \in Nat \ {0}
    /\ Scale \in Nat \ {0}
ASSUME NetworksAssumption == \A w \in Networks : w \in Network /\ w.senders \subseteq w.radios
ASSUME TrafficAssumption ==
    /\ Channels \subseteq Nat
    /\ MaxFrames \in Nat
    /\ MaxHops \in Nat

VARIABLES
    net,            \* the simulation at hand; never changes
    spectrum,       \* nodes[n].radios[r].spectrum
    channel,        \* nodes[n].radios[r].channel
    power,          \* nodes[n].radios[r].power_indicator, of PowerMax
    blocked,        \* link_blocked: the links that are cut
    frame_track,    \* the frame tracker of each sender radio
    rx_decisions,   \* <<sender, receiver>> -> the cached decision
    next_frame_id,
    active,         \* the nodes that are running
    tuned,          \* a native mote's own simRadioChannel
    air,            \* the frame each radio is sending, and how far it is
    heard,          \* <<slot, receiver>> -> positions of that frame accepted
    calm,           \* slots whose frame saw no cut, power push or registration
    steady,         \* slots whose frame saw no retuning either
    verdict,        \* the last frame-level delivery and its circumstances
    sent,           \* frames started so far
    hops            \* retunes, power pushes, link cuts and removals so far

vars == <<net, spectrum, channel, power, blocked, frame_track, rx_decisions,
          next_frame_id, active, tuned, air, heard, calm, steady, verdict, sent,
          hops>>

Native == net.native
HasRadio == net.radios
Senders == net.senders
Removable == net.removable
Powers == net.powers
SuccessTx == net.success_tx
SuccessRx == net.success_rx
Cuts == net.cuts

(***************************************************************************)
(* Range and probability                                                   *)
(***************************************************************************)

\* The range of a sender radio at its present power, squared and scaled by
\* PowerMax^2, and a distance on the same scale.
RangeSq(n, r) == (TxRange * power[<<n, r>>]) * (TxRange * power[<<n, r>>])
Dist(n, i) == DistSq[<<n, i>>] * PowerMax * PowerMax

\* udgm_reception_prob as the numerator of a fraction of RangeSq * Scale^2;
\* it always looks at the power of the sender's slot 0.
udgm_reception_prob(n, i) ==
    IF RangeSq(n, 0) = 0 \/ Dist(n, i) > RangeSq(n, 0)
    THEN 0
    ELSE (RangeSq(n, 0) * Scale - Dist(n, i) * (Scale - SuccessRx)) * SuccessTx

CertainProb(n) == RangeSq(n, 0) * Scale * Scale

\* rng_next returns a value of [0, 1], both ends included: a roll may drop
\* whatever the probability, and may keep only when it is positive.
MayKeep(n, i) == udgm_reception_prob(n, i) > 0

\* neighbors[n]: udgm_compute_neighbors runs after every push of a power.
neighbors(n) == {i \in Nodes \ {n} : Dist(n, i) <= RangeSq(n, 0)}

(***************************************************************************)
(* The medium as a value m = [spectrum, channel, track, dec, next]: the    *)
(* bus changes it several times within one call.                           *)
(***************************************************************************)

Medium == [spectrum |-> spectrum, channel |-> channel, track |-> frame_track,
           dec |-> rx_decisions, next |-> next_frame_id]

SetMedium(m) ==
    /\ spectrum' = m.spectrum
    /\ channel' = m.channel
    /\ frame_track' = m.track
    /\ rx_decisions' = m.dec
    /\ next_frame_id' = m.next

profile_for_spectrum(sp) == IF sp = "868MHz" THEN "802154G" ELSE "802154"

reset_tracker(ft, prof) ==
    [ft EXCEPT !.profile = prof, !.state = "IDLE", !.zero_count = 0,
               !.sync_match = <<0, 0, 0, 0>>, !.frame_id = 0,
               !.frame_start_channel = Unknown]

register_radio(m, s, sp) ==
    IF m.spectrum[s] = sp THEN m
    ELSE [m EXCEPT !.spectrum[s] = sp,
                   !.track[s] = reset_tracker(@, profile_for_spectrum(sp))]

\* sim_radio_bus_push_channel: slot 0 is the 2.4 GHz radio, slot 1 the
\* sub-GHz one, registered by its first channel.
push_channel(m, s, ch) ==
    LET band == IF s[2] = 0 THEN "2.4GHz" ELSE "868MHz"
        known == IF m.spectrum[s] = "none" THEN register_radio(m, s, band)
                 ELSE m
    IN  [known EXCEPT !.channel[s] = ch]

sync_forgotten(m, i) == m

\* bus_sync_channel: pull the channel of a native mote.
bus_sync_channel(m, i) ==
    IF i \in Native /\ m.channel[<<i, 0>>] # tuned[i]
    THEN [register_radio(m, <<i, 0>>, "2.4GHz")
             EXCEPT !.channel[<<i, 0>>] = tuned[i]]
    ELSE m

(***************************************************************************)
(* The frame tracker                                                       *)
(***************************************************************************)

start_new_frame(m, s, ft) ==
    LET id == m.next + 1
        fresh(p) == [m.dec[p] EXCEPT !.frame_id = id, !.decided = FALSE,
                                     !.channel_decided = FALSE,
                                     !.channel_match = FALSE]
    IN  [m EXCEPT
            !.next = id,
            !.track[s] = [ft EXCEPT !.frame_id = id,
                                    !.frame_start_channel = m.channel[s]],
            !.dec = [p \in Nodes \X Nodes |->
                        IF p[1] = s[1] THEN fresh(p) ELSE m.dec[p]]]

\* The data and length states, common to both profiles (sync_match is read
\* only by the 802.15.4g one, which clears it here).
LengthByte(ft, len) ==
    [ft EXCEPT !.length = len, !.byte_count = 0,
               !.state = IF len > 0 THEN "DATA" ELSE "IDLE"]

data_one_byte_late(ft) ==
    IF ft.byte_count + 1 > ft.length
    THEN [ft EXCEPT !.byte_count = @ + 1, !.state = "IDLE",
                    !.zero_count = 0, !.sync_match = <<0, 0, 0, 0>>]
    ELSE [ft EXCEPT !.byte_count = @ + 1]

DataByte(ft) ==
    IF ft.byte_count + 1 >= ft.length
    THEN [ft EXCEPT !.byte_count = @ + 1, !.state = "IDLE",
                    !.zero_count = 0, !.sync_match = <<0, 0, 0, 0>>]
    ELSE [ft EXCEPT !.byte_count = @ + 1]

\* FRAME_IDLE of the 802.15.4 profile: a zero opens a preamble, and the
\* previous frame is over.
IdleByte(ft, byte) ==
    IF byte = 0
    THEN [ft EXCEPT !.zero_count = 1, !.state = "PREAMBLE", !.frame_id = 0]
    ELSE ft

track_byte_802154(m, s, byte) ==
    LET ft == m.track[s]
        With(t) == [m EXCEPT !.track[s] = t]
    IN  CASE ft.state = "IDLE" -> With(IdleByte(ft, byte))
          [] ft.state = "PREAMBLE" /\ byte = 0 ->
               With([ft EXCEPT !.zero_count = @ + 1])
          [] ft.state = "PREAMBLE" /\ byte = SFD_BYTE
                /\ ft.zero_count >= MIN_PREAMBLE ->
               start_new_frame(m, s, [ft EXCEPT !.state = "SFD"])
          [] ft.state = "PREAMBLE" /\ byte # 0
                /\ ~(byte = SFD_BYTE /\ ft.zero_count >= MIN_PREAMBLE) ->
               With([ft EXCEPT !.state = "IDLE", !.zero_count = 0])
          [] ft.state = "SFD" -> With(LengthByte(ft, byte))
          [] ft.state = "DATA" -> With(DataByte(ft))

track_byte_802154g(m, s, byte) ==
    LET ft == m.track[s]
        With(t) == [m EXCEPT !.track[s] = t]
        slid == Append(Tail(ft.sync_match), byte)
    IN  CASE ft.state \in {"IDLE", "PREAMBLE"} /\ slid = SUBGHZ_SYNC_WORD ->
               start_new_frame(m, s, [ft EXCEPT !.state = "PHR_LO",
                                                !.sync_match = slid])
          [] ft.state \in {"IDLE", "PREAMBLE"} /\ slid # SUBGHZ_SYNC_WORD ->
               With([ft EXCEPT !.state = "PREAMBLE", !.sync_match = slid])
          [] ft.state = "PHR_LO" ->
               With([ft EXCEPT !.phr_hi = byte % 8, !.state = "SFD"])
          [] ft.state = "SFD" -> With(LengthByte(ft, ft.phr_hi * 256 + byte))
          [] ft.state = "DATA" -> With(DataByte(ft))

track_byte(m, s, byte) ==
    IF m.track[s].profile = "802154G"
    THEN track_byte_802154g(m, s, byte)
    ELSE track_byte_802154(m, s, byte)

(***************************************************************************)
(* Matching a sender radio with a receiver radio                           *)
(***************************************************************************)

\* sim_radio_bus_pick_receiver_radio: the receiver slot of the sender's band,
\* or {} where the C function returns -1.
pick_receiver_radio(m, s, i) ==
    LET same == {r \in Radios : m.spectrum[<<i, r>>] = m.spectrum[s]}
    IN  IF m.spectrum[s] = "none" THEN {0}
        ELSE IF same # {} THEN {CHOOSE r \in same : \A q \in same : r <= q}
        ELSE IF m.spectrum[<<i, 0>>] = "none" THEN {0}
        ELSE {}

\* Two unregistered radios also compare the bands their channels lie in, but
\* a radio with a channel is always registered.
spectrum_match(m, s, d) ==
    \/ m.spectrum[s] = m.spectrum[d]
    \/ /\ (m.spectrum[s] = "none") # (m.spectrum[d] = "none")
       /\ s[2] = 0
       /\ d[2] = 0

ChannelsMatch(a, b) == a = Unknown \/ b = Unknown \/ a = b

\* radio_pair_match: inside a frame the channels are compared once and the
\* answer is cached; outside they are compared live.  Result: [ok, m].
match_live_channel(m, s, d) ==
    [ok |-> spectrum_match(m, s, d) /\ ChannelsMatch(m.channel[s], m.channel[d]),
     m |-> m]

radio_pair_match(m, s, d) ==
    LET ft == m.track[s]
        pair == <<s[1], d[1]>>
        dec == m.dec[pair]
        now == ChannelsMatch(ft.frame_start_channel, m.channel[d])
    IN  IF ~spectrum_match(m, s, d) THEN [ok |-> FALSE, m |-> m]
        ELSE IF ft.frame_id = 0
        THEN [ok |-> ChannelsMatch(m.channel[s], m.channel[d]), m |-> m]
        ELSE IF dec.channel_decided /\ dec.frame_id = ft.frame_id
        THEN [ok |-> dec.channel_match, m |-> m]
        ELSE [ok |-> now,
              m |-> [m EXCEPT !.dec[pair].frame_id = ft.frame_id,
                              !.dec[pair].channel_match = now,
                              !.dec[pair].channel_decided = TRUE]]

\* radio_medium_filter_byte_radio; lost is what the roll says if one is drawn.
filter_byte_radio(m, s, d, byte, lost) ==
    LET tracked == track_byte(m, s, byte)
        pair == <<s[1], d[1]>>
        match == radio_pair_match(tracked, s, d)
        ft == match.m.track[s]
        dec == match.m.dec[pair]
    IN  IF pair \in blocked THEN [ok |-> FALSE, m |-> tracked]
        ELSE IF ~match.ok THEN match
        ELSE IF ft.frame_id > 0 /\ dec.frame_id = ft.frame_id
        THEN IF dec.decided THEN [ok |-> ~dec.drop, m |-> match.m]
             ELSE [ok |-> ~lost,
                   m |-> [match.m EXCEPT !.dec[pair].decided = TRUE,
                                         !.dec[pair].drop = lost]]
        ELSE [ok |-> Dist(s[1], d[1]) < RangeSq(s[1], s[2]), m |-> match.m]

\* radio_medium_filter_frame_radio on slots 0; kept is what a roll would say.
filter_frame(m, n, i, kept) ==
    LET match == radio_pair_match(m, <<n, 0>>, <<i, 0>>)
        prob == udgm_reception_prob(n, i)
    IN  IF <<n, i>> \in blocked THEN [ok |-> FALSE, m |-> m]
        ELSE [ok |-> match.ok /\ prob > 0 /\ (prob >= CertainProb(n) \/ kept),
              m |-> match.m]

(***************************************************************************)
(* The bus loops over the receivers                                        *)
(***************************************************************************)

\* One turn of the loop of dispatch_tx_byte; p = [m, to].
offer_byte(p, s, i, byte, lost) ==
    LET m == bus_sync_channel(p.m, i)
        rr == pick_receiver_radio(m, s, i)
        d == <<i, CHOOSE r \in rr : TRUE>>
        f == filter_byte_radio(m, s, d, byte, lost[i])
    IN  IF i = s[1] \/ i \notin active \/ {s[1], i} \subseteq Native THEN p
        ELSE IF rr = {} THEN [p EXCEPT !.m = m]
        ELSE [m |-> f.m, to |-> IF f.ok THEN p.to \cup {i} ELSE p.to]

dispatch_tx_byte(m, s, byte, lost) ==
    LET after[k \in 0 .. NodeCount] ==
            IF k = 0 THEN [m |-> m, to |-> {}]
            ELSE offer_byte(after[k - 1], s, k - 1, byte, lost)
    IN  after[NodeCount]

\* One turn of the neighbour loop of sim_radio_bus_tx_frame_at.
offer_frame(p, n, i, lost) ==
    LET f == filter_frame(bus_sync_channel(p.m, i), n, i, ~lost[i])
    IN  IF i \notin neighbors(n) \cap Native THEN p
        ELSE [m |-> f.m, to |-> IF f.ok THEN p.to \cup {i} ELSE p.to]

tx_frame(m, n, lost) ==
    LET after[k \in 0 .. NodeCount] ==
            IF k = 0 THEN [m |-> bus_sync_channel(m, n), to |-> {}]
            ELSE offer_frame(after[k - 1], n, k - 1, lost)
    IN  after[NodeCount]

\* What the rolls of one call can say.
Rolls(n) == {lost \in [Nodes -> BOOLEAN] :
                \A i \in Nodes : lost[i] \/ MayKeep(n, i)}

(***************************************************************************)
(* The system: firmware that transmits, retunes and sets its power, a      *)
(* shell that cuts links, removes and reboots motes                        *)
(***************************************************************************)

NoFrame == [bytes |-> <<>>, pos |-> 0]
OnAir(s) == air[s].pos < Len(air[s].bytes)
NoVerdict == [accepted |-> {}, audible |-> {}]

Init ==
    /\ net \in Networks
    /\ spectrum = [s \in Slots |-> "none"]
    /\ channel = [s \in Slots |-> Unknown]
    /\ power = [s \in Slots |-> PowerMax]
    /\ blocked = {}
    /\ frame_track = [s \in Slots |->
          [state |-> "IDLE", zero_count |-> 0, sync_match |-> <<0, 0, 0, 0>>,
           length |-> 0, byte_count |-> 0, frame_id |-> 0, phr_hi |-> 0,
           profile |-> "802154", frame_start_channel |-> 0]]
    /\ rx_decisions = [p \in Nodes \X Nodes |->
          [frame_id |-> 0, decided |-> FALSE, drop |-> FALSE,
           channel_decided |-> FALSE, channel_match |-> FALSE]]
    /\ next_frame_id = 0
    /\ active = Nodes
    /\ tuned \in [Native -> Channels]
    /\ air = [s \in Slots |-> NoFrame]
    /\ heard = [h \in Slots \X Nodes |-> {}]
    /\ calm = {}
    /\ steady = {}
    /\ verdict = NoVerdict
    /\ sent = 0
    /\ hops = 0

\* sim_radio_bus_tx_byte of an emulated radio: the next byte of its frame,
\* or the first byte of a new one.
TxByte(s) ==
    \E f \in IF OnAir(s) THEN {air[s].bytes} ELSE Frames[spectrum[s]],
       lost \in Rolls(s[1]) :
        LET pos == IF OnAir(s) THEN air[s].pos + 1 ELSE 1
            before(i) == IF OnAir(s) THEN heard[<<s, i>>] ELSE {}
            out == dispatch_tx_byte(Medium, s, f[pos], lost)
        IN  /\ OnAir(s) \/ sent < MaxFrames
            /\ SetMedium(out.m)
            /\ air' = [air EXCEPT ![s] = [bytes |-> f, pos |-> pos]]
            /\ heard' = [h \in Slots \X Nodes |->
                  IF h[1] # s THEN heard[h]
                  ELSE IF h[2] \in out.to THEN before(h[2]) \cup {pos}
                  ELSE before(h[2])]
            /\ calm' = IF OnAir(s) THEN calm ELSE calm \cup {s}
            /\ steady' = IF OnAir(s) THEN steady ELSE steady \cup {s}
            /\ sent' = IF OnAir(s) THEN sent ELSE sent + 1
            /\ UNCHANGED <<power, blocked, active, tuned, verdict, hops>>

Transmit ==
    \E s \in Senders :
        /\ s[1] \in active \ Native
        /\ spectrum[s] # "none"
        /\ TxByte(s)

\* mixed_native_rf_handler: the frame goes to the native neighbours at once ...
NativeTransmit ==
    \E n \in Native \cap active, f \in Frames["2.4GHz"] : \E lost \in Rolls(n) :
        LET s == <<n, 0>>
            whole == tx_frame(Medium, n, lost)
        IN  /\ s \in Senders
            /\ sent < MaxFrames
            /\ sent' = sent + 1
            /\ SetMedium(whole.m)
            /\ air' = [air EXCEPT ![s] = [bytes |-> f, pos |-> 0]]
            /\ heard' = [h \in Slots \X Nodes |->
                  IF h[1] = s THEN {} ELSE heard[h]]
            /\ calm' = calm \cup {s}
            /\ steady' = steady \cup {s}
            /\ verdict' = [accepted |-> whole.to,
                           audible |-> {i \in neighbors(n) \cap Native :
                                          tuned[i] = tuned[n]}]
            /\ UNCHANGED <<power, blocked, active, tuned, hops>>

\* ... and then byte by byte, within the same call, to the emulated receivers.
NativeBytes == \E n \in Native : OnAir(<<n, 0>>) /\ TxByte(<<n, 0>>)
InNativeCall == \E n \in Native : OnAir(<<n, 0>>)

\* A chip writes its frequency register: the host pushes the channel.
Tune ==
    \E s \in HasRadio, ch \in Channels :
        /\ s[1] \in active \ Native
        /\ channel[s] # ch
        /\ SetMedium(push_channel(Medium, s, ch))
        /\ IF spectrum[s] = "none"
           THEN UNCHANGED hops /\ calm' = {}
           ELSE hops < MaxHops /\ hops' = hops + 1 /\ UNCHANGED calm
        /\ steady' = {}
        /\ UNCHANGED <<power, blocked, active, tuned, air, heard, verdict, sent>>

\* A native mote writes simRadioChannel; the medium is not told.
NativeTune ==
    \E n \in Native \cap active, ch \in Channels :
        /\ tuned[n] # ch
        /\ hops < MaxHops
        /\ hops' = hops + 1
        /\ tuned' = [tuned EXCEPT ![n] = ch]
        /\ steady' = {}
        /\ UNCHANGED <<spectrum, channel, power, blocked, frame_track,
                       rx_decisions, next_frame_id, active, air, heard, calm,
                       verdict, sent>>

\* mixed_host_radio_set_power.
PushPower ==
    \E s \in HasRadio, p \in Powers :
        /\ s[1] \in active \ Native
        /\ power[s] # p
        /\ hops < MaxHops
        /\ hops' = hops + 1
        /\ power' = [power EXCEPT ![s] = p]
        /\ calm' = {}
        /\ steady' = {}
        /\ UNCHANGED <<spectrum, channel, blocked, frame_track, rx_decisions,
                       next_frame_id, active, tuned, air, heard, verdict, sent>>

\* The shell's link command.
SetLink ==
    \E l \in Cuts :
        /\ hops < MaxHops
        /\ hops' = hops + 1
        /\ blocked' = IF l \in blocked THEN blocked \ {l} ELSE blocked \cup {l}
        /\ calm' = {}
        /\ steady' = {}
        /\ UNCHANGED <<spectrum, channel, power, frame_track, rx_decisions,
                       next_frame_id, active, tuned, air, heard, verdict, sent>>

\* The control API removes a mote, which stops in the middle of a frame.
Remove ==
    \E n \in Removable \cap active :
        /\ hops < MaxHops
        /\ hops' = hops + 1
        /\ active' = active \ {n}
        /\ calm' = {}
        /\ steady' = {}
        /\ UNCHANGED <<spectrum, channel, power, blocked, frame_track,
                       rx_decisions, next_frame_id, tuned, air, heard, verdict,
                       sent>>

\* reboot_node clears the bus state of the mote; the medium keeps its own.
Reboot ==
    \E n \in Removable :
        /\ hops < MaxHops
        /\ hops' = hops + 1
        /\ active' = active \cup {n}
        /\ air' = [s \in Slots |-> IF s[1] = n THEN NoFrame ELSE air[s]]
        /\ heard' = [h \in Slots \X Nodes |->
              IF h[1][1] = n THEN {} ELSE heard[h]]
        /\ calm' = {}
        /\ steady' = {}
        /\ UNCHANGED <<spectrum, channel, power, blocked, frame_track,
                       rx_decisions, next_frame_id, tuned, verdict, sent>>

Next ==
    /\ UNCHANGED net
    /\ \/ NativeBytes
       \/ ~InNativeCall /\ Transmit
       \/ ~InNativeCall /\ NativeTransmit
       \/ ~InNativeCall /\ Tune
       \/ ~InNativeCall /\ NativeTune
       \/ ~InNativeCall /\ PushPower
       \/ ~InNativeCall /\ SetLink
       \/ ~InNativeCall /\ Remove
       \/ ~InNativeCall /\ Reboot

Spec == Init /\ [][Next]_vars

(***************************************************************************)
(* Properties                                                              *)
(***************************************************************************)

\* How many bytes of a frame come before its length field.
HeaderLen(s) == IF spectrum[s] = "868MHz" THEN 8 ELSE 5
Body(s) == {k \in HeaderLen(s) .. air[s].pos : TRUE}
InFrame(s) == frame_track[s].state \in {"SFD", "PHR_LO", "DATA"}

\* The tracker of a sender radio stays in step with the bytes it really sends
\* (radio_medium_filter_byte_radio advances it "even on dropped bytes"):
\* it is inside a frame exactly while the radio is past the sync word and
\* before the last byte.  (A stream that is offered to nobody is not tracked.)
TrackerInSync ==
    \A s \in calm :
        (\E i \in active \ {s[1]} :
            ~({s[1], i} \subseteq Native) /\ pick_receiver_radio(Medium, s, i) # {})
        => (InFrame(s) <=> (HeaderLen(s) <= air[s].pos /\ OnAir(s)))

\* An entire frame is either delivered or dropped (the per-frame caches of
\* rx_decisions): from the sync word on, a receiver is given all the bytes
\* of a frame or none of them, whoever retunes meanwhile.  And a receiver that
\* is given the body was given the preamble, which is judged by the live
\* channels and not by the frame before (track_byte_802154 clears frame_id at
\* the first zero; the 802.15.4g tracker does not, so this half is said of
\* 2.4 GHz only, while nobody retunes).
WholeFrames ==
    \A s \in calm, i \in Nodes :
        LET body == heard[<<s, i>>] \cap Body(s) IN
        /\ body \in {{}, Body(s)}
        /\ s \in steady /\ spectrum[s] = "2.4GHz" /\ body # {} =>
              1 .. HeaderLen(s) - 1 \subseteq heard[<<s, i>>]

\* A frame of a native mote is judged by the channels the motes are tuned to
\* when it is sent: no mote on another channel accepts it, and on a lossless
\* medium every mote in range on its channel does (test_radio_medium.c: "no
\* inflight-frame caching that could mask the new channel").
HopHonoured ==
    /\ verdict.accepted \subseteq verdict.audible
    /\ SuccessTx = Scale /\ SuccessRx = Scale /\ Cuts = {}
       => verdict.audible \subseteq verdict.accepted

=============================================================================
