------------------------------ MODULE RadioBus ------------------------------
(***************************************************************************)
(* The radio bus of src/sim/sim_radio_bus.c: what happens to a byte from   *)
(* the chip that sends it to the chip that receives it.                    *)
(*                                                                         *)
(* The bus runs one frame assembler and one byte clock per sender node,    *)
(* schedules one kernel event per byte and emulated receiver, keeps one    *)
(* lazy RX-stall timer per receiver, stages bytes for the receivers that   *)
(* take whole frames, and tells listening motes how long the channel is    *)
(* busy.  Which node hears which radio is a constant here; RadioMedium     *)
(* models that decision.  Time is counted in units of 8 us.                *)
(***************************************************************************)
EXTENDS Integers, Sequences, FiniteSets

CONSTANTS
    Nodes,
    Fleets,         \* the sets of nodes a simulation may consist of
    PerByte,        \* delivery PER_BYTE: emulated chips
    HasStall,       \* those of them whose radio ops have rx_stall
    Consumers,      \* delivery BATCH with CAP_FRAME_CONSUMER
    Listeners,      \* motes with an on_air op
    Reach,          \* <<node, band>> -> the nodes that hear that radio
    Frames,         \* <<node, band>> -> the frames [bytes, pace] it sends
    Aborters,       \* the nodes whose firmware may abort a transmission
    Resettable,     \* the nodes that may be removed and rebooted
    Gaps,           \* how long nothing may happen
    MaxFrames,      \* bound: frames started
    MaxResets,      \* bound: aborts, removals and reboots
    MaxWaits        \* bound: idle periods

Bands == {"2.4GHz", "868MHz"}

ASSUME BusAssumption ==
    /\ Fleets \subseteq SUBSET Nodes
    /\ PerByte \subseteq Nodes
    /\ HasStall \subseteq PerByte
    /\ Consumers \subseteq Nodes \ PerByte
    /\ Listeners \subseteq Nodes
    /\ Resettable \subseteq Nodes \ Listeners
    /\ Aborters \subseteq PerByte
    /\ Reach \in [Nodes \X Bands -> SUBSET Nodes]
    /\ Frames \in [Nodes \X Bands -> SUBSET [bytes : Seq(0 .. 255), pace : Nat]]
    /\ Gaps \subseteq Nat
    /\ MaxFrames \in Nat /\ MaxResets \in Nat /\ MaxWaits \in Nat

\* 0x930B51DE, 0x7A, and the periods of a byte: 32 us and 160 us.
RADIO_FRAME_802154G_SYNC_WORD == <<147, 11, 81, 222>>
SFD == 122
byte_period_ns(subghz) == IF subghz THEN 20 ELSE 4
SIM_RADIO_RX_STALL_NS == 25
IEEE802154_PHY_HEADER_BYTES == 6

VARIABLES
    fleet,          \* the nodes of this simulation; never changes
    now,            \* the kernel clock
    queue,          \* the pending kernel events of the bus
    seq,            \* sequence number of the last event scheduled
    tx,             \* node -> the frame it is sending
    tx_asm,         \* node -> its frame assembler
    first_byte_ns,  \* tx_asm[n].first_byte_ns: the start of its byte clock
    cap_len,        \* tx_cap[n].len
    complete,       \* node -> the assembler said "frame complete" just now
    on_air_end_ns,  \* node -> the on-air end last announced
    busy,           \* listener -> the end of the busy channel it knows of
    rx_stall_deadline_ns,
    rx_stall_pending,
    rx,             \* receiver -> its chip's byte parser
    heard,          \* <<sender, receiver>> -> the last byte that arrived
    rf_pending,     \* consumer -> the staged bytes
    emu_rx_end_ns,  \* consumer -> end of the last frame on its channel
    handed,         \* consumer -> the last buffer it was handed
    active,         \* the nodes that are running
    air_end,        \* node -> when the frame it sends really leaves the air
    sent,           \* frames started
    resets,         \* aborts, removals and reboots so far
    waits           \* idle periods so far

vars == <<fleet, now, queue, seq, tx, tx_asm, first_byte_ns, cap_len, complete, on_air_end_ns, busy,
          rx_stall_deadline_ns, rx_stall_pending, rx, heard, rf_pending,
          emu_rx_end_ns, handed, active, air_end, sent, resets, waits>>

Later(a, b) == IF a > b THEN a ELSE b

(***************************************************************************)
(* The frame assembler                                                     *)
(***************************************************************************)

AsmReset == [state |-> "PREAMBLE", zero_count |-> 0, sync_match |-> <<0, 0, 0, 0>>,
             expected_len |-> 0, payload_count |-> 0, phr_lo |-> -1,
             subghz |-> FALSE, subghz_phr_len |-> 0]

More(a) == [asm |-> a, complete |-> FALSE]

asm_preamble(a, byte) ==
    LET slid == [a EXCEPT !.sync_match = <<@[2], @[3], @[4], byte>>]
    IN  IF slid.sync_match = RADIO_FRAME_802154G_SYNC_WORD
        THEN [slid EXCEPT !.state = "SUBGHZ_PHR", !.subghz = TRUE,
                          !.subghz_phr_len = 0, !.phr_lo = -1,
                          !.payload_count = 0]
        ELSE IF byte = 0 THEN [slid EXCEPT !.zero_count = @ + 1]
        ELSE IF a.zero_count >= 4 /\ byte = SFD
        THEN [slid EXCEPT !.state = "LENGTH", !.subghz = FALSE]
        ELSE [slid EXCEPT !.zero_count = 0]

asm_length(a, byte) ==
    IF byte \in 3 .. 127
    THEN [a EXCEPT !.expected_len = byte, !.state = "PAYLOAD", !.payload_count = 0]
    ELSE [a EXCEPT !.expected_len = byte, !.state = "PREAMBLE", !.zero_count = 0]

\* The sub-GHz lengths the assembler believes.
SensibleLength == 3 .. 200

\* The PHR has one byte or two, and the assembler guesses which.
asm_subghz_phr(a, byte) ==
    LET len == a.phr_lo * 256 + byte
    IN  CASE a.phr_lo < 0 /\ byte \in SensibleLength ->
               [a EXCEPT !.expected_len = byte, !.subghz_phr_len = 1,
                         !.state = "PAYLOAD", !.payload_count = 0]
          [] a.phr_lo < 0 /\ byte \notin SensibleLength ->
               [a EXCEPT !.phr_lo = byte % 8, !.subghz_phr_len = 2]
          [] a.phr_lo >= 0 /\ len \in SensibleLength ->
               [a EXCEPT !.expected_len = len, !.state = "PAYLOAD",
                         !.payload_count = 0]
          [] a.phr_lo >= 0 /\ len \notin SensibleLength ->
               [a EXCEPT !.expected_len = len, !.state = "PREAMBLE",
                         !.zero_count = 0, !.sync_match = <<0, 0, 0, 0>>,
                         !.subghz = FALSE]

\* A sub-GHz length does not count the two CRC bytes, a 2.4 GHz one does.
payload_target(a) == a.expected_len + IF a.subghz THEN 2 ELSE 0

asm_feed(a, byte) ==
    CASE a.state = "PREAMBLE" -> More(asm_preamble(a, byte))
      [] a.state = "LENGTH" -> More(asm_length(a, byte))
      [] a.state = "SUBGHZ_PHR" -> More(asm_subghz_phr(a, byte))
      [] a.state = "PAYLOAD" /\ a.payload_count + 1 < payload_target(a) ->
           More([a EXCEPT !.payload_count = @ + 1])
      [] a.state = "PAYLOAD" /\ a.payload_count + 1 >= payload_target(a) ->
           [asm |-> [a EXCEPT !.payload_count = @ + 1, !.state = "PREAMBLE",
                              !.zero_count = 0, !.sync_match = <<0, 0, 0, 0>>,
                              !.phr_lo = -1],
            complete |-> TRUE]

frame_air_bytes(a) ==
    IF a.subghz THEN 4 + 4 + a.subghz_phr_len + a.expected_len + 2
    ELSE IEEE802154_PHY_HEADER_BYTES + a.expected_len

(***************************************************************************)
(* The byte parser of an nRF radio that stays in RX                        *)
(***************************************************************************)

RxIdle == [phase |-> "WAIT_PREAMBLE", remaining |-> 0]

receive_byte(r, byte) ==
    CASE r.phase = "WAIT_PREAMBLE" ->
           IF byte = 0 THEN [r EXCEPT !.phase = "WAIT_SFD"] ELSE r
      [] r.phase = "WAIT_SFD" ->
           IF byte = SFD THEN [r EXCEPT !.phase = "READ_PHR"]
           ELSE IF byte = 0 THEN r
           ELSE RxIdle
      [] r.phase = "READ_PHR" ->
           IF byte \in 2 .. 127
           THEN [phase |-> "READ_PAYLOAD", remaining |-> byte]
           ELSE RxIdle
      [] r.phase = "READ_PAYLOAD" ->
           IF r.remaining = 1 THEN RxIdle
           ELSE [r EXCEPT !.remaining = @ - 1]

\* Past the SFD: the driver believes a frame is being received.
MidFrame(i) == rx[i].phase \in {"READ_PHR", "READ_PAYLOAD"}

(***************************************************************************)
(* Kernel events.  An RX byte carries where it comes from.                 *)
(***************************************************************************)

RxByte(t, q, i, n, byte) ==
    [kind |-> "byte", time |-> t, seq |-> q, node |-> i, from |-> n,
     frame |-> tx[n].id, pos |-> tx[n].pos + 1, byte |-> byte]

Timer(t, q, i) == [kind |-> "timer", time |-> t, seq |-> q, node |-> i]

Before(e, f) == e.time < f.time \/ (e.time = f.time /\ e.seq < f.seq)
ByteFor(i) == {e \in queue : e.kind = "byte" /\ e.node = i}
TimerFor(i) == {e \in queue : e.kind = "timer" /\ e.node = i}

(***************************************************************************)
(* Transmission: a chip hands its bytes to the bus at the times tx[n].at,  *)
(* one per byte period or all at once (pace 0).                            *)
(***************************************************************************)

Idle == [id |-> 0, band |-> "2.4GHz", bytes |-> <<>>, pos |-> 0, pace |-> 0, at |-> 0]
Sending(n) == tx[n].pos < Len(tx[n].bytes)

\* Nothing is due before t, and no burst is under way.
Free(t) ==
    /\ \A e \in queue : t <= e.time
    /\ \A n \in Nodes : Sending(n) => t <= tx[n].at
InBurst == {n \in Nodes : Sending(n) /\ tx[n].pace = 0 /\ tx[n].pos > 0}

clock_restarts_anywhere(n, byte) == byte \in {0, 85}

\* sim_radio_bus_tx_byte, first half: a preamble byte restarts the byte clock.
clock_started(n, byte) ==
    tx_asm[n].state = "PREAMBLE" /\ tx_asm[n].zero_count = 0 /\ byte \in {0, 85}
clock_start(n, byte, t) ==
    IF clock_started(n, byte) THEN t ELSE first_byte_ns[n]
byte_index(n, byte) == IF clock_started(n, byte) THEN 0 ELSE cap_len[n]
sender_byte_ns(n) == byte_period_ns(tx_asm[n].subghz)
byte_time_ns(n, byte, t) ==
    clock_start(n, byte, t) + byte_index(n, byte) * sender_byte_ns(n)
Fed(n, byte) == asm_feed(tx_asm[n], byte)

on_air_byte_end(n, byte, t) == byte_time_ns(n, byte, t) + sender_byte_ns(n)

\* Until the length is known the channel is busy through the PHY header,
\* then to the end of the frame.
on_air_end(n, byte, t) ==
    LET fed == Fed(n, byte)
        air_bytes == IF fed.complete \/ fed.asm.state = "PAYLOAD"
                     THEN frame_air_bytes(fed.asm)
                     ELSE IF fed.asm.subghz THEN 0 ELSE IEEE802154_PHY_HEADER_BYTES
    IN  Later(byte_time_ns(n, byte, t) + sender_byte_ns(n),
              clock_start(n, byte, t) + air_bytes * sender_byte_ns(n))

\* bus_on_air: announced only when the end grows.
Announce(n, to, byte, t) ==
    LET last == IF clock_started(n, byte) THEN 0 ELSE on_air_end_ns[n]
        end == on_air_end(n, byte, t)
    IN  IF end > last
        THEN /\ on_air_end_ns' = [on_air_end_ns EXCEPT ![n] = end]
             /\ busy' = [i \in Listeners |->
                            IF i \in to THEN Later(busy[i], end) ELSE busy[i]]
        ELSE /\ on_air_end_ns' = [on_air_end_ns EXCEPT ![n] = last]
             /\ UNCHANGED busy

deadline_not_extended(i, t) ==
    IF rx_stall_pending[i] THEN rx_stall_deadline_ns[i]
    ELSE t + SIM_RADIO_RX_STALL_NS

\* The stall deadline of a receiver after a byte scheduled for time t.
extended_deadline(i, t) ==
    Later(rx_stall_deadline_ns[i], t + SIM_RADIO_RX_STALL_NS)

\* dispatch_tx_byte for the PER_BYTE receivers: one event each at the byte's
\* air time, and the stall timer unless one is pending already.
Schedule(n, to, byte, t) ==
    LET bt == Later(byte_time_ns(n, byte, t), t)
        guarded == to \cap HasStall
    IN  /\ rx_stall_deadline_ns' = [i \in HasStall |->
              IF i \in guarded THEN extended_deadline(i, bt)
              ELSE rx_stall_deadline_ns[i]]
        /\ rx_stall_pending' = [i \in HasStall |->
              rx_stall_pending[i] \/ i \in guarded]
        /\ queue' = queue \cup {RxByte(bt, seq + 1, i, n, byte) : i \in to}
                \cup {Timer(extended_deadline(i, bt), seq + 2, i) :
                         i \in {k \in guarded : ~rx_stall_pending[k]}}
        /\ seq' = seq + 2

any_count_is_a_frame(staged, total) == staged # <<>>

\* A staged buffer counts as the frame just completed if it has its length.
is_whole_frame(staged, total) == staged # <<>> /\ Len(staged) = total

\* dispatch_tx_byte for the BATCH receivers, and sim_radio_bus_frame_complete
\* once the assembler has seen the last byte: a staged buffer of the right
\* length is handed over unless it overlaps the frame before, and every
\* buffer is emptied.
Stage(n, to, byte, t) ==
    LET fed == Fed(n, byte)
        staged == [c \in Consumers |->
                      IF c \in to
                      THEN Append(rf_pending[c],
                                  [from |-> n, frame |-> tx[n].id, pos |-> tx[n].pos + 1])
                      ELSE rf_pending[c]]
        total == frame_air_bytes(fed.asm)
        tx_end == byte_time_ns(n, byte, t) + sender_byte_ns(n)
        tx_start == Later(0, tx_end - total * sender_byte_ns(n))
        coll_start == IF fed.asm.subghz THEN t ELSE tx_start
        coll_end == IF fed.asm.subghz THEN t + total * sender_byte_ns(n) ELSE tx_end
        taken == {c \in Consumers \ {n} : /\ is_whole_frame(staged[c], total)
                                          /\ coll_start >= emu_rx_end_ns[c]}
    IN  IF fed.complete
        THEN /\ rf_pending' = [c \in Consumers |-> <<>>]
             /\ handed' = [c \in Consumers |-> IF c \in taken THEN staged[c] ELSE handed[c]]
             /\ emu_rx_end_ns' = [c \in Consumers |->
                                     IF c \in taken THEN coll_end ELSE emu_rx_end_ns[c]]
        ELSE /\ rf_pending' = staged
             /\ UNCHANGED <<handed, emu_rx_end_ns>>

Init ==
    /\ now = 1
    /\ queue = {}
    /\ seq = 0
    /\ tx = [n \in Nodes |-> Idle]
    /\ tx_asm = [n \in Nodes |-> AsmReset]
    /\ first_byte_ns = [n \in Nodes |-> 0]
    /\ cap_len = [n \in Nodes |-> 0]
    /\ complete = [n \in Nodes |-> FALSE]
    /\ on_air_end_ns = [n \in Nodes |-> 0]
    /\ busy = [i \in Listeners |-> 0]
    /\ rx_stall_deadline_ns = [i \in HasStall |-> 0]
    /\ rx_stall_pending = [i \in HasStall |-> FALSE]
    /\ rx = [i \in HasStall |-> RxIdle]
    /\ heard = [p \in Nodes \X Nodes |-> [frame |-> 0, pos |-> 0]]
    /\ rf_pending = [c \in Consumers |-> <<>>]
    /\ emu_rx_end_ns = [c \in Consumers |-> 0]
    /\ handed = [c \in Consumers |-> <<>>]
    /\ fleet \in Fleets
    /\ active = fleet
    /\ air_end = [n \in Nodes |-> 0]
    /\ sent = 0
    /\ resets = 0
    /\ waits = 0

\* Firmware starts the frame f on one of its radios.
StartFrame(n, band, f) ==
    /\ InBurst = {}
    /\ ~Sending(n)
    /\ sent < MaxFrames
    /\ sent' = sent + 1
    /\ tx' = [tx EXCEPT ![n] = [id |-> sent + 1, band |-> band, bytes |-> f.bytes,
                                pos |-> 0, pace |-> f.pace, at |-> now]]
    /\ air_end' = [air_end EXCEPT ![n] =
                      now + Len(f.bytes) * byte_period_ns(band = "868MHz")]
    /\ UNCHANGED <<now, queue, seq, tx_asm, first_byte_ns, cap_len, complete, on_air_end_ns,
                   busy, rx_stall_deadline_ns, rx_stall_pending, rx, heard, rf_pending,
                   emu_rx_end_ns, handed, active, resets, waits>>

Start ==
    \E n \in active \cap PerByte, band \in Bands :
        \E f \in Frames[<<n, band>>] : StartFrame(n, band, f)

\* sim_radio_bus_tx_byte.
TxByte ==
    \E n \in active :
        LET byte == tx[n].bytes[tx[n].pos + 1]
            t == tx[n].at
            hear == Reach[<<n, tx[n].band>>] \cap active
        IN  /\ Sending(n)
            /\ InBurst \subseteq {n}
            /\ Free(t)
            /\ now' = t
            /\ Schedule(n, hear \cap PerByte, byte, t)
            /\ Stage(n, hear \cap Consumers, byte, t)
            /\ Announce(n, hear \cap Listeners, byte, t)
            /\ tx_asm' = [tx_asm EXCEPT ![n] = Fed(n, byte).asm]
            /\ complete' = [complete EXCEPT ![n] = Fed(n, byte).complete]
            /\ first_byte_ns' = [first_byte_ns EXCEPT ![n] = clock_start(n, byte, t)]
            /\ cap_len' = [cap_len EXCEPT ![n] = byte_index(n, byte) + 1]
            /\ tx' = [tx EXCEPT ![n].pos = @ + 1, ![n].at = t + tx[n].pace]
            /\ UNCHANGED <<rx, heard, active, air_end, sent, resets, waits>>

\* deliver_rx_byte.
PumpByte ==
    \E e \in queue :
        /\ e.kind = "byte"
        /\ InBurst = {}
        /\ Free(e.time)
        /\ \A f \in queue \ {e} : Before(e, f) \/ f.node # e.node
        /\ now' = e.time
        /\ queue' = queue \ {e}
        /\ IF e.node \in active
           THEN /\ heard' = [heard EXCEPT ![<<e.from, e.node>>] =
                                [frame |-> e.frame, pos |-> e.pos]]
                /\ rx' = [i \in HasStall |-> IF i = e.node
                                             THEN receive_byte(rx[i], e.byte)
                                             ELSE rx[i]]
           ELSE UNCHANGED <<heard, rx>>
        /\ UNCHANGED <<seq, tx, tx_asm, first_byte_ns, cap_len, complete, on_air_end_ns, busy,
                       rx_stall_deadline_ns, rx_stall_pending, rf_pending,
                       emu_rx_end_ns, handed, active, air_end, sent, resets,
                       waits>>

stale_timer_dropped(i, t) == {}

\* sim_radio_bus_rx_stall_expired: a timer that fires before the deadline is
\* armed again at the deadline.
rearmed(i, t) ==
    IF t < rx_stall_deadline_ns[i]
    THEN {Timer(rx_stall_deadline_ns[i], seq + 1, i)}
    ELSE {}

\* On expiry the chip's rx_stall gives the frame up.
rx_after_timer(i, t) == IF t < rx_stall_deadline_ns[i] THEN rx[i] ELSE RxIdle

\* deliver_radio_timer.
PumpTimer ==
    \E e \in queue :
        LET i == e.node
            again == rearmed(i, e.time)
        IN  /\ e.kind = "timer"
            /\ InBurst = {}
            /\ Free(e.time)
            /\ \A f \in queue \ {e} : Before(e, f) \/ f.node # i
            /\ now' = e.time
            /\ IF i \notin active
               THEN /\ queue' = queue \ {e}
                    /\ UNCHANGED <<seq, rx_stall_pending, rx>>
               ELSE /\ queue' = (queue \ {e}) \cup again
                    /\ seq' = seq + 1
                    /\ rx_stall_pending' = [rx_stall_pending EXCEPT ![i] = again # {}]
                    /\ rx' = [rx EXCEPT ![i] = rx_after_timer(i, e.time)]
            /\ UNCHANGED <<tx, tx_asm, first_byte_ns, cap_len, complete, on_air_end_ns, busy,
                           rx_stall_deadline_ns, heard, rf_pending,
                           emu_rx_end_ns, handed, active, air_end, sent, resets,
                           waits>>

\* Firmware turns the transmitter off in the middle of a frame.
Abort ==
    \E n \in Aborters \cap active :
        /\ InBurst = {}
        /\ Sending(n)
        /\ tx[n].pos > 0
        /\ resets < MaxResets
        /\ resets' = resets + 1
        /\ tx' = [tx EXCEPT ![n] = Idle]
        /\ air_end' = [air_end EXCEPT ![n] = now]
        /\ UNCHANGED <<now, queue, seq, tx_asm, first_byte_ns, cap_len, complete,
                       on_air_end_ns, busy, rx_stall_deadline_ns,
                       rx_stall_pending, rx, heard, rf_pending, emu_rx_end_ns,
                       handed, active, sent, waits>>

\* The mote is removed: it stops, its events stay queued.
Remove ==
    \E n \in Resettable \cap active :
        /\ InBurst = {}
        /\ resets < MaxResets
        /\ resets' = resets + 1
        /\ active' = active \ {n}
        /\ tx' = [tx EXCEPT ![n] = Idle]
        /\ air_end' = [air_end EXCEPT ![n] = now]
        /\ UNCHANGED <<now, queue, seq, tx_asm, first_byte_ns, cap_len, complete,
                       on_air_end_ns, busy, rx_stall_deadline_ns,
                       rx_stall_pending, rx, heard, rf_pending, emu_rx_end_ns,
                       handed, sent, waits>>

pending_not_reset(n) == rx_stall_pending

\* sim_radio_bus_reset_node forgets the deadline and the timer.
pending_reset(n) == [i \in HasStall |-> i # n /\ rx_stall_pending[i]]

\* reboot_node: the events of the mote are cancelled and its bus state reset.
Reboot ==
    \E n \in Resettable \cap fleet :
        /\ InBurst = {}
        /\ resets < MaxResets
        /\ resets' = resets + 1
        /\ active' = active \cup {n}
        /\ tx' = [tx EXCEPT ![n] = Idle]
        /\ air_end' = [air_end EXCEPT ![n] = now]
        /\ queue' = {e \in queue : e.node # n}
        /\ rx_stall_deadline_ns' = [i \in HasStall |->
              IF i = n THEN 0 ELSE rx_stall_deadline_ns[i]]
        /\ rx_stall_pending' = pending_reset(n)
        /\ rx' = [i \in HasStall |-> IF i = n THEN RxIdle ELSE rx[i]]
        /\ tx_asm' = [tx_asm EXCEPT ![n] = AsmReset]
        /\ first_byte_ns' = [first_byte_ns EXCEPT ![n] = 0]
        /\ cap_len' = [cap_len EXCEPT ![n] = 0]
        /\ rf_pending' = [c \in Consumers |-> IF c = n THEN <<>> ELSE rf_pending[c]]
        /\ emu_rx_end_ns' = [c \in Consumers |-> IF c = n THEN 0 ELSE emu_rx_end_ns[c]]
        /\ UNCHANGED <<now, seq, complete, on_air_end_ns, busy, heard, handed,
                       sent, waits>>

\* Nothing happens for a while.
Wait ==
    \E g \in Gaps :
        /\ InBurst = {}
        /\ Free(now + g)
        /\ waits < MaxWaits
        /\ waits' = waits + 1
        /\ now' = now + g
        /\ UNCHANGED <<queue, seq, tx, tx_asm, first_byte_ns, cap_len, complete, on_air_end_ns,
                       busy, rx_stall_deadline_ns, rx_stall_pending, rx, heard,
                       rf_pending, emu_rx_end_ns, handed, active, air_end, sent,
                       resets>>

Pump == PumpByte \/ PumpTimer

Next ==
    /\ UNCHANGED fleet
    /\ \/ Start
       \/ TxByte
       \/ Pump
       \/ Abort
       \/ Remove
       \/ Reboot
       \/ Wait

Spec == Init /\ [][Next]_vars

\* The kernel keeps dispatching the events and the wakeups that are due.
FairSpec == Spec /\ WF_vars(Pump /\ UNCHANGED fleet) /\ WF_vars(TxByte /\ UNCHANGED fleet)

(***************************************************************************)
(* Traffic as the emulated chips produce it.                               *)
(***************************************************************************)

\* Four zeros, SFD, and a length that counts what follows.
WellFormed24(b) ==
    /\ Len(b) \in 9 .. 133
    /\ \A k \in 1 .. 4 : b[k] = 0
    /\ b[5] = SFD
    /\ b[6] = Len(b) - IEEE802154_PHY_HEADER_BYTES

\* The bytes up to the payload of a sub-GHz frame.
SubHeader(b) == IF b[9] \in SensibleLength THEN 9 ELSE 10

\* Four 0x55, the sync word, a PHR of one or two bytes, the payload and a CRC
\* that the length does not count.
WellFormedSub(b) ==
    /\ Len(b) \in SubHeader(b) + 5 .. SubHeader(b) + 202
    /\ \A k \in 1 .. 4 : b[k] = 85
    /\ \A k \in 1 .. 4 : b[4 + k] = RADIO_FRAME_802154G_SYNC_WORD[k]
    /\ b[9] \notin SensibleLength => b[9] % 8 = 0
    /\ b[SubHeader(b)] = Len(b) - SubHeader(b) - 2

WellFormedFrames ==
    \A n \in Nodes : /\ \A f \in Frames[<<n, "2.4GHz">>] : WellFormed24(f.bytes)
                     /\ \A f \in Frames[<<n, "868MHz">>] : WellFormedSub(f.bytes)

\* No node sends in both bands.
OneBandEach == \A n \in Nodes : Frames[<<n, "2.4GHz">>] = {} \/ Frames[<<n, "868MHz">>] = {}

\* Where frames are staged there is one sender, and it does not abort; and who
\* takes frames stays.
Sends(n) == \E band \in Bands : Frames[<<n, band>>] # {}
OneSender ==
    /\ Consumers \cap Resettable = {}
    /\ \A F \in Fleets : F \cap Consumers # {} =>
        \A n \in F : Sends(n) => n \notin Aborters /\ \A m \in F : Sends(m) => m = n

\* 2.4 GHz chips keep up with the byte clock, sub-GHz ones send at once; and
\* senders that abort are out of the listeners' reach.
Brisk ==
    \A n \in Nodes : /\ \A f \in Frames[<<n, "2.4GHz">>] : f.pace <= byte_period_ns(FALSE)
                     /\ \A f \in Frames[<<n, "868MHz">>] : f.pace = 0
                     /\ \A band \in Bands :
                          n \in Aborters => Reach[<<n, band>>] \cap Listeners = {}

(***************************************************************************)
(* Properties                                                              *)
(***************************************************************************)

\* Every piece of the bus keeps its shape.
TypeOK ==
    /\ now \in Nat
    /\ seq \in Nat
    /\ active \subseteq Nodes
    /\ rx_stall_deadline_ns \in [HasStall -> Nat]
    /\ rx_stall_pending \in [HasStall -> BOOLEAN]
    /\ \A e \in queue :
          /\ e.kind \in {"byte", "timer"}
          /\ e.node \in IF e.kind = "timer" THEN HasStall ELSE PerByte
          /\ e.time \in Nat
          /\ e.seq \in 1 .. seq
    /\ \A n \in Nodes : tx[n].pos \in 0 .. Len(tx[n].bytes)
    /\ \A n \in Nodes : tx_asm[n].state \in {"PREAMBLE", "LENGTH", "SUBGHZ_PHR", "PAYLOAD"}
    /\ \A i \in HasStall :
          rx[i].phase \in {"WAIT_PREAMBLE", "WAIT_SFD", "READ_PHR", "READ_PAYLOAD"}

\* "Lazily keep one timer pending": rx_stall_pending of a running receiver says
\* exactly whether its stall timer is in the event queue, and there is never a
\* second one, through removals, reboots and re-arming.
TimerExact ==
    \A i \in HasStall \cap active :
        /\ rx_stall_pending[i] <=> TimerFor(i) # {}
        /\ \A e, f \in TimerFor(i) : e = f

\* No frame is given up while its bytes are on their way: the deadline of a
\* receiver lies a full stall window after every byte scheduled for it.
DeadlineCovers ==
    \A i \in HasStall \cap active : \A e \in ByteFor(i) :
        rx_stall_deadline_ns[i] >= e.time + SIM_RADIO_RX_STALL_NS

\* A receiver gives up a frame for lack of bytes (rx_stall) only when no byte
\* is on its way to it: nothing else takes it out of a frame but a byte of
\* its own or a reset.
NoFalseStall ==
    [][\A i \in HasStall \cap active :
          MidFrame(i) /\ ~MidFrame(i)' /\ resets' = resets /\ ByteFor(i)' = ByteFor(i)
          => ByteFor(i) = {}]_vars

\* The bytes of a frame reach a receiver in the order they were sent: the
\* pending ones are scheduled in that order, after the ones that arrived.
\* (Not said of a sender that aborts frames, whose byte clock goes on running.)
BytesInOrder ==
    LET bytes == {d \in queue : d.kind = "byte" /\ d.from \notin Aborters}
    IN  /\ \A e, f \in bytes :
              e.node = f.node /\ e.from = f.from /\ e.frame = f.frame /\ e.pos < f.pos
              => Before(e, f)
        /\ \A e \in bytes :
              heard[<<e.from, e.node>>].frame = e.frame
              => heard[<<e.from, e.node>>].pos < e.pos

\* A listening mote in reach of a transmission finds the channel busy from the
\* first preamble byte until the frame has left the air (bus_on_air).
ChannelBusy ==
    \A n \in Nodes : \A i \in Listeners \cap Reach[<<n, tx[n].band>>] \cap active :
        tx[n].pos > 0 /\ now < air_end[n] => busy[i] > now

\* Frames stay whole.  The assembler reports a frame complete at its last byte
\* and nowhere else (sim_radio_bus_asm_feed; after an aborted frame it is out
\* of step, so senders that abort are left out), and a frame consumer is
\* handed nothing but whole frames: all the bytes of one transmission, in
\* order (sim_radio_bus_frame_complete).
BatchIntact ==
    /\ \A n \in Nodes \ Aborters : tx[n].pos > 0 => (complete[n] <=> ~Sending(n))
    /\ \A c \in Consumers : \A k \in 1 .. Len(handed[c]) :
          handed[c][k] = [handed[c][1] EXCEPT !.pos = k]

\* A receiver left in the middle of a frame does not stay there: the rest of
\* the frame arrives, or the stall timer gives it up ("the stream died").
StallRecovers ==
    \A i \in HasStall : MidFrame(i) ~> (~MidFrame(i) \/ i \notin active)

=============================================================================
