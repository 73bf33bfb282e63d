------------------------------- MODULE CC2420 -------------------------------
(***************************************************************************)
(* The CC2420 radio chip of src/chips/cc2420.c, driven from three sides:   *)
(* the firmware (strobes, FIFO reads and the voltage regulator pin), the   *)
(* air (one byte of a frame every two symbols) and the chip's own timers   *)
(* in the CPU's event queue.                                               *)
(*                                                                         *)
(* r is the cc2420_t.  A timer is the number of symbols until it fires, or *)
(* Off.  Frames all have one length; of a byte the model keeps its place   *)
(* in the frame and of a frame what decides about it.                      *)
(***************************************************************************)
EXTENDS Integers, FiniteSets

CONSTANTS
    FifoSize,       \* bytes of the RX FIFO, 128 in the chip
    FifopThr,       \* FIFOP threshold
    FrameLen,       \* value of the length byte of every frame
    AddrPos,        \* the byte that completes the destination address
    OscSymbols,     \* symbols until the oscillator is stable
    Drivers         \* the firmwares considered, records as under Driver

FrameKinds == {"plain", "ackreq", "badcrc", "other", "badfcf"}
StrobeNames == {"SXOSCON", "SRXON", "STXON", "STXONCCA", "SRFOFF", "SXOSCOFF",
                "SFLUSHRX", "SACK"}

\* What a firmware does to the chip, and what its neighbours send.
Driver ==
    [kinds : SUBSET FrameKinds,     \* what arrives from the air
     strobes : SUBSET StrobeNames,  \* the strobes it uses
     reads_in_frame : BOOLEAN,      \* it reads the FIFO while a frame arrives
     leaves_frame : BOOLEAN,        \* it transmits or stops while a frame arrives
     power_cycles : BOOLEAN,        \* it switches the regulator
     max_frames : Nat,              \* bound: frames from the air
     max_strobes : Nat]             \* bound: strobes

ASSUME CC2420Assumption ==
    /\ FifoSize \in Nat \ {0}
    /\ FifopThr \in 0 .. FifoSize
    /\ FrameLen \in 4 .. FifoSize - 1
    /\ AddrPos \in 4 .. FrameLen - 2
    /\ OscSymbols \in Nat /\ OscSymbols > 16
    /\ Drivers \subseteq Driver

VARIABLES
    driver,     \* the firmware at hand; never changes
    r,          \* cc2420_t
    air,        \* the frame on the air: its kind, next byte, symbols until then
    frames,     \* frames put on the air
    strobes     \* strobes given

vars == <<driver, r, air, frames, strobes>>

Off == -1
Silence == [kind |-> "none", pos |-> 0, due |-> Off]

RxStates == {"RX_CALIBRATE", "RX_SFD_SEARCH", "RX_FRAME", "RX_OVERFLOW", "RX_WAIT"}
TxStates == {"TX_CALIBRATE", "TX_PREAMBLE", "TX_FRAME",
             "TX_ACK_CALIBRATE", "TX_ACK_PREAMBLE", "TX_ACK"}
Timed == TxStates \cup {"RX_CALIBRATE", "RX_WAIT"}

(***************************************************************************)
(* The RX FIFO: a ring of the places in their frames of the bytes in it.   *)
(***************************************************************************)

rxfifo_write(c, p) ==
    [c EXCEPT !.memory[c.write_pos] = p,
              !.write_pos = (@ + 1) % FifoSize,
              !.fifo_len = @ + 1]

rxfifo_read(c) ==
    [c EXCEPT !.read_pos = (@ + 1) % FifoSize,
              !.fifo_len = IF @ > 0 THEN @ - 1 ELSE @]

rxfifo_mark(c) == [c EXCEPT !.mark_pos = c.write_pos, !.mark_len = c.fifo_len]

restore_position_only(c) == [c EXCEPT !.write_pos = c.mark_pos]
rxfifo_restore(c) == [c EXCEPT !.write_pos = c.mark_pos, !.fifo_len = c.mark_len]

rxfifo_full(c) == c.fifo_len >= FifoSize

(***************************************************************************)
(* State changes                                                           *)
(***************************************************************************)

set_sfd(c, v) == [c EXCEPT !.sfd = v]
schedule_symbols(c, n) == [c EXCEPT !.symbol_event = n]

\* With the CCA multiplexer at its default the pin follows RSSI_VALID: the
\* RSSI register always holds the noise floor, below any threshold in use.
update_cca(c) == [c EXCEPT !.cca = c.rssi_valid]

enter_rx_search(c) ==
    update_cca([c EXCEPT !.zero_symbols = 0, !.rxread = 0, !.rxlen = 0,
                         !.frame_rejected = FALSE, !.should_ack = FALSE,
                         !.rssi_valid = TRUE])

shr_next(c) ==
    IF c.shr_pos < 5
    THEN schedule_symbols([c EXCEPT !.shr_pos = @ + 1], 2)
    ELSE IF c.state = "TX_PREAMBLE"
    THEN schedule_symbols([set_sfd(c, TRUE) EXCEPT !.state = "TX_FRAME", !.tx_pos = 0,
                                                   !.crc_ok = FALSE], 2)
    ELSE schedule_symbols([set_sfd(c, TRUE) EXCEPT !.state = "TX_ACK"], 2)

set_state(c, new) ==
    LET s == [c EXCEPT !.state = new]
    IN  CASE new \in {"VREG_OFF", "POWER_DOWN"} ->
               update_cca([s EXCEPT !.xosc_stable = FALSE, !.rssi_valid = FALSE])
          [] new = "IDLE" -> update_cca([s EXCEPT !.rssi_valid = FALSE])
          [] new = "RX_CALIBRATE" -> schedule_symbols(s, 12)
          [] new = "RX_SFD_SEARCH" -> enter_rx_search(s)
          [] new = "RX_FRAME" ->
               rxfifo_mark([s EXCEPT !.rxread = 0, !.rxlen = 0, !.frame_rejected = FALSE,
                                     !.should_ack = FALSE, !.crc_ok = FALSE])
          [] new = "RX_WAIT" -> schedule_symbols(s, 8)
          [] new = "TX_CALIBRATE" ->
               schedule_symbols([s EXCEPT !.sfd_clear_event = Off], 14)
          [] new \in {"TX_PREAMBLE", "TX_ACK_PREAMBLE"} ->
               shr_next([s EXCEPT !.shr_pos = 0,
                                  !.ack_pos = IF new = "TX_ACK_PREAMBLE" THEN 0 ELSE @])
          [] new = "TX_ACK_CALIBRATE" ->
               schedule_symbols([set_sfd(s, FALSE) EXCEPT !.sfd_clear_event = Off,
                                                          !.tx_active = TRUE], 16)
          [] OTHER -> s

search_again(c) == set_state([c EXCEPT !.symbol_event = Off], "RX_SFD_SEARCH")

packet_forgotten(c) == 0

flush_rx(c) ==
    LET f == [c EXCEPT !.write_pos = 0, !.read_pos = 0, !.fifo_len = 0,
                       !.read_left = packet_forgotten(c),
                       !.rxlen = 0, !.rxread = 0, !.overflow = FALSE,
                       !.frame_rejected = FALSE, !.sfd_clear_event = Off,
                       !.fifo = FALSE, !.fifop = FALSE, !.sfd = FALSE]
    IN  IF c.state \in RxStates THEN search_again(f) ELSE f

set_rx_overflow(c) ==
    [c EXCEPT !.fifop = TRUE, !.fifo = FALSE, !.sfd = FALSE, !.overflow = TRUE,
              !.should_ack = FALSE, !.state = "RX_OVERFLOW"]

reject_frame(c) ==
    LET b == rxfifo_restore(c)
    IN  [b EXCEPT !.sfd = FALSE, !.fifo = b.fifo_len > 0, !.frame_rejected = TRUE]

(***************************************************************************)
(* Transmission: a frame of FrameLen + 1 bytes, an acknowledgement of six. *)
(***************************************************************************)

tx_done(c) == [set_sfd(c, FALSE) EXCEPT !.tx_active = FALSE]

tx_next(c) ==
    IF c.tx_pos <= FrameLen THEN schedule_symbols([c EXCEPT !.tx_pos = @ + 1], 2)
    ELSE set_state(tx_done(c), IF c.overflow THEN "RX_OVERFLOW" ELSE "RX_CALIBRATE")

ack_without_progress(c) == schedule_symbols(c, 2)

ack_next(c) ==
    IF c.ack_pos < 6 THEN schedule_symbols([c EXCEPT !.ack_pos = @ + 1], 2)
    ELSE set_state(tx_done(c), "RX_CALIBRATE")

symbol_event_callback(c) ==
    CASE c.state \in {"RX_CALIBRATE", "RX_WAIT"} -> set_state(c, "RX_SFD_SEARCH")
      [] c.state = "TX_CALIBRATE" -> set_state(c, "TX_PREAMBLE")
      [] c.state = "TX_ACK_CALIBRATE" -> set_state(c, "TX_ACK_PREAMBLE")
      [] c.state \in {"TX_PREAMBLE", "TX_ACK_PREAMBLE"} -> shr_next(c)
      [] c.state = "TX_FRAME" -> tx_next(c)
      [] c.state = "TX_ACK" -> ack_next(c)
      [] OTHER -> c

(***************************************************************************)
(* Reception.  Bytes -5 .. -1 of a frame are the preamble and the SFD.     *)
(***************************************************************************)

\* Where address filtering rejects a frame of this kind, if anywhere.
RejectedAt(kind, p) ==
    (kind = "badfcf" /\ p = 2) \/ (kind = "other" /\ p = AddrPos)

fifop_when_alone(c) == c.fifop \/ c.fifo_len <= c.rxlen + 1

frame_end(c, kind) ==
    IF c.frame_rejected THEN set_state(set_sfd(c, FALSE), "RX_WAIT")
    ELSE LET crc_ok == kind # "badcrc"
             f == [c EXCEPT !.crc_ok = crc_ok, !.fifop = fifop_when_alone(c),
                            !.sfd_clear_event = 1]
         IN  IF (kind \in {"ackreq", "badcrc"} \/ c.should_ack) /\ crc_ok
             THEN set_state(f, "TX_ACK_CALIBRATE")
             ELSE set_state(f, "RX_WAIT")

frame_byte(c, kind, p) ==
    LET w == IF c.frame_rejected THEN c
             ELSE LET b == rxfifo_write(c, p)
                  IN  IF c.rxread = 0 THEN [b EXCEPT !.rxlen = FrameLen, !.fifo = TRUE]
                      ELSE IF RejectedAt(kind, c.rxread) THEN reject_frame(b)
                      ELSE b
        n == [w EXCEPT !.rxread = @ + 1]
    IN  IF w.rxread = w.rxlen THEN frame_end(n, kind) ELSE n

receive_byte(c, kind, p) ==
    CASE c.state = "RX_SFD_SEARCH" /\ p < -1 -> [c EXCEPT !.zero_symbols = @ + 1]
      [] c.state = "RX_SFD_SEARCH" /\ p = -1 /\ c.zero_symbols >= 4 ->
           set_state(set_sfd(c, TRUE), "RX_FRAME")
      [] c.state = "RX_SFD_SEARCH" /\ (p >= 0 \/ (p = -1 /\ c.zero_symbols < 4)) ->
           [c EXCEPT !.zero_symbols = 0]
      [] c.state = "RX_FRAME" /\ ~c.overflow /\ rxfifo_full(c) -> set_rx_overflow(c)
      [] c.state = "RX_FRAME" /\ ~c.overflow /\ ~rxfifo_full(c) ->
           frame_byte(c, kind, p)
      [] OTHER -> c

(***************************************************************************)
(* The firmware's side                                                     *)
(***************************************************************************)

stxon(c) == set_state([c EXCEPT !.tx_active = TRUE], "TX_CALIBRATE")

strobe(c, cmd) ==
    CASE cmd = "SXOSCON" /\ ~c.xosc_stable -> [c EXCEPT !.oscillator_event = OscSymbols]
      [] cmd = "SRXON" /\ c.state = "IDLE" -> set_state(c, "RX_CALIBRATE")
      [] \/ cmd = "STXON" /\ c.state \in RxStates \cup {"IDLE"}
         \/ cmd = "STXONCCA" /\ c.state \in RxStates /\ c.cca ->
           stxon(c)
      [] cmd = "SRFOFF" -> set_state(c, "IDLE")
      [] cmd = "SXOSCOFF" -> set_state(c, "POWER_DOWN")
      [] cmd = "SFLUSHRX" -> flush_rx(c)
      [] cmd = "SACK" /\ c.state = "RX_FRAME" -> [c EXCEPT !.should_ack = TRUE]
      [] cmd = "SACK" /\ c.state # "RX_FRAME" /\ c.crc_ok ->
           set_state(c, "TX_ACK_CALIBRATE")
      [] OTHER -> c

\* The value of the FIFO byte at the read position.
LengthByte(c) == IF c.memory[c.read_pos] = 0 THEN FrameLen ELSE c.memory[c.read_pos]

fifop_not_raised_again(c) == FALSE
another_packet(c) ==
    c.fifo_len > 0 /\ (c.fifo_len > LengthByte(c) \/ c.fifo_len > FifopThr)

\* cc2420_spi_exchange in the state SPI_READ_RXFIFO.
spi_read_rxfifo(c) ==
    LET b == rxfifo_read(c)
        below == [b EXCEPT !.fifop = @ /\ (c.overflow \/ b.fifo_len > FifopThr)]
        counted ==
            IF c.read_left = 0 THEN [below EXCEPT !.read_left = LengthByte(c)]
            ELSE [below EXCEPT !.read_left = @ - 1,
                               !.fifop = @ \/ (c.read_left = 1 /\ another_packet(b))]
    IN  [counted EXCEPT !.fifo = @ /\ b.fifo_len > 0]

(***************************************************************************)
(* Actions                                                                 *)
(***************************************************************************)

Reset ==
    [state |-> "VREG_OFF", on |-> FALSE, xosc_stable |-> FALSE, rssi_valid |-> FALSE,
     tx_active |-> FALSE, cca |-> FALSE, fifop |-> FALSE, fifo |-> FALSE, sfd |-> FALSE,
     memory |-> [i \in 0 .. FifoSize - 1 |-> 0], write_pos |-> 0, read_pos |-> 0,
     fifo_len |-> 0, read_left |-> 0, mark_pos |-> 0, mark_len |-> 0, rxlen |-> 0,
     rxread |-> 0, zero_symbols |-> 0, crc_ok |-> FALSE, frame_rejected |-> FALSE,
     overflow |-> FALSE, should_ack |-> FALSE, shr_pos |-> 0, tx_pos |-> 0, ack_pos |-> 0,
     symbol_event |-> Off, oscillator_event |-> Off, sfd_clear_event |-> Off]

Init ==
    /\ driver \in Drivers
    /\ r = Reset
    /\ air = Silence
    /\ frames = 0
    /\ strobes = 0

\* The event queue holds the three timers and the next byte of the air.
Timers == {r.symbol_event, r.oscillator_event, r.sfd_clear_event, air.due}
Down(t) == IF t = Off THEN Off ELSE t - 1

Tick ==
    /\ 0 \notin Timers
    /\ Timers # {Off}
    /\ r' = [r EXCEPT !.symbol_event = Down(@), !.oscillator_event = Down(@),
                      !.sfd_clear_event = Down(@)]
    /\ air' = [air EXCEPT !.due = Down(@)]
    /\ UNCHANGED <<driver, frames, strobes>>

FireSymbol ==
    /\ r.symbol_event = 0
    /\ r' = symbol_event_callback([r EXCEPT !.symbol_event = Off])
    /\ UNCHANGED <<driver, air, frames, strobes>>

FireOscillator ==
    /\ r.oscillator_event = 0
    /\ r' = set_state([r EXCEPT !.oscillator_event = Off, !.xosc_stable = TRUE], "IDLE")
    /\ UNCHANGED <<driver, air, frames, strobes>>

FireSfdClear ==
    /\ r.sfd_clear_event = 0
    /\ r' = [set_sfd(r, FALSE) EXCEPT !.sfd_clear_event = Off]
    /\ UNCHANGED <<driver, air, frames, strobes>>

\* A neighbour starts a frame; the chip's own frames are not heard by it.
AirStart ==
    /\ air = Silence
    /\ frames < driver.max_frames
    /\ frames' = frames + 1
    /\ \E k \in driver.kinds : air' = [kind |-> k, pos |-> -5, due |-> 2]
    /\ UNCHANGED <<driver, r, strobes>>

AirByte ==
    /\ air.due = 0
    /\ r' = receive_byte(r, air.kind, air.pos)
    /\ air' = IF air.pos = FrameLen THEN Silence
              ELSE [air EXCEPT !.pos = @ + 1, !.due = 2]
    /\ UNCHANGED <<driver, frames, strobes>>

Strobe ==
    \E cmd \in driver.strobes :
        /\ strobes < driver.max_strobes
        /\ r.state # "VREG_OFF"
        /\ r.state = "POWER_DOWN" => cmd = "SXOSCON"
        /\ \/ driver.leaves_frame
           \/ r.state # "RX_FRAME"
           \/ cmd \notin {"STXON", "STXONCCA", "SRFOFF", "SXOSCOFF"}
        /\ r' = strobe(r, cmd)
        /\ strobes' = strobes + 1
        /\ UNCHANGED <<driver, air, frames>>

\* The driver reads a packet when FIFOP and FIFO are high.
SpiRead ==
    /\ r.state # "VREG_OFF"
    /\ r.fifo_len > 0
    /\ r.read_left > 0 \/ (r.fifop /\ r.fifo)
    /\ driver.reads_in_frame \/ r.state # "RX_FRAME"
    /\ r' = spi_read_rxfifo(r)
    /\ UNCHANGED <<driver, air, frames, strobes>>

VregOn ==
    /\ ~r.on
    /\ r' = set_state([r EXCEPT !.on = TRUE], "POWER_DOWN")
    /\ UNCHANGED <<driver, air, frames, strobes>>

vreg_cancels(c) ==
    [c EXCEPT !.oscillator_event = Off, !.symbol_event = Off, !.sfd_clear_event = Off]

VregOff ==
    /\ driver.power_cycles
    /\ r.on
    /\ strobes < driver.max_strobes
    /\ driver.leaves_frame \/ r.state # "RX_FRAME"
    /\ r' = set_state(vreg_cancels([r EXCEPT !.on = FALSE, !.tx_active = FALSE]), "VREG_OFF")
    /\ strobes' = strobes + 1
    /\ UNCHANGED <<driver, air, frames>>

Fire == FireSymbol \/ FireOscillator \/ FireSfdClear \/ AirByte

Next ==
    \/ Tick
    \/ Fire
    \/ AirStart
    \/ Strobe
    \/ SpiRead
    \/ VregOn
    \/ VregOff

Spec == Init /\ [][Next]_vars

\* The CPU's event queue advances and dispatches what is due.
FairSpec == Spec /\ WF_vars(Tick) /\ WF_vars(Fire)

(***************************************************************************)
(* Properties                                                              *)
(***************************************************************************)

\* What the driver reads is a sequence of whole frames, whatever mix of
\* arriving, rejected and read frames led there: the byte count of the RX FIFO
\* is the distance between its read and write positions, and its bytes continue
\* the packet being read and then follow each other frame by frame.
FifoIntact ==
    LET first == IF r.read_left = 0 THEN 0 ELSE FrameLen + 1 - r.read_left
    IN  /\ (r.write_pos - r.read_pos) % FifoSize = r.fifo_len % FifoSize
        /\ \A k \in 0 .. r.fifo_len - 1 :
              r.memory[(r.read_pos + k) % FifoSize] = (first + k) % (FrameLen + 1)

\* No received frame is forgotten: when the driver is between packets and a
\* whole frame waits in the FIFO, FIFOP is high (there is no other interrupt).
\* And FIFOP announces whole frames only: it is deferred to frame completion.
FifopSignals ==
    r.read_left = 0 =>
        /\ r.fifo_len > FrameLen => r.fifop
        /\ r.fifop /\ ~r.overflow => r.fifo_len > FrameLen

\* Calibrations, transmissions and waits end.
TimedEnds == r.state \in Timed ~> r.state \notin Timed

=============================================================================
