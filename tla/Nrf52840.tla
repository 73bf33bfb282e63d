------------------------------ MODULE Nrf52840 ------------------------------
(***************************************************************************)
(* The peripherals of src/arm/nrf52840_soc.c at work: the driver writes    *)
(* registers, peers put bytes on the air, time passes and deferred events  *)
(* come due.                                                               *)
(*                                                                         *)
(* A setup is what a firmware does with the chip.  setup.kind names the    *)
(* peripheral it exercises; a driver of the radio has its SHORTS for        *)
(* reception and for transmission, its PPI channels and its way to         *)
(* acknowledge a received frame.                                           *)
(***************************************************************************)
EXTENDS NrfRadio, NrfTimers, SequencesExt

CONSTANTS Setups,
          MaxOps,        \* tasks that the driver triggers besides its loop
          MaxFrames,     \* frames that peers send
          MaxNoise,      \* bytes garbled and transmissions cut short
          MaxWrites,     \* writes to the registers of TIMER, RTC or RNG
          MaxNow,        \* CPU cycles
          MaxInsn        \* CPU cycles of the longest instruction

ASSUME SocAssumption == MaxInsn < Period

VARIABLES setup,
          radio,
          air,           \* the bytes of a peer's frame still to come
          due,           \* one of them is to be delivered in this tick
          heard,         \* the radio has listened since the frame began
          used,          \* operations, frames and noise so far
          now, timer, rtc, rng, uart

onAir == <<air, due, heard>>
cpu == <<now, timer, rtc, rng, uart>>
vars == <<setup, radio, onAir, used, cpu>>

Init ==
    /\ setup \in Setups
    /\ radio = radio_init(setup.rx, setup.ppi)
    /\ air = <<>> /\ due = FALSE /\ heard = FALSE
    /\ used = [ops |-> 0, frames |-> 0, noise |-> 0]
    /\ now = 0 /\ timer = timer_init /\ rtc = rtc_init /\ rng = rng_init
    /\ uart = uart_init(setup.rearm)

-----------------------------------------------------------------------------
(* The driver of the radio.                                                *)

Receiving(s) == s.state \in {"RXRU", "RXIDLE", "RX"}

\* A step of the driver; the radio no longer listens to the frame on the air
\* when the step takes it out of reception.
Driver(s) ==
    /\ radio' = s
    /\ heard' = (heard /\ Receiving(s) /\ (radio.state = "RX" => s.state = "RX"))
    /\ UNCHANGED <<setup, air, due, cpu>>

Op == setup.kind = "radio" /\ used.ops < MaxOps /\ used' = [used EXCEPT !.ops = @ + 1]

\* Tasks that a driver triggers on its own account.  TXEN is used from
\* DISABLED and, by Contiki-NG, from RXIDLE after STOP.
Trigger(task) ==
    /\ Op /\ (task = "TXEN" => radio.state # "RX")
    /\ Driver(Perform(radio, <<Task(task)>>))

\* CHENSET: a channel whose event is latched fires at once.
nrf_ppi_write(i) ==
    /\ Op /\ i \in DOMAIN radio.ppi /\ radio.state # "RX"
    /\ LET c == radio.ppi[i]
           s == [radio EXCEPT !.ppi[i].on = TRUE]
       IN  Driver(IF ~c.on /\ c.eep \in radio.latched THEN Perform(s, <<Task(c.tep)>>) ELSE s)

PpiDisable(i) ==
    /\ Op /\ i \in DOMAIN radio.ppi /\ radio.ppi[i].on
    /\ Driver([radio EXCEPT !.ppi[i].on = FALSE])

\* The compare event of a TIMER reaches the radio through its PPI channel; the
\* driver times its transmissions this way, outside of a reception.
Compare ==
    Op /\ radio.state # "RX" /\ Driver(Perform(radio, nrf_ppi_event_notify(radio, "COMPARE")))

\* SHORTS for a transmission.
UseTxShorts == Op /\ radio.state = "DISABLED" /\ Driver([radio EXCEPT !.shorts = setup.tx])

\* The driver clears EVENTS_DISABLED before it waits for it, and EGU's event.
ClearEvent(event) ==
    /\ event \in radio.latched /\ Op
    /\ Driver([radio EXCEPT !.latched = @ \ {event}])

\* EVENTS_CRCOK = 0 drops the deferred RXEN.
ClearCrcok(s) == [s EXCEPT !.latched = @ \ {"CRCOK"}, !.rxen_pending = FALSE]

\* Mutant: END alone.
ClearEndOnly(s) == s

\* EVENTS_END = 0 takes the latched CRCOK with it.
ClearEnd(s) == [s EXCEPT !.latched = @ \ {"CRCOK"}]

\* The driver's loop acknowledges a received frame, by CRCOK or by END, and
\* arms the radio again.
Acknowledge ==
    /\ setup.kind = "radio" /\ "CRCOK" \in radio.latched /\ radio.state = "DISABLED"
    /\ Driver(IF setup.clears = "CRCOK" THEN ClearCrcok(radio) ELSE ClearEnd(radio))
    /\ UNCHANGED used

ReadyToListen == radio.state = "DISABLED" /\ "CRCOK" \notin radio.latched
DoneSending == radio.state = "TXIDLE"

Rearm ==
    /\ setup.kind = "radio"
    /\ \/ /\ ReadyToListen
          /\ Driver(Perform([radio EXCEPT !.shorts = setup.rx], <<Task("RXEN")>>))
       \/ /\ radio.state = "RXIDLE"
          /\ Driver(Perform(radio, <<Task("START")>>))
       \/ /\ DoneSending
          /\ Driver(Perform([radio EXCEPT !.ppi = [i \in DOMAIN @ |-> [@[i] EXCEPT !.on = FALSE]]],
                            <<Task("DISABLE")>>))
    /\ UNCHANGED used

-----------------------------------------------------------------------------
(* The air, and time in ticks.                                             *)

Send(frame) ==
    /\ setup.kind = "radio" /\ air = <<>> /\ used.frames < MaxFrames
    /\ air' = frame /\ used' = [used EXCEPT !.frames = @ + 1]
    /\ UNCHANGED <<setup, radio, due, heard, cpu>>

Now(e) == radio.at[e] = 0

\* Time passes when nothing is due any more.
Tick ==
    /\ setup.kind = "radio" /\ ~due /\ \A e \in Deferred : ~Now(e)
    /\ air # <<>> \/ \E e \in Deferred : radio.at[e] # Off
    /\ radio' = [radio EXCEPT !.at = [e \in Deferred |-> IF @[e] = Off THEN Off ELSE @[e] - 1]]
    /\ due' = (air # <<>>)
    /\ UNCHANGED <<setup, air, heard, used, cpu>>

\* The next byte arrives.  At the first one the radio may be listening.
Byte(b) ==
    /\ radio' = Perform(radio, <<<<"byte", b>>>>)
    /\ due' = FALSE /\ air' = Tail(air)
    /\ heard' = (b = Head(air)
                 /\ IF Head(air) = "pre"
                    THEN /\ Receiving(radio) /\ radio.incoming = <<>>
                         /\ radio.state = "RX" => radio.phase = "preamble"
                    ELSE heard)
    /\ UNCHANGED <<setup, cpu>>

Deliver == due /\ Byte(Head(air)) /\ UNCHANGED used

\* Another transmission garbles the byte, or the peer stops in mid-frame.
Noise == used.noise < MaxNoise /\ used' = [used EXCEPT !.noise = @ + 1]
Garble == due /\ Noise /\ Byte("noise")
CutShort ==
    /\ due /\ Noise /\ due' = FALSE /\ air' = <<>> /\ heard' = FALSE
    /\ UNCHANGED <<setup, radio, cpu>>

\* The radio bus has heard nothing for a while.
RxStall ==
    /\ setup.kind = "radio" /\ air = <<>> /\ Locked(radio)
    /\ radio' = Perform(radio, <<Do("stall")>>)
    /\ UNCHANGED <<setup, onAir, used, cpu>>

Fire(e) ==
    /\ setup.kind = "radio" /\ Now(e)
    /\ Driver(Perform(Cancel(radio, e), <<Do(e)>>))
    /\ UNCHANGED used

-----------------------------------------------------------------------------
(* TIMER, RTC, RNG and UARTE.  The driver writes a register in an          *)
(* instruction; the events that come due during it are dispatched before   *)
(* the next one.                                                           *)

DueBy(at, t) == at # Never /\ at <= t
Overdue ==
    \/ DueBy(timer.due, now) \/ DueBy(rtc.tick_due, now) \/ DueBy(rng.due, now)
    \/ \E i \in Channels : DueBy(rtc.due[i], now)

Insn(k) == setup.kind \notin {"radio", "uart"} /\ ~Overdue /\ now < MaxNow /\ now' = now + k

\* An instruction that writes a register.
Write(k) == Insn(k) /\ used.ops < MaxWrites /\ used' = [used EXCEPT !.ops = @ + 1]

\* An instruction without a register access.
Run(k) == Insn(k) /\ UNCHANGED <<setup, radio, onAir, used, timer, rtc, rng, uart>>

Counting(t) == timer' = t /\ UNCHANGED <<setup, radio, onAir, rtc, rng, uart>>

nrf_timer_write(k) ==
    /\ setup.kind = "timer" /\ Write(k)
    /\ \/ Counting(TimerStart(timer, now))
       \/ Counting(TimerStop(timer, now))
       \/ Counting(TimerClear(timer, now))
       \/ \E i \in Channels \ setup.compare : Counting(TimerCapture(timer, i, now))
       \/ \E i \in setup.compare :
              \/ Counting(TimerIntenset(timer, i, now))
              \/ Counting(TimerIntenclr(timer, i))
              \/ \E on \in BOOLEAN : Counting(PpiListens(timer, i, on))
              \/ \E v \in setup.values[i] : Counting(TimerCc(timer, i, v, now))
              \/ Counting([timer EXCEPT !.clear = {i}, !.stop = {}])
              \/ Counting([timer EXCEPT !.clear = {}, !.stop = {i}])

TimerEvent ==
    /\ DueBy(timer.due, now) /\ Counting(timer_compare_event_cb(timer, now))
    /\ UNCHANGED <<used, now>>

Clocking(r) == rtc' = r /\ UNCHANGED <<setup, radio, onAir, timer, rng, uart>>

nrf_rtc_write(k) ==
    /\ setup.kind = "rtc" /\ Write(k)
    /\ \/ Clocking(rtc_start(rtc, now))
       \/ Clocking(rtc_stop(rtc, now))
       \/ Clocking(RtcSet(rtc, 0, now))
       \/ Clocking(RtcSet(rtc, Modulus - 1, now))
       \/ \E i \in Channels :
              \/ Clocking(RtcInten(rtc, rtc.inten \union {i}, now))
              \/ Clocking(RtcInten(rtc, rtc.inten \ {i}, now))
              \/ \E v \in 0 .. Modulus - 1 : Clocking(RtcCc(rtc, i, v, now))
       \/ \E tick, ovrflw \in BOOLEAN : Clocking(RtcPeriodic(rtc, tick, ovrflw, now))

RtcEvent ==
    /\ \/ DueBy(rtc.tick_due, now) /\ Clocking(rtc_event_cb(rtc, now))
       \/ \E i \in Channels : DueBy(rtc.due[i], now) /\ Clocking(rtc_compare_cb(rtc, i, now))
    /\ UNCHANGED <<used, now>>

Drawing(g) == rng' = g /\ UNCHANGED <<setup, radio, onAir, timer, rtc, uart>>

nrf_rng_write(k) ==
    /\ setup.kind = "rng" /\ Write(k)
    /\ \/ Drawing(RngStart(rng, now)) \/ Drawing(RngStop(rng))
       \/ Drawing(RngIntenset(rng, now)) \/ Drawing(RngIntenclr(rng))

RngEvent ==
    DueBy(rng.due, now) /\ Drawing(nrf_rng_event_cb(rng, now)) /\ UNCHANGED <<used, now>>

Console(u) == uart' = u /\ UNCHANGED <<setup, radio, onAir, now, timer, rtc, rng>>

\* The host types a byte.
Type == setup.kind = "uart" /\ UNCHANGED used /\ Console(nrf_uart_feed_rx(uart))

nrf_uart_write ==
    /\ setup.kind = "uart" /\ UNCHANGED used
    /\ \/ Console(UartStartrx(uart)) \/ Console(UartStoprx(uart)) \/ Console(UartEndrxAcked(uart))

-----------------------------------------------------------------------------
DriverLoop == Acknowledge \/ Rearm

Passing == Tick \/ Deliver \/ \E e \in Deferred : Fire(e)

Radio ==
    \/ DriverLoop \/ Passing
    \/ \E task \in {"TXEN", "RXEN", "START", "STOP", "DISABLE", "CCASTART", "EDSTART", "RSSISTART"} :
           Trigger(task)
    \/ \E i \in DOMAIN radio.ppi : nrf_ppi_write(i) \/ PpiDisable(i)
    \/ \E event \in {"DISABLED", "EGU"} : ClearEvent(event)
    \/ Compare \/ UseTxShorts
    \/ \E f \in setup.frames : Send(f)
    \/ Garble \/ CutShort \/ RxStall

Timers ==
    \/ \E k \in 1 .. MaxInsn : Run(k) \/ nrf_timer_write(k) \/ nrf_rtc_write(k) \/ nrf_rng_write(k)
    \/ TimerEvent \/ RtcEvent \/ RngEvent

\* Nothing is left to happen within the bounds: the radio listens, or the
\* cycles are used up.
Rest ==
    /\ \/ setup.kind = "radio" /\ radio.state = "RX" /\ air = <<>> /\ ~Locked(radio)
       \/ setup.kind # "radio" /\ now >= MaxNow
    /\ UNCHANGED vars

Next == Radio \/ Timers \/ Type \/ nrf_uart_write \/ Rest

Spec == Init /\ [][Next]_vars

\* The emulator dispatches what is due and lets time pass; the radio bus
\* notices a stalled frame; the driver's loop runs.  The last three conjuncts
\* are weak fairness with ENABLED written out as the guards of the actions.
FairSpec ==
    /\ Spec /\ WF_vars(Acknowledge)
    /\ []<>(~due /\ air = <<>> /\ \A e \in Deferred : radio.at[e] = Off) \/ []<><<Passing>>_vars
    /\ []<>~(air = <<>> /\ Locked(radio)) \/ []<><<RxStall>>_vars
    /\ []<>~(ReadyToListen \/ radio.state = "RXIDLE" \/ DoneSending) \/ []<><<Rearm>>_vars

-----------------------------------------------------------------------------
(* Properties.                                                             *)

\* A reception that FRAMESTART has announced stays announced only while the
\* parser is inside the frame: however the frame ends (complete, garbled, cut
\* short, an invalid length, STOP or DISABLE in the middle) a CRC event ends it,
\* so the driver's psdu_being_received never blocks its transmitter for good.
AnnouncedEnds == radio.open => Locked(radio)

\* No peripheral waits for a deferred event that nobody scheduled: ramp-up,
\* ramp-down, the end of a transmission, the staged acknowledgement and the next
\* random byte are due at some time, whatever tasks, shortcuts and PPI channels
\* have done in between; and console input is left in the ring of UARTE only while
\* the driver has a byte to acknowledge or no buffer armed.  nrf_radio_ack_cb
\* never answers a frame late: an acknowledgement stays staged only for a data
\* frame after which the driver has transmitted nothing itself.
Armed ==
    /\ radio.state \in {"RXRU", "TXRU"} => radio.at["ramp"] # Off
    /\ radio.state = "TX" => radio.at["tx"] # Off
    /\ radio.state \in Disabling => radio.at["disable"] # Off
    /\ radio.ack <=> radio.at["ack"] # Off
    /\ radio.ack => radio.expect
    /\ rng.running /\ rng.inten => rng.due # Never
    /\ uart.ring > 0 /\ uart.armed => uart.endrx

\* The frame f, or its end, waits in rx_incoming.
Waiting(s) == \E f \in setup.frames : IsSuffix(f, s.incoming)

\* A frame that nothing disturbs, and during which the radio is armed for reception
\* from the first byte on, is received at its last byte or is waiting whole in
\* rx_incoming, also when the ramp-up ends in the middle of it.
FrameHeard ==
    [][heard /\ heard' /\ Len(air) = 1 /\ air' = <<>> =>
          radio'.ok # radio.ok \/ (radio.state # "RX" /\ Waiting(radio'))]_vars

\* The driver's loop always gets the radio back into reception: no order of tasks,
\* aborted frames and acknowledged CRCOK leaves it deaf.
NotDeaf == []<>(setup.kind = "radio" => radio.state = "RX")

\* Between now and an event due at the cycle at, counting from cycle zero, the
\* ticks that a counter makes.
TicksBefore(at, zero) == (at - zero) \div Period - (now - zero) \div Period

\* A value comes up first at the cycle at and no earlier.
FirstAt(v, count, at, zero) ==
    \A k \in 1 .. TicksBefore(at, zero) :
        ((count + k) % Modulus = v) => k = TicksBefore(at, zero)

\* The scheduled compare events are those of the counters as they stand, after any
\* sequence of starts, stops, clears and register writes: an RTC channel is due in
\* the cycle in which COUNTER becomes CC, OVRFLW in the one of the wrap, and no
\* enabled channel of a TIMER matches before the one event that it has scheduled.
\* A callback arms its next event in the future, so it cannot storm.
CompareExact ==
    /\ rtc.running =>
         LET count == rtc_compute_counter(rtc, now) IN
         /\ \A i \in rtc.inten : rtc_compare_cb(rtc, i, now).due[i] > now
         /\ \A i \in rtc.inten : ~DueBy(rtc.due[i], now) =>
               /\ FirstAt(rtc.cc[i], count, rtc.due[i], rtc.anchor)
               /\ rtc.due[i] > now /\ (rtc.due[i] - rtc.anchor) % Period = 0
               /\ rtc_compute_counter(rtc, rtc.due[i]) = rtc.cc[i]
         /\ rtc.ovrflw /\ ~DueBy(rtc.tick_due, now) =>
               rtc.tick_due > now /\ FirstAt(0, count, rtc.tick_due, rtc.anchor)
    /\ timer.running /\ timer.inten # {} /\ ~DueBy(timer.due, now) =>
         /\ timer.due > now
         /\ \A i \in timer.inten :
               FirstAt(timer.cc[i], timer_compute_counter(timer, now), timer.due, timer.start)

=============================================================================
