----------------------------- MODULE NrfTimers ------------------------------
(***************************************************************************)
(* TIMER, RTC, RNG and the receiving UARTE of src/arm/nrf52840_soc.c, as   *)
(* functions from one state of a peripheral to the next.  now is the CPU's *)
(* cycle counter; a due time is a cycle, or Never.                         *)
(***************************************************************************)
EXTENDS Integers, Sequences, FiniteSetsExt

CONSTANTS Channels,    \* compare channels, a set of numbers
          Period,      \* CPU cycles per tick of a counter
          Modulus,     \* counter values
          RingSize,    \* sizeof(rx_ring)
          RngDelay     \* cycles to the next random byte

ASSUME TimersAssumption == Period \in Nat \ {0} /\ Modulus \in Nat \ {0, 1}

Never == -1

\* Ticks until a counter that shows n shows v: equal means a full wrap.
TicksTo(v, n) == LET d == (v - n) % Modulus IN IF d = 0 THEN Modulus ELSE d

-----------------------------------------------------------------------------
(* TIMER: one event for the nearest of all compare channels.               *)

\* ppi: the channels whose compare event an enabled PPI channel listens to.
timer_init == [running |-> FALSE, base |-> 0, start |-> 0, cc |-> [i \in Channels |-> 0],
               inten |-> {}, ppi |-> {}, clear |-> {}, stop |-> {}, next |-> Never, due |-> Never]

timer_compute_counter(t, now) ==
    IF t.running THEN (t.base + (now - t.start) \div Period) % Modulus ELSE t.base

Listening(t) == t.inten \union t.ppi

\* Of several nearest channels the lowest is taken.
timer_schedule_next_compare(t, now) ==
    IF ~t.running \/ Listening(t) = {} THEN t
    ELSE LET ticks == [i \in Listening(t) |-> TicksTo(t.cc[i], timer_compute_counter(t, now))]
             best == Min({ticks[i] : i \in Listening(t)})
         IN  [t EXCEPT !.next = Min({i \in Listening(t) : ticks[i] = best}), !.due = now + best * Period]

timer_compare_fire(t, i, now) ==
    LET cleared == IF i \in t.clear THEN [t EXCEPT !.base = 0, !.start = now] ELSE t
    IN  IF i \in t.stop
        THEN [cleared EXCEPT !.base = timer_compute_counter(cleared, now), !.running = FALSE]
        ELSE cleared

timer_compare_event_cb(t, now) ==
    LET r == [t EXCEPT !.due = Never]
    IN  IF ~t.running \/ t.next = Never THEN r
        ELSE timer_schedule_next_compare(timer_compare_fire([r EXCEPT !.next = Never], t.next, now), now)

TimerStart(t, now) ==
    IF t.running THEN t
    ELSE timer_schedule_next_compare([t EXCEPT !.start = now, !.running = TRUE], now)

TimerStop(t, now) ==
    IF ~t.running THEN t
    ELSE [t EXCEPT !.base = timer_compute_counter(t, now), !.start = now, !.running = FALSE,
                   !.next = Never, !.due = Never]

TimerClear(t, now) == timer_schedule_next_compare([t EXCEPT !.base = 0, !.start = now], now)
TimerCapture(t, i, now) == [t EXCEPT !.cc[i] = timer_compute_counter(t, now)]
TimerCc(t, i, v, now) == timer_schedule_next_compare([t EXCEPT !.cc[i] = v], now)
TimerIntenset(t, i, now) == timer_schedule_next_compare([t EXCEPT !.inten = @ \union {i}], now)
TimerIntenclr(t, i) == [t EXCEPT !.inten = @ \ {i}]

\* CHENSET and CHENCLR of a PPI channel with the compare event of i.
PpiListens(t, i, on) == [t EXCEPT !.ppi = IF on THEN @ \union {i} ELSE @ \ {i}]

-----------------------------------------------------------------------------
(* RTC: one event for TICK and OVRFLW, one for every compare channel.      *)

\* inten holds the channels; tick and ovrflw are INTENSET's other two bits.
rtc_init == [running |-> FALSE, base |-> 0, anchor |-> 0, cc |-> [i \in Channels |-> 0],
             inten |-> {}, tick |-> FALSE, ovrflw |-> FALSE, tick_due |-> Never,
             due |-> [i \in Channels |-> Never]]

rtc_compute_counter(r, now) ==
    IF r.running THEN (r.base + (now - r.anchor) \div Period) % Modulus ELSE r.base

rtc_fire_cycle(r, now, ticks) == (now - ((now - r.anchor) % Period)) + ticks * Period

rtc_arm_periodic(r, now) ==
    LET wrap == Modulus - rtc_compute_counter(r, now)
        best == {k \in {1, wrap} : (k = 1 /\ r.tick) \/ (k = wrap /\ r.ovrflw)}
    IN  [r EXCEPT !.tick_due = IF ~r.running \/ best = {} THEN Never
                               ELSE rtc_fire_cycle(r, now, Min(best))]

\* Mutant: a channel whose value the counter shows already is due at once.
rtc_arm_compare_equal(r, i, now) ==
    [r EXCEPT !.due[i] = IF ~r.running \/ i \notin r.inten THEN Never
        ELSE rtc_fire_cycle(r, now, (r.cc[i] - rtc_compute_counter(r, now)) % Modulus)]

rtc_arm_compare(r, i, now) ==
    [r EXCEPT !.due[i] = IF ~r.running \/ i \notin r.inten THEN Never
        ELSE rtc_fire_cycle(r, now, TicksTo(r.cc[i], rtc_compute_counter(r, now)))]

rtc_reschedule(r, now) ==
    LET p == rtc_arm_periodic(r, now)
    IN  [p EXCEPT !.due = [i \in Channels |-> rtc_arm_compare(p, i, now).due[i]]]

rtc_event_cb(r, now) == rtc_arm_periodic([r EXCEPT !.tick_due = Never], now)
rtc_compare_cb(r, i, now) == rtc_arm_compare([r EXCEPT !.due[i] = Never], i, now)

rtc_start(r, now) ==
    IF r.running THEN r ELSE rtc_reschedule([r EXCEPT !.running = TRUE, !.anchor = now], now)

rtc_stop(r, now) ==
    IF ~r.running THEN r
    ELSE [r EXCEPT !.base = rtc_compute_counter(r, now), !.anchor = now, !.running = FALSE,
                   !.tick_due = Never, !.due = [i \in Channels |-> Never]]

\* A register write that changes when an event is due.
Written(r, now) == IF r.running THEN rtc_reschedule(r, now) ELSE r

\* TASKS_CLEAR and TASKS_TRIGOVRFLW.
RtcSet(r, counter, now) == Written([r EXCEPT !.base = counter, !.anchor = now], now)
RtcCc(r, i, v, now) == Written([r EXCEPT !.cc[i] = v], now)
RtcInten(r, inten, now) == Written([r EXCEPT !.inten = inten], now)
RtcPeriodic(r, tick, ovrflw, now) == Written([r EXCEPT !.tick = tick, !.ovrflw = ovrflw], now)

-----------------------------------------------------------------------------
(* RNG: a byte now and then while it runs with its interrupt enabled.      *)

rng_init == [running |-> FALSE, inten |-> FALSE, due |-> Never]

nrf_rng_arm(g, now) == IF g.running /\ g.inten THEN [g EXCEPT !.due = now + RngDelay] ELSE g

nrf_rng_event_cb(g, now) ==
    LET r == [g EXCEPT !.due = Never] IN IF g.running THEN nrf_rng_arm(r, now) ELSE r

RngStart(g, now) == nrf_rng_arm([g EXCEPT !.running = TRUE], now)
RngStop(g) == [g EXCEPT !.running = FALSE, !.due = Never]
RngIntenset(g, now) == nrf_rng_arm([g EXCEPT !.inten = TRUE], now)
RngIntenclr(g) == [g EXCEPT !.inten = FALSE]

-----------------------------------------------------------------------------
(* UARTE: console input, one byte for every ENDRX the driver acknowledges. *)

\* ring: the bytes in rx_ring.  rearm: SHORTS has ENDRX_STARTRX.
uart_init(rearm) == [armed |-> FALSE, endrx |-> FALSE, ring |-> 0, rearm |-> rearm]

uarte_deliver_rx(u) ==
    IF ~u.armed \/ u.endrx \/ u.ring = 0 THEN u
    ELSE [u EXCEPT !.endrx = TRUE, !.armed = u.rearm, !.ring = @ - 1]

nrf_uart_feed_rx(u) ==
    uarte_deliver_rx(IF u.ring = RingSize - 1 THEN u ELSE [u EXCEPT !.ring = @ + 1])

UartStartrx(u) == uarte_deliver_rx([u EXCEPT !.armed = TRUE])
UartStoprx(u) == [u EXCEPT !.armed = FALSE]

UartEndrxAcked(u) == uarte_deliver_rx([u EXCEPT !.endrx = FALSE])
=============================================================================
