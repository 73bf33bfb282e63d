---------------------------- MODULE Msp430Timer ----------------------------
(***************************************************************************)
(* Timer A/B of the MSP430 (src/msp430/msp430_timer.c) with the event and  *)
(* interrupt side of its CPU (src/msp430/msp430_cpu.c).                    *)
(*                                                                         *)
(* The counter is not counted: it is computed from the CPU cycles that     *)
(* passed since a reference point when somebody looks at it, and its       *)
(* matches with the compare registers are predicted as events in CPU       *)
(* cycles.  Every register write that moves the counter or a compare value *)
(* has to move the prediction with it.                                     *)
(***************************************************************************)
EXTENDS Integers, FiniteSets, FiniteSetsExt

CONSTANTS
    Wrap,           \* the counter's range, 2^16 in the code
    NumCcr,         \* num_ccr: 3 for timer A, 7 for timer B
    Values,         \* what firmware writes to TxR and TxCCRn
    Dcos, Sels,     \* speeds of the DCO, clock sources and dividers of TxCTL
    Rate,           \* Rate[d][s]: the Clock they make
    PinInterval,    \* ticks to the event of an unconnected capture input
    MinInterval,    \* cycles: throttle of captures without an interrupt
    EntryCycles,    \* cycles of an interrupt entry, 6 in the code
    Firmwares,      \* the firmwares considered, records as under Firmware
    MaxCycles       \* bound: CPU cycles

Channels == 0 .. NumCcr - 1
Overflow == NumCcr          \* the overflow event, behind those of the channels
Off == -1                   \* an event that is not queued

\* num/den CPU cycles per timer tick, at least one; cap ticks between two ACLK captures
Clock == {c \in [num : Nat \ {0}, den : Nat \ {0}, cap : Nat \ {0}] : c.num >= c.den}

Inputs == {"compare", "pin", "aclk", "none"}

\* TxCTL and TxCCTLn as firmware writes them; cm: the edges to capture.
Ctl == [mode : {"STOP", "UP", "CONT", "UPDOWN"}, sel : Sels, tclr : BOOLEAN,
        tie : BOOLEAN, tifg : BOOLEAN]
Cctl == [input : Inputs, cm : SUBSET BOOLEAN, ie : BOOLEAN, ifg : BOOLEAN, cov : BOOLEAN]

Firmware ==
    [ctls : SUBSET Ctl, cctls : SUBSET Cctl,    \* what it writes to them
     dcos : SUBSET Dcos,        \* the speeds it calibrates the DCO to
     keeps_flags : BOOLEAN,     \* TIE and TIFG of TxCTL stay as they are
     stops_first : BOOLEAN,     \* it stops the timer to reconfigure it
     reads_first : BOOLEAN,     \* it writes TxCCTLn of a running timer right
                                \* after an access to TxR or TxCCRn
     max_ops : Nat]             \* bound: register writes, pin edges, clock changes

ASSUME TimerAssumption ==
    /\ Wrap \in Nat \ {0, 1} /\ NumCcr \in Nat \ {0}
    /\ Values \subseteq 0 .. Wrap - 1
    /\ Rate \in [Dcos -> [Sels -> Clock]]
    /\ PinInterval \in Nat /\ MinInterval \in Nat /\ EntryCycles \in Nat
    /\ Firmwares \subseteq Firmware

VARIABLES
    fw,     \* the firmware at hand; never changes
    now,    \* cpu->cycles
    dco,    \* the speed of the DCO
    t,      \* the timer; irq: which of its vectors (0, 1) are flagged at the CPU
    cpu,    \* what the CPU is servicing
    ops     \* how many operations have happened

vars == <<fw, now, dco, t, cpu, ops>>

(***************************************************************************)
(* The counter                                                             *)
(***************************************************************************)

\* cycctr of reference point start at cycle c
elapsed(x, c) == IF c < x.start THEN 0 ELSE c - x.start
ticks(x, c) == (elapsed(x, c) * x.clk.den) \div x.clk.num
part(x, c) == ((elapsed(x, c) * x.clk.den) % x.clk.num) \div x.clk.den
cycles_of(x, n) == (n * x.clk.num) \div x.clk.den

big_counter(x, c) == ticks(x, c) + x.acc

\* What TxR shows at cycle c.
counter_at(x, c) ==
    LET top == x.ccr[0]
        pos == big_counter(x, c) % (2 * top)
    IN  CASE x.mode = "STOP" -> x.counter
          [] x.mode = "CONT" -> big_counter(x, c) % Wrap
          [] x.mode # "STOP" /\ x.mode # "CONT" /\ top = 0 -> 0
          [] x.mode = "UP" /\ top > 0 -> big_counter(x, c) % (top + 1)
          [] x.mode = "UPDOWN" /\ top > 0 -> IF pos > top THEN 2 * top - pos ELSE pos

sync_counter(x) ==
    IF x.mode = "STOP" THEN x
    ELSE [x EXCEPT !.counter = counter_at(x, now), !.passed = part(x, now)]

reset_counter(x) ==
    LET p == part(x, now)
    IN  [x EXCEPT !.passed = p, !.start = now - p, !.acc = x.counter]

update_cycles_per_tick(x, clk) ==
    IF clk # x.clk /\ x.mode # "STOP"
    THEN reset_counter([sync_counter(x) EXCEPT !.clk = clk])
    ELSE [x EXCEPT !.clk = clk]

(***************************************************************************)
(* Prediction                                                              *)
(***************************************************************************)

\* ticks until n more of period p, a whole period if none
ahead(n, p) == IF n % p = 0 THEN p ELSE n % p

matches(x, i) == x.mode # "UPDOWN" \/ (x.ccr[0] > 0 /\ x.ccr[i] <= x.ccr[0])

ticks_to_match(x, i) ==
    LET v == x.ccr[i]
        top == x.ccr[0]
        pos == big_counter(x, now) % (2 * top)
    IN  CASE x.mode = "CONT" -> IF v > x.counter THEN v - x.counter ELSE Wrap - x.counter + v
          [] x.mode = "UP" /\ i = 0 -> IF v > x.counter THEN v - x.counter ELSE v + 1
          [] x.mode = "UP" /\ i # 0 ->
                IF v > x.counter /\ v <= top THEN v - x.counter ELSE top + 1 - x.counter + v
          [] x.mode = "UPDOWN" -> Min({ahead(v - pos, 2 * top), ahead(2 * top - v - pos, 2 * top)})

fire_cycle(x, n) == now - x.passed + cycles_of(x, n) + 1

schedule_capture(x, i) ==
    LET interval == IF x.cctl[i].input = "aclk" THEN x.clk.cap ELSE PinInterval
        base == IF x.cctl[i].input = "aclk" THEN x.ccr[i] ELSE x.counter
    IN  IF x.cctl[i].cm = {} \/ x.cctl[i].input = "none" THEN x
        ELSE [x EXCEPT !.interval[i] = interval,
                       !.expected[i] = (base + interval) % Wrap,
                       !.ev[i] = now + cycles_of(x, interval)]

schedule_ccr_event(x, i) ==
    IF x.mode = "STOP" THEN x
    ELSE IF x.cctl[i].input # "compare" THEN schedule_capture(x, i)
    ELSE IF ~matches(x, i) THEN x
    ELSE [x EXCEPT !.ev[i] = fire_cycle(x, ticks_to_match(x, i))]

ticks_to_overflow(x) ==
    CASE x.mode = "CONT" -> Wrap - x.counter
      [] x.mode = "UP" -> IF x.ccr[0] > 0 THEN x.ccr[0] + 1 - x.counter ELSE Wrap
      [] x.mode = "UPDOWN" -> 2 * x.ccr[0] - (big_counter(x, now) % (2 * x.ccr[0]))

schedule_overflow_event(x) ==
    IF x.mode = "STOP" \/ (x.mode = "UPDOWN" /\ x.ccr[0] = 0) THEN x
    ELSE [x EXCEPT !.ev[Overflow] = fire_cycle(x, ticks_to_overflow(x))]

\* The channels in I; none looks at what another is given.
schedule_ccr_events(x, I) ==
    [x EXCEPT
        !.ev = [e \in DOMAIN @ |-> IF e \in I THEN schedule_ccr_event(x, e).ev[e] ELSE @[e]],
        !.interval = [e \in DOMAIN @ |-> IF e \in I THEN schedule_ccr_event(x, e).interval[e] ELSE @[e]],
        !.expected = [e \in DOMAIN @ |-> IF e \in I THEN schedule_ccr_event(x, e).expected[e] ELSE @[e]]]

schedule_all_events(x) ==
    schedule_overflow_event(schedule_ccr_events(sync_counter(x), Channels))

cancel_all_events(x) == [x EXCEPT !.ev = [e \in DOMAIN @ |-> Off]]

(***************************************************************************)
(* Interrupts                                                              *)
(***************************************************************************)

overflow_tiv == NumCcr * 2 + (IF NumCcr <= 3 THEN 4 ELSE 0)

trigger_last_wins(x, i) ==
    IF ~(x.cctl[i].ie /\ x.cctl[i].ifg) THEN x
    ELSE IF i = 0 THEN [x EXCEPT !.irq = @ \cup {0}]
    ELSE [x EXCEPT !.irq = @ \cup {1}, !.last_tiv = 2 * i]
trigger_ccr_interrupt(x, i) ==
    IF ~(x.cctl[i].ie /\ x.cctl[i].ifg) THEN x
    ELSE IF i = 0 THEN [x EXCEPT !.irq = @ \cup {0}]
    ELSE [x EXCEPT !.irq = @ \cup {1},
                   !.last_tiv = IF @ = 0 \/ 2 * i < @ THEN 2 * i ELSE @]

reevaluate_silently(x) ==
    LET pending == {i \in Channels \ {0} : x.cctl[i].ie /\ x.cctl[i].ifg}
        tiv == IF pending # {} THEN 2 * Min(pending)
               ELSE IF x.tie /\ x.tifg THEN overflow_tiv ELSE 0
    IN  [x EXCEPT !.last_tiv = tiv]
reevaluate_tiv(x) ==
    LET pending == {i \in Channels \ {0} : x.cctl[i].ie /\ x.cctl[i].ifg}
        tiv == IF pending # {} THEN 2 * Min(pending)
               ELSE IF x.tie /\ x.tifg THEN overflow_tiv ELSE 0
    IN  [x EXCEPT !.last_tiv = tiv, !.irq = IF tiv # 0 THEN @ \cup {1} ELSE @ \ {1}]

(***************************************************************************)
(* Event callbacks                                                         *)
(***************************************************************************)

captured(x, i, fired) ==
    LET cycles == cycles_of(x, x.interval[i])
        wait == IF x.cctl[i].ie \/ cycles >= MinInterval THEN cycles ELSE MinInterval
    IN  trigger_ccr_interrupt(
            [x EXCEPT !.cctl[i].cov = @ \/ x.cctl[i].ifg, !.cctl[i].ifg = TRUE,
                      !.ccr[i] = x.expected[i],
                      !.expected[i] = (@ + x.interval[i]) % Wrap,
                      !.ev[i] = fired + wait], i)

matched(x, i, fired) ==
    trigger_ccr_interrupt(
        [x EXCEPT !.cctl[i].ifg = TRUE, !.ev[i] = fired + cycles_of(x, Wrap)], i)

ccr_event_callback(x, i) ==
    LET fired == x.ev[i]
        s == sync_counter([x EXCEPT !.ev[i] = Off])
    IN  IF x.cctl[i].input # "compare" THEN captured(s, i, fired) ELSE matched(s, i, fired)

overflow_event_callback(x) ==
    LET s == [sync_counter([x EXCEPT !.ev[Overflow] = Off]) EXCEPT !.tifg = TRUE]
    IN  schedule_overflow_event(
            IF ~s.tie THEN s
            ELSE [s EXCEPT !.last_tiv = IF @ = 0 THEN overflow_tiv ELSE @,
                           !.irq = @ \cup {1}])

(***************************************************************************)
(* The CPU                                                                 *)
(***************************************************************************)

Due == {e \in 0 .. Overflow : t.ev[e] # Off /\ t.ev[e] <= now}

\* execute_events: the earliest due event; ties in any order.
ExecuteEvents ==
    \E e \in Due :
        /\ \A d \in Due : t.ev[e] <= t.ev[d]
        /\ t' = IF e = Overflow THEN overflow_event_callback(t) ELSE ccr_event_callback(t, e)
        /\ UNCHANGED <<now, dco, cpu, ops>>

Takeable == cpu.gie /\ cpu.isr = {} /\ t.irq # {}

\* The next instruction may run: events come after an instruction, interrupts
\* before it; right after an interrupt entry events wait for one instruction.
Running == ~Takeable /\ (Due = {} \/ cpu.entered)

Ran == cpu' = [cpu EXCEPT !.entered = FALSE]

Execute ==
    \E d \in 1 .. 2 :
        /\ Running /\ now + d <= MaxCycles
        /\ now' = now + d
        /\ Ran
        /\ UNCHANGED <<dco, t, ops>>

\* Low power: on to the next event.
Sleep ==
    LET queued == {t.ev[e] : e \in DOMAIN t.ev} \ {Off}
    IN  /\ Running /\ Due = {} /\ cpu.isr = {}
        /\ queued # {} /\ Min(queued) <= MaxCycles
        /\ now' = Min(queued)
        /\ Ran
        /\ UNCHANGED <<dco, t, ops>>

\* Vector 0, of the higher number, first; its handler clears the flag.
service_interrupt ==
    LET v == IF 0 \in t.irq THEN 0 ELSE 1
    IN  /\ Takeable /\ Due = {} /\ now + EntryCycles <= MaxCycles
        /\ now' = now + EntryCycles
        /\ t' = [t EXCEPT !.irq = @ \ {v}, !.cctl[0].ifg = @ /\ v # 0]
        /\ cpu' = [gie |-> FALSE, isr |-> {v}, read |-> FALSE, entered |-> TRUE]
        /\ UNCHANGED <<dco, ops>>

\* RETI; the handler of the shared vector has asked TxIV what happened.
Reti ==
    /\ Running /\ cpu.isr # {}
    /\ 1 \in cpu.isr => cpu.read
    /\ cpu' = [cpu EXCEPT !.gie = TRUE, !.isr = {}, !.entered = FALSE]
    /\ UNCHANGED <<now, dco, t, ops>>

\* DINT and EINT around a critical section.
write_sr ==
    /\ Running /\ cpu.isr = {}
    /\ cpu' = [cpu EXCEPT !.gie = ~@, !.entered = FALSE]
    /\ UNCHANGED <<now, dco, t, ops>>

(***************************************************************************)
(* Register accesses                                                       *)
(***************************************************************************)

Counted == ops < fw.max_ops /\ ops' = ops + 1
Access == Running /\ Ran /\ UNCHANGED <<now, dco>>

ReadCounter ==
    /\ Access
    /\ t' = sync_counter(t)
    /\ UNCHANGED ops

timer_iv_read ==
    LET tiv == t.last_tiv
        cleared == IF tiv = overflow_tiv THEN [t EXCEPT !.tifg = FALSE]
                   ELSE [t EXCEPT !.cctl[tiv \div 2].ifg = FALSE]
    IN  /\ Running /\ UNCHANGED <<now, dco, ops>>
        /\ t' = IF tiv = 0 THEN t ELSE reevaluate_tiv(cleared)
        /\ cpu' = [cpu EXCEPT !.read = cpu.isr # {}, !.entered = FALSE]

WriteCtl ==
    \E c \in fw.ctls :
        LET s == sync_counter(t)
            cleared == IF c.tclr
                       THEN [s EXCEPT !.counter = 0, !.acc = 0, !.start = now, !.passed = 0]
                       ELSE s
            timed == update_cycles_per_tick(cleared, Rate[dco][c.sel])
            n == [timed EXCEPT !.sel = c.sel, !.mode = c.mode,
                               !.tie = IF fw.keeps_flags THEN @ ELSE c.tie,
                               !.tifg = IF fw.keeps_flags THEN @ ELSE c.tifg]
        IN  /\ Access /\ Counted
            /\ fw.stops_first => t.mode = "STOP" \/ c.mode = "STOP"
            /\ t' = IF c.mode = "STOP" THEN cancel_all_events(n)
                    ELSE IF t.mode = "STOP" THEN schedule_all_events(reset_counter(n))
                    ELSE IF c.mode # t.mode THEN schedule_all_events(n)
                    ELSE n

WriteCounter ==
    \E v \in Values :
        LET n == reset_counter([sync_counter(t) EXCEPT !.counter = v])
        IN  /\ Access /\ Counted
            /\ t' = IF t.mode = "STOP" THEN n ELSE schedule_all_events(n)

WriteCctl ==
    \E i \in Channels, w \in fw.cctls :
        LET n == [t EXCEPT !.cctl[i] = w]
            flagged == IF i # 0 THEN reevaluate_tiv(n)
                       ELSE [n EXCEPT !.irq = IF w.ie /\ w.ifg THEN @ \cup {0} ELSE @ \ {0}]
        IN  /\ Access /\ Counted
            /\ fw.reads_first => sync_counter(t) = t
            /\ t' = schedule_ccr_event(flagged, i)

WriteCcrUnsynced ==
    \E i \in Channels, v \in Values :
        LET n == schedule_ccr_event([t EXCEPT !.ccr[i] = v], i)
        IN  /\ Access /\ Counted
            /\ t' = IF i = 0 /\ t.mode = "UP" THEN schedule_overflow_event(n) ELSE n
WriteCcr ==
    \E i \in Channels, v \in Values :
        LET n == schedule_ccr_event([sync_counter(t) EXCEPT !.ccr[i] = v], i)
        IN  /\ Access /\ Counted
            /\ t' = IF i = 0 /\ t.mode = "UP" THEN schedule_overflow_event(n) ELSE n

(***************************************************************************)
(* Clock and pin                                                           *)
(***************************************************************************)

\* Firmware calibrates the DCO; a stopped timer is not told.
msp430_timer_clock_changed ==
    \E d \in fw.dcos :
        LET n == update_cycles_per_tick(reset_counter(sync_counter(t)), Rate[d][t.sel])
            compares == {i \in Channels : t.cctl[i].input = "compare"}
        IN  /\ Running /\ Ran /\ Counted
            /\ dco' = d
            /\ t' = IF t.mode = "STOP" THEN t
                    ELSE schedule_overflow_event(schedule_ccr_events(n, compares))
            /\ UNCHANGED now

\* The radio's SFD pin changes; a capture that was not read is kept.
msp430_timer_capture_input ==
    \E i \in Channels, value \in BOOLEAN :
        LET s == sync_counter(t)
            n == IF s.cctl[i].ifg THEN [s EXCEPT !.cctl[i].cov = TRUE]
                 ELSE [s EXCEPT !.ccr[i] = s.counter, !.cctl[i].ifg = TRUE]
        IN  /\ Running /\ Counted
            /\ t.mode # "STOP" /\ t.cctl[i].input # "compare" /\ value \in t.cctl[i].cm
            /\ t' = trigger_ccr_interrupt(n, i)
            /\ UNCHANGED <<now, dco, cpu>>

(***************************************************************************)
(* Specification                                                           *)
(***************************************************************************)

\* A stopped timer, its registers written once, interrupts on.
Init ==
    /\ fw \in Firmwares /\ dco \in Dcos /\ now = 0 /\ ops = 0
    /\ \E s \in Sels, v \in Values, ie \in BOOLEAN :
          t = [counter |-> 0, start |-> 0, acc |-> 0, passed |-> 0,
               sel |-> s, clk |-> Rate[dco][s], mode |-> "STOP", tie |-> ie, tifg |-> FALSE,
               ccr |-> [i \in Channels |-> v], last_tiv |-> 0, irq |-> {},
               cctl |-> [i \in Channels |-> [input |-> "compare", cm |-> {}, ie |-> TRUE,
                                             ifg |-> FALSE, cov |-> FALSE]],
               interval |-> [i \in Channels |-> 0], expected |-> [i \in Channels |-> 0],
               ev |-> [e \in 0 .. Overflow |-> Off]]
    /\ cpu = [gie |-> TRUE, isr |-> {}, read |-> FALSE, entered |-> FALSE]

Next ==
    /\ UNCHANGED fw
    /\ \/ ExecuteEvents \/ Execute \/ Sleep
       \/ service_interrupt \/ Reti \/ write_sr
       \/ ReadCounter \/ timer_iv_read
       \/ WriteCtl \/ WriteCounter \/ WriteCctl \/ WriteCcr
       \/ msp430_timer_clock_changed \/ msp430_timer_capture_input

Spec == Init /\ [][Next]_vars

(***************************************************************************)
(* Properties                                                              *)
(***************************************************************************)

\* The counter turns to v at cycle c.
Turns(v, c) == counter_at(t, c) = v /\ counter_at(t, c - 1) # v

\* The event e, at which the counter is to be v, is queued for the next time the
\* counter turns to v, give or take the rounding of two cycles.
Foretold(e, v) ==
    /\ t.ev[e] # Off
    /\ t.ev[e] > now =>
          /\ \E c \in t.ev[e] - 2 .. t.ev[e] : Turns(v, c)
          /\ \A c \in now + 1 .. t.ev[e] - 3 : ~Turns(v, c)

\* A round of the counter takes a whole number of cycles, as it does with SMCLK
\* and with an ACLK of 32768 Hz: matched adds up whole cycles.
WholeRounds == \A d \in Dcos, s \in Sels : (Wrap * Rate[d][s].num) % Rate[d][s].den = 0

\* "Events are scheduled in the CPU event queue so interrupts fire at the right
\* time": in continuous mode the compare and overflow events of firmware that
\* stops the timer to reconfigure it and rewrites TxCCTLn right after TxR or
\* TxCCRn are always queued for the next match, whatever it writes, however
\* late the callbacks run and whenever the DCO is calibrated to a speed at which
\* rounds are whole.
AlarmOnTime ==
    WholeRounds /\ fw.stops_first /\ fw.reads_first /\ t.mode = "CONT" =>
        /\ \A i \in Channels : t.cctl[i].input = "compare" => Foretold(i, t.ccr[i])
        /\ Foretold(Overflow, 0)

\* TxIV names the pending and enabled source of the highest priority, through
\* callbacks, captures, reads and writes that leave TIE and TIFG alone.
TivExact ==
    fw.keeps_flags =>
        t.last_tiv = LET pending == {i \in Channels \ {0} : t.cctl[i].ie /\ t.cctl[i].ifg}
                     IN  IF pending # {} THEN 2 * Min(pending)
                         ELSE IF t.tie /\ t.tifg THEN overflow_tiv ELSE 0

\* No timer interrupt is lost: an enabled source that is pending has its vector
\* flagged at the CPU, or the handler of that vector has yet to read TxIV.
NoLostTimerInterrupt ==
    /\ t.cctl[0].ie /\ t.cctl[0].ifg => 0 \in t.irq
    /\ t.last_tiv # 0 => 1 \in t.irq \/ (1 \in cpu.isr /\ ~cpu.read)
=============================================================================
