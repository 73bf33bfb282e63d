-------------------------- MODULE Msp430TimerProofs --------------------------
(***************************************************************************)
(* Proofs about the interrupts of Timer A/B, for any number of channels,   *)
(* clock, counter range and firmware.                                      *)
(*                                                                         *)
(* Most of the code moves the counter and the predicted events and leaves  *)
(* the interrupt flags alone (Quiet); what is left is what raises a flag   *)
(* (Raises), what computes TxIV again (Reevaluated) and the CPU.           *)
(*                                                                         *)
(* The events are on time because of what they are aimed at (Aimed): a     *)
(* cycle in which the counter turns to the compare value, no more than a   *)
(* round from now.  Ticks are quotients of cycles, so this rests on what   *)
(* rounding does to sums (Predicted) and to rounds (NextRound).            *)
(***************************************************************************)
EXTENDS Msp430Timer, TLAPS, WellFoundedInduction

\* Leaves are first-order unless they cite SMT, for arithmetic and sequences.
USE Zenon

Fields == {"counter", "start", "acc", "passed", "sel", "clk", "mode", "tie", "tifg", "ccr",
           "last_tiv", "irq", "cctl", "interval", "expected", "ev"}

\* What the proofs need to know of the shape of a timer.
Shape(x) ==
    /\ DOMAIN x = Fields
    /\ x.cctl \in [Channels -> Cctl]
    /\ x.tie \in BOOLEAN /\ x.tifg \in BOOLEAN
    /\ x.irq \subseteq {0, 1}

\* y is x but for the counter and the predictions.
Quiet(x, y) ==
    /\ DOMAIN y = Fields
    /\ y.cctl = x.cctl /\ y.irq = x.irq /\ y.last_tiv = x.last_tiv
    /\ y.tie = x.tie /\ y.tifg = x.tifg

Pending(x) == {i \in Channels \ {0} : x.cctl[i].ie /\ x.cctl[i].ifg}

\* What TxIV has to name.
Tiv(x) ==
    IF Pending(x) # {} THEN 2 * Min(Pending(x))
    ELSE IF x.tie /\ x.tifg THEN overflow_tiv ELSE 0

Exact(x) == x.last_tiv = Tiv(x)

\* NoLostTimerInterrupt of timer x and CPU c.
Flagged(x, c) ==
    /\ x.cctl[0].ie /\ x.cctl[0].ifg => 0 \in x.irq
    /\ x.last_tiv # 0 => 1 \in x.irq \/ (1 \in c.isr /\ ~c.read)

CpuType == [gie : BOOLEAN, isr : SUBSET {0, 1}, read : BOOLEAN, entered : BOOLEAN]

TimerInv ==
    /\ fw \in Firmware /\ cpu \in CpuType
    /\ Shape(t)
    /\ fw.keeps_flags => Exact(t)
    /\ Flagged(t, cpu)

-----------------------------------------------------------------------------
(* Numbers.                                                                *)

\* A non-empty set of numbers has a smallest one, the one Min finds.
LEMMA MinFacts ==
    ASSUME NEW T, T \subseteq Nat, T # {}
    PROVE  Min(T) \in T /\ \A y \in T : Min(T) <= y
<1> DEFINE R == OpToRel(<, Nat)
<1>1. IsWellFoundedOn(R, Nat)
  BY NatLessThanWellFounded
<1>2. PICK x \in T : \A y \in T : ~ (<<y, x>> \in R)
  <2> HIDE DEF R
  <2> QED BY <1>1, WFMin
<1>3. ASSUME NEW y \in T PROVE x <= y
  <2>1. x \in Nat /\ y \in Nat
    OBVIOUS
  <2>2. y < x => <<y, x>> \in R
    BY <2>1 DEF OpToRel
  <2> HIDE DEF R
  <2> QED BY SMT, <1>2, <2>1, <2>2
<1> QED BY <1>3 DEF Min

\* The smallest number is the only one of its kind.
LEMMA MinIs ==
    ASSUME NEW T, T \subseteq Nat, NEW x \in T, \A y \in T : x <= y
    PROVE  Min(T) = x
<1>1. Min(T) \in T /\ Min(T) <= x
  BY MinFacts
<1>2. x <= Min(T) /\ x \in Nat /\ Min(T) \in Nat
  BY <1>1
<1> QED BY SMT, <1>1, <1>2

LEMMA ChannelNumbers ==
    /\ Channels \subseteq Nat /\ 0 \in Channels
    /\ \A i \in Channels : 2 * i \in Nat /\ 2 * i < overflow_tiv
    /\ \A i \in Channels \ {0} : 2 * i # 0
    /\ overflow_tiv \in Nat /\ overflow_tiv # 0
BY SMT, TimerAssumption DEF Channels, overflow_tiv

LEMMA TivFacts ==
    ASSUME NEW x
    PROVE  /\ Pending(x) \subseteq Nat
           /\ Pending(x) # {} => /\ Min(Pending(x)) \in Pending(x)
                                 /\ Min(Pending(x)) \in Channels \ {0}
                                 /\ \A y \in Pending(x) : Min(Pending(x)) <= y
<1>1. Pending(x) \subseteq Channels \ {0}
  BY DEF Pending
<1>2. Pending(x) \subseteq Nat
  BY <1>1, ChannelNumbers
<1> QED BY <1>1, <1>2, MinFacts

-----------------------------------------------------------------------------
(* What leaves the interrupts alone.                                       *)

LEMMA QuietTrans ==
    ASSUME NEW x, NEW y, NEW z, Quiet(x, y), Quiet(y, z)
    PROVE  Quiet(x, z)
BY DEF Quiet

LEMMA QuietCounter ==
    ASSUME NEW x, DOMAIN x = Fields
    PROVE  /\ Quiet(x, x)
           /\ Quiet(x, sync_counter(x))
           /\ Quiet(x, reset_counter(x))
           /\ Quiet(x, cancel_all_events(x))
           /\ \A clk : Quiet(x, [x EXCEPT !.clk = clk])
           /\ \A v : Quiet(x, [x EXCEPT !.counter = v])
           /\ \A i, v : Quiet(x, [x EXCEPT !.ccr[i] = v])
<1>1. Quiet(x, x)
  BY DEF Quiet
<1>2. Quiet(x, sync_counter(x))
  BY DEF Quiet, sync_counter, Fields
<1>3. Quiet(x, reset_counter(x))
  BY DEF Quiet, reset_counter, Fields
<1>4. Quiet(x, cancel_all_events(x))
  BY DEF Quiet, cancel_all_events, Fields
<1>5. \A clk : Quiet(x, [x EXCEPT !.clk = clk])
  BY DEF Quiet, Fields
<1>6. \A v : Quiet(x, [x EXCEPT !.counter = v])
  BY DEF Quiet, Fields
<1>7. \A i, v : Quiet(x, [x EXCEPT !.ccr[i] = v])
  BY DEF Quiet, Fields
<1> QED BY <1>1, <1>2, <1>3, <1>4, <1>5, <1>6, <1>7

LEMMA QuietClock ==
    ASSUME NEW x, DOMAIN x = Fields, NEW clk
    PROVE  Quiet(x, update_cycles_per_tick(x, clk))
<1> DEFINE s == sync_counter(x)
           k == [s EXCEPT !.clk = clk]
<1>1. Quiet(x, s)
  BY QuietCounter
<1> HIDE DEF s
<1>2. Quiet(s, k)
  <2>1. DOMAIN s = Fields
    BY <1>1 DEF Quiet
  <2> QED BY <2>1, QuietCounter
<1> HIDE DEF k
<1>3. Quiet(k, reset_counter(k))
  BY <1>2, QuietCounter DEF Quiet
<1>4. Quiet(x, reset_counter(k))
  BY <1>1, <1>2, <1>3, QuietTrans
<1> QED BY <1>4, QuietCounter DEF update_cycles_per_tick, s, k

LEMMA QuietPrediction ==
    ASSUME NEW x, DOMAIN x = Fields
    PROVE  /\ \A i : Quiet(x, schedule_ccr_event(x, i))
           /\ Quiet(x, schedule_overflow_event(x))
           /\ \A I : Quiet(x, schedule_ccr_events(x, I))
           /\ Quiet(x, schedule_all_events(x))
<1>1. ASSUME NEW y, DOMAIN y = Fields, NEW i PROVE Quiet(y, schedule_ccr_event(y, i))
  BY <1>1 DEF Quiet, schedule_ccr_event, schedule_capture, Fields
<1>2. ASSUME NEW y, DOMAIN y = Fields PROVE Quiet(y, schedule_overflow_event(y))
  BY <1>2 DEF Quiet, schedule_overflow_event, Fields
<1>3. ASSUME NEW y, DOMAIN y = Fields, NEW I PROVE Quiet(y, schedule_ccr_events(y, I))
  BY <1>3 DEF Quiet, schedule_ccr_events, Fields
<1>4. Quiet(x, schedule_all_events(x))
  <2> DEFINE s == sync_counter(x)
             e == schedule_ccr_events(s, Channels)
  <2>1. Quiet(x, s)
    BY QuietCounter
  <2> HIDE DEF s
  <2>2. Quiet(s, e)
    BY <1>3, <2>1 DEF Quiet
  <2> HIDE DEF e
  <2>3. Quiet(e, schedule_overflow_event(e))
    BY <1>2, <2>2 DEF Quiet
  <2> QED BY <2>1, <2>2, <2>3, QuietTrans DEF schedule_all_events, s, e
<1> QED BY <1>1, <1>2, <1>3, <1>4

\* Then the interrupts are as before.
LEMMA QuietKeeps ==
    ASSUME NEW x, NEW y, Shape(x), Quiet(x, y)
    PROVE  /\ Shape(y)
           /\ Exact(x) => Exact(y)
           /\ \A c : Flagged(x, c) => Flagged(y, c)
<1>1. Pending(y) = Pending(x)
  BY DEF Quiet, Pending
<1>2. Tiv(y) = Tiv(x)
  BY <1>1 DEF Quiet, Tiv
<1> QED BY <1>2 DEF Shape, Quiet, Exact, Flagged

-----------------------------------------------------------------------------
(* What changes the interrupts.                                            *)

\* Channel i of x is flagged, and nothing else about the interrupts changes.
Raises(x, y, i) ==
    /\ Shape(y)
    /\ y.cctl[i].ifg /\ y.cctl[i].ie = x.cctl[i].ie
    /\ \A j \in Channels \ {i} : y.cctl[j] = x.cctl[j]
    /\ y.irq = x.irq /\ y.last_tiv = x.last_tiv /\ y.tie = x.tie /\ y.tifg = x.tifg

\* trigger_ccr_interrupt: a lower source in TxIV gives way to a higher one.
LEMMA TriggerKeeps ==
    ASSUME NEW x, NEW y, Shape(x), NEW i \in Channels, Raises(x, y, i)
    PROVE  /\ Shape(trigger_ccr_interrupt(y, i))
           /\ Exact(x) => Exact(trigger_ccr_interrupt(y, i))
           /\ \A c : Flagged(x, c) => Flagged(trigger_ccr_interrupt(y, i), c)
<1> DEFINE z == trigger_ccr_interrupt(y, i)
<1>1. /\ DOMAIN z = Fields /\ z.cctl = y.cctl /\ z.tie = y.tie /\ z.tifg = y.tifg
      /\ y.irq \subseteq z.irq /\ z.irq \subseteq {0, 1}
      /\ y.cctl[i].ie => (IF i = 0 THEN 0 ELSE 1) \in z.irq
      /\ ~y.cctl[i].ie \/ i = 0 => z.last_tiv = y.last_tiv
      /\ y.cctl[i].ie /\ i # 0 =>
            z.last_tiv = IF y.last_tiv = 0 \/ 2 * i < y.last_tiv THEN 2 * i ELSE y.last_tiv
  BY DEF Raises, Shape, Fields, trigger_ccr_interrupt
<1> HIDE DEF z
<1>2. Shape(z)
  BY <1>1 DEF Raises, Shape
<1>3. ASSUME Exact(x) PROVE Exact(z)
  <2>1. CASE ~y.cctl[i].ie \/ i = 0
    <3>1. \A j \in Channels : j # 0 =>
              (z.cctl[j].ie /\ z.cctl[j].ifg <=> x.cctl[j].ie /\ x.cctl[j].ifg)
      <4>1. ASSUME NEW j \in Channels, j # 0, j = i PROVE ~z.cctl[j].ie /\ ~x.cctl[j].ie
        BY <1>1, <2>1, <4>1 DEF Raises
      <4>2. ASSUME NEW j \in Channels, j # i PROVE z.cctl[j] = x.cctl[j]
        BY <1>1, <4>2 DEF Raises
      <4> QED BY <4>1, <4>2
    <3>3. Pending(z) = Pending(x)
      BY <3>1 DEF Pending
    <3> QED BY <1>1, <1>3, <2>1, <3>3 DEF Exact, Tiv, Raises
  <2>2. CASE y.cctl[i].ie /\ i # 0
    <3>1. Pending(z) = Pending(x) \cup {i}
      <4>1. \A j \in Channels : z.cctl[j].ie /\ z.cctl[j].ifg
                                 <=> j = i \/ (x.cctl[j].ie /\ x.cctl[j].ifg)
        BY <1>1, <2>2 DEF Raises
      <4> QED BY <2>2, <4>1 DEF Pending
    <3>2. i \in Nat /\ 2 * i < overflow_tiv /\ overflow_tiv \in Nat /\ Pending(z) \subseteq Nat
      BY ChannelNumbers, TivFacts
    <3>3. CASE Pending(x) = {}
      <4>1. Pending(z) = {i}
        BY <3>1, <3>3
      <4>2. i <= i
        BY SMT, <3>2
      <4>3. Min(Pending(z)) = i
        BY <3>2, <4>1, <4>2, MinIs
      <4>4. x.last_tiv \in {0, overflow_tiv}
        BY <1>3, <3>3 DEF Exact, Tiv
      <4>5. z.last_tiv = 2 * i
        BY <1>1, <2>2, <3>2, <4>4 DEF Raises
      <4> QED BY <4>1, <4>3, <4>5 DEF Exact, Tiv
    <3>4. CASE Pending(x) # {}
      <4> DEFINE m == Min(Pending(x))
      <4>1. m \in Pending(x) /\ m \in Nat /\ \A k \in Pending(x) : m <= k
        BY <3>4, TivFacts, ChannelNumbers
      <4>2. x.last_tiv = 2 * m /\ 2 * m # 0
        BY <1>3, <3>4, TivFacts, ChannelNumbers DEF Exact, Tiv
      <4> HIDE DEF m
      <4>3. z.last_tiv = IF 2 * i < 2 * m THEN 2 * i ELSE 2 * m
        BY <1>1, <2>2, <4>2 DEF Raises
      <4>4. CASE 2 * i < 2 * m
        <5>1. i <= m /\ i <= i
          BY SMT, <3>2, <4>1, <4>4
        <5>2. \A k \in Pending(z) : i <= k
          <6> SUFFICES ASSUME NEW k \in Pending(x) PROVE i <= k
            BY <3>1, <5>1
          <6>1. m <= k /\ k \in Nat
            BY <3>1, <3>2, <4>1
          <6> QED BY ONLY SMT, <3>2, <4>1, <5>1, <6>1
        <5>3. Min(Pending(z)) = i
          BY <3>1, <3>2, <5>2, MinIs
        <5> QED BY <3>1, <4>3, <4>4, <5>3 DEF Exact, Tiv
      <4>5. CASE ~(2 * i < 2 * m)
        <5>1. m <= i
          BY SMT, <3>2, <4>1, <4>5
        <5>2. Min(Pending(z)) = m
          BY <3>1, <3>2, <4>1, <5>1, MinIs
        <5> QED BY <3>1, <4>3, <4>5, <5>2 DEF Exact, Tiv
      <4> QED BY <4>4, <4>5
    <3> QED BY <3>3, <3>4
  <2> QED BY <2>1, <2>2
<1>4. ASSUME NEW c, Flagged(x, c) PROVE Flagged(z, c)
  <2>1. z.cctl[0].ie /\ z.cctl[0].ifg => 0 \in z.irq
    <3>1. CASE i = 0
      BY <1>1, <3>1
    <3>2. CASE i # 0
      BY <1>1, <1>4, <3>2, ChannelNumbers DEF Raises, Flagged
    <3> QED BY <3>1, <3>2
  <2>2. z.last_tiv # 0 => 1 \in z.irq \/ (1 \in c.isr /\ ~c.read)
    <3>1. CASE y.cctl[i].ie /\ i # 0
      BY <1>1, <3>1
    <3>2. CASE ~(y.cctl[i].ie /\ i # 0)
      BY <1>1, <1>4, <3>2 DEF Raises, Flagged
    <3> QED BY <3>1, <3>2
  <2> QED BY <2>1, <2>2 DEF Flagged
<1> QED BY <1>2, <1>3, <1>4 DEF z

\* reevaluate_tiv makes TxIV and its vector exact whatever they were.
LEMMA Reevaluated ==
    ASSUME NEW x, Shape(x), x.cctl[0].ie /\ x.cctl[0].ifg => 0 \in x.irq
    PROVE  /\ Shape(reevaluate_tiv(x))
           /\ Exact(reevaluate_tiv(x))
           /\ \A c : Flagged(reevaluate_tiv(x), c)
<1> DEFINE z == reevaluate_tiv(x)
<1>1. /\ DOMAIN z = Fields /\ z.cctl = x.cctl /\ z.tie = x.tie /\ z.tifg = x.tifg
      /\ z.last_tiv = Tiv(x)
      /\ z.irq = IF Tiv(x) # 0 THEN x.irq \cup {1} ELSE x.irq \ {1}
  BY DEF Shape, Fields, reevaluate_tiv, Tiv, Pending
<1> HIDE DEF z
<1>2. Shape(z)
  BY <1>1 DEF Shape
<1>3. Tiv(z) = Tiv(x)
  BY <1>1 DEF Tiv, Pending
<1>4. z.cctl[0].ie /\ z.cctl[0].ifg => 0 \in z.irq
  <2>1. 0 # 1
    BY SMT
  <2> QED BY <1>1, <2>1
<1>5. z.last_tiv # 0 => 1 \in z.irq
  BY <1>1
<1>6. \A c : Flagged(z, c)
  BY <1>4, <1>5 DEF Flagged
<1> QED BY <1>1, <1>2, <1>3, <1>6 DEF Exact, z

\* A channel's event callback: whether it captures or compares, flag and trigger.
LEMMA ChannelCallback ==
    ASSUME NEW x, Shape(x), NEW i \in Channels
    PROVE  /\ Shape(ccr_event_callback(x, i))
           /\ Exact(x) => Exact(ccr_event_callback(x, i))
           /\ \A c : Flagged(x, c) => Flagged(ccr_event_callback(x, i), c)
<1> DEFINE o == [x EXCEPT !.ev[i] = Off]
           s == sync_counter(o)
<1>1. Quiet(x, o)
  BY DEF Shape, Quiet, Fields
<1> HIDE DEF o
<1>2. Quiet(o, s)
  BY <1>1, QuietCounter DEF Quiet
<1>3. Quiet(x, s)
  BY <1>1, <1>2, QuietTrans
<1> HIDE DEF s
<1>4. Shape(s) /\ (Exact(x) => Exact(s)) /\ \A c : Flagged(x, c) => Flagged(s, c)
  BY <1>3, QuietKeeps
<1>5. ASSUME NEW ccr, NEW expected, NEW e
      PROVE  Raises(s, [s EXCEPT !.cctl[i].cov = @ \/ s.cctl[i].ifg, !.cctl[i].ifg = TRUE,
                                 !.ccr[i] = ccr, !.expected[i] = expected, !.ev[i] = e], i)
  <2> DEFINE y == [s EXCEPT !.cctl[i].cov = @ \/ s.cctl[i].ifg, !.cctl[i].ifg = TRUE,
                            !.ccr[i] = ccr, !.expected[i] = expected, !.ev[i] = e]
             k == [s.cctl[i] EXCEPT !.cov = @ \/ s.cctl[i].ifg, !.ifg = TRUE]
  <2>1. s.cctl[i] \in Cctl
    BY <1>4 DEF Shape
  <2>2. k \in Cctl /\ k.ifg /\ k.ie = s.cctl[i].ie
    BY <2>1 DEF Cctl
  <2>3. /\ DOMAIN y = Fields /\ y.cctl = [s.cctl EXCEPT ![i] = k]
        /\ y.irq = s.irq /\ y.last_tiv = s.last_tiv /\ y.tie = s.tie /\ y.tifg = s.tifg
    BY <1>4 DEF Shape, Fields
  <2> HIDE DEF y, k
  <2>4. /\ y.cctl \in [Channels -> Cctl] /\ y.cctl[i] = k
        /\ \A j \in Channels \ {i} : y.cctl[j] = s.cctl[j]
    BY <1>4, <2>2, <2>3 DEF Shape
  <2>5. Shape(y)
    BY <1>4, <2>3, <2>4 DEF Shape
  <2>6. Raises(s, y, i)
    BY <2>2, <2>3, <2>4, <2>5 DEF Raises
  <2> QED BY <2>6 DEF y
<1>6. ASSUME NEW e
      PROVE  Raises(s, [s EXCEPT !.cctl[i].ifg = TRUE, !.ev[i] = e], i)
  <2> DEFINE y == [s EXCEPT !.cctl[i].ifg = TRUE, !.ev[i] = e]
             k == [s.cctl[i] EXCEPT !.ifg = TRUE]
  <2>1. s.cctl[i] \in Cctl
    BY <1>4 DEF Shape
  <2>2. k \in Cctl /\ k.ifg /\ k.ie = s.cctl[i].ie
    BY <2>1 DEF Cctl
  <2>3. /\ DOMAIN y = Fields /\ y.cctl = [s.cctl EXCEPT ![i] = k]
        /\ y.irq = s.irq /\ y.last_tiv = s.last_tiv /\ y.tie = s.tie /\ y.tifg = s.tifg
    BY <1>4 DEF Shape, Fields
  <2> HIDE DEF y, k
  <2>4. /\ y.cctl \in [Channels -> Cctl] /\ y.cctl[i] = k
        /\ \A j \in Channels \ {i} : y.cctl[j] = s.cctl[j]
    BY <1>4, <2>2, <2>3 DEF Shape
  <2>5. Shape(y)
    BY <1>4, <2>3, <2>4 DEF Shape
  <2>6. Raises(s, y, i)
    BY <2>2, <2>3, <2>4, <2>5 DEF Raises
  <2> QED BY <2>6 DEF y
<1>7. PICK y : Raises(s, y, i) /\ ccr_event_callback(x, i) = trigger_ccr_interrupt(y, i)
  <2>1. CASE x.cctl[i].input # "compare"
    <3>1. ccr_event_callback(x, i) = captured(s, i, x.ev[i])
      BY <2>1 DEF ccr_event_callback, s, o
    <3> QED BY <1>5, <3>1 DEF captured
  <2>2. CASE x.cctl[i].input = "compare"
    <3>1. ccr_event_callback(x, i) = matched(s, i, x.ev[i])
      BY <2>2 DEF ccr_event_callback, s, o
    <3> QED BY <1>6, <3>1 DEF matched
  <2> QED BY <2>1, <2>2
<1> QED BY <1>4, <1>7, TriggerKeeps

\* The overflow callback yields TxIV to every channel.
LEMMA OverflowCallback ==
    ASSUME NEW x, Shape(x)
    PROVE  /\ Shape(overflow_event_callback(x))
           /\ Exact(x) => Exact(overflow_event_callback(x))
           /\ \A c : Flagged(x, c) => Flagged(overflow_event_callback(x), c)
<1> DEFINE o == [x EXCEPT !.ev[Overflow] = Off]
           s == sync_counter(o)
           f == [s EXCEPT !.tifg = TRUE]
           g == IF ~f.tie THEN f
                ELSE [f EXCEPT !.last_tiv = IF @ = 0 THEN overflow_tiv ELSE @, !.irq = @ \cup {1}]
<1>1. Quiet(x, o)
  BY DEF Shape, Quiet, Fields
<1> HIDE DEF o
<1>2. Quiet(o, s)
  BY <1>1, QuietCounter DEF Quiet
<1>3. Quiet(x, s)
  BY <1>1, <1>2, QuietTrans
<1> HIDE DEF s
<1>4. Shape(s) /\ (Exact(x) => Exact(s)) /\ \A c : Flagged(x, c) => Flagged(s, c)
  BY <1>3, QuietKeeps
<1>5. /\ DOMAIN f = Fields /\ f.cctl = s.cctl /\ f.tie = s.tie /\ f.tifg
      /\ f.irq = s.irq /\ f.last_tiv = s.last_tiv /\ f.tifg \in BOOLEAN
  BY <1>4 DEF Shape, Fields
<1> HIDE DEF f
<1>6. /\ DOMAIN g = Fields /\ g.cctl = s.cctl /\ g.tie = s.tie /\ g.tifg /\ g.tifg \in BOOLEAN
      /\ ~s.tie => g.irq = s.irq /\ g.last_tiv = s.last_tiv
      /\ s.tie => /\ g.irq = s.irq \cup {1}
                  /\ g.last_tiv = IF s.last_tiv = 0 THEN overflow_tiv ELSE s.last_tiv
  BY <1>5 DEF Fields
<1>7. overflow_event_callback(x) = schedule_overflow_event(g)
  BY DEF overflow_event_callback, g, f, s, o
<1> HIDE DEF g
<1>8. Shape(g)
  BY <1>4, <1>6 DEF Shape
<1>9. ASSUME Exact(x) PROVE Exact(g)
  <2>1. Pending(g) = Pending(s)
    BY <1>6 DEF Pending
  <2>2. s.last_tiv = Tiv(s)
    BY <1>4, <1>9 DEF Exact
  <2>3. CASE Pending(s) # {}
    <3>1. s.last_tiv = 2 * Min(Pending(s)) /\ s.last_tiv # 0
      BY <2>2, <2>3, TivFacts, ChannelNumbers DEF Tiv
    <3> QED BY <1>6, <2>1, <2>3, <3>1 DEF Exact, Tiv
  <2>4. CASE Pending(s) = {}
    BY <1>6, <2>1, <2>2, <2>4, ChannelNumbers DEF Exact, Tiv
  <2> QED BY <2>3, <2>4
<1>10. ASSUME NEW c, Flagged(x, c) PROVE Flagged(g, c)
  BY <1>4, <1>6, <1>10 DEF Flagged
<1>11. Quiet(g, schedule_overflow_event(g))
  BY <1>6, QuietPrediction
<1> QED BY <1>7, <1>8, <1>9, <1>10, <1>11, QuietKeeps

-----------------------------------------------------------------------------
(* The steps.                                                              *)

LEMMA TimerInvInit ==
    Init => TimerInv
<1> SUFFICES ASSUME Init PROVE TimerInv
  OBVIOUS
<1>1. fw \in Firmware /\ cpu \in CpuType
  BY TimerAssumption DEF Init, CpuType
<1>2. PICK s \in Sels, v \in Values, ie \in BOOLEAN :
          t = [counter |-> 0, start |-> 0, acc |-> 0, passed |-> 0,
               sel |-> s, clk |-> Rate[dco][s], mode |-> "STOP", tie |-> ie, tifg |-> FALSE,
               ccr |-> [i \in Channels |-> v], last_tiv |-> 0, irq |-> {},
               cctl |-> [i \in Channels |-> [input |-> "compare", cm |-> {}, ie |-> TRUE,
                                             ifg |-> FALSE, cov |-> FALSE]],
               interval |-> [i \in Channels |-> 0], expected |-> [i \in Channels |-> 0],
               ev |-> [e \in 0 .. Overflow |-> Off]]
  BY DEF Init
<1>3. /\ DOMAIN t = Fields /\ t.tie \in BOOLEAN /\ t.tifg = FALSE /\ t.irq = {} /\ t.last_tiv = 0
      /\ t.cctl = [i \in Channels |-> [input |-> "compare", cm |-> {}, ie |-> TRUE,
                                       ifg |-> FALSE, cov |-> FALSE]]
  BY SMT, <1>2 DEF Fields
<1>4. [input |-> "compare", cm |-> {}, ie |-> TRUE, ifg |-> FALSE, cov |-> FALSE] \in Cctl
  BY DEF Cctl, Inputs
<1>5. t.cctl \in [Channels -> Cctl] /\ \A i \in Channels : t.cctl[i].ifg = FALSE
  <2> DEFINE k == [input |-> "compare", cm |-> {}, ie |-> TRUE, ifg |-> FALSE, cov |-> FALSE]
  <2>1. k \in Cctl /\ k.ifg = FALSE /\ t.cctl = [i \in Channels |-> k]
    BY <1>3, <1>4
  <2> HIDE DEF k
  <2> QED BY <2>1
<1>6. Shape(t)
  BY <1>3, <1>5 DEF Shape
<1>7. Exact(t)
  <2>1. Pending(t) = {}
    BY <1>5 DEF Pending
  <2> QED BY <1>3, <2>1 DEF Exact, Tiv
<1>8. Flagged(t, cpu)
  BY <1>3, <1>5, ChannelNumbers DEF Flagged
<1> QED BY <1>1, <1>6, <1>7, <1>8 DEF TimerInv

\* A step that runs an instruction and leaves the interrupts alone.
LEMMA StepQuiet ==
    ASSUME TimerInv, UNCHANGED fw, Ran \/ UNCHANGED cpu, Quiet(t, t')
    PROVE  TimerInv'
<1>1. cpu' \in CpuType /\ cpu'.isr = cpu.isr /\ cpu'.read = cpu.read
  BY DEF TimerInv, CpuType, Ran
<1>2. Shape(t') /\ (Exact(t) => Exact(t')) /\ (Flagged(t, cpu) => Flagged(t', cpu))
  BY QuietKeeps DEF TimerInv
<1>3. Flagged(t', cpu')
  BY <1>1, <1>2 DEF Flagged, TimerInv
<1>4. fw' \in Firmware /\ fw' = fw /\ (fw.keeps_flags => Exact(t'))
  BY <1>2 DEF TimerInv
<1> QED BY <1>1, <1>2, <1>3, <1>4 DEF TimerInv, Shape, Exact, Flagged, Tiv, Pending

LEMMA StepEvents ==
    ASSUME TimerInv, UNCHANGED fw, ExecuteEvents
    PROVE  TimerInv'
<1>1. PICK e \in Due : t' = IF e = Overflow THEN overflow_event_callback(t) ELSE ccr_event_callback(t, e)
  BY DEF ExecuteEvents
<1>2. e # Overflow => e \in Channels
  <2>1. e \in 0 .. NumCcr
    BY <1>1 DEF Due, Overflow
  <2> QED BY SMT, <2>1, TimerAssumption DEF Overflow, Channels
<1>3. Shape(t') /\ (Exact(t) => Exact(t')) /\ (Flagged(t, cpu) => Flagged(t', cpu))
  BY <1>1, <1>2, ChannelCallback, OverflowCallback DEF TimerInv
<1>4. cpu' = cpu /\ fw' = fw
  BY DEF ExecuteEvents
<1> QED BY <1>3, <1>4 DEF TimerInv, Shape, Exact, Flagged, Tiv, Pending

LEMMA StepService ==
    ASSUME TimerInv, UNCHANGED fw, service_interrupt
    PROVE  TimerInv'
<1> DEFINE v == IF 0 \in t.irq THEN 0 ELSE 1
           k == [t.cctl[0] EXCEPT !.ifg = @ /\ v # 0]
<1>1. /\ t' = [t EXCEPT !.irq = @ \ {v}, !.cctl[0].ifg = @ /\ v # 0]
      /\ cpu' = [gie |-> FALSE, isr |-> {v}, read |-> FALSE, entered |-> TRUE]
      /\ cpu.isr = {}
  BY DEF service_interrupt, Takeable
<1>2. DOMAIN t = Fields /\ t.cctl \in [Channels -> Cctl] /\ t.irq \subseteq {0, 1} /\ 0 \in Channels
  BY ChannelNumbers DEF TimerInv, Shape
<1>3. k \in Cctl /\ k.ie = t.cctl[0].ie /\ k.ifg = (t.cctl[0].ifg /\ v # 0)
  <2>1. t.cctl[0] \in Cctl
    BY <1>2
  <2> QED BY <2>1 DEF Cctl
<1>4. /\ DOMAIN t' = Fields /\ t'.cctl = [t.cctl EXCEPT ![0] = k] /\ t'.irq = t.irq \ {v}
      /\ t'.tie = t.tie /\ t'.tifg = t.tifg /\ t'.last_tiv = t.last_tiv
  BY <1>1, <1>2 DEF Fields
<1> HIDE DEF k
<1>5. Shape(t')
  BY <1>2, <1>3, <1>4 DEF TimerInv, Shape
<1>6. \A i \in Channels \ {0} : t'.cctl[i] = t.cctl[i]
  BY <1>2, <1>4
<1>7. Exact(t) => Exact(t')
  <2>1. Pending(t') = Pending(t)
    BY <1>6 DEF Pending
  <2> QED BY <1>4, <2>1 DEF Exact, Tiv
<1>8. t'.cctl[0] = k
  BY <1>2, <1>4
<1>9. cpu' \in CpuType /\ cpu'.isr = {v} /\ cpu'.read = FALSE
  BY <1>1 DEF CpuType
<1>10. Flagged(t', cpu')
  <2>1. CASE 0 \in t.irq
    BY <1>1, <1>3, <1>4, <1>8, <2>1 DEF TimerInv, Flagged
  <2>2. CASE 0 \notin t.irq
    BY <1>3, <1>4, <1>8, <1>9, <2>2 DEF TimerInv, Flagged
  <2> QED BY <2>1, <2>2
<1> QED BY <1>5, <1>7, <1>9, <1>10 DEF TimerInv, Shape, Exact, Flagged, Tiv, Pending

LEMMA StepCpu ==
    ASSUME TimerInv, UNCHANGED fw, Execute \/ Sleep \/ Reti \/ write_sr
    PROVE  TimerInv'
<1>1. CASE Execute \/ Sleep
  <2>1. Ran /\ t' = t
    BY <1>1 DEF Execute, Sleep
  <2>2. Quiet(t, t')
    BY <2>1, QuietCounter DEF TimerInv, Shape
  <2> QED BY <2>1, <2>2, StepQuiet
<1>2. CASE Reti
  <2>1. t' = t /\ cpu' = [cpu EXCEPT !.gie = TRUE, !.isr = {}, !.entered = FALSE]
        /\ (1 \in cpu.isr => cpu.read)
    BY <1>2 DEF Reti
  <2>2. cpu' \in CpuType /\ cpu'.isr = {}
    BY <2>1 DEF CpuType, TimerInv
  <2> QED BY <2>1, <2>2 DEF TimerInv, Shape, Exact, Flagged, Tiv, Pending
<1>3. CASE write_sr
  <2>1. t' = t /\ cpu' = [cpu EXCEPT !.gie = ~@, !.entered = FALSE]
    BY <1>3 DEF write_sr
  <2>2. cpu' \in CpuType /\ cpu'.isr = cpu.isr /\ cpu'.read = cpu.read
    BY <2>1 DEF CpuType, TimerInv
  <2> QED BY <2>1, <2>2 DEF TimerInv, Shape, Exact, Flagged, Tiv, Pending
<1> QED BY <1>1, <1>2, <1>3

\* TxIV is read: what it named is cleared, whatever that was.
LEMMA StepIvRead ==
    ASSUME TimerInv, UNCHANGED fw, timer_iv_read
    PROVE  TimerInv'
<1> DEFINE tiv == t.last_tiv
           cleared == IF tiv = overflow_tiv THEN [t EXCEPT !.tifg = FALSE]
                      ELSE [t EXCEPT !.cctl[tiv \div 2].ifg = FALSE]
<1>1. /\ t' = IF tiv = 0 THEN t ELSE reevaluate_tiv(cleared)
      /\ cpu' = [cpu EXCEPT !.read = cpu.isr # {}, !.entered = FALSE]
  BY DEF timer_iv_read
<1>2. cpu' \in CpuType
  BY <1>1 DEF CpuType, TimerInv
<1>3. CASE tiv = 0
  BY <1>1, <1>2, <1>3 DEF TimerInv, Shape, Exact, Flagged, Tiv, Pending
<1>4. CASE tiv # 0
  <2>1. Shape(cleared) /\ (cleared.cctl[0].ie /\ cleared.cctl[0].ifg => 0 \in cleared.irq)
    <3>1. CASE tiv = overflow_tiv
      BY <3>1 DEF TimerInv, Shape, Fields, Flagged
    <3>2. CASE tiv # overflow_tiv
      <4> DEFINE n == tiv \div 2
                 k == [t.cctl[n] EXCEPT !.ifg = FALSE]
      <4>1. /\ DOMAIN cleared = Fields /\ cleared.cctl = [t.cctl EXCEPT ![n] = k]
            /\ cleared.irq = t.irq /\ cleared.tie = t.tie /\ cleared.tifg = t.tifg
        <5>1. cleared = [t EXCEPT !.cctl[n].ifg = FALSE] /\ DOMAIN t = Fields
          BY <3>2 DEF TimerInv, Shape
        <5> HIDE DEF cleared, n
        <5>2. DOMAIN cleared = Fields /\ cleared.cctl = [t.cctl EXCEPT ![n] = k]
          BY <5>1 DEF Fields
        <5>3. cleared.irq = t.irq /\ cleared.tie = t.tie /\ cleared.tifg = t.tifg
          BY <5>1 DEF Fields
        <5> QED BY <5>2, <5>3
      <4> HIDE DEF cleared
      <4>2. n \in Channels => k \in Cctl /\ k.ifg = FALSE
        <5>1. \A q \in Cctl : [q EXCEPT !.ifg = FALSE] \in Cctl /\ [q EXCEPT !.ifg = FALSE].ifg = FALSE
          BY DEF Cctl
        <5>2. n \in Channels => t.cctl[n] \in Cctl
          BY DEF TimerInv, Shape
        <5> QED BY <5>1, <5>2
      <4> HIDE DEF n, k
      <4>3. cleared.cctl \in [Channels -> Cctl]
        BY <4>1, <4>2 DEF TimerInv, Shape
      <4>4. cleared.cctl[0] = t.cctl[0] \/ cleared.cctl[0].ifg = FALSE
        BY <4>1, <4>2, ChannelNumbers DEF TimerInv, Shape
      <4> QED BY <4>1, <4>3, <4>4 DEF TimerInv, Shape, Flagged
    <3> QED BY <3>1, <3>2
  <2> HIDE DEF cleared
  <2>2. Shape(t') /\ Exact(t') /\ Flagged(t', cpu')
    BY <1>1, <1>4, <2>1, Reevaluated
  <2> QED BY <1>2, <2>2 DEF TimerInv, Shape, Exact, Flagged, Tiv, Pending
<1> QED BY <1>3, <1>4

\* Writes that only move the counter and the predictions.
LEMMA StepCounter ==
    ASSUME TimerInv, UNCHANGED fw, ReadCounter \/ WriteCounter \/ WriteCcr \/ msp430_timer_clock_changed
    PROVE  TimerInv'
<1> DEFINE s == sync_counter(t)
<1>1. Shape(t) /\ Quiet(t, t) /\ Quiet(t, s) /\ DOMAIN s = Fields
  BY QuietCounter DEF TimerInv, Shape, Quiet
<1>2. CASE ReadCounter
  BY <1>1, <1>2, StepQuiet DEF ReadCounter, Access
<1>3. CASE WriteCounter
  <2>1. PICK v \in Values :
            /\ Ran
            /\ t' = IF t.mode = "STOP" THEN reset_counter([s EXCEPT !.counter = v])
                    ELSE schedule_all_events(reset_counter([s EXCEPT !.counter = v]))
    BY <1>3 DEF WriteCounter, Access
  <2> HIDE DEF s
  <2> DEFINE m == [s EXCEPT !.counter = v]
             n == reset_counter(m)
  <2>2. Quiet(s, m)
    BY <1>1, QuietCounter
  <2> HIDE DEF m
  <2>3. Quiet(m, n)
    BY <2>2, QuietCounter DEF Quiet
  <2>4. t' = n \/ t' = schedule_all_events(n)
    BY <2>1 DEF m
  <2> HIDE DEF n
  <2>5. Quiet(n, schedule_all_events(n)) /\ Quiet(n, n)
    BY <2>3, QuietPrediction, QuietCounter DEF Quiet
  <2>6. Quiet(t, n)
    BY <1>1, <2>2, <2>3, QuietTrans
  <2>7. Quiet(t, schedule_all_events(n))
    BY <2>5, <2>6, QuietTrans
  <2>8. Quiet(t, t')
    BY <2>4, <2>6, <2>7
  <2> QED BY <2>1, <2>8, StepQuiet
<1>4. CASE WriteCcr
  <2>1. PICK i \in Channels, v \in Values :
            LET n == schedule_ccr_event([s EXCEPT !.ccr[i] = v], i)
            IN  Ran /\ t' = IF i = 0 /\ t.mode = "UP" THEN schedule_overflow_event(n) ELSE n
    BY <1>4 DEF WriteCcr, Access
  <2> HIDE DEF s
  <2> DEFINE m == [s EXCEPT !.ccr[i] = v]
             n == schedule_ccr_event(m, i)
  <2>2. Quiet(s, m)
    BY <1>1, QuietCounter
  <2> HIDE DEF m
  <2>3. Quiet(m, n)
    BY <2>2, QuietPrediction DEF Quiet
  <2>4. Ran /\ (t' = n \/ t' = schedule_overflow_event(n))
    BY <2>1 DEF m
  <2> HIDE DEF n
  <2>5. Quiet(n, schedule_overflow_event(n))
    BY <2>3, QuietPrediction DEF Quiet
  <2>6. Quiet(t, n)
    BY <1>1, <2>2, <2>3, QuietTrans
  <2>7. Quiet(t, schedule_overflow_event(n))
    BY <2>5, <2>6, QuietTrans
  <2>8. Quiet(t, t')
    BY <2>4, <2>6, <2>7
  <2> QED BY <2>4, <2>8, StepQuiet
<1>5. CASE msp430_timer_clock_changed
  <2>1. PICK d \in fw.dcos :
            LET n == update_cycles_per_tick(reset_counter(s), Rate[d][t.sel])
                compares == {i \in Channels : t.cctl[i].input = "compare"}
            IN  /\ Ran
                /\ t' = IF t.mode = "STOP" THEN t
                        ELSE schedule_overflow_event(schedule_ccr_events(n, compares))
    BY <1>5 DEF msp430_timer_clock_changed
  <2> HIDE DEF s
  <2> DEFINE m == reset_counter(s)
             n == update_cycles_per_tick(m, Rate[d][t.sel])
             p == schedule_ccr_events(n, {i \in Channels : t.cctl[i].input = "compare"})
  <2>2. Quiet(s, m)
    BY <1>1, QuietCounter
  <2> HIDE DEF m
  <2>3. Quiet(m, n)
    BY <2>2, QuietClock DEF Quiet
  <2> HIDE DEF n
  <2>4. Quiet(n, p)
    BY <2>3, QuietPrediction DEF Quiet
  <2> HIDE DEF p
  <2>5. Quiet(p, schedule_overflow_event(p))
    BY <2>4, QuietPrediction DEF Quiet
  <2>6. Ran /\ (t' = t \/ t' = schedule_overflow_event(p))
    BY <2>1 DEF p, n, m
  <2>7. Quiet(t, n)
    BY <1>1, <2>2, <2>3, QuietTrans
  <2>8. Quiet(t, p)
    BY <2>4, <2>7, QuietTrans
  <2>9. Quiet(t, schedule_overflow_event(p))
    BY <2>5, <2>8, QuietTrans
  <2>10. Quiet(t, t')
    BY <1>1, <2>6, <2>9
  <2> QED BY <2>6, <2>10, StepQuiet
<1> QED BY <1>2, <1>3, <1>4, <1>5

\* TxCTL: TIE and TIFG may be overwritten, without a look at TxIV.
LEMMA StepWriteCtl ==
    ASSUME TimerInv, UNCHANGED fw, WriteCtl
    PROVE  TimerInv'
<1> DEFINE s == sync_counter(t)
<1>1. PICK c \in fw.ctls :
          LET cleared == IF c.tclr
                         THEN [s EXCEPT !.counter = 0, !.acc = 0, !.start = now, !.passed = 0]
                         ELSE s
              timed == update_cycles_per_tick(cleared, Rate[dco][c.sel])
              n == [timed EXCEPT !.sel = c.sel, !.mode = c.mode,
                                 !.tie = IF fw.keeps_flags THEN @ ELSE c.tie,
                                 !.tifg = IF fw.keeps_flags THEN @ ELSE c.tifg]
          IN  /\ Ran
              /\ t' = IF c.mode = "STOP" THEN cancel_all_events(n)
                      ELSE IF t.mode = "STOP" THEN schedule_all_events(reset_counter(n))
                      ELSE IF c.mode # t.mode THEN schedule_all_events(n)
                      ELSE n
  BY DEF WriteCtl, Access
<1>2. c.tie \in BOOLEAN /\ c.tifg \in BOOLEAN
  BY DEF TimerInv, Firmware, Ctl
<1>3. Shape(t) /\ Quiet(t, s) /\ DOMAIN s = Fields
  BY QuietCounter DEF TimerInv, Shape, Quiet
<1> HIDE DEF s
<1> DEFINE k == IF c.tclr
                THEN [s EXCEPT !.counter = 0, !.acc = 0, !.start = now, !.passed = 0]
                ELSE s
           m == update_cycles_per_tick(k, Rate[dco][c.sel])
           n == [m EXCEPT !.sel = c.sel, !.mode = c.mode,
                          !.tie = IF fw.keeps_flags THEN @ ELSE c.tie,
                          !.tifg = IF fw.keeps_flags THEN @ ELSE c.tifg]
<1>4. Quiet(s, k)
  BY <1>3 DEF Quiet, Fields
<1> HIDE DEF k
<1>5. Quiet(k, m)
  BY <1>4, QuietClock DEF Quiet
<1> HIDE DEF m
<1>6. Quiet(t, m)
  BY <1>3, <1>4, <1>5, QuietTrans
<1>7. Shape(m) /\ (Exact(t) => Exact(m)) /\ (Flagged(t, cpu) => Flagged(m, cpu))
  BY <1>3, <1>6, QuietKeeps
<1>8. /\ DOMAIN n = Fields /\ n.cctl = m.cctl /\ n.irq = m.irq /\ n.last_tiv = m.last_tiv
      /\ n.tie = IF fw.keeps_flags THEN m.tie ELSE c.tie
      /\ n.tifg = IF fw.keeps_flags THEN m.tifg ELSE c.tifg
  BY <1>7 DEF Shape, Fields
<1>9. /\ Ran
      /\ \/ t' = cancel_all_events(n)
         \/ t' = schedule_all_events(reset_counter(n))
         \/ t' = schedule_all_events(n)
         \/ t' = n
  BY <1>1 DEF n, m, k
<1> HIDE DEF n
<1>10. Shape(n) /\ Flagged(n, cpu)
  BY <1>2, <1>7, <1>8 DEF Shape, Flagged, TimerInv
<1>11. fw.keeps_flags => Exact(n)
  <2> SUFFICES ASSUME fw.keeps_flags PROVE Exact(n)
    OBVIOUS
  <2>1. Quiet(m, n)
    BY <1>8 DEF Quiet
  <2> QED BY <1>7, <2>1, QuietKeeps DEF TimerInv
<1>12. Quiet(n, t')
  <2> DEFINE r == reset_counter(n)
  <2>1. Quiet(n, r) /\ Quiet(n, cancel_all_events(n)) /\ Quiet(n, n) /\ Quiet(n, schedule_all_events(n))
    BY <1>8, QuietCounter, QuietPrediction
  <2> HIDE DEF r
  <2>2. Quiet(r, schedule_all_events(r))
    BY <2>1, QuietPrediction DEF Quiet
  <2>3. Quiet(n, schedule_all_events(r))
    BY <2>1, <2>2, QuietTrans
  <2> QED BY <1>9, <2>1, <2>3 DEF r
<1>13. Shape(t') /\ (fw.keeps_flags => Exact(t')) /\ Flagged(t', cpu)
  BY <1>10, <1>11, <1>12, QuietKeeps
<1>14. cpu' \in CpuType /\ cpu'.isr = cpu.isr /\ cpu'.read = cpu.read
  BY <1>9 DEF TimerInv, CpuType, Ran
<1> QED BY <1>13, <1>14 DEF TimerInv, Shape, Exact, Flagged, Tiv, Pending

\* TxCCTLn: the sources of vector 1 are compared again, vector 0 follows its own.
LEMMA StepWriteCctl ==
    ASSUME TimerInv, UNCHANGED fw, WriteCctl
    PROVE  TimerInv'
<1>1. PICK i \in Channels, w \in fw.cctls :
          LET n == [t EXCEPT !.cctl[i] = w]
              flagged == IF i # 0 THEN reevaluate_tiv(n)
                         ELSE [n EXCEPT !.irq = IF w.ie /\ w.ifg THEN @ \cup {0} ELSE @ \ {0}]
          IN  Ran /\ t' = schedule_ccr_event(flagged, i)
  BY DEF WriteCctl, Access
<1> DEFINE n == [t EXCEPT !.cctl[i] = w]
           z == [n EXCEPT !.irq = IF w.ie /\ w.ifg THEN @ \cup {0} ELSE @ \ {0}]
           f == IF i # 0 THEN reevaluate_tiv(n) ELSE z
<1>2. w \in Cctl
  BY DEF TimerInv, Firmware
<1>3. /\ DOMAIN n = Fields /\ n.cctl = [t.cctl EXCEPT ![i] = w]
      /\ n.irq = t.irq /\ n.last_tiv = t.last_tiv /\ n.tie = t.tie /\ n.tifg = t.tifg
  BY DEF TimerInv, Shape, Fields
<1>4. Ran /\ t' = schedule_ccr_event(f, i)
  BY <1>1
<1> HIDE DEF n
<1>5. Shape(n) /\ n.cctl[i] = w /\ \A j \in Channels \ {i} : n.cctl[j] = t.cctl[j]
  BY <1>2, <1>3 DEF TimerInv, Shape
<1>6. Shape(f) /\ (fw.keeps_flags => Exact(f)) /\ Flagged(f, cpu)
  <2>1. CASE i # 0
    <3>1. n.cctl[0].ie /\ n.cctl[0].ifg => 0 \in n.irq
      BY <1>3, <1>5, <2>1, ChannelNumbers DEF TimerInv, Flagged
    <3> QED BY <1>5, <2>1, <3>1, Reevaluated
  <2>2. CASE i = 0
    <3>1. /\ DOMAIN z = Fields /\ z.cctl = n.cctl /\ z.last_tiv = n.last_tiv
          /\ z.tie = n.tie /\ z.tifg = n.tifg
          /\ z.irq = IF w.ie /\ w.ifg THEN n.irq \cup {0} ELSE n.irq \ {0}
      BY <1>3 DEF Fields
    <3>2. f = z
      BY <2>2
    <3> HIDE DEF z, f
    <3>3. Shape(z)
      BY <1>5, <3>1 DEF Shape
    <3>4. Flagged(z, cpu)
      <4>1. 1 \in t.irq => 1 \in z.irq
        <5>1. 1 # 0
          BY SMT
        <5> QED BY <1>3, <3>1, <5>1
      <4>2. z.cctl[0] = w
        BY <1>5, <2>2, <3>1
      <4> QED BY <1>3, <3>1, <4>1, <4>2 DEF TimerInv, Flagged
    <3>5. Exact(t) => Exact(z)
      <4>1. Pending(z) = Pending(t)
        BY <1>5, <2>2, <3>1 DEF Pending
      <4> QED BY <1>3, <3>1, <4>1 DEF Exact, Tiv
    <3> QED BY <3>2, <3>3, <3>4, <3>5 DEF TimerInv
  <2> QED BY <2>1, <2>2
<1> HIDE DEF f
<1>7. Quiet(f, t')
  BY <1>4, <1>6, QuietPrediction DEF Shape
<1>8. Shape(t') /\ (fw.keeps_flags => Exact(t')) /\ Flagged(t', cpu)
  BY <1>6, <1>7, QuietKeeps
<1>9. cpu' \in CpuType /\ cpu'.isr = cpu.isr /\ cpu'.read = cpu.read
  BY <1>4 DEF TimerInv, CpuType, Ran
<1> QED BY <1>8, <1>9 DEF TimerInv, Shape, Exact, Flagged, Tiv, Pending

\* A pin edge raises its channel's flag like a callback does.
LEMMA StepCaptureInput ==
    ASSUME TimerInv, UNCHANGED fw, msp430_timer_capture_input
    PROVE  TimerInv'
<1> DEFINE s == sync_counter(t)
<1>1. PICK i \in Channels :
          /\ cpu' = cpu
          /\ t' = trigger_ccr_interrupt(
                      IF s.cctl[i].ifg THEN [s EXCEPT !.cctl[i].cov = TRUE]
                      ELSE [s EXCEPT !.ccr[i] = s.counter, !.cctl[i].ifg = TRUE], i)
  BY DEF msp430_timer_capture_input
<1>2. Shape(t) /\ Quiet(t, s)
  BY QuietCounter DEF TimerInv, Shape
<1> HIDE DEF s
<1>3. Shape(s) /\ (Exact(t) => Exact(s)) /\ (Flagged(t, cpu) => Flagged(s, cpu))
  BY <1>2, QuietKeeps
<1>4. PICK y : Raises(s, y, i) /\ t' = trigger_ccr_interrupt(y, i)
  <2>1. s.cctl[i] \in Cctl
    BY <1>3 DEF Shape
  <2>2. CASE s.cctl[i].ifg
    <3> DEFINE y == [s EXCEPT !.cctl[i].cov = TRUE]
               k == [s.cctl[i] EXCEPT !.cov = TRUE]
    <3>1. k \in Cctl /\ k.ifg /\ k.ie = s.cctl[i].ie
      BY <2>1, <2>2 DEF Cctl
    <3>2. /\ DOMAIN y = Fields /\ y.cctl = [s.cctl EXCEPT ![i] = k]
          /\ y.irq = s.irq /\ y.last_tiv = s.last_tiv /\ y.tie = s.tie /\ y.tifg = s.tifg
      BY <1>3 DEF Shape, Fields
    <3>3. t' = trigger_ccr_interrupt(y, i)
      BY <1>1, <2>2
    <3> HIDE DEF y, k
    <3>4. Raises(s, y, i)
      BY <1>3, <3>1, <3>2 DEF Raises, Shape
    <3> QED BY <3>3, <3>4
  <2>3. CASE ~s.cctl[i].ifg
    <3> DEFINE y == [s EXCEPT !.ccr[i] = s.counter, !.cctl[i].ifg = TRUE]
               k == [s.cctl[i] EXCEPT !.ifg = TRUE]
    <3>1. k \in Cctl /\ k.ifg /\ k.ie = s.cctl[i].ie
      BY <2>1 DEF Cctl
    <3>2. /\ DOMAIN y = Fields /\ y.cctl = [s.cctl EXCEPT ![i] = k]
          /\ y.irq = s.irq /\ y.last_tiv = s.last_tiv /\ y.tie = s.tie /\ y.tifg = s.tifg
      BY <1>3 DEF Shape, Fields
    <3>3. t' = trigger_ccr_interrupt(y, i)
      BY <1>1, <2>3
    <3> HIDE DEF y, k
    <3>4. Raises(s, y, i)
      BY <1>3, <3>1, <3>2 DEF Raises, Shape
    <3> QED BY <3>3, <3>4
  <2> QED BY <2>2, <2>3
<1>5. Shape(t') /\ (Exact(t) => Exact(t')) /\ (Flagged(t, cpu) => Flagged(t', cpu))
  BY <1>3, <1>4, TriggerKeeps
<1> QED BY <1>1, <1>5 DEF TimerInv, Shape, Exact, Flagged, Tiv, Pending

LEMMA TimerInvNext ==
    TimerInv /\ [Next]_vars => TimerInv'
<1> SUFFICES ASSUME TimerInv, [Next]_vars PROVE TimerInv'
  OBVIOUS
<1>1. CASE UNCHANGED vars
  BY <1>1 DEF vars, TimerInv, Shape, Exact, Flagged, Tiv, Pending
<1>2. CASE Next
  BY <1>2, StepEvents, StepService, StepCpu, StepIvRead, StepCounter, StepWriteCtl,
     StepWriteCctl, StepCaptureInput DEF Next
<1> QED BY <1>1, <1>2

LEMMA TimerInvariant ==
    Spec => []TimerInv
<1> QED BY TimerInvInit, TimerInvNext, PTL DEF Spec

-----------------------------------------------------------------------------
(* Quotients and remainders.                                               *)

LEMMA Quotient ==
    ASSUME NEW n \in Nat \ {0}, NEW x \in Int
    PROVE  /\ x % n \in 0 .. n - 1 /\ x \div n \in Int
           /\ x = (x \div n) * n + (x % n)
           /\ x \in Nat => x \div n \in Nat
BY SMT

LEMMA Cancel ==
    ASSUME NEW n \in Nat \ {0}, NEW x \in Int, NEW y \in Int, x * n < y * n
    PROVE  x < y
<1>1. SUFFICES ASSUME x >= y PROVE FALSE
  BY SMT
<1>2. PICK d \in Nat : x = y + d
  BY SMT, <1>1
<1>3. (y + d) * n = y * n + d * n /\ d * n >= 0 /\ d * n \in Int /\ y * n \in Int
  BY ONLY SMT, n \in Nat \ {0}, y \in Int, d \in Nat
<1> QED BY ONLY SMT, <1>2, <1>3, x * n < y * n

LEMMA QuotientIs ==
    ASSUME NEW n \in Nat \ {0}, NEW x \in Int, NEW q \in Int, q * n <= x, x < q * n + n
    PROVE  x \div n = q
<1> DEFINE d == x \div n
           r == x % n
<1>1. d \in Int /\ r \in 0 .. n - 1 /\ x = d * n + r
  BY Quotient
<1> HIDE DEF d, r
<1>2. /\ q * n \in Int /\ d * n \in Int
      /\ (d + 1) * n = d * n + n /\ (q + 1) * n = q * n + n
  BY ONLY SMT, <1>1, n \in Nat \ {0}, q \in Int
<1>3. q * n < (d + 1) * n /\ d * n < (q + 1) * n
  BY ONLY SMT, <1>1, <1>2, n \in Nat \ {0}, x \in Int, q * n <= x, x < q * n + n
<1>4. q < d + 1 /\ d < q + 1
  <2>1. d + 1 \in Int /\ q + 1 \in Int
    BY ONLY SMT, <1>1, q \in Int
  <2> QED BY <1>1, <1>3, <2>1, Cancel
<1>5. d = q
  BY ONLY SMT, <1>1, <1>4, q \in Int
<1> QED BY <1>5 DEF d

LEMMA RemainderIs ==
    ASSUME NEW n \in Nat \ {0}, NEW q \in Int, NEW m \in 0 .. n - 1
    PROVE  (q * n + m) % n = m
<1> DEFINE x == q * n + m
<1>1. x \in Int /\ q * n <= x /\ x < q * n + n /\ q * n \in Int
  BY SMT
<1>2. x \div n = q
  BY <1>1, QuotientIs
<1>3. x = (x \div n) * n + (x % n) /\ x % n \in 0 .. n - 1
  BY <1>1, Quotient
<1> HIDE DEF x
<1>4. x % n = m
  <2>1. x = q * n + m
    BY DEF x
  <2> QED BY ONLY SMT, <1>1, <1>2, <1>3, <2>1, m \in 0 .. n - 1, n \in Nat \ {0}
<1> QED BY <1>4 DEF x

\* Equal remainders less than n apart are of the same number; those up to n
\* apart of the same number or of one n away.
LEMMA RemainderRound ==
    ASSUME NEW n \in Nat \ {0}, NEW x \in Int
    PROVE  /\ (x + n) % n = x % n
           /\ \A d \in 1 .. n - 1 : (x + d) % n # x % n
           /\ \A k \in Int : ((x % n) + k) % n = (x + k) % n
<1> DEFINE q == x \div n
           m == x % n
<1>1. q \in Int /\ m \in 0 .. n - 1 /\ x = q * n + m
  BY Quotient
<1> HIDE DEF q, m
<1>2. (x + n) % n = m
  <2>1. x + n = (q + 1) * n + m /\ q + 1 \in Int
    BY ONLY SMT, <1>1, n \in Nat \ {0}
  <2> QED BY <1>1, <2>1, RemainderIs
<1>3. ASSUME NEW d \in 1 .. n - 1 PROVE (x + d) % n # m
  <2>1. CASE m + d < n
    <3>1. x + d = q * n + (m + d) /\ m + d \in 0 .. n - 1 /\ m + d # m
      BY ONLY SMT, <1>1, <2>1, n \in Nat \ {0}, d \in 1 .. n - 1
    <3>2. (x + d) % n = m + d
      BY <1>1, <3>1, RemainderIs
    <3> QED BY <3>1, <3>2
  <2>2. CASE ~(m + d < n)
    <3>1. x + d = (q + 1) * n + (m + d - n) /\ m + d - n \in 0 .. n - 1 /\ m + d - n # m /\ q + 1 \in Int
      BY ONLY SMT, <1>1, <2>2, n \in Nat \ {0}, d \in 1 .. n - 1
    <3>2. (x + d) % n = m + d - n
      BY <3>1, RemainderIs
    <3> QED BY <3>1, <3>2
  <2> QED BY <2>1, <2>2
<1>4. ASSUME NEW k \in Int PROVE (m + k) % n = (x + k) % n
  <2> DEFINE p == (m + k) \div n
             r == (m + k) % n
  <2>1. m + k \in Int
    BY SMT, <1>1
  <2>2. p \in Int /\ r \in 0 .. n - 1 /\ m + k = p * n + r
    BY <2>1, Quotient
  <2> HIDE DEF p, r
  <2>3. x + k = (q + p) * n + r /\ q + p \in Int
    <3>1. (q + p) * n = q * n + p * n /\ q * n \in Int /\ p * n \in Int
      BY ONLY SMT, <1>1, <2>2, n \in Nat \ {0}
    <3> QED BY ONLY SMT, <1>1, <2>2, <3>1, k \in Int
  <2>4. (x + k) % n = r
    BY <2>2, <2>3, RemainderIs
  <2> QED BY <2>4 DEF r
<1> QED BY <1>2, <1>3, <1>4 DEF m

-----------------------------------------------------------------------------
(* Ticks of a clock, a fraction of cycles each.                            *)

\* Of a clock of a/b cycles per tick: tick n comes with cycle e.
Comes(a, b, e, n) == (e - 1) * b < n * a /\ n * a <= e * b

LEMMA TickAt ==
    ASSUME NEW a \in Nat \ {0}, NEW b \in Nat \ {0}, a >= b,
           NEW e \in Nat, NEW n \in Nat \ {0}, Comes(a, b, e, n)
    PROVE  e - 1 \in Nat /\ (e * b) \div a = n /\ ((e - 1) * b) \div a = n - 1
<1>1. /\ e * b \in Int /\ n * a \in Int /\ (e - 1) * b = e * b - b /\ (n - 1) * a = n * a - a
      /\ n * a >= a
  BY ONLY SMT, a \in Nat \ {0}, b \in Nat \ {0}, e \in Nat, n \in Nat \ {0}
<1>2. e * b - b < n * a /\ n * a <= e * b
  BY <1>1 DEF Comes
<1>3. e # 0
  <2>1. e = 0 => e * b = 0
    BY SMT
  <2> QED BY ONLY SMT, <1>1, <1>2, <2>1, a \in Nat \ {0}
<1>4. n * a <= e * b /\ e * b < n * a + a /\ (n - 1) * a <= (e - 1) * b /\ (e - 1) * b < (n - 1) * a + a
  BY ONLY SMT, <1>1, <1>2, a \in Nat \ {0}, b \in Nat \ {0}, a >= b
<1>5. e - 1 \in Nat /\ n - 1 \in Int /\ n \in Int /\ e * b \in Int /\ (e - 1) * b \in Int
  BY ONLY SMT, <1>1, <1>3, e \in Nat, n \in Nat \ {0}, b \in Nat \ {0}
<1> QED BY <1>4, <1>5, QuotientIs

LEMMA Progress ==
    ASSUME NEW a \in Nat \ {0}, NEW b \in Nat \ {0}, NEW e \in Nat
    PROVE  LET q == (e * b) \div a
               p == ((e * b) % a) \div b
           IN  /\ q \in Nat /\ p \in 0 .. e
               /\ q * a <= (e - p) * b /\ (e - p) * b < q * a + b
               /\ q * a <= e * b /\ e * b < q * a + a
               /\ (p * b) \div a = 0 /\ ((p * b) % a) \div b = p
<1> DEFINE x == e * b
           q == x \div a
           r == x % a
           p == r \div b
<1>1. x \in Nat /\ x \in Int /\ x = e * b
  BY SMT
<1> HIDE DEF x
<1>2. q \in Nat /\ r \in 0 .. a - 1 /\ e * b = q * a + r
  <2>1. q \in Nat /\ r \in 0 .. a - 1 /\ x = q * a + r
    BY <1>1, Quotient
  <2> QED BY <1>1, <2>1
<1> HIDE DEF q, r
<1>3. r \in Nat /\ r \in Int
  BY SMT, <1>2
<1>4. r % b \in 0 .. b - 1 /\ r = p * b + (r % b) /\ p \in Nat
  BY <1>3, Quotient
<1> HIDE DEF p
<1>5. q * a \in Nat /\ p * b \in Nat
  BY ONLY SMT, <1>2, <1>4, a \in Nat \ {0}, b \in Nat \ {0}
<1>6. p * b <= r /\ r < p * b + b
  BY ONLY SMT, <1>4, <1>5, b \in Nat \ {0}
<1>7. p <= e
  <2>1. (e + 1) * b = e * b + b
    BY SMT
  <2>2. p * b < (e + 1) * b
    BY ONLY SMT, <1>1, <1>2, <1>5, <1>6, <2>1, b \in Nat \ {0}
  <2>3. e + 1 \in Int /\ p \in Int
    BY ONLY SMT, <1>4, e \in Nat
  <2>4. p < e + 1
    BY <2>2, <2>3, Cancel
  <2> QED BY ONLY SMT, <1>4, <2>4, e \in Nat
<1>8. (e - p) * b = e * b - p * b
  BY ONLY SMT, <1>4, e \in Nat, b \in Nat \ {0}
<1>9. /\ q * a <= (e - p) * b /\ (e - p) * b < q * a + b
      /\ q * a <= e * b /\ e * b < q * a + a
  BY ONLY SMT, <1>1, <1>2, <1>5, <1>6, <1>8, a \in Nat \ {0}
<1>10. (p * b) \div a = 0 /\ (p * b) % a = p * b
  <2>1. 0 * a + p * b = p * b /\ 0 \in Int /\ p * b \in 0 .. a - 1 /\ 0 * a <= p * b /\ p * b < 0 * a + a
        /\ p * b \in Int
    <3>1. 0 * a = 0
      BY SMT
    <3> QED BY ONLY SMT, <1>2, <1>5, <1>6, <3>1, a \in Nat \ {0}
  <2>2. (p * b) \div a = 0
    BY <2>1, QuotientIs
  <2>3. (0 * a + p * b) % a = p * b
    BY <2>1, RemainderIs
  <2> QED BY <2>1, <2>2, <2>3
<1>11. (p * b) \div b = p
  <2>1. p * b <= p * b /\ p * b < p * b + b /\ p * b \in Int /\ p \in Int
    BY ONLY SMT, <1>4, <1>5, b \in Nat \ {0}
  <2> QED BY <2>1, QuotientIs
<1>12. p \in 0 .. e
  BY ONLY SMT, <1>4, <1>7, e \in Nat
<1> QED BY <1>2, <1>9, <1>10, <1>11, <1>12 DEF p, q, r, x

\* The prediction from cycle e, n ticks ahead, is at most a cycle late.
LEMMA Predicted ==
    ASSUME NEW a \in Nat \ {0}, NEW b \in Nat \ {0}, NEW e \in Nat,
           NEW W \in Nat, NEW R \in Nat, R * b = W * a, NEW n \in 1 .. W
    PROVE  LET q == (e * b) \div a
               p == ((e * b) % a) \div b
               y == (n * a) \div b
           IN  \E z \in Nat : /\ Comes(a, b, z, q + n)
                              /\ z = e - p + y \/ z = e - p + y + 1
                              /\ z <= e + R
<1> DEFINE q == (e * b) \div a
           p == ((e * b) % a) \div b
           y == (n * a) \div b
           f == e - p
<1>1. /\ q \in Nat /\ p \in 0 .. e
      /\ q * a <= f * b /\ f * b < q * a + b
      /\ q * a <= e * b /\ e * b < q * a + a
  BY Progress
<1>2. n * a \in Nat /\ n \in Nat \ {0}
  BY SMT
<1>3. n * a = y * b + ((n * a) % b) /\ (n * a) % b \in 0 .. b - 1 /\ y \in Nat
  <2> DEFINE x == n * a
  <2>1. x \in Nat /\ x \in Int
    BY SMT, <1>2
  <2> HIDE DEF x
  <2>2. x = (x \div b) * b + (x % b) /\ x % b \in 0 .. b - 1 /\ x \div b \in Nat
    BY <2>1, Quotient
  <2> QED BY <2>2 DEF x
<1>4. f \in Nat /\ f = e - p
  BY ONLY SMT, <1>1, e \in Nat
<1> HIDE DEF q, p, y, f
<1>5. /\ q * a \in Nat /\ y * b \in Nat /\ f * b \in Nat /\ e * b \in Nat /\ R * b \in Nat
      /\ (f + y) * b = f * b + y * b /\ (q + n) * a = q * a + n * a
      /\ ((f + y) - 1) * b = (f * b + y * b) - b
      /\ ((f + y) + 1) * b = (f * b + y * b) + b
  BY ONLY SMT, <1>1, <1>2, <1>3, <1>4, a \in Nat \ {0}, b \in Nat \ {0}, e \in Nat, R \in Nat
<1>6. y * b <= n * a /\ n * a < y * b + b
  BY ONLY SMT, <1>3, <1>5, b \in Nat \ {0}
<1>7. n * a <= W * a /\ W * a \in Nat
  <2>1. PICK d \in Nat : W = n + d
    BY SMT
  <2>2. (n + d) * a = n * a + d * a /\ d * a \in Nat
    BY ONLY SMT, <1>2, <2>1, a \in Nat \ {0}
  <2> QED BY ONLY SMT, <1>2, <2>1, <2>2
<1>8. ASSUME NEW z \in Nat, Comes(a, b, z, q + n) PROVE z <= e + R
  <2>1. (z - 1) * b < q * a + n * a
    BY <1>5, <1>8 DEF Comes
  <2>2. (e + R) * b = e * b + R * b /\ (z - 1) * b \in Int
    BY ONLY SMT, z \in Nat, b \in Nat \ {0}, e \in Nat, R \in Nat
  <2>3. (z - 1) * b < (e + R) * b
    BY ONLY SMT, <1>1, <1>2, <1>5, <1>7, <2>1, <2>2, R * b = W * a
  <2>4. z - 1 \in Int /\ e + R \in Int
    BY SMT
  <2>5. z - 1 < e + R
    BY <2>3, <2>4, Cancel
  <2> QED BY ONLY SMT, <2>5, z \in Nat, e \in Nat, R \in Nat
<1>9. CASE q * a + n * a <= f * b + y * b
  <2>1. Comes(a, b, f + y, q + n)
    <3>1. (f * b + y * b) - b < q * a + n * a
      BY ONLY SMT, <1>1, <1>2, <1>5, <1>6, b \in Nat \ {0}
    <3> QED BY <1>5, <1>9, <3>1 DEF Comes
  <2>2. f + y \in Nat
    BY ONLY SMT, <1>3, <1>4
  <2> QED BY <1>4, <1>8, <2>1, <2>2 DEF q, p, y
<1>10. CASE ~(q * a + n * a <= f * b + y * b)
  <2>1. Comes(a, b, (f + y) + 1, q + n)
    <3>1. f * b + y * b < q * a + n * a /\ q * a + n * a <= (f * b + y * b) + b
      BY ONLY SMT, <1>1, <1>2, <1>5, <1>6, <1>10, b \in Nat \ {0}
    <3>2. ((f + y) + 1) - 1 = f + y
      BY ONLY SMT, <1>3, <1>4
    <3> QED BY <1>5, <3>1, <3>2 DEF Comes
  <2>2. (f + y) + 1 \in Nat
    BY ONLY SMT, <1>3, <1>4
  <2> QED BY <1>4, <1>8, <2>1, <2>2 DEF q, p, y
<1> QED BY <1>9, <1>10

\* A round later the same tick comes a round of cycles later.
LEMMA NextRound ==
    ASSUME NEW a \in Nat \ {0}, NEW b \in Nat \ {0}, NEW e \in Nat, NEW n \in Nat,
           NEW W \in Nat, NEW R \in Nat, R * b = W * a, Comes(a, b, e, n)
    PROVE  Comes(a, b, e + R, n + W)
<1>1. /\ ((e + R) - 1) * b = (e - 1) * b + R * b /\ (e + R) * b = e * b + R * b
      /\ (n + W) * a = n * a + W * a
      /\ (e - 1) * b \in Int /\ e * b \in Int /\ n * a \in Int /\ W * a \in Int
  BY ONLY SMT, a \in Nat \ {0}, b \in Nat \ {0}, e \in Nat, n \in Nat, W \in Nat, R \in Nat
<1>2. (e - 1) * b < n * a /\ n * a <= e * b
  BY DEF Comes
<1>3. (e - 1) * b + R * b < n * a + W * a /\ n * a + W * a <= e * b + R * b
  BY ONLY SMT, <1>1, <1>2, R * b = W * a
<1> QED BY <1>1, <1>3 DEF Comes

\* Cycle z is within the round of W ticks and R cycles that ends with tick n in
\* cycle e: the tick is, too, and if it is the round's first it has lasted.
Within(a, b, e, n, W, R, z) ==
    LET m == (z * b) \div a
        l == ((z - 1) * b) \div a
    IN  /\ m \in Nat /\ l \in Nat
        /\ n - W <= m /\ m < n /\ (m = n - W => l = m)

LEMMA WithinRound ==
    ASSUME NEW a \in Nat \ {0}, NEW b \in Nat \ {0}, NEW e \in Nat, NEW n \in Nat,
           NEW W \in Nat, NEW R \in Nat, R * b = W * a, Comes(a, b, e, n),
           NEW z \in Nat \ {0}, e < z + R, z < e
    PROVE  Within(a, b, e, n, W, R, z)
<1> DEFINE m == (z * b) \div a
           l == ((z - 1) * b) \div a
<1>1. z - 1 \in Nat /\ z \in Nat
  BY SMT
<1>2. m \in Nat /\ m * a <= z * b /\ z * b < m * a + a
  BY <1>1, Progress
<1>3. l \in Nat /\ l * a <= (z - 1) * b /\ (z - 1) * b < l * a + a
  BY <1>1, Progress
<1> HIDE DEF m, l
<1>4. /\ (z - 1) * b = z * b - b /\ z * b \in Int /\ (e - 1) * b = e * b - b /\ e * b \in Int
      /\ m * a \in Int /\ l * a \in Int /\ n * a \in Int /\ W * a \in Int /\ R * b \in Int
      /\ (n - W) * a = n * a - W * a /\ (m + 1) * a = m * a + a /\ (l + 1) * a = l * a + a
      /\ (z - (e - R)) * b = (z * b - e * b) + R * b
      /\ (e - z) * b = e * b - z * b
  BY ONLY SMT, <1>2, <1>3, a \in Nat \ {0}, b \in Nat \ {0}, e \in Nat, n \in Nat, W \in Nat, R \in Nat,
          z \in Nat \ {0}
<1>5. e * b - b < n * a /\ n * a <= e * b
  BY <1>4 DEF Comes
<1>6. (z - (e - R)) * b >= b /\ (e - z) * b >= b
  <2> DEFINE c == z - (e - R)
             d == e - z
  <2>1. c \in Nat \ {0} /\ d \in Nat \ {0}
    BY SMT
  <2> HIDE DEF c, d
  <2>2. c * b >= b /\ d * b >= b
    BY ONLY SMT, <2>1, b \in Nat \ {0}
  <2> QED BY <2>2 DEF c, d
<1>7. m * a < n * a
  BY ONLY SMT, <1>2, <1>4, <1>5, <1>6, b \in Nat \ {0}, a \in Nat \ {0}
<1>8. (n - W) * a < (m + 1) * a /\ (n - W) * a < (l + 1) * a
  BY ONLY SMT, <1>2, <1>3, <1>4, <1>5, <1>6, R * b = W * a, b \in Nat \ {0}, a \in Nat \ {0}
<1>9. l * a < (m + 1) * a
  BY ONLY SMT, <1>2, <1>3, <1>4, b \in Nat \ {0}, a \in Nat \ {0}
<1>10. n - W \in Int /\ m + 1 \in Int /\ l + 1 \in Int /\ m \in Int /\ l \in Int /\ n \in Int
  BY ONLY SMT, <1>2, <1>3, n \in Nat, W \in Nat
<1>11. m < n /\ n - W < m + 1 /\ n - W < l + 1 /\ l < m + 1
  BY <1>7, <1>8, <1>9, <1>10, Cancel
<1>12. n - W <= m /\ m < n /\ (m = n - W => l = m)
  BY ONLY SMT, <1>2, <1>3, <1>11, n \in Nat, W \in Nat
<1> QED BY <1>2, <1>3, <1>12 DEF m, l, Within

-----------------------------------------------------------------------------
(* Where an event is aimed at.                                             *)

Modes == {"STOP", "UP", "CONT", "UPDOWN"}

\* The clocks of which a round is a whole number of cycles, and that number.
WholeClock == {k \in Clock : (Wrap * k.num) % k.den = 0}
Round(k) == (Wrap * k.num) \div k.den

\* The counter of timer x at cycle c: start, acc and clk say what it is.
Timed(x, c) ==
    /\ DOMAIN x = Fields
    /\ x.start \in Nat /\ x.start <= c
    /\ x.acc \in Nat /\ x.counter \in 0 .. Wrap - 1 /\ x.passed \in Int
    /\ x.clk \in WholeClock /\ x.sel \in Sels /\ x.mode \in Modes
    /\ x.ccr \in [Channels -> 0 .. Wrap - 1]
    /\ x.interval \in [Channels -> Nat] /\ x.expected \in [Channels -> 0 .. Wrap - 1]
    /\ x.ev \in [0 .. Overflow -> Int]

\* An event at cycle T that is for the counter's next turn to v, or for the turn
\* that is due; at most one cycle late.
Aimed(x, v, T, c) ==
    \E e \in Nat, n \in Nat \ {0} :
        /\ Comes(x.clk.num, x.clk.den, e, n)
        /\ (x.acc + n) % Wrap = v
        /\ T = x.start + e \/ T = x.start + e + 1
        /\ x.start + e <= c + Round(x.clk)

\* In continuous mode every comparing channel has its event, and the overflow.
Armed(x, c) ==
    x.mode = "CONT" =>
       /\ \A i \in Channels : x.cctl[i].input = "compare" => Aimed(x, x.ccr[i], x.ev[i], c)
       /\ Aimed(x, 0, x.ev[Overflow], c)

\* Clock, DCO and timer at cycle c.
Alarms(c, d, x) == c \in Nat /\ d \in Dcos /\ Timed(x, c) /\ Armed(x, c)

\* What AlarmOnTime is about.
Careful == WholeRounds /\ fw.stops_first /\ fw.reads_first

AlarmInv == TimerInv /\ (Careful => Alarms(now, dco, t))

LEMMA WrapNumbers ==
    /\ Wrap \in Nat \ {0} /\ Wrap \in Nat /\ Wrap \in Int /\ Wrap > 1 /\ 0 \in 0 .. Wrap - 1
    /\ 0 .. Wrap - 1 \subseteq Nat
    /\ Overflow \in 0 .. Overflow /\ Channels \subseteq 0 .. Overflow /\ Overflow \notin Channels
    /\ \A e \in 0 .. Overflow : e # Overflow => e \in Channels
BY SMT, TimerAssumption DEF Channels, Overflow

LEMMA ClockFacts ==
    ASSUME NEW k \in WholeClock
    PROVE  /\ k.num \in Nat \ {0} /\ k.den \in Nat \ {0} /\ k.num >= k.den /\ k.cap \in Nat
           /\ Round(k) \in Nat /\ Round(k) * k.den = Wrap * k.num
<1>1. k.num \in Nat \ {0} /\ k.den \in Nat \ {0} /\ k.num >= k.den /\ k.cap \in Nat /\ (Wrap * k.num) % k.den = 0
  BY DEF WholeClock, Clock
<1> DEFINE x == Wrap * k.num
           d == x \div k.den
<1>2. x \in Nat /\ x \in Int
  BY SMT, <1>1, WrapNumbers
<1> HIDE DEF x
<1>3. d \in Nat /\ x = d * k.den + (x % k.den)
  BY <1>1, <1>2, Quotient
<1>4. x % k.den = 0
  BY <1>1 DEF x
<1> HIDE DEF d
<1>5. d * k.den = x
  BY SMT, <1>1, <1>2, <1>3, <1>4
<1> QED BY <1>1, <1>3, <1>5 DEF Round, x, d

LEMMA WholeRate ==
    ASSUME WholeRounds, NEW d \in Dcos, NEW s \in Sels
    PROVE  Rate[d][s] \in WholeClock
<1>1. Rate[d][s] \in Clock
  BY TimerAssumption
<1> QED BY <1>1 DEF WholeRounds, WholeClock

\* How far the timer is at cycle c.
LEMMA Position ==
    ASSUME NEW c \in Nat, NEW x, Timed(x, c)
    PROVE  /\ c - x.start \in Nat /\ elapsed(x, c) = c - x.start
           /\ ticks(x, c) \in Nat /\ part(x, c) \in 0 .. (c - x.start)
           /\ big_counter(x, c) \in Nat
<1>1. /\ x.start \in Nat /\ x.start <= c /\ x.acc \in Nat
      /\ x.clk.num \in Nat \ {0} /\ x.clk.den \in Nat \ {0}
  BY ClockFacts DEF Timed
<1>2. c - x.start \in Nat /\ elapsed(x, c) = c - x.start
  BY ONLY SMT, <1>1, c \in Nat DEF elapsed
<1>3. ticks(x, c) \in Nat /\ part(x, c) \in 0 .. (c - x.start)
  BY <1>1, <1>2, Progress DEF ticks, part
<1>4. big_counter(x, c) \in Nat
  BY ONLY SMT, <1>1, <1>3 DEF big_counter
<1> QED BY <1>2, <1>3, <1>4

\* What TxR shows is in the counter's range.
LEMMA CounterRange ==
    ASSUME NEW c \in Nat, NEW x, Timed(x, c)
    PROVE  /\ counter_at(x, c) \in 0 .. Wrap - 1
           /\ x.mode = "CONT" => counter_at(x, c) = big_counter(x, c) % Wrap
<1> DEFINE top == x.ccr[0]
           b == big_counter(x, c)
           pos == b % (2 * top)
<1>1. b \in Nat /\ b \in Int /\ x.mode \in Modes /\ x.counter \in 0 .. Wrap - 1
  <2>1. b \in Nat
    BY Position
  <2> QED BY SMT, <2>1 DEF Timed
<1>2. top \in 0 .. Wrap - 1
  BY ChannelNumbers DEF Timed
<1>3. counter_at(x, c) =
         CASE x.mode = "STOP" -> x.counter
           [] x.mode = "CONT" -> b % Wrap
           [] x.mode # "STOP" /\ x.mode # "CONT" /\ top = 0 -> 0
           [] x.mode = "UP" /\ top > 0 -> b % (top + 1)
           [] x.mode = "UPDOWN" /\ top > 0 -> IF pos > top THEN 2 * top - pos ELSE pos
  BY DEF counter_at
<1> HIDE DEF top, b
<1>4. CASE x.mode = "STOP"
  BY <1>1, <1>3, <1>4
<1>5. CASE x.mode = "CONT"
  <2>1. counter_at(x, c) = b % Wrap
    BY <1>3, <1>5
  <2>2. b % Wrap \in 0 .. Wrap - 1
    BY <1>1, WrapNumbers, Quotient
  <2> QED BY <2>1, <2>2 DEF b
<1>6. CASE x.mode # "STOP" /\ x.mode # "CONT" /\ top = 0
  BY SMT, <1>3, <1>6, WrapNumbers
<1>7. CASE x.mode = "UP" /\ top > 0
  <2>1. counter_at(x, c) = b % (top + 1)
    BY SMT, <1>2, <1>3, <1>7
  <2>2. top + 1 \in Nat \ {0}
    BY SMT, <1>2, WrapNumbers
  <2>3. b % (top + 1) \in 0 .. (top + 1) - 1
    BY <1>1, <2>2, Quotient
  <2> QED BY SMT, <1>2, <1>7, <2>1, <2>3, WrapNumbers
<1>8. CASE x.mode = "UPDOWN" /\ top > 0
  <2>1. counter_at(x, c) = IF pos > top THEN 2 * top - pos ELSE pos
    BY SMT, <1>2, <1>3, <1>8
  <2>2. 2 * top \in Nat \ {0}
    BY SMT, <1>2, <1>8, WrapNumbers
  <2>3. pos \in 0 .. (2 * top) - 1
    BY <1>1, <2>2, Quotient
  <2> HIDE DEF pos
  <2> QED BY SMT, <1>2, <1>8, <2>1, <2>3, WrapNumbers
<1>9. x.mode = "STOP" \/ x.mode = "CONT" \/ (x.mode # "STOP" /\ x.mode # "CONT" /\ top = 0)
       \/ (x.mode = "UP" /\ top > 0) \/ (x.mode = "UPDOWN" /\ top > 0)
  <2>1. top = 0 \/ top > 0
    BY SMT, <1>2, WrapNumbers
  <2> QED BY <1>1, <2>1 DEF Modes
<1> QED BY <1>4, <1>5, <1>6, <1>7, <1>8, <1>9

\* An event of x is aimed with start, acc and clk alone, and stays aimed as
\* time passes.
LEMMA AimedKeeps ==
    ASSUME NEW x, NEW y, y.start = x.start, y.acc = x.acc, y.clk = x.clk,
           x.start \in Nat, x.clk \in WholeClock, NEW c \in Nat, NEW d \in Nat, c <= d,
           NEW v, NEW T, Aimed(x, v, T, c)
    PROVE  Aimed(y, v, T, d)
<1>1. PICK e \in Nat, n \in Nat \ {0} :
        /\ Comes(x.clk.num, x.clk.den, e, n)
        /\ (x.acc + n) % Wrap = v
        /\ T = x.start + e \/ T = x.start + e + 1
        /\ x.start + e <= c + Round(x.clk)
  BY DEF Aimed
<1>2. Round(x.clk) \in Nat
  BY ClockFacts
<1>3. x.start + e <= d + Round(x.clk)
  BY ONLY SMT, <1>1, <1>2, x.start \in Nat, c \in Nat, d \in Nat, c <= d, e \in Nat
<1> QED BY <1>1, <1>3 DEF Aimed

\* matched: a round after a turn that was due comes the next.
LEMMA AimedAgain ==
    ASSUME NEW c \in Nat, NEW x, x.start \in Nat, x.acc \in Nat, x.clk \in WholeClock,
           NEW v, NEW T \in Int, T <= c, Aimed(x, v, T, c)
    PROVE  Aimed(x, v, T + cycles_of(x, Wrap), c)
<1> DEFINE R == Round(x.clk)
<1>1. PICK e \in Nat, n \in Nat \ {0} :
        /\ Comes(x.clk.num, x.clk.den, e, n)
        /\ (x.acc + n) % Wrap = v
        /\ T = x.start + e \/ T = x.start + e + 1
        /\ x.start + e <= c + R
  BY DEF Aimed
<1>2. /\ R \in Nat /\ R * x.clk.den = Wrap * x.clk.num
      /\ x.clk.num \in Nat \ {0} /\ x.clk.den \in Nat \ {0}
  BY ClockFacts
<1>3. cycles_of(x, Wrap) = R
  BY DEF cycles_of, Round
<1> HIDE DEF R
<1>4. Comes(x.clk.num, x.clk.den, e + R, n + Wrap)
  <2>1. n \in Nat
    OBVIOUS
  <2> QED BY <1>1, <1>2, <2>1, WrapNumbers, NextRound
<1>5. (x.acc + (n + Wrap)) % Wrap = v
  <2>1. x.acc + n \in Int /\ x.acc + (n + Wrap) = (x.acc + n) + Wrap
    BY SMT, WrapNumbers
  <2> QED BY <1>1, <2>1, WrapNumbers, RemainderRound
<1>6. /\ e + R \in Nat /\ n + Wrap \in Nat \ {0}
      /\ T + R = x.start + (e + R) \/ T + R = x.start + (e + R) + 1
      /\ x.start + (e + R) <= c + R
  BY ONLY SMT, <1>1, <1>2, WrapNumbers, T <= c, T \in Int, x.start \in Nat, c \in Nat, e \in Nat, n \in Nat \ {0}
<1>7. Aimed(x, v, T + R, c)
  BY <1>4, <1>5, <1>6 DEF Aimed, R
<1> QED BY <1>3, <1>7

\* The counter and what passed of its tick are those of this cycle.
Fresh(x) == x.counter = counter_at(x, now) /\ x.passed = part(x, now)

\* A prediction from the counter of this cycle is aimed.
LEMMA AimedFirst ==
    ASSUME now \in Nat, NEW x, Timed(x, now), x.mode = "CONT", Fresh(x), NEW n \in 1 .. Wrap
    PROVE  Aimed(x, (x.counter + n) % Wrap, fire_cycle(x, n), now)
<1> DEFINE a == x.clk.num
           b == x.clk.den
           e == now - x.start
           q == (e * b) \div a
           p == ((e * b) % a) \div b
           y == (n * a) \div b
           R == Round(x.clk)
<1>1. /\ a \in Nat \ {0} /\ b \in Nat \ {0} /\ R \in Nat /\ R * b = Wrap * a
      /\ x.start \in Nat /\ x.acc \in Nat
  BY ClockFacts DEF Timed
<1>2. e \in Nat /\ elapsed(x, now) = e
  BY Position
<1>3. x.passed = p /\ ticks(x, now) = q /\ cycles_of(x, n) = y
  BY <1>2 DEF Fresh, part, ticks, cycles_of
<1>4. \E z \in Nat : /\ Comes(a, b, z, q + n)
                     /\ z = e - p + y \/ z = e - p + y + 1
                     /\ z <= e + R
  <2> HIDE DEF a, b, e, R
  <2> QED BY <1>1, <1>2, Predicted, WrapNumbers
<1>5. q \in Nat /\ p \in 0 .. e
  <2> HIDE DEF a, b, e
  <2> QED BY <1>1, <1>2, Progress
<1>6. y \in Int
  <2>1. n * a \in Int
    BY SMT, <1>1
  <2> HIDE DEF a, b
  <2> QED BY <1>1, <2>1, Quotient
<1>7. x.counter = (q + x.acc) % Wrap
  BY <1>3, CounterRange DEF Fresh, big_counter
<1>8. e = now - x.start
  OBVIOUS
<1>9. fire_cycle(x, n) = now - p + y + 1
  BY <1>3 DEF fire_cycle
<1>10. Comes(a, b, 0, 0) = Comes(x.clk.num, x.clk.den, 0, 0) /\ R = Round(x.clk)
  OBVIOUS
<1>11. PICK z \in Nat : /\ Comes(a, b, z, q + n)
                        /\ z = e - p + y \/ z = e - p + y + 1
                        /\ z <= e + R
  BY <1>4
<1>12. Comes(x.clk.num, x.clk.den, z, q + n)
  BY <1>11
<1> HIDE DEF a, b, e, q, p, y, R
<1>13. q + n \in Nat \ {0} /\ q + x.acc \in Int /\ n \in Int /\ (q + x.acc) + n = x.acc + (q + n)
  BY ONLY SMT, <1>1, <1>5, WrapNumbers, n \in 1 .. Wrap
<1>14. (x.acc + (q + n)) % Wrap = (x.counter + n) % Wrap
  <2> DEFINE w == q + x.acc
  <2>1. w \in Int /\ w + n = x.acc + (q + n) /\ x.counter = w % Wrap
    BY <1>7, <1>13
  <2> HIDE DEF w
  <2>2. ((w % Wrap) + n) % Wrap = (w + n) % Wrap
    BY <1>13, <2>1, WrapNumbers, RemainderRound
  <2> QED BY <2>1, <2>2
<1>15. /\ now - p + y + 1 = x.start + z \/ now - p + y + 1 = x.start + z + 1
       /\ x.start + z <= now + R
  <2>1. z = e - p + y \/ z = e - p + y + 1
    BY <1>11
  <2>2. z <= e + R /\ R \in Nat /\ x.start \in Nat /\ e \in Nat /\ p \in 0 .. e
    BY <1>1, <1>2, <1>5, <1>11
  <2> QED BY ONLY SMT, <1>6, <1>8, <2>1, <2>2, now \in Nat, z \in Nat
<1> QED BY <1>9, <1>10, <1>12, <1>13, <1>14, <1>15 DEF Aimed

\* An aimed event is foretold.
LEMMA AimedIsForetold ==
    ASSUME now \in Nat, Timed(t, now), t.mode = "CONT", NEW e0 \in 0 .. Overflow, NEW v,
           Aimed(t, v, t.ev[e0], now)
    PROVE  Foretold(e0, v)
<1> DEFINE a == t.clk.num
           b == t.clk.den
           R == Round(t.clk)
           T == t.ev[e0]
<1>1. /\ a \in Nat \ {0} /\ b \in Nat \ {0} /\ R \in Nat /\ R * b = Wrap * a /\ a >= b
      /\ t.start \in Nat /\ t.acc \in Nat /\ T \in Int /\ t.start <= now
  BY ClockFacts DEF Timed
<1>2. PICK e \in Nat, n \in Nat \ {0} :
        /\ Comes(a, b, e, n)
        /\ (t.acc + n) % Wrap = v
        /\ T = t.start + e \/ T = t.start + e + 1
        /\ t.start + e <= now + R
  BY DEF Aimed
<1>3. ASSUME NEW c \in Int, c >= t.start
      PROVE  counter_at(t, c) = (((c - t.start) * b) \div a + t.acc) % Wrap
  <2>1. ~(c < t.start)
    BY SMT, <1>1, <1>3
  <2>2. elapsed(t, c) = c - t.start
    BY <2>1 DEF elapsed
  <2> QED BY <2>2 DEF counter_at, big_counter, ticks
<1> HIDE DEF a, b, R
<1>4. e - 1 \in Nat /\ (e * b) \div a = n /\ ((e - 1) * b) \div a = n - 1
  BY <1>1, <1>2, TickAt
<1>5. Turns(v, t.start + e)
  <2>1. /\ t.start + e \in Int /\ t.start + e >= t.start /\ (t.start + e) - t.start = e
        /\ (t.start + e) - 1 \in Int /\ (t.start + e) - 1 >= t.start /\ ((t.start + e) - 1) - t.start = e - 1
    BY ONLY SMT, <1>1, <1>4, e \in Nat
  <2>2. counter_at(t, t.start + e) = (n + t.acc) % Wrap
    BY <1>3, <1>4, <2>1
  <2>3. counter_at(t, (t.start + e) - 1) = ((n - 1) + t.acc) % Wrap
    BY <1>3, <1>4, <2>1
  <2>4. n + t.acc = t.acc + n /\ (n - 1) + t.acc \in Int /\ ((n - 1) + t.acc) + 1 = t.acc + n /\ 1 \in 1 .. Wrap - 1
    BY ONLY SMT, <1>1, WrapNumbers, n \in Nat \ {0}
  <2>5. (((n - 1) + t.acc) + 1) % Wrap # ((n - 1) + t.acc) % Wrap
    BY <2>4, WrapNumbers, RemainderRound
  <2> QED BY <1>2, <2>2, <2>3, <2>4, <2>5 DEF Turns
<1>6. t.ev[e0] # Off
  BY SMT, <1>1, <1>2 DEF Off
<1>7. t.start + e \in T - 2 .. T
  BY ONLY SMT, <1>1, <1>2, e \in Nat
<1>8. ASSUME NEW c \in now + 1 .. T - 3, Turns(v, c) PROVE FALSE
  <2> DEFINE z == c - t.start
             m == (z * b) \div a
             l == ((z - 1) * b) \div a
  <2>1. /\ c \in Int /\ c >= t.start /\ c - 1 \in Int /\ c - 1 >= t.start /\ (c - 1) - t.start = z - 1
        /\ z \in Nat \ {0} /\ e < z + R /\ z < e
    BY ONLY SMT, <1>1, <1>2, now \in Nat, c \in now + 1 .. T - 3, e \in Nat
  <2>2. counter_at(t, c) = (m + t.acc) % Wrap /\ counter_at(t, c - 1) = (l + t.acc) % Wrap
    BY <1>3, <2>1
  <2> HIDE DEF z
  <2>3. m \in Nat /\ l \in Nat /\ n - Wrap <= m /\ m < n /\ (m = n - Wrap => l = m)
    <3>1. n \in Nat /\ Wrap \in Nat /\ R \in Nat /\ R * b = Wrap * a /\ Comes(a, b, e, n)
      BY <1>1, <1>2, WrapNumbers
    <3>2. a \in Nat \ {0} /\ b \in Nat \ {0} /\ z \in Nat \ {0} /\ e < z + R /\ z < e
      BY <1>1, <2>1
    <3>3. Within(a, b, e, n, Wrap, R, z)
      BY <3>1, <3>2, WithinRound
    <3> QED BY <3>3 DEF Within
  <2> HIDE DEF m, l
  <2>4. CASE m = n - Wrap
    BY <1>8, <2>2, <2>3, <2>4 DEF Turns
  <2>5. CASE m # n - Wrap
    <3> DEFINE d == n - m
    <3>1. d \in 1 .. Wrap - 1 /\ m + t.acc \in Int /\ (m + t.acc) + d = t.acc + n
      BY ONLY SMT, <1>1, <2>3, <2>5, WrapNumbers, n \in Nat \ {0}
    <3> HIDE DEF d
    <3>2. (t.acc + n) % Wrap # (m + t.acc) % Wrap
      <4>1. ((m + t.acc) + d) % Wrap # (m + t.acc) % Wrap
        BY <3>1, WrapNumbers, RemainderRound
      <4> QED BY <3>1, <4>1
    <3> QED BY <1>2, <1>8, <2>2, <3>2 DEF Turns
  <2> QED BY <2>4, <2>5
<1> QED BY <1>5, <1>6, <1>7, <1>8 DEF Foretold

-----------------------------------------------------------------------------
(* The counter, its reference point and the predictions.                   *)

LEMMA TicksToMatch ==
    ASSUME now \in Nat, NEW x, Timed(x, now), NEW i \in Channels, x.mode # "STOP", matches(x, i)
    PROVE  /\ ticks_to_match(x, i) \in Int
           /\ x.mode = "CONT" => /\ ticks_to_match(x, i) \in 1 .. Wrap
                                 /\ (x.counter + ticks_to_match(x, i)) % Wrap = x.ccr[i]
<1> DEFINE v == x.ccr[i]
           top == x.ccr[0]
           pos == big_counter(x, now) % (2 * top)
           n == ticks_to_match(x, i)
<1>1. v \in 0 .. Wrap - 1 /\ top \in 0 .. Wrap - 1 /\ x.counter \in 0 .. Wrap - 1 /\ x.mode \in Modes
  BY ChannelNumbers DEF Timed
<1>2. big_counter(x, now) \in Int
  <2>1. big_counter(x, now) \in Nat
    BY Position
  <2> QED BY SMT, <2>1
<1>3. CASE x.mode = "CONT"
  <2>1. n = IF v > x.counter THEN v - x.counter ELSE Wrap - x.counter + v
    BY <1>3 DEF ticks_to_match
  <2> HIDE DEF v, n
  <2>2. n \in 1 .. Wrap
    BY ONLY SMT, <1>1, <2>1, WrapNumbers
  <2>3. (x.counter + n) % Wrap = v
    <3>1. CASE v > x.counter
      <4>1. x.counter + n = 0 * Wrap + v /\ 0 \in Int
        <5>1. 0 * Wrap = 0
          BY SMT, WrapNumbers
        <5> QED BY ONLY SMT, <1>1, <2>1, <3>1, <5>1, WrapNumbers
      <4> QED BY <1>1, <4>1, WrapNumbers, RemainderIs
    <3>2. CASE ~(v > x.counter)
      <4>1. x.counter + n = 1 * Wrap + v /\ 1 \in Int
        <5>1. 1 * Wrap = Wrap
          BY SMT, WrapNumbers
        <5> QED BY ONLY SMT, <1>1, <2>1, <3>2, <5>1, WrapNumbers
      <4> QED BY <1>1, <4>1, WrapNumbers, RemainderIs
    <3> QED BY <3>1, <3>2
  <2>4. n \in Int
    BY ONLY SMT, <2>2
  <2> QED BY <2>2, <2>3, <2>4 DEF n, v
<1>4. CASE x.mode = "UP"
  <2>1. x.mode # "CONT"
    BY <1>4
  <2>2. n = IF i = 0 THEN (IF v > x.counter THEN v - x.counter ELSE v + 1)
            ELSE (IF v > x.counter /\ v <= top THEN v - x.counter ELSE top + 1 - x.counter + v)
    BY <1>4 DEF ticks_to_match
  <2> HIDE DEF v, n, top
  <2>3. n \in Int
    BY ONLY SMT, <1>1, <2>2, WrapNumbers
  <2> QED BY <2>1, <2>3 DEF n
<1>5. CASE x.mode = "UPDOWN"
  <2>1. x.mode # "CONT"
    BY <1>5
  <2>2. n = Min({ahead(v - pos, 2 * top), ahead(2 * top - v - pos, 2 * top)})
    BY <1>5 DEF ticks_to_match
  <2>3. top > 0
    BY <1>5 DEF matches
  <2>4. 2 * top \in Nat \ {0}
    BY SMT, <1>1, <2>3, WrapNumbers
  <2>5. pos \in Int
    <3>1. pos \in 0 .. 2 * top - 1
      BY <1>2, <2>4, Quotient
    <3> HIDE DEF pos
    <3> QED BY ONLY SMT, <3>1
  <2> HIDE DEF v, n, top, pos
  <2>6. ASSUME NEW k \in Int PROVE ahead(k, 2 * top) \in Nat
    <3>1. k % (2 * top) \in 0 .. 2 * top - 1
      BY <2>4, Quotient
    <3> QED BY ONLY SMT, <2>4, <3>1 DEF ahead
  <2>7. v - pos \in Int /\ 2 * top - v - pos \in Int
    BY ONLY SMT, <1>1, <2>4, <2>5, WrapNumbers
  <2> DEFINE T == {ahead(v - pos, 2 * top), ahead(2 * top - v - pos, 2 * top)}
  <2>8. T \subseteq Nat /\ T # {}
    BY <2>6, <2>7
  <2>9. Min(T) \in T
    BY <2>8, MinFacts
  <2>10. n \in Nat
    BY <2>2, <2>8, <2>9
  <2>11. n \in Int
    BY SMT, <2>10
  <2> QED BY <2>1, <2>11 DEF n
<1> QED BY <1>1, <1>3, <1>4, <1>5 DEF Modes

LEMMA TicksToOverflow ==
    ASSUME now \in Nat, NEW x, Timed(x, now), x.mode # "STOP", ~(x.mode = "UPDOWN" /\ x.ccr[0] = 0)
    PROVE  /\ ticks_to_overflow(x) \in Int
           /\ x.mode = "CONT" => /\ ticks_to_overflow(x) \in 1 .. Wrap
                                 /\ (x.counter + ticks_to_overflow(x)) % Wrap = 0
<1> DEFINE top == x.ccr[0]
           n == ticks_to_overflow(x)
           pos == big_counter(x, now) % (2 * top)
<1>1. top \in 0 .. Wrap - 1 /\ x.counter \in 0 .. Wrap - 1 /\ x.mode \in Modes
  BY ChannelNumbers DEF Timed
<1>2. big_counter(x, now) \in Int
  <2>1. big_counter(x, now) \in Nat
    BY Position
  <2> QED BY SMT, <2>1
<1>3. CASE x.mode = "CONT"
  <2>1. n = Wrap - x.counter
    BY <1>3 DEF ticks_to_overflow
  <2> HIDE DEF n
  <2>2. n \in 1 .. Wrap /\ n \in Int
    BY ONLY SMT, <1>1, <2>1, WrapNumbers
  <2>3. (x.counter + n) % Wrap = 0
    <3>1. x.counter + n = 1 * Wrap + 0 /\ 1 \in Int
      <4>1. 1 * Wrap = Wrap
        BY SMT, WrapNumbers
      <4> QED BY ONLY SMT, <1>1, <2>1, <4>1, WrapNumbers
    <3> QED BY <3>1, WrapNumbers, RemainderIs
  <2> QED BY <2>2, <2>3 DEF n
<1>4. CASE x.mode = "UP"
  <2>1. x.mode # "CONT" /\ n = IF top > 0 THEN top + 1 - x.counter ELSE Wrap
    BY <1>4 DEF ticks_to_overflow
  <2> HIDE DEF n, top
  <2>2. n \in Int
    BY ONLY SMT, <1>1, <2>1, WrapNumbers
  <2> QED BY <2>1, <2>2 DEF n
<1>5. CASE x.mode = "UPDOWN"
  <2>1. x.mode # "CONT" /\ n = 2 * top - pos
    BY <1>5 DEF ticks_to_overflow
  <2>2. 2 * top \in Nat \ {0}
    BY SMT, <1>1, <1>5, WrapNumbers
  <2>3. pos \in 0 .. 2 * top - 1
    BY <1>2, <2>2, Quotient
  <2> HIDE DEF n, top, pos
  <2>4. n \in Int
    BY ONLY SMT, <2>1, <2>2, <2>3
  <2> QED BY <2>1, <2>4 DEF n
<1> QED BY <1>1, <1>3, <1>4, <1>5 DEF Modes

LEMMA CycleNumbers ==
    ASSUME now \in Nat, NEW x, Timed(x, now), NEW n \in Int
    PROVE  /\ cycles_of(x, n) \in Int /\ fire_cycle(x, n) \in Int
           /\ now + cycles_of(x, n) \in Int
<1>1. x.clk.num \in Nat \ {0} /\ x.clk.den \in Nat \ {0} /\ x.passed \in Int
  BY ClockFacts DEF Timed
<1> DEFINE k == n * x.clk.num
<1>2. k \in Int
  BY SMT, <1>1
<1> HIDE DEF k
<1>3. k \div x.clk.den \in Int
  BY <1>1, <1>2, Quotient
<1>4. cycles_of(x, n) \in Int
  BY <1>3 DEF cycles_of, k
<1>5. fire_cycle(x, n) \in Int /\ now + cycles_of(x, n) \in Int
  BY ONLY SMT, <1>1, <1>4, now \in Nat DEF fire_cycle
<1> QED BY <1>4, <1>5

-----------------------------------------------------------------------------
\* y is x but for the counter as last computed.
Looked(x, y) ==
    /\ y.cctl = x.cctl /\ y.mode = x.mode /\ y.sel = x.sel /\ y.ccr = x.ccr
    /\ y.start = x.start /\ y.acc = x.acc /\ y.clk = x.clk
    /\ y.interval = x.interval /\ y.expected = x.expected /\ y.ev = x.ev

LEMMA Sync ==
    ASSUME now \in Nat, NEW x, Timed(x, now)
    PROVE  /\ Timed(sync_counter(x), now) /\ Looked(x, sync_counter(x))
           /\ x.mode = "CONT" => Fresh(sync_counter(x))
<1> DEFINE s == sync_counter(x)
<1>1. CASE x.mode = "STOP"
  BY <1>1 DEF sync_counter, Looked
<1>2. CASE x.mode # "STOP"
  <2>1. /\ DOMAIN s = Fields /\ Looked(x, s)
        /\ s.counter = counter_at(x, now) /\ s.passed = part(x, now)
    BY <1>2 DEF Timed, Fields, Looked, sync_counter
  <2>2. part(x, now) \in Int
    <3>1. part(x, now) \in 0 .. (now - x.start)
      BY Position
    <3> QED BY ONLY SMT, <3>1
  <2>3. counter_at(x, now) \in 0 .. Wrap - 1
    BY CounterRange
  <2> HIDE DEF s
  <2>4. Timed(s, now)
    BY <2>1, <2>2, <2>3 DEF Timed, Looked
  <2>5. part(s, now) = part(x, now) /\ ticks(s, now) = ticks(x, now)
    BY <2>1 DEF Looked, part, ticks, elapsed
  <2>6. x.mode = "CONT" => counter_at(s, now) = counter_at(x, now)
    <3> SUFFICES ASSUME x.mode = "CONT" PROVE counter_at(s, now) = counter_at(x, now)
      OBVIOUS
    <3>1. counter_at(s, now) = big_counter(s, now) % Wrap /\ counter_at(x, now) = big_counter(x, now) % Wrap
      BY <2>1, <2>4, CounterRange DEF Looked
    <3>2. big_counter(s, now) = big_counter(x, now)
      BY <2>1, <2>5 DEF big_counter, Looked
    <3> QED BY <3>1, <3>2
  <2> QED BY <2>1, <2>4, <2>5, <2>6 DEF Fresh, s
<1> QED BY <1>1, <1>2

\* y is x but for the counter and its reference point.
Based(x, y) ==
    /\ y.cctl = x.cctl /\ y.mode = x.mode /\ y.sel = x.sel /\ y.ccr = x.ccr
    /\ y.counter = x.counter /\ y.clk = x.clk
    /\ y.interval = x.interval /\ y.expected = x.expected /\ y.ev = x.ev

LEMMA Reset ==
    ASSUME now \in Nat, NEW x, Timed(x, now)
    PROVE  /\ Timed(reset_counter(x), now) /\ Based(x, reset_counter(x))
           /\ x.mode = "CONT" => Fresh(reset_counter(x))
<1> DEFINE y == reset_counter(x)
           p == part(x, now)
           a == x.clk.num
           b == x.clk.den
<1>1. /\ DOMAIN y = Fields /\ Based(x, y)
      /\ y.passed = p /\ y.start = now - p /\ y.acc = x.counter
  BY DEF Timed, Fields, Based, reset_counter
<1>2. /\ x.start \in Nat /\ x.start <= now /\ x.counter \in 0 .. Wrap - 1
      /\ a \in Nat \ {0} /\ b \in Nat \ {0}
  BY ClockFacts DEF Timed
<1>3. p \in 0 .. (now - x.start) /\ now - x.start \in Nat /\ elapsed(x, now) = now - x.start
  BY Position
<1>4. (p * b) \div a = 0 /\ ((p * b) % a) \div b = p
  <2> DEFINE e == now - x.start
             w == ((e * b) % a) \div b
  <2>1. e \in Nat /\ p = w
    BY <1>3 DEF part
  <2> HIDE DEF e, a, b
  <2>2. (w * b) \div a = 0 /\ ((w * b) % a) \div b = w
    BY <1>2, <2>1, Progress
  <2> HIDE DEF p
  <2> QED BY <2>1, <2>2
<1> HIDE DEF y, p
<1>5. now - p \in Nat /\ now - p <= now /\ p \in Int /\ now - (now - p) = p /\ ~(now < now - p)
  BY ONLY SMT, <1>2, <1>3, now \in Nat
<1>6. x.counter \in Nat /\ 0 + x.counter = x.counter
  BY ONLY SMT, <1>2, WrapNumbers
<1>7. Timed(y, now)
  BY <1>1, <1>5, <1>6 DEF Timed, Based
<1>8. elapsed(y, now) = p
  BY <1>1, <1>5 DEF elapsed
<1>9. ticks(y, now) = 0 /\ part(y, now) = p
  BY <1>1, <1>4, <1>8 DEF ticks, part, Based
<1>10. ASSUME x.mode = "CONT" PROVE counter_at(y, now) = y.counter
  <2>1. counter_at(y, now) = big_counter(y, now) % Wrap
    BY <1>1, <1>7, <1>10, CounterRange DEF Based
  <2>2. big_counter(y, now) = x.counter
    BY <1>1, <1>6, <1>9 DEF big_counter
  <2>3. x.counter % Wrap = x.counter
    <3>1. 0 * Wrap + x.counter = x.counter /\ 0 \in Int
      BY SMT, <1>2, WrapNumbers
    <3>2. (0 * Wrap + x.counter) % Wrap = x.counter
      BY <1>2, <3>1, WrapNumbers, RemainderIs
    <3> QED BY <3>1, <3>2
  <2> QED BY <1>1, <2>1, <2>2, <2>3 DEF Based
<1> QED BY <1>1, <1>7, <1>9, <1>10 DEF Fresh, y

\* y is x but for the counter, its reference point and its clock.
Clocked(x, y) ==
    /\ y.cctl = x.cctl /\ y.mode = x.mode /\ y.sel = x.sel /\ y.ccr = x.ccr
    /\ y.interval = x.interval /\ y.expected = x.expected /\ y.ev = x.ev

LEMMA NewClock ==
    ASSUME now \in Nat, NEW x, Timed(x, now), NEW k \in WholeClock
    PROVE  /\ Timed(update_cycles_per_tick(x, k), now) /\ Clocked(x, update_cycles_per_tick(x, k))
           /\ x.mode = "CONT" /\ Fresh(x) => Fresh(update_cycles_per_tick(x, k))
<1>1. CASE k # x.clk /\ x.mode # "STOP"
  <2> DEFINE s == sync_counter(x)
             r == [s EXCEPT !.clk = k]
  <2>1. Timed(s, now) /\ Looked(x, s)
    BY Sync
  <2>2. update_cycles_per_tick(x, k) = reset_counter(r)
    BY <1>1 DEF update_cycles_per_tick
  <2> HIDE DEF s
  <2>3. Timed(r, now) /\ Clocked(x, r)
    <3>1. /\ DOMAIN r = Fields /\ r.clk = k
          /\ r.cctl = s.cctl /\ r.mode = s.mode /\ r.sel = s.sel /\ r.ccr = s.ccr
          /\ r.start = s.start /\ r.acc = s.acc /\ r.counter = s.counter /\ r.passed = s.passed
          /\ r.interval = s.interval /\ r.expected = s.expected /\ r.ev = s.ev
      BY <2>1 DEF Timed, Fields
    <3> HIDE DEF r
    <3> QED BY <2>1, <3>1 DEF Timed, Looked, Clocked
  <2> HIDE DEF r
  <2>4. Timed(reset_counter(r), now) /\ Based(r, reset_counter(r)) /\ (r.mode = "CONT" => Fresh(reset_counter(r)))
    BY <2>3, Reset
  <2> QED BY <2>2, <2>3, <2>4 DEF Based, Clocked
<1>2. CASE ~(k # x.clk /\ x.mode # "STOP")
  <2> DEFINE r == [x EXCEPT !.clk = k]
  <2>1. update_cycles_per_tick(x, k) = r
    BY <1>2 DEF update_cycles_per_tick
  <2>2. /\ DOMAIN r = Fields /\ r.clk = k
        /\ r.cctl = x.cctl /\ r.mode = x.mode /\ r.sel = x.sel /\ r.ccr = x.ccr
        /\ r.start = x.start /\ r.acc = x.acc /\ r.counter = x.counter /\ r.passed = x.passed
        /\ r.interval = x.interval /\ r.expected = x.expected /\ r.ev = x.ev
    BY DEF Timed, Fields
  <2> HIDE DEF r
  <2>3. Timed(r, now) /\ Clocked(x, r)
    BY <2>2 DEF Timed, Clocked
  <2>4. ASSUME x.mode = "CONT", Fresh(x) PROVE Fresh(r)
    <3>1. r.clk = x.clk
      BY <1>2, <2>2, <2>4
    <3>2. part(r, now) = part(x, now) /\ big_counter(r, now) = big_counter(x, now)
      BY <2>2, <3>1 DEF part, big_counter, ticks, elapsed
    <3>3. counter_at(r, now) = counter_at(x, now)
      BY <2>2, <2>3, <2>4, <3>2, CounterRange
    <3> QED BY <2>2, <2>4, <3>2, <3>3 DEF Fresh
  <2> QED BY <2>1, <2>3, <2>4
<1> QED BY <1>1, <1>2

-----------------------------------------------------------------------------
\* y is x but for its events.
Scheduled(x, y) ==
    /\ y.cctl = x.cctl /\ y.mode = x.mode /\ y.sel = x.sel /\ y.ccr = x.ccr
    /\ y.start = x.start /\ y.acc = x.acc /\ y.clk = x.clk
    /\ y.counter = x.counter /\ y.passed = x.passed

LEMMA ScheduledFresh ==
    ASSUME now \in Nat, NEW x, NEW y, Timed(x, now), Timed(y, now), Scheduled(x, y), x.mode = "CONT", Fresh(x)
    PROVE  Fresh(y)
<1>1. part(y, now) = part(x, now) /\ big_counter(y, now) = big_counter(x, now)
  BY DEF Scheduled, part, big_counter, ticks, elapsed
<1>2. counter_at(y, now) = counter_at(x, now)
  BY <1>1, CounterRange DEF Scheduled
<1> QED BY <1>1, <1>2 DEF Fresh, Scheduled

LEMMA AimedSame ==
    ASSUME NEW x, NEW y, y.start = x.start, y.acc = x.acc, y.clk = x.clk, NEW v, NEW T, NEW c,
           Aimed(x, v, T, c)
    PROVE  Aimed(y, v, T, c)
BY DEF Aimed

\* Channel i of x has its event, if it compares.
Aims(x, i) == x.cctl[i].input = "compare" => Aimed(x, x.ccr[i], x.ev[i], now)

LEMMA AimsSame ==
    ASSUME NEW x, NEW y, NEW i, Scheduled(x, y), y.ev[i] = x.ev[i], Aims(x, i)
    PROVE  Aims(y, i)
<1>1. y.cctl[i] = x.cctl[i] /\ y.ccr[i] = x.ccr[i]
  BY DEF Scheduled
<1>2. Aimed(x, x.ccr[i], x.ev[i], now) => Aimed(y, x.ccr[i], x.ev[i], now)
  BY AimedSame DEF Scheduled
<1> QED BY <1>1, <1>2 DEF Aims

LEMMA ScheduleChannel ==
    ASSUME now \in Nat, NEW x, Timed(x, now), NEW i \in Channels
    PROVE  /\ Timed(schedule_ccr_event(x, i), now) /\ Scheduled(x, schedule_ccr_event(x, i))
           /\ \A e \in 0 .. Overflow : e # i => schedule_ccr_event(x, i).ev[e] = x.ev[e]
           /\ x.mode = "CONT" /\ Fresh(x) => Aims(schedule_ccr_event(x, i), i)
<1> DEFINE y == schedule_ccr_event(x, i)
<1>0. i \in 0 .. Overflow /\ Overflow # i
  BY WrapNumbers
<1>1. CASE x.mode = "STOP"
  BY <1>1 DEF schedule_ccr_event, Scheduled
<1>2. CASE x.mode # "STOP" /\ x.cctl[i].input # "compare"
  <2>1. y = schedule_capture(x, i)
    BY <1>2 DEF schedule_ccr_event
  <2>2. CASE x.cctl[i].cm = {} \/ x.cctl[i].input = "none"
    <3>1. y = x
      BY <2>1, <2>2 DEF schedule_capture
    <3> QED BY <1>2, <3>1 DEF Scheduled, Aims
  <2>3. CASE ~(x.cctl[i].cm = {} \/ x.cctl[i].input = "none")
    <3> DEFINE interval == IF x.cctl[i].input = "aclk" THEN x.clk.cap ELSE PinInterval
               base == IF x.cctl[i].input = "aclk" THEN x.ccr[i] ELSE x.counter
               E == (base + interval) % Wrap
               T == now + cycles_of(x, interval)
    <3>1. y = [x EXCEPT !.interval[i] = interval, !.expected[i] = E, !.ev[i] = T]
      BY <2>1, <2>3 DEF schedule_capture
    <3>2. interval \in Nat /\ base \in 0 .. Wrap - 1
      BY ClockFacts, TimerAssumption DEF Timed
    <3>3. T \in Int
      <4>1. interval \in Int
        BY SMT, <3>2
      <4> HIDE DEF interval
      <4> QED BY <4>1, CycleNumbers
    <3>4. E \in 0 .. Wrap - 1
      <4>1. base + interval \in Int
        <5> HIDE DEF base, interval
        <5> QED BY ONLY SMT, <3>2, WrapNumbers
      <4> HIDE DEF base, interval
      <4> QED BY <4>1, WrapNumbers, Quotient
    <3> HIDE DEF interval, E, T, y
    <3>5. /\ DOMAIN y = Fields /\ Scheduled(x, y)
          /\ y.interval = [x.interval EXCEPT ![i] = interval]
          /\ y.expected = [x.expected EXCEPT ![i] = E]
          /\ y.ev = [x.ev EXCEPT ![i] = T]
      BY <3>1 DEF Timed, Fields, Scheduled
    <3>6. /\ y.interval \in [Channels -> Nat] /\ y.expected \in [Channels -> 0 .. Wrap - 1]
          /\ y.ev \in [0 .. Overflow -> Int]
          /\ \A e \in 0 .. Overflow : e # i => y.ev[e] = x.ev[e]
      <4>1. y.interval \in [Channels -> Nat]
        BY <3>2, <3>5 DEF Timed
      <4>2. y.expected \in [Channels -> 0 .. Wrap - 1]
        <5>1. x.expected \in [Channels -> 0 .. Wrap - 1]
          BY DEF Timed
        <5> QED BY ONLY Zenon, <3>4, <3>5, <5>1
      <4>3. y.ev \in [0 .. Overflow -> Int] /\ \A e \in 0 .. Overflow : e # i => y.ev[e] = x.ev[e]
        <5>1. x.ev \in [0 .. Overflow -> Int]
          BY DEF Timed
        <5> QED BY ONLY Zenon, <1>0, <3>3, <3>5, <5>1
      <4> QED BY <4>1, <4>2, <4>3
    <3>7. Timed(y, now)
      BY <3>5, <3>6 DEF Timed, Scheduled
    <3>8. Aims(y, i)
      BY <1>2, <3>5 DEF Aims, Scheduled
    <3> QED BY <3>5, <3>6, <3>7, <3>8 DEF y
  <2> QED BY <2>2, <2>3
<1>3. CASE x.mode # "STOP" /\ x.cctl[i].input = "compare" /\ ~matches(x, i)
  <2>1. y = x /\ x.mode # "CONT"
    BY <1>3 DEF schedule_ccr_event, matches
  <2> QED BY <2>1 DEF Scheduled
<1>4. CASE x.mode # "STOP" /\ x.cctl[i].input = "compare" /\ matches(x, i)
  <2> DEFINE n == ticks_to_match(x, i)
             T == fire_cycle(x, n)
  <2>1. y = [x EXCEPT !.ev[i] = T]
    BY <1>4 DEF schedule_ccr_event
  <2>2. n \in Int /\ (x.mode = "CONT" => n \in 1 .. Wrap /\ (x.counter + n) % Wrap = x.ccr[i])
    BY <1>4, TicksToMatch
  <2> HIDE DEF n
  <2>3. T \in Int
    BY <2>2, CycleNumbers
  <2>4. x.mode = "CONT" /\ Fresh(x) => Aimed(x, x.ccr[i], T, now)
    <3> SUFFICES ASSUME x.mode = "CONT", Fresh(x) PROVE Aimed(x, x.ccr[i], T, now)
      OBVIOUS
    <3>1. Aimed(x, (x.counter + n) % Wrap, fire_cycle(x, n), now)
      BY <2>2, AimedFirst
    <3> QED BY <2>2, <3>1
  <2> HIDE DEF T, y
  <2>5. DOMAIN y = Fields /\ Scheduled(x, y) /\ y.ev = [x.ev EXCEPT ![i] = T]
        /\ y.interval = x.interval /\ y.expected = x.expected
    BY <2>1 DEF Timed, Fields, Scheduled
  <2>6. y.ev \in [0 .. Overflow -> Int] /\ y.ev[i] = T
        /\ \A e \in 0 .. Overflow : e # i => y.ev[e] = x.ev[e]
    BY <1>0, <2>3, <2>5 DEF Timed
  <2>7. Timed(y, now)
    BY <2>5, <2>6 DEF Timed, Scheduled
  <2>8. x.mode = "CONT" /\ Fresh(x) => Aims(y, i)
    BY <2>4, <2>5, <2>6 DEF Aims, Aimed, Scheduled
  <2> QED BY <2>5, <2>6, <2>7, <2>8 DEF y
<1> QED BY <1>1, <1>2, <1>3, <1>4

LEMMA ScheduleOverflow ==
    ASSUME now \in Nat, NEW x, Timed(x, now)
    PROVE  /\ Timed(schedule_overflow_event(x), now) /\ Scheduled(x, schedule_overflow_event(x))
           /\ \A i \in Channels : schedule_overflow_event(x).ev[i] = x.ev[i]
           /\ x.mode = "CONT" /\ Fresh(x) =>
                 Aimed(schedule_overflow_event(x), 0, schedule_overflow_event(x).ev[Overflow], now)
<1> DEFINE y == schedule_overflow_event(x)
<1>1. CASE x.mode = "STOP" \/ (x.mode = "UPDOWN" /\ x.ccr[0] = 0)
  <2>1. y = x /\ x.mode # "CONT"
    BY <1>1 DEF schedule_overflow_event
  <2> QED BY <2>1 DEF Scheduled
<1>2. CASE ~(x.mode = "STOP" \/ (x.mode = "UPDOWN" /\ x.ccr[0] = 0))
  <2> DEFINE n == ticks_to_overflow(x)
             T == fire_cycle(x, n)
  <2>1. y = [x EXCEPT !.ev[Overflow] = T]
    BY <1>2 DEF schedule_overflow_event
  <2>2. n \in Int /\ (x.mode = "CONT" => n \in 1 .. Wrap /\ (x.counter + n) % Wrap = 0)
    BY <1>2, TicksToOverflow
  <2> HIDE DEF n
  <2>3. T \in Int
    BY <2>2, CycleNumbers
  <2>4. x.mode = "CONT" /\ Fresh(x) => Aimed(x, 0, T, now)
    <3> SUFFICES ASSUME x.mode = "CONT", Fresh(x) PROVE Aimed(x, 0, T, now)
      OBVIOUS
    <3>1. Aimed(x, (x.counter + n) % Wrap, fire_cycle(x, n), now)
      BY <2>2, AimedFirst
    <3> QED BY <2>2, <3>1
  <2> HIDE DEF T, y
  <2>5. DOMAIN y = Fields /\ Scheduled(x, y) /\ y.ev = [x.ev EXCEPT ![Overflow] = T]
        /\ y.interval = x.interval /\ y.expected = x.expected
    BY <2>1 DEF Timed, Fields, Scheduled
  <2>6. y.ev \in [0 .. Overflow -> Int] /\ y.ev[Overflow] = T
        /\ \A i \in Channels : y.ev[i] = x.ev[i]
    <3>1. x.ev \in [0 .. Overflow -> Int] /\ y.ev = [x.ev EXCEPT ![Overflow] = T]
      BY <2>5 DEF Timed
    <3>2. y.ev \in [0 .. Overflow -> Int] /\ y.ev[Overflow] = T
          /\ \A d \in 0 .. Overflow : d # Overflow => y.ev[d] = x.ev[d]
      <4>1. Overflow \in 0 .. Overflow
        BY WrapNumbers
      <4> QED BY ONLY Zenon, <2>3, <3>1, <4>1
    <3> QED BY <3>2, WrapNumbers
  <2>7. Timed(y, now)
    BY <2>5, <2>6 DEF Timed, Scheduled
  <2>8. x.mode = "CONT" /\ Fresh(x) => Aimed(y, 0, y.ev[Overflow], now)
    BY <2>4, <2>5, <2>6 DEF Aimed, Scheduled
  <2> QED BY <2>5, <2>6, <2>7, <2>8 DEF y
<1> QED BY <1>1, <1>2

LEMMA ScheduleChannels ==
    ASSUME now \in Nat, NEW x, Timed(x, now), NEW I \in SUBSET Channels
    PROVE  /\ Timed(schedule_ccr_events(x, I), now) /\ Scheduled(x, schedule_ccr_events(x, I))
           /\ x.mode = "CONT" /\ Fresh(x) => \A i \in I : Aims(schedule_ccr_events(x, I), i)
<1> DEFINE y == schedule_ccr_events(x, I)
           z(e) == schedule_ccr_event(x, e)
<1>1. /\ DOMAIN y = Fields /\ Scheduled(x, y)
      /\ y.ev = [e \in 0 .. Overflow |-> IF e \in I THEN z(e).ev[e] ELSE x.ev[e]]
      /\ y.interval = [e \in Channels |-> IF e \in I THEN z(e).interval[e] ELSE x.interval[e]]
      /\ y.expected = [e \in Channels |-> IF e \in I THEN z(e).expected[e] ELSE x.expected[e]]
  <2>1. DOMAIN x.ev = 0 .. Overflow /\ DOMAIN x.interval = Channels /\ DOMAIN x.expected = Channels
        /\ DOMAIN x = Fields
    BY DEF Timed
  <2> QED BY <2>1 DEF Fields, Scheduled, schedule_ccr_events
<1> HIDE DEF y
<1>2. ASSUME NEW i \in I
      PROVE  /\ Timed(z(i), now) /\ Scheduled(x, z(i))
             /\ x.mode = "CONT" /\ Fresh(x) => Aims(z(i), i)
  <2>1. i \in Channels
    OBVIOUS
  <2> QED BY <2>1, ScheduleChannel
<1> HIDE DEF z
<1>3. /\ y.ev \in [0 .. Overflow -> Int]
      /\ y.interval \in [Channels -> Nat] /\ y.expected \in [Channels -> 0 .. Wrap - 1]
  <2>1. \A e \in I : /\ e \in 0 .. Overflow /\ z(e).ev[e] \in Int /\ z(e).interval[e] \in Nat
                     /\ z(e).expected[e] \in 0 .. Wrap - 1
    <3>1. ASSUME NEW q, Timed(q, now), NEW i \in Channels
          PROVE  q.ev[i] \in Int /\ q.interval[i] \in Nat /\ q.expected[i] \in 0 .. Wrap - 1
      <4>1. i \in 0 .. Overflow
        BY WrapNumbers
      <4> QED BY <3>1, <4>1 DEF Timed
    <3> QED BY <1>2, <3>1, WrapNumbers
  <2>2. /\ \A e \in 0 .. Overflow : x.ev[e] \in Int
        /\ \A e \in Channels : x.interval[e] \in Nat /\ x.expected[e] \in 0 .. Wrap - 1
    BY DEF Timed
  <2>3. y.ev \in [0 .. Overflow -> Int]
    BY <1>1, <2>1, <2>2
  <2>4. y.interval \in [Channels -> Nat]
    BY <1>1, <2>1, <2>2
  <2>5. y.expected \in [Channels -> 0 .. Wrap - 1]
    BY <1>1, <2>1, <2>2
  <2> QED BY <2>3, <2>4, <2>5
<1>4. Timed(y, now)
  BY <1>1, <1>3 DEF Timed, Scheduled
<1>5. ASSUME x.mode = "CONT", Fresh(x), NEW i \in I PROVE Aims(y, i)
  <2>1. i \in 0 .. Overflow
    BY WrapNumbers
  <2>2. y.ev[i] = z(i).ev[i]
    BY <1>1, <2>1
  <2>3. Scheduled(x, z(i)) /\ Aims(z(i), i)
    BY <1>2, <1>5
  <2>4. Scheduled(z(i), y)
    BY <1>1, <2>3 DEF Scheduled
  <2> QED BY <2>2, <2>3, <2>4, AimsSame
<1> QED BY <1>1, <1>4, <1>5 DEF y

LEMMA ScheduleAll ==
    ASSUME now \in Nat, NEW x, Timed(x, now)
    PROVE  /\ Timed(schedule_all_events(x), now) /\ Armed(schedule_all_events(x), now)
<1> DEFINE s == sync_counter(x)
           e == schedule_ccr_events(s, Channels)
           y == schedule_overflow_event(e)
<1>1. Timed(s, now) /\ (x.mode = "CONT" => Fresh(s)) /\ s.mode = x.mode
  BY Sync DEF Looked
<1> HIDE DEF s
<1>2. /\ Timed(e, now) /\ Scheduled(s, e)
      /\ s.mode = "CONT" /\ Fresh(s) => \A i \in Channels : Aims(e, i)
  BY <1>1, ScheduleChannels
<1> HIDE DEF e
<1>3. s.mode = "CONT" => Fresh(e)
  BY <1>1, <1>2, ScheduledFresh
<1>4. /\ Timed(y, now) /\ Scheduled(e, y) /\ \A i \in Channels : y.ev[i] = e.ev[i]
      /\ e.mode = "CONT" /\ Fresh(e) => Aimed(y, 0, y.ev[Overflow], now)
  BY <1>2, ScheduleOverflow
<1>5. schedule_all_events(x) = y
  BY DEF schedule_all_events, s, e
<1> HIDE DEF y
<1>6. ASSUME y.mode = "CONT" PROVE Aimed(y, 0, y.ev[Overflow], now) /\ \A i \in Channels : Aims(y, i)
  <2>1. e.mode = "CONT" /\ s.mode = "CONT"
    BY <1>2, <1>4, <1>6 DEF Scheduled
  <2>2. \A i \in Channels : Aims(e, i)
    BY <1>1, <1>2, <2>1
  <2>3. \A i \in Channels : Aims(y, i)
    BY <1>4, <2>2, AimsSame
  <2> QED BY <1>3, <1>4, <2>1, <2>3
<1>7. Armed(y, now)
  BY <1>6 DEF Armed, Aims
<1> QED BY <1>4, <1>5, <1>7

-----------------------------------------------------------------------------
(* The steps, for the alarms.                                              *)

\* y is x but for its interrupts.
Silent(x, y) ==
    /\ DOMAIN y = Fields
    /\ \A i \in Channels : y.cctl[i].input = x.cctl[i].input
    /\ y.mode = x.mode /\ y.sel = x.sel /\ y.ccr = x.ccr
    /\ y.start = x.start /\ y.acc = x.acc /\ y.clk = x.clk
    /\ y.counter = x.counter /\ y.passed = x.passed
    /\ y.interval = x.interval /\ y.expected = x.expected /\ y.ev = x.ev

LEMMA SilentTrans ==
    ASSUME NEW x, NEW y, NEW z, Silent(x, y), Silent(y, z)
    PROVE  Silent(x, z)
BY DEF Silent

LEMMA SilentKeeps ==
    ASSUME NEW c, NEW x, NEW y, Timed(x, c), Silent(x, y)
    PROVE  Timed(y, c) /\ (Armed(x, c) => Armed(y, c))
<1>1. Timed(y, c)
  BY DEF Timed, Silent
<1>2. ASSUME Armed(x, c), y.mode = "CONT"
      PROVE  /\ \A i \in Channels : y.cctl[i].input = "compare" => Aimed(y, y.ccr[i], y.ev[i], c)
             /\ Aimed(y, 0, y.ev[Overflow], c)
  <2>1. x.mode = "CONT" /\ y.start = x.start /\ y.acc = x.acc /\ y.clk = x.clk /\ y.ccr = x.ccr /\ y.ev = x.ev
    BY <1>2 DEF Silent
  <2>2. ASSUME NEW i \in Channels, y.cctl[i].input = "compare" PROVE Aimed(y, y.ccr[i], y.ev[i], c)
    <3>1. Aimed(x, x.ccr[i], x.ev[i], c)
      BY <1>2, <2>1, <2>2 DEF Armed, Silent
    <3>2. Aimed(y, x.ccr[i], x.ev[i], c)
      BY <2>1, <3>1, AimedSame
    <3> QED BY <2>1, <3>2
  <2>3. Aimed(y, 0, y.ev[Overflow], c)
    <3>1. Aimed(x, 0, x.ev[Overflow], c)
      BY <1>2, <2>1 DEF Armed
    <3>2. Aimed(y, 0, x.ev[Overflow], c)
      BY <2>1, <3>1, AimedSame
    <3> QED BY <2>1, <3>2
  <2> QED BY <2>2, <2>3
<1> QED BY <1>1, <1>2 DEF Armed

LEMMA Silences ==
    ASSUME NEW x, DOMAIN x = Fields
    PROVE  /\ Silent(x, x)
           /\ \A i : Silent(x, trigger_ccr_interrupt(x, i))
           /\ Silent(x, reevaluate_tiv(x))
           /\ \A f : Silent(x, [x EXCEPT !.tifg = f])
           /\ \A q : Silent(x, [x EXCEPT !.irq = q])
           /\ \A l, q : Silent(x, [x EXCEPT !.last_tiv = l, !.irq = q])
<1>1. Silent(x, x)
  BY DEF Silent
<1>2. \A q : Silent(x, [x EXCEPT !.irq = q])
  BY DEF Silent, Fields
<1>3. \A l, q : Silent(x, [x EXCEPT !.last_tiv = l, !.irq = q])
  BY DEF Silent, Fields
<1>4. \A f : Silent(x, [x EXCEPT !.tifg = f])
  BY DEF Silent, Fields
<1>5. \A i : Silent(x, trigger_ccr_interrupt(x, i))
  BY DEF Silent, Fields, trigger_ccr_interrupt
<1>6. Silent(x, reevaluate_tiv(x))
  BY DEF Silent, Fields, reevaluate_tiv
<1> QED BY <1>1, <1>2, <1>3, <1>4, <1>5, <1>6

\* A flag of channel i is not its input.
LEMMA SameInputs ==
    ASSUME NEW f, f \in [Channels -> Cctl], NEW i, NEW k, i \in Channels => k.input = f[i].input
    PROVE  \A j \in Channels : [f EXCEPT ![i] = k][j].input = f[j].input
OBVIOUS

-----------------------------------------------------------------------------
LEMMA TimePasses ==
    ASSUME NEW c, NEW d, NEW x, Alarms(c, d, x), NEW n \in Nat, c <= n
    PROVE  Alarms(n, d, x)
<1>1. c \in Nat /\ d \in Dcos /\ Timed(x, c) /\ Armed(x, c)
  BY DEF Alarms
<1>2. x.start \in Nat /\ x.start <= c /\ x.clk \in WholeClock
  BY <1>1 DEF Timed
<1>3. x.start <= n
  BY ONLY SMT, <1>1, <1>2, n \in Nat, c <= n
<1>4. Timed(x, n)
  BY <1>1, <1>3 DEF Timed
<1>5. ASSUME NEW v, NEW T, Aimed(x, v, T, c) PROVE Aimed(x, v, T, n)
  BY <1>1, <1>2, <1>5, AimedKeeps
<1>6. Armed(x, n)
  BY <1>1, <1>5 DEF Armed
<1> QED BY <1>1, <1>4, <1>6 DEF Alarms

LEMMA AlarmExecute ==
    ASSUME Alarms(now, dco, t), Execute
    PROVE  Alarms(now', dco', t')
<1>1. PICK d \in 1 .. 2 : now' = now + d /\ dco' = dco /\ t' = t
  BY DEF Execute
<1>2. now' \in Nat /\ now <= now'
  <2>1. now \in Nat
    BY DEF Alarms
  <2> QED BY ONLY SMT, <1>1, <2>1, d \in 1 .. 2
<1> QED BY <1>1, <1>2, TimePasses

\* Nothing is due before the CPU sleeps, so it sleeps forward.
LEMMA AlarmSleep ==
    ASSUME Alarms(now, dco, t), Sleep
    PROVE  Alarms(now', dco', t')
<1> DEFINE queued == {t.ev[e] : e \in DOMAIN t.ev} \ {Off}
<1>1. Due = {} /\ queued # {} /\ now' = Min(queued) /\ dco' = dco /\ t' = t
  BY DEF Sleep
<1>2. now \in Nat /\ t.ev \in [0 .. Overflow -> Int]
  BY DEF Alarms, Timed
<1>3. ASSUME NEW T \in queued PROVE T \in Nat /\ now <= T
  <2>1. PICK e \in 0 .. Overflow : T = t.ev[e] /\ t.ev[e] # Off
    BY <1>2
  <2>2. ~(t.ev[e] <= now)
    BY <1>1, <2>1 DEF Due
  <2>3. T \in Int /\ ~(T <= now)
    BY <1>2, <2>1, <2>2
  <2> QED BY ONLY SMT, <1>2, <2>3
<1> HIDE DEF queued
<1>4. queued \subseteq Nat
  BY <1>3
<1>5. Min(queued) \in queued
  BY <1>1, <1>4, MinFacts
<1> QED BY <1>1, <1>3, <1>5, TimePasses

LEMMA AlarmService ==
    ASSUME TimerInv, Alarms(now, dco, t), service_interrupt
    PROVE  Alarms(now', dco', t')
<1> DEFINE v == IF 0 \in t.irq THEN 0 ELSE 1
           k == [t.cctl[0] EXCEPT !.ifg = @ /\ v # 0]
<1>1. /\ t' = [t EXCEPT !.irq = @ \ {v}, !.cctl[0].ifg = @ /\ v # 0]
      /\ now' = now + EntryCycles /\ dco' = dco
  BY DEF service_interrupt
<1>2. Shape(t) /\ DOMAIN t = Fields /\ t.cctl[0] \in Cctl /\ 0 \in Channels
  BY ChannelNumbers DEF TimerInv, Shape
<1>3. k.input = t.cctl[0].input
  BY <1>2 DEF Cctl
<1>4. Silent(t, t')
  <2> HIDE DEF v
  <2>1. /\ DOMAIN t' = Fields /\ t'.cctl = [t.cctl EXCEPT ![0] = k]
        /\ t'.mode = t.mode /\ t'.sel = t.sel /\ t'.ccr = t.ccr
        /\ t'.start = t.start /\ t'.acc = t.acc /\ t'.clk = t.clk
        /\ t'.counter = t.counter /\ t'.passed = t.passed
        /\ t'.interval = t.interval /\ t'.expected = t.expected /\ t'.ev = t.ev
    BY <1>1, <1>2 DEF Fields
  <2> HIDE DEF k
  <2>2. \A j \in Channels : [t.cctl EXCEPT ![0] = k][j].input = t.cctl[j].input
    BY <1>2, <1>3, SameInputs DEF Shape
  <2> QED BY <2>1, <2>2 DEF Silent
<1>5. now' \in Nat /\ now <= now'
  <2>1. now \in Nat /\ EntryCycles \in Nat
    BY TimerAssumption DEF Alarms
  <2> QED BY ONLY SMT, <1>1, <2>1
<1>6. Alarms(now', dco, t)
  BY <1>5, TimePasses
<1>7. now' \in Nat /\ dco \in Dcos /\ Timed(t, now') /\ Armed(t, now')
  BY <1>6 DEF Alarms
<1>8. Timed(t', now') /\ Armed(t', now')
  BY <1>4, <1>7, SilentKeeps
<1> QED BY <1>1, <1>7, <1>8 DEF Alarms

LEMMA AlarmIvRead ==
    ASSUME TimerInv, Alarms(now, dco, t), timer_iv_read
    PROVE  Alarms(now', dco', t')
<1> DEFINE tiv == t.last_tiv
           n == tiv \div 2
           k == [t.cctl[n] EXCEPT !.ifg = FALSE]
           cleared == IF tiv = overflow_tiv THEN [t EXCEPT !.tifg = FALSE]
                      ELSE [t EXCEPT !.cctl[n].ifg = FALSE]
<1>1. now' = now /\ dco' = dco /\ t' = IF tiv = 0 THEN t ELSE reevaluate_tiv(cleared)
  BY DEF timer_iv_read
<1>2. Shape(t) /\ DOMAIN t = Fields /\ t.cctl \in [Channels -> Cctl]
  BY DEF TimerInv, Shape
<1> HIDE DEF tiv, n
<1>3. Silent(t, cleared)
  <2>1. CASE tiv = overflow_tiv
    BY <1>2, <2>1, Silences
  <2>2. CASE tiv # overflow_tiv
    <3>1. n \in Channels => k.input = t.cctl[n].input
      BY <1>2 DEF Cctl
    <3>2. /\ DOMAIN cleared = Fields /\ cleared.cctl = [t.cctl EXCEPT ![n] = k]
          /\ cleared.mode = t.mode /\ cleared.sel = t.sel /\ cleared.ccr = t.ccr
          /\ cleared.start = t.start /\ cleared.acc = t.acc /\ cleared.clk = t.clk
          /\ cleared.counter = t.counter /\ cleared.passed = t.passed
          /\ cleared.interval = t.interval /\ cleared.expected = t.expected /\ cleared.ev = t.ev
      BY <1>2, <2>2 DEF Fields
    <3> HIDE DEF k, cleared
    <3>3. \A j \in Channels : [t.cctl EXCEPT ![n] = k][j].input = t.cctl[j].input
      BY <1>2, <3>1, SameInputs
    <3> QED BY <3>2, <3>3 DEF Silent
  <2> QED BY <2>1, <2>2
<1> HIDE DEF cleared
<1>4. Silent(cleared, reevaluate_tiv(cleared))
  BY <1>3 DEF Silent, Fields, reevaluate_tiv
<1>5. Silent(t, t')
  BY <1>1, <1>2, <1>3, <1>4, Silences, SilentTrans
<1> QED BY <1>1, <1>5, SilentKeeps DEF Alarms

LEMMA LookedArmed ==
    ASSUME NEW c, NEW x, NEW y, Looked(x, y), Armed(x, c)
    PROVE  Armed(y, c)
<1>1. /\ y.mode = x.mode /\ y.start = x.start /\ y.acc = x.acc /\ y.clk = x.clk
      /\ y.ccr = x.ccr /\ y.ev = x.ev /\ y.cctl = x.cctl
  BY DEF Looked
<1>2. ASSUME NEW v, NEW T, Aimed(x, v, T, c) PROVE Aimed(y, v, T, c)
  BY <1>1, <1>2, AimedSame
<1> QED BY <1>1, <1>2 DEF Armed

LEMMA AlarmReadCounter ==
    ASSUME Alarms(now, dco, t), ReadCounter
    PROVE  Alarms(now', dco', t')
<1>1. now' = now /\ dco' = dco /\ t' = sync_counter(t)
  BY DEF ReadCounter, Access
<1>2. Timed(sync_counter(t), now) /\ Looked(t, sync_counter(t))
  BY Sync DEF Alarms
<1>3. Armed(sync_counter(t), now)
  BY <1>2, LookedArmed DEF Alarms
<1> QED BY <1>1, <1>2, <1>3 DEF Alarms

LEMMA AlarmWriteCounter ==
    ASSUME Alarms(now, dco, t), WriteCounter
    PROVE  Alarms(now', dco', t')
<1> DEFINE s == sync_counter(t)
<1>1. PICK v \in Values :
          /\ now' = now /\ dco' = dco
          /\ t' = IF t.mode = "STOP" THEN reset_counter([s EXCEPT !.counter = v])
                  ELSE schedule_all_events(reset_counter([s EXCEPT !.counter = v]))
  BY DEF WriteCounter, Access
<1>2. Timed(s, now) /\ Looked(t, s) /\ now \in Nat /\ dco \in Dcos
  BY Sync DEF Alarms
<1> HIDE DEF s
<1> DEFINE m == [s EXCEPT !.counter = v]
           n == reset_counter(m)
<1>3. v \in 0 .. Wrap - 1
  BY TimerAssumption
<1>4. Timed(m, now) /\ m.mode = t.mode
  <2>1. /\ DOMAIN m = Fields /\ m.counter = v
        /\ m.mode = s.mode /\ m.sel = s.sel /\ m.ccr = s.ccr
        /\ m.start = s.start /\ m.acc = s.acc /\ m.clk = s.clk /\ m.passed = s.passed
        /\ m.interval = s.interval /\ m.expected = s.expected /\ m.ev = s.ev
    BY <1>2 DEF Timed, Fields
  <2> HIDE DEF m
  <2> QED BY <1>2, <1>3, <2>1 DEF Timed, Looked
<1>5. t' = IF t.mode = "STOP" THEN n ELSE schedule_all_events(n)
  BY <1>1
<1> HIDE DEF m
<1>6. Timed(n, now) /\ n.mode = t.mode
  BY <1>2, <1>4, Reset DEF Based
<1> HIDE DEF n
<1>7. CASE t.mode = "STOP"
  <2>1. t' = n /\ Armed(n, now)
    BY <1>5, <1>6, <1>7 DEF Armed
  <2> QED BY <1>1, <1>2, <1>6, <2>1 DEF Alarms
<1>8. CASE t.mode # "STOP"
  <2>1. Timed(schedule_all_events(n), now) /\ Armed(schedule_all_events(n), now)
    BY <1>2, <1>6, ScheduleAll
  <2> QED BY <1>1, <1>2, <1>5, <1>8, <2>1 DEF Alarms
<1> QED BY <1>7, <1>8

LEMMA AlarmWriteCtl ==
    ASSUME TimerInv, Careful, Alarms(now, dco, t), WriteCtl
    PROVE  Alarms(now', dco', t')
<1> DEFINE s == sync_counter(t)
<1>1. PICK c \in fw.ctls :
          LET cleared == IF c.tclr
                         THEN [s EXCEPT !.counter = 0, !.acc = 0, !.start = now, !.passed = 0]
                         ELSE s
              timed == update_cycles_per_tick(cleared, Rate[dco][c.sel])
              n == [timed EXCEPT !.sel = c.sel, !.mode = c.mode,
                                 !.tie = IF fw.keeps_flags THEN @ ELSE c.tie,
                                 !.tifg = IF fw.keeps_flags THEN @ ELSE c.tifg]
          IN  /\ now' = now /\ dco' = dco
              /\ fw.stops_first => t.mode = "STOP" \/ c.mode = "STOP"
              /\ t' = IF c.mode = "STOP" THEN cancel_all_events(n)
                      ELSE IF t.mode = "STOP" THEN schedule_all_events(reset_counter(n))
                      ELSE IF c.mode # t.mode THEN schedule_all_events(n)
                      ELSE n
  BY DEF WriteCtl, Access
<1>2. c \in Ctl
  BY DEF TimerInv, Firmware
<1>3. c.mode \in Modes /\ c.sel \in Sels
  BY <1>2 DEF Ctl, Modes
<1>4. Timed(s, now) /\ Looked(t, s) /\ now \in Nat /\ dco \in Dcos
  BY Sync DEF Alarms
<1> HIDE DEF s
<1> DEFINE k == IF c.tclr
                THEN [s EXCEPT !.counter = 0, !.acc = 0, !.start = now, !.passed = 0]
                ELSE s
           m == update_cycles_per_tick(k, Rate[dco][c.sel])
           n == [m EXCEPT !.sel = c.sel, !.mode = c.mode,
                          !.tie = IF fw.keeps_flags THEN @ ELSE c.tie,
                          !.tifg = IF fw.keeps_flags THEN @ ELSE c.tifg]
<1>5. Timed(k, now)
  <2>1. CASE c.tclr
    <3>1. /\ DOMAIN k = Fields /\ k.counter = 0 /\ k.acc = 0 /\ k.start = now /\ k.passed = 0
          /\ k.mode = s.mode /\ k.sel = s.sel /\ k.ccr = s.ccr /\ k.clk = s.clk
          /\ k.interval = s.interval /\ k.expected = s.expected /\ k.ev = s.ev
      BY <1>4, <2>1 DEF Timed, Fields
    <3>2. 0 \in Nat /\ 0 \in Int /\ now <= now
      BY SMT, <1>4
    <3> HIDE DEF k
    <3> QED BY <1>4, <3>1, <3>2, WrapNumbers DEF Timed
  <2>2. CASE ~c.tclr
    BY <1>4, <2>2
  <2> QED BY <2>1, <2>2
<1> HIDE DEF k
<1>6. Timed(m, now)
  <2>1. Rate[dco][c.sel] \in WholeClock
    BY <1>3, <1>4, WholeRate DEF Careful
  <2> QED BY <1>4, <1>5, <2>1, NewClock
<1>7. \/ c.mode = "STOP" /\ t' = cancel_all_events(n)
      \/ t' = schedule_all_events(reset_counter(n))
  BY <1>1 DEF n, m, k, Careful
<1> HIDE DEF m
<1>8. Timed(n, now) /\ n.mode = c.mode
  <2>1. /\ DOMAIN n = Fields /\ n.mode = c.mode /\ n.sel = c.sel
        /\ n.counter = m.counter /\ n.ccr = m.ccr
        /\ n.start = m.start /\ n.acc = m.acc /\ n.clk = m.clk /\ n.passed = m.passed
        /\ n.interval = m.interval /\ n.expected = m.expected /\ n.ev = m.ev
    BY <1>6 DEF Timed, Fields
  <2> HIDE DEF n
  <2> QED BY <1>3, <1>6, <2>1 DEF Timed
<1> HIDE DEF n
<1>9. CASE c.mode = "STOP" /\ t' = cancel_all_events(n)
  <2> DEFINE z == cancel_all_events(n)
  <2>1. /\ DOMAIN z = Fields /\ z.mode = n.mode /\ z.sel = n.sel
        /\ z.counter = n.counter /\ z.ccr = n.ccr
        /\ z.start = n.start /\ z.acc = n.acc /\ z.clk = n.clk /\ z.passed = n.passed
        /\ z.interval = n.interval /\ z.expected = n.expected
        /\ z.ev = [e \in DOMAIN n.ev |-> Off]
    BY <1>8 DEF Timed, Fields, cancel_all_events
  <2> HIDE DEF z
  <2>2. z.ev \in [0 .. Overflow -> Int]
    <3>1. Off \in Int
      BY SMT DEF Off
    <3>2. DOMAIN n.ev = 0 .. Overflow
      BY <1>8 DEF Timed
    <3> QED BY <2>1, <3>1, <3>2
  <2>3. Timed(z, now)
    BY <1>8, <2>1, <2>2 DEF Timed
  <2>4. Armed(z, now)
    BY <1>8, <1>9, <2>1 DEF Armed
  <2> QED BY <1>1, <1>4, <1>9, <2>3, <2>4 DEF Alarms, z
<1>10. CASE t' = schedule_all_events(reset_counter(n))
  <2> DEFINE r == reset_counter(n)
  <2>1. Timed(r, now)
    BY <1>4, <1>8, Reset
  <2> HIDE DEF r
  <2>2. Timed(schedule_all_events(r), now) /\ Armed(schedule_all_events(r), now)
    BY <1>4, <2>1, ScheduleAll
  <2> QED BY <1>1, <1>4, <1>10, <2>2 DEF Alarms, r
<1> QED BY <1>7, <1>9, <1>10

\* Channel i is written and predicted again; y is the timer with the new value.
LEMMA Rewritten ==
    ASSUME now \in Nat, NEW x, Timed(x, now), Armed(x, now), NEW i \in Channels, NEW y, Timed(y, now),
           y.mode = x.mode, y.start = x.start, y.acc = x.acc, y.clk = x.clk, y.ev = x.ev,
           \A j \in Channels : j # i => y.ccr[j] = x.ccr[j] /\ y.cctl[j].input = x.cctl[j].input,
           x.mode = "CONT" => Fresh(y)
    PROVE  LET z == schedule_ccr_event(y, i) IN Timed(z, now) /\ Armed(z, now) /\ z.mode = x.mode
<1> DEFINE z == schedule_ccr_event(y, i)
<1>1. /\ Timed(z, now) /\ Scheduled(y, z)
      /\ \A e \in 0 .. Overflow : e # i => z.ev[e] = y.ev[e]
      /\ y.mode = "CONT" /\ Fresh(y) => Aims(z, i)
  BY ScheduleChannel
<1> HIDE DEF z
<1>2. z.mode = x.mode /\ z.start = x.start /\ z.acc = x.acc /\ z.clk = x.clk /\ z.ccr = y.ccr /\ z.cctl = y.cctl
  BY <1>1 DEF Scheduled
<1>3. ASSUME z.mode = "CONT" PROVE Aims(z, i)
  BY <1>1, <1>2, <1>3
<1>4. ASSUME z.mode = "CONT", NEW j \in Channels, j # i PROVE Aims(z, j)
  <2>1. j \in 0 .. Overflow /\ z.ev[j] = x.ev[j] /\ z.ccr[j] = x.ccr[j] /\ z.cctl[j].input = x.cctl[j].input
    BY <1>1, <1>2, <1>4, WrapNumbers
  <2>2. x.cctl[j].input = "compare" => Aimed(x, x.ccr[j], x.ev[j], now)
    BY <1>2, <1>4 DEF Armed
  <2>3. x.cctl[j].input = "compare" => Aimed(z, x.ccr[j], x.ev[j], now)
    BY <1>2, <2>2, AimedSame
  <2> QED BY <2>1, <2>3 DEF Aims
<1>5. ASSUME z.mode = "CONT" PROVE Aimed(z, 0, z.ev[Overflow], now)
  <2>1. z.ev[Overflow] = x.ev[Overflow]
    BY <1>1, WrapNumbers
  <2>2. Aimed(x, 0, x.ev[Overflow], now)
    BY <1>2, <1>5 DEF Armed
  <2>3. Aimed(z, 0, x.ev[Overflow], now)
    BY <1>2, <2>2, AimedSame
  <2> QED BY <2>1, <2>3
<1>6. Armed(z, now)
  BY <1>3, <1>4, <1>5 DEF Armed, Aims
<1> QED BY <1>1, <1>2, <1>6 DEF z

LEMMA AlarmWriteCcr ==
    ASSUME Alarms(now, dco, t), WriteCcr
    PROVE  Alarms(now', dco', t')
<1> DEFINE s == sync_counter(t)
<1>1. PICK i \in Channels, v \in Values :
          LET n == schedule_ccr_event([s EXCEPT !.ccr[i] = v], i)
          IN  /\ now' = now /\ dco' = dco
              /\ t' = IF i = 0 /\ t.mode = "UP" THEN schedule_overflow_event(n) ELSE n
  BY DEF WriteCcr, Access
<1>2. /\ Timed(s, now) /\ Looked(t, s) /\ now \in Nat /\ dco \in Dcos /\ Armed(t, now) /\ Timed(t, now)
      /\ t.mode = "CONT" => Fresh(s)
  BY Sync DEF Alarms
<1> HIDE DEF s
<1> DEFINE m == [s EXCEPT !.ccr[i] = v]
           n == schedule_ccr_event(m, i)
<1>3. v \in 0 .. Wrap - 1
  BY TimerAssumption
<1>4. /\ DOMAIN m = Fields /\ m.ccr = [s.ccr EXCEPT ![i] = v] /\ m.cctl = s.cctl
      /\ m.counter = s.counter /\ m.mode = s.mode /\ m.sel = s.sel
      /\ m.start = s.start /\ m.acc = s.acc /\ m.clk = s.clk /\ m.passed = s.passed
      /\ m.interval = s.interval /\ m.expected = s.expected /\ m.ev = s.ev
  BY <1>2 DEF Timed, Fields
<1>5. t' = IF i = 0 /\ t.mode = "UP" THEN schedule_overflow_event(n) ELSE n
  BY <1>1
<1> HIDE DEF m
<1>6. Timed(m, now) /\ \A j \in Channels : j # i => m.ccr[j] = s.ccr[j]
  <2>1. s.ccr \in [Channels -> 0 .. Wrap - 1]
    BY <1>2 DEF Timed
  <2>2. m.ccr \in [Channels -> 0 .. Wrap - 1] /\ \A j \in Channels : j # i => m.ccr[j] = s.ccr[j]
    BY ONLY Zenon, <1>3, <1>4, <2>1, i \in Channels
  <2> QED BY <1>2, <1>4, <2>2 DEF Timed
<1>7. t.mode = "CONT" => Fresh(m)
  <2> SUFFICES ASSUME t.mode = "CONT" PROVE Fresh(m)
    OBVIOUS
  <2>1. s.mode = "CONT" /\ m.mode = "CONT"
    BY <1>2, <1>4 DEF Looked
  <2>2. part(m, now) = part(s, now) /\ big_counter(m, now) = big_counter(s, now)
    BY <1>4 DEF part, big_counter, ticks, elapsed
  <2>3. counter_at(m, now) = counter_at(s, now)
    BY <1>2, <1>6, <2>1, <2>2, CounterRange
  <2> QED BY <1>2, <1>4, <2>2, <2>3 DEF Fresh
<1>8. Timed(n, now) /\ Armed(n, now) /\ n.mode = t.mode
  <2>1. /\ m.mode = t.mode /\ m.start = t.start /\ m.acc = t.acc /\ m.clk = t.clk /\ m.ev = t.ev
        /\ \A j \in Channels : j # i => m.ccr[j] = t.ccr[j] /\ m.cctl[j].input = t.cctl[j].input
    BY <1>2, <1>4, <1>6 DEF Looked
  <2> QED BY <1>2, <1>6, <1>7, <2>1, Rewritten
<1> HIDE DEF n
<1>9. CASE i = 0 /\ t.mode = "UP"
  <2> DEFINE z == schedule_overflow_event(n)
  <2>1. Timed(z, now) /\ z.mode = "UP"
    BY <1>2, <1>8, <1>9, ScheduleOverflow DEF Scheduled
  <2>2. t' = z
    BY <1>5, <1>9
  <2> HIDE DEF z
  <2>3. Armed(z, now)
    BY <2>1 DEF Armed
  <2> QED BY <1>1, <1>2, <2>1, <2>2, <2>3 DEF Alarms
<1>10. CASE ~(i = 0 /\ t.mode = "UP")
  BY <1>1, <1>2, <1>5, <1>8, <1>10 DEF Alarms
<1> QED BY <1>9, <1>10

LEMMA AlarmWriteCctl ==
    ASSUME TimerInv, Careful, Alarms(now, dco, t), WriteCctl
    PROVE  Alarms(now', dco', t')
<1>1. PICK i \in Channels, w \in fw.cctls :
          LET n == [t EXCEPT !.cctl[i] = w]
              flagged == IF i # 0 THEN reevaluate_tiv(n)
                         ELSE [n EXCEPT !.irq = IF w.ie /\ w.ifg THEN @ \cup {0} ELSE @ \ {0}]
          IN  /\ now' = now /\ dco' = dco
              /\ sync_counter(t) = t
              /\ t' = schedule_ccr_event(flagged, i)
  BY DEF WriteCctl, Access, Careful
<1> DEFINE n == [t EXCEPT !.cctl[i] = w]
           f == IF i # 0 THEN reevaluate_tiv(n)
                ELSE [n EXCEPT !.irq = IF w.ie /\ w.ifg THEN @ \cup {0} ELSE @ \ {0}]
<1>2. now \in Nat /\ dco \in Dcos /\ Timed(t, now) /\ Armed(t, now) /\ DOMAIN t = Fields
      /\ t.cctl \in [Channels -> Cctl]
  BY DEF Alarms, Timed, TimerInv, Shape
<1>3. t' = schedule_ccr_event(f, i) /\ now' = now /\ dco' = dco /\ sync_counter(t) = t
  BY <1>1
<1>4. /\ DOMAIN n = Fields /\ n.cctl = [t.cctl EXCEPT ![i] = w]
      /\ n.mode = t.mode /\ n.sel = t.sel /\ n.ccr = t.ccr
      /\ n.start = t.start /\ n.acc = t.acc /\ n.clk = t.clk
      /\ n.counter = t.counter /\ n.passed = t.passed
      /\ n.interval = t.interval /\ n.expected = t.expected /\ n.ev = t.ev
  BY <1>2 DEF Fields
<1> HIDE DEF n
<1>5. Silent(n, f)
  BY <1>4, Silences
<1> HIDE DEF f
<1>6. /\ Timed(f, now) /\ f.mode = t.mode /\ f.start = t.start /\ f.acc = t.acc /\ f.clk = t.clk /\ f.ev = t.ev
      /\ f.ccr = t.ccr /\ f.counter = t.counter /\ f.passed = t.passed
  <2>1. Timed(n, now)
    BY <1>2, <1>4 DEF Timed
  <2>2. Timed(f, now)
    BY <1>5, <2>1, SilentKeeps
  <2> QED BY <1>4, <1>5, <2>2 DEF Silent
<1>7. \A j \in Channels : j # i => f.ccr[j] = t.ccr[j] /\ f.cctl[j].input = t.cctl[j].input
  <2>1. \A j \in Channels : j # i => n.cctl[j] = t.cctl[j]
    BY <1>2, <1>4
  <2> QED BY <1>5, <1>6, <2>1 DEF Silent
<1>8. t.mode = "CONT" => Fresh(f)
  <2> SUFFICES ASSUME t.mode = "CONT" PROVE Fresh(f)
    OBVIOUS
  <2>1. Fresh(t)
    <3>1. Fresh(sync_counter(t))
      BY <1>2, Sync
    <3> QED BY <1>3, <3>1
  <2>2. part(f, now) = part(t, now) /\ big_counter(f, now) = big_counter(t, now)
    BY <1>6 DEF part, big_counter, ticks, elapsed
  <2>3. counter_at(f, now) = counter_at(t, now)
    BY <1>2, <1>6, <2>2, CounterRange
  <2> QED BY <1>6, <2>1, <2>2, <2>3 DEF Fresh
<1>9. Timed(schedule_ccr_event(f, i), now) /\ Armed(schedule_ccr_event(f, i), now)
  BY <1>2, <1>6, <1>7, <1>8, Rewritten
<1> QED BY <1>2, <1>3, <1>9 DEF Alarms

LEMMA AlarmClockChanged ==
    ASSUME TimerInv, Careful, Alarms(now, dco, t), msp430_timer_clock_changed
    PROVE  Alarms(now', dco', t')
<1> DEFINE s == sync_counter(t)
           I == {i \in Channels : t.cctl[i].input = "compare"}
<1>1. PICK d \in fw.dcos :
          /\ now' = now /\ dco' = d
          /\ t' = IF t.mode = "STOP" THEN t
                  ELSE schedule_overflow_event(schedule_ccr_events(
                           update_cycles_per_tick(reset_counter(s), Rate[d][t.sel]), I))
  BY DEF msp430_timer_clock_changed
<1>2. d \in Dcos
  BY DEF TimerInv, Firmware
<1>3. now \in Nat /\ Timed(t, now) /\ Armed(t, now) /\ t.sel \in Sels
  BY DEF Alarms, Timed
<1>4. CASE t.mode = "STOP"
  BY <1>1, <1>2, <1>3, <1>4 DEF Alarms
<1>5. CASE t.mode # "STOP"
  <2> DEFINE r == reset_counter(s)
             n == update_cycles_per_tick(r, Rate[d][t.sel])
             p == schedule_ccr_events(n, I)
             z == schedule_overflow_event(p)
  <2>1. t' = z
    BY <1>1, <1>5
  <2>2. Timed(s, now) /\ Looked(t, s)
    BY <1>3, Sync
  <2> HIDE DEF s
  <2>3. Timed(r, now) /\ Based(s, r) /\ (s.mode = "CONT" => Fresh(r))
    BY <1>3, <2>2, Reset
  <2> HIDE DEF r
  <2>4. Timed(n, now) /\ Clocked(r, n) /\ (r.mode = "CONT" /\ Fresh(r) => Fresh(n))
    <3>1. Rate[d][t.sel] \in WholeClock
      BY <1>2, <1>3, WholeRate DEF Careful
    <3> QED BY <1>3, <2>3, <3>1, NewClock
  <2> HIDE DEF n
  <2>5. I \in SUBSET Channels
    OBVIOUS
  <2>6. n.mode = t.mode /\ n.cctl = t.cctl /\ (t.mode = "CONT" => Fresh(n))
    BY <2>2, <2>3, <2>4 DEF Looked, Based, Clocked
  <2>7. Timed(p, now) /\ Scheduled(n, p) /\ (n.mode = "CONT" /\ Fresh(n) => \A i \in I : Aims(p, i))
    <3> HIDE DEF I
    <3> QED BY <1>3, <2>4, <2>5, ScheduleChannels
  <2> HIDE DEF p
  <2>8. p.mode = t.mode /\ p.cctl = t.cctl /\ (t.mode = "CONT" => Fresh(p))
    BY <1>3, <2>4, <2>6, <2>7, ScheduledFresh DEF Scheduled
  <2>9. /\ Timed(z, now) /\ Scheduled(p, z) /\ \A i \in Channels : z.ev[i] = p.ev[i]
        /\ p.mode = "CONT" /\ Fresh(p) => Aimed(z, 0, z.ev[Overflow], now)
    BY <1>3, <2>7, ScheduleOverflow
  <2> HIDE DEF z
  <2>10. ASSUME z.mode = "CONT" PROVE Aimed(z, 0, z.ev[Overflow], now) /\ \A i \in Channels : Aims(z, i)
    <3>1. t.mode = "CONT" /\ z.cctl = t.cctl
      BY <2>8, <2>9, <2>10 DEF Scheduled
    <3>2. Aimed(z, 0, z.ev[Overflow], now)
      BY <2>8, <2>9, <3>1
    <3>3. ASSUME NEW i \in Channels, i \in I PROVE Aims(z, i)
      <4>1. Aims(p, i)
        BY <2>6, <2>7, <3>1, <3>3
      <4> QED BY <2>9, <4>1, AimsSame
    <3>4. ASSUME NEW i \in Channels, i \notin I PROVE Aims(z, i)
      BY <3>1, <3>4 DEF Aims
    <3> QED BY <3>2, <3>3, <3>4
  <2>11. Armed(z, now)
    BY <2>10 DEF Armed, Aims
  <2> QED BY <1>1, <1>2, <1>3, <2>1, <2>9, <2>11 DEF Alarms
<1> QED BY <1>4, <1>5

\* A channel that captures has no match to be aimed at.
LEMMA Captures ==
    ASSUME NEW c, NEW x, Armed(x, c), NEW i \in Channels, NEW y,
           y.mode = x.mode, y.start = x.start, y.acc = x.acc, y.clk = x.clk,
           x.cctl[i].input # "compare",
           \A j \in Channels : y.cctl[j].input = x.cctl[j].input,
           \A j \in Channels : j # i => y.ccr[j] = x.ccr[j],
           \A e \in 0 .. Overflow : e # i => y.ev[e] = x.ev[e]
    PROVE  Armed(y, c)
<1>1. ASSUME y.mode = "CONT", NEW j \in Channels, y.cctl[j].input = "compare"
      PROVE  Aimed(y, y.ccr[j], y.ev[j], c)
  <2>1. j # i /\ j \in 0 .. Overflow /\ x.cctl[j].input = "compare" /\ x.mode = "CONT"
    BY <1>1, WrapNumbers
  <2>2. Aimed(x, x.ccr[j], x.ev[j], c)
    BY <2>1 DEF Armed
  <2>3. Aimed(y, x.ccr[j], x.ev[j], c)
    BY <2>2, AimedSame
  <2> QED BY <2>1, <2>3
<1>2. ASSUME y.mode = "CONT" PROVE Aimed(y, 0, y.ev[Overflow], c)
  <2>1. Overflow \in 0 .. Overflow /\ Overflow # i /\ x.mode = "CONT"
    BY <1>2, WrapNumbers
  <2>2. Aimed(x, 0, x.ev[Overflow], c)
    BY <2>1 DEF Armed
  <2>3. Aimed(y, 0, x.ev[Overflow], c)
    BY <2>2, AimedSame
  <2> QED BY <2>1, <2>3
<1> QED BY <1>1, <1>2 DEF Armed

LEMMA AlarmCaptureInput ==
    ASSUME TimerInv, Alarms(now, dco, t), msp430_timer_capture_input
    PROVE  Alarms(now', dco', t')
<1> DEFINE s == sync_counter(t)
<1>1. PICK i \in Channels :
          /\ now' = now /\ dco' = dco /\ t.cctl[i].input # "compare"
          /\ t' = trigger_ccr_interrupt(
                      IF s.cctl[i].ifg THEN [s EXCEPT !.cctl[i].cov = TRUE]
                      ELSE [s EXCEPT !.ccr[i] = s.counter, !.cctl[i].ifg = TRUE], i)
  BY DEF msp430_timer_capture_input
<1>2. now \in Nat /\ dco \in Dcos /\ Timed(t, now) /\ Armed(t, now) /\ t.cctl \in [Channels -> Cctl]
  BY DEF Alarms, TimerInv, Shape
<1>3. Timed(s, now) /\ Looked(t, s)
  BY <1>2, Sync
<1>4. Armed(s, now) /\ s.cctl = t.cctl
  BY <1>2, <1>3, LookedArmed DEF Looked
<1> HIDE DEF s
<1> DEFINE y == IF s.cctl[i].ifg THEN [s EXCEPT !.cctl[i].cov = TRUE]
                ELSE [s EXCEPT !.ccr[i] = s.counter, !.cctl[i].ifg = TRUE]
           k == IF s.cctl[i].ifg THEN [s.cctl[i] EXCEPT !.cov = TRUE]
                ELSE [s.cctl[i] EXCEPT !.ifg = TRUE]
           r == IF s.cctl[i].ifg THEN s.ccr ELSE [s.ccr EXCEPT ![i] = s.counter]
<1>5. /\ DOMAIN y = Fields /\ y.cctl = [s.cctl EXCEPT ![i] = k] /\ y.ccr = r
      /\ y.mode = s.mode /\ y.sel = s.sel
      /\ y.start = s.start /\ y.acc = s.acc /\ y.clk = s.clk
      /\ y.counter = s.counter /\ y.passed = s.passed
      /\ y.interval = s.interval /\ y.expected = s.expected /\ y.ev = s.ev
  <2>1. DOMAIN s = Fields
    BY <1>3 DEF Timed
  <2>2. CASE s.cctl[i].ifg
    BY <2>1, <2>2 DEF Fields
  <2>3. CASE ~s.cctl[i].ifg
    BY <2>1, <2>3 DEF Fields
  <2> QED BY <2>2, <2>3
<1>6. t' = trigger_ccr_interrupt(y, i)
  BY <1>1
<1> HIDE DEF y
<1>7. \A j \in Channels : y.cctl[j].input = s.cctl[j].input
  <2>1. s.cctl[i] \in Cctl
    BY <1>2, <1>4
  <2>2. k.input = s.cctl[i].input
    BY <2>1 DEF Cctl
  <2> HIDE DEF k
  <2> QED BY <1>2, <1>4, <1>5, <2>2, SameInputs
<1>8. y.ccr \in [Channels -> 0 .. Wrap - 1] /\ \A j \in Channels : j # i => y.ccr[j] = s.ccr[j]
  <2>1. s.ccr \in [Channels -> 0 .. Wrap - 1] /\ s.counter \in 0 .. Wrap - 1
    BY <1>3 DEF Timed
  <2> QED BY ONLY Zenon, <1>5, <2>1, i \in Channels
<1>9. Timed(y, now)
  BY <1>3, <1>5, <1>8 DEF Timed
<1>10. Armed(y, now)
  <2>1. y.mode = s.mode /\ y.start = s.start /\ y.acc = s.acc /\ y.clk = s.clk
    BY <1>5
  <2>2. s.cctl[i].input # "compare" /\ \A e \in 0 .. Overflow : e # i => y.ev[e] = s.ev[e]
    BY <1>1, <1>4, <1>5
  <2>3. \A j \in Channels : j # i => y.ccr[j] = s.ccr[j]
    BY <1>8
  <2> QED BY <1>4, <1>7, <2>1, <2>2, <2>3, Captures
<1>11. Silent(y, t')
  BY <1>5, <1>6, Silences
<1> QED BY <1>1, <1>2, <1>9, <1>10, <1>11, SilentKeeps DEF Alarms

\* A timer whose event e is taken off the queue.
LEMMA Dequeued ==
    ASSUME now \in Nat, NEW x, Timed(x, now), NEW e \in 0 .. Overflow
    PROVE  LET s == sync_counter([x EXCEPT !.ev[e] = Off])
           IN  /\ Timed(s, now) /\ (x.mode = "CONT" => Fresh(s))
               /\ s.cctl = x.cctl /\ s.mode = x.mode /\ s.ccr = x.ccr
               /\ s.start = x.start /\ s.acc = x.acc /\ s.clk = x.clk
               /\ \A d \in 0 .. Overflow : d # e => s.ev[d] = x.ev[d]
<1> DEFINE o == [x EXCEPT !.ev[e] = Off]
           s == sync_counter(o)
<1>1. /\ DOMAIN o = Fields /\ o.ev = [x.ev EXCEPT ![e] = Off]
      /\ o.cctl = x.cctl /\ o.mode = x.mode /\ o.sel = x.sel /\ o.ccr = x.ccr
      /\ o.start = x.start /\ o.acc = x.acc /\ o.clk = x.clk
      /\ o.counter = x.counter /\ o.passed = x.passed
      /\ o.interval = x.interval /\ o.expected = x.expected
  BY DEF Timed, Fields
<1> HIDE DEF o
<1>2. o.ev \in [0 .. Overflow -> Int] /\ \A d \in 0 .. Overflow : d # e => o.ev[d] = x.ev[d]
  <2>1. x.ev \in [0 .. Overflow -> Int] /\ Off \in Int
    BY SMT DEF Timed, Off
  <2> QED BY ONLY Zenon, <1>1, <2>1, e \in 0 .. Overflow
<1>3. Timed(o, now)
  BY <1>1, <1>2 DEF Timed
<1>4. Timed(s, now) /\ Looked(o, s) /\ (o.mode = "CONT" => Fresh(s))
  BY <1>3, Sync
<1> HIDE DEF s
<1>5. /\ s.cctl = x.cctl /\ s.mode = x.mode /\ s.ccr = x.ccr
      /\ s.start = x.start /\ s.acc = x.acc /\ s.clk = x.clk
      /\ \A d \in 0 .. Overflow : d # e => s.ev[d] = x.ev[d]
  BY <1>1, <1>2, <1>4 DEF Looked
<1> QED BY <1>1, <1>4, <1>5 DEF s, o

LEMMA AlarmMatched ==
    ASSUME now \in Nat, NEW x, Timed(x, now), Armed(x, now), x.cctl \in [Channels -> Cctl],
           NEW i \in Channels, x.cctl[i].input = "compare", x.ev[i] <= now
    PROVE  Timed(ccr_event_callback(x, i), now) /\ Armed(ccr_event_callback(x, i), now)
<1> DEFINE s == sync_counter([x EXCEPT !.ev[i] = Off])
           T == x.ev[i] + cycles_of(s, Wrap)
           k == [s.cctl[i] EXCEPT !.ifg = TRUE]
           y == [s EXCEPT !.cctl[i].ifg = TRUE, !.ev[i] = T]
<1>0. i \in 0 .. Overflow /\ Overflow \in 0 .. Overflow /\ Overflow # i
  BY WrapNumbers
<1>1. ccr_event_callback(x, i) = trigger_ccr_interrupt(y, i)
  BY DEF ccr_event_callback, matched
<1>2. /\ Timed(s, now)
      /\ s.cctl = x.cctl /\ s.mode = x.mode /\ s.ccr = x.ccr
      /\ s.start = x.start /\ s.acc = x.acc /\ s.clk = x.clk
      /\ \A d \in 0 .. Overflow : d # i => s.ev[d] = x.ev[d]
  BY <1>0, Dequeued
<1> HIDE DEF s
<1>3. T \in Int
  <2>1. x.ev[i] \in Int /\ cycles_of(s, Wrap) \in Int
    BY <1>0, <1>2, WrapNumbers, CycleNumbers DEF Timed
  <2> QED BY ONLY SMT, <2>1
<1>4. x.mode = "CONT" => Aimed(x, x.ccr[i], T, now)
  <2> SUFFICES ASSUME x.mode = "CONT" PROVE Aimed(x, x.ccr[i], T, now)
    OBVIOUS
  <2>1. Aimed(x, x.ccr[i], x.ev[i], now)
    BY DEF Armed
  <2>2. x.start \in Nat /\ x.acc \in Nat /\ x.clk \in WholeClock /\ x.ev[i] \in Int
    BY <1>0 DEF Timed
  <2>3. Aimed(x, x.ccr[i], x.ev[i] + cycles_of(x, Wrap), now)
    BY <2>1, <2>2, AimedAgain
  <2>4. cycles_of(s, Wrap) = cycles_of(x, Wrap)
    BY <1>2 DEF cycles_of
  <2> QED BY <2>3, <2>4
<1> HIDE DEF T
<1>5. /\ DOMAIN y = Fields /\ y.cctl = [s.cctl EXCEPT ![i] = k] /\ y.ev = [s.ev EXCEPT ![i] = T]
      /\ y.mode = s.mode /\ y.sel = s.sel /\ y.ccr = s.ccr
      /\ y.start = s.start /\ y.acc = s.acc /\ y.clk = s.clk
      /\ y.counter = s.counter /\ y.passed = s.passed
      /\ y.interval = s.interval /\ y.expected = s.expected
  BY <1>2 DEF Timed, Fields
<1> HIDE DEF y
<1>6. \A j \in Channels : y.cctl[j].input = x.cctl[j].input
  <2>1. s.cctl[i] \in Cctl
    BY <1>2
  <2>2. k.input = s.cctl[i].input
    BY <2>1 DEF Cctl
  <2> HIDE DEF k
  <2>3. \A j \in Channels : [s.cctl EXCEPT ![i] = k][j].input = s.cctl[j].input
    BY <1>2, <2>2, SameInputs
  <2> QED BY <1>2, <1>5, <2>3
<1>7. /\ y.ev \in [0 .. Overflow -> Int] /\ y.ev[i] = T
      /\ \A d \in 0 .. Overflow : d # i => y.ev[d] = x.ev[d]
  <2>1. s.ev \in [0 .. Overflow -> Int]
    BY <1>2 DEF Timed
  <2>2. y.ev \in [0 .. Overflow -> Int] /\ y.ev[i] = T
        /\ \A d \in 0 .. Overflow : d # i => y.ev[d] = s.ev[d]
    BY ONLY Zenon, <1>0, <1>3, <1>5, <2>1
  <2> QED BY <1>2, <2>2
<1>8. Timed(y, now)
  BY <1>2, <1>5, <1>7 DEF Timed
<1>9. y.mode = x.mode /\ y.start = x.start /\ y.acc = x.acc /\ y.clk = x.clk /\ y.ccr = x.ccr
  BY <1>2, <1>5
<1>10. ASSUME y.mode = "CONT", NEW j \in Channels, y.cctl[j].input = "compare"
       PROVE  Aimed(y, y.ccr[j], y.ev[j], now)
  <2>1. j \in 0 .. Overflow /\ x.cctl[j].input = "compare"
    BY <1>6, <1>10, WrapNumbers
  <2>2. Aimed(x, x.ccr[j], y.ev[j], now)
    <3>1. CASE j = i
      BY <1>4, <1>7, <1>9, <1>10, <3>1
    <3>2. CASE j # i
      BY <1>7, <1>9, <1>10, <2>1, <3>2 DEF Armed
    <3> QED BY <3>1, <3>2
  <2>3. Aimed(y, x.ccr[j], y.ev[j], now)
    BY <1>9, <2>2, AimedSame
  <2> QED BY <1>9, <2>3
<1>11. ASSUME y.mode = "CONT" PROVE Aimed(y, 0, y.ev[Overflow], now)
  <2>1. Aimed(x, 0, x.ev[Overflow], now)
    BY <1>9, <1>11 DEF Armed
  <2>2. Aimed(y, 0, x.ev[Overflow], now)
    BY <1>9, <2>1, AimedSame
  <2> QED BY <1>0, <1>7, <2>2
<1>12. Armed(y, now)
  BY <1>10, <1>11 DEF Armed
<1>13. Silent(y, trigger_ccr_interrupt(y, i))
  BY <1>5, Silences
<1> QED BY <1>1, <1>8, <1>12, <1>13, SilentKeeps

LEMMA AlarmCaptured ==
    ASSUME now \in Nat, NEW x, Timed(x, now), Armed(x, now), x.cctl \in [Channels -> Cctl],
           NEW i \in Channels, x.cctl[i].input # "compare"
    PROVE  Timed(ccr_event_callback(x, i), now) /\ Armed(ccr_event_callback(x, i), now)
<1> DEFINE s == sync_counter([x EXCEPT !.ev[i] = Off])
           c == cycles_of(s, s.interval[i])
           wait == IF s.cctl[i].ie \/ c >= MinInterval THEN c ELSE MinInterval
           T == x.ev[i] + wait
           E == (s.expected[i] + s.interval[i]) % Wrap
           k == [s.cctl[i] EXCEPT !.cov = @ \/ s.cctl[i].ifg, !.ifg = TRUE]
           y == [s EXCEPT !.cctl[i].cov = @ \/ s.cctl[i].ifg, !.cctl[i].ifg = TRUE,
                          !.ccr[i] = s.expected[i], !.expected[i] = E, !.ev[i] = T]
<1>0. i \in 0 .. Overflow /\ Overflow \in 0 .. Overflow /\ Overflow # i
  BY WrapNumbers
<1>1. ccr_event_callback(x, i) = trigger_ccr_interrupt(y, i)
  <2>1. ccr_event_callback(x, i) = captured(s, i, x.ev[i])
    BY DEF ccr_event_callback
  <2> HIDE DEF s
  <2>2. captured(s, i, x.ev[i]) = trigger_ccr_interrupt(
            [s EXCEPT !.cctl[i].cov = @ \/ s.cctl[i].ifg, !.cctl[i].ifg = TRUE,
                      !.ccr[i] = s.expected[i],
                      !.expected[i] = (@ + s.interval[i]) % Wrap,
                      !.ev[i] = T], i)
    BY DEF captured
  <2> QED BY <2>1, <2>2
<1>2. /\ Timed(s, now)
      /\ s.cctl = x.cctl /\ s.mode = x.mode /\ s.ccr = x.ccr
      /\ s.start = x.start /\ s.acc = x.acc /\ s.clk = x.clk
      /\ \A d \in 0 .. Overflow : d # i => s.ev[d] = x.ev[d]
  BY <1>0, Dequeued
<1> HIDE DEF s
<1>3. s.interval[i] \in Nat /\ s.expected[i] \in 0 .. Wrap - 1 /\ x.ev[i] \in Int
  BY <1>0, <1>2 DEF Timed
<1>4. T \in Int
  <2>1. s.interval[i] \in Int
    BY SMT, <1>3
  <2>2. c \in Int
    BY <1>2, <2>1, CycleNumbers
  <2> HIDE DEF c
  <2>3. MinInterval \in Int
    BY SMT, TimerAssumption
  <2>4. wait \in Int
    BY <2>2, <2>3
  <2> HIDE DEF wait
  <2> QED BY ONLY SMT, <1>3, <2>4
<1>5. E \in 0 .. Wrap - 1
  <2>1. s.expected[i] + s.interval[i] \in Int
    BY SMT, <1>3, WrapNumbers
  <2> QED BY <2>1, WrapNumbers, Quotient
<1> HIDE DEF T, E
<1>6. /\ DOMAIN y = Fields /\ y.cctl = [s.cctl EXCEPT ![i] = k] /\ y.ev = [s.ev EXCEPT ![i] = T]
      /\ y.ccr = [s.ccr EXCEPT ![i] = s.expected[i]] /\ y.expected = [s.expected EXCEPT ![i] = E]
      /\ y.mode = s.mode /\ y.sel = s.sel
      /\ y.start = s.start /\ y.acc = s.acc /\ y.clk = s.clk
      /\ y.counter = s.counter /\ y.passed = s.passed /\ y.interval = s.interval
  BY <1>2 DEF Timed, Fields
<1> HIDE DEF y
<1>7. \A j \in Channels : y.cctl[j].input = x.cctl[j].input
  <2>1. s.cctl \in [Channels -> Cctl] /\ s.cctl[i] \in Cctl
    BY <1>2
  <2>2. k.input = s.cctl[i].input
    BY <2>1 DEF Cctl
  <2> HIDE DEF k
  <2>3. \A j \in Channels : [s.cctl EXCEPT ![i] = k][j].input = s.cctl[j].input
    BY ONLY Zenon, <2>1, <2>2, SameInputs
  <2>4. s.cctl = x.cctl /\ y.cctl = [s.cctl EXCEPT ![i] = k]
    BY <1>2, <1>6
  <2> QED BY ONLY Zenon, <2>3, <2>4
<1>8. y.ev \in [0 .. Overflow -> Int] /\ \A d \in 0 .. Overflow : d # i => y.ev[d] = x.ev[d]
  <2>1. s.ev \in [0 .. Overflow -> Int]
    BY <1>2 DEF Timed
  <2>2. y.ev \in [0 .. Overflow -> Int] /\ \A d \in 0 .. Overflow : d # i => y.ev[d] = s.ev[d]
    <3>1. y.ev = [s.ev EXCEPT ![i] = T]
      BY <1>6
    <3> QED BY ONLY Zenon, <1>0, <1>4, <2>1, <3>1
  <2> QED BY <1>2, <2>2
<1>9. y.ccr \in [Channels -> 0 .. Wrap - 1] /\ \A j \in Channels : j # i => y.ccr[j] = x.ccr[j]
  <2>1. s.ccr \in [Channels -> 0 .. Wrap - 1]
    BY <1>2 DEF Timed
  <2>2. y.ccr \in [Channels -> 0 .. Wrap - 1] /\ \A j \in Channels : j # i => y.ccr[j] = s.ccr[j]
    BY ONLY Zenon, <1>3, <1>6, <2>1, i \in Channels
  <2> QED BY <1>2, <2>2
<1>10. y.expected \in [Channels -> 0 .. Wrap - 1]
  <2>1. s.expected \in [Channels -> 0 .. Wrap - 1]
    BY <1>2 DEF Timed
  <2> QED BY ONLY Zenon, <1>5, <1>6, <2>1, i \in Channels
<1>11. Timed(y, now)
  BY <1>2, <1>6, <1>8, <1>9, <1>10 DEF Timed
<1>12. y.mode = x.mode /\ y.start = x.start /\ y.acc = x.acc /\ y.clk = x.clk
  BY <1>2, <1>6
<1>13. Armed(y, now)
  BY <1>7, <1>8, <1>9, <1>12, Captures
<1>14. Silent(y, trigger_ccr_interrupt(y, i))
  BY <1>6, Silences
<1> QED BY <1>1, <1>11, <1>13, <1>14, SilentKeeps

LEMMA AlarmOverflow ==
    ASSUME now \in Nat, NEW x, Timed(x, now), Armed(x, now)
    PROVE  Timed(overflow_event_callback(x), now) /\ Armed(overflow_event_callback(x), now)
<1> DEFINE s == sync_counter([x EXCEPT !.ev[Overflow] = Off])
           f == [s EXCEPT !.tifg = TRUE]
           g == IF ~f.tie THEN f
                ELSE [f EXCEPT !.last_tiv = IF @ = 0 THEN overflow_tiv ELSE @, !.irq = @ \cup {1}]
           z == schedule_overflow_event(g)
<1>1. overflow_event_callback(x) = z
  BY DEF overflow_event_callback
<1>2. /\ Timed(s, now) /\ (x.mode = "CONT" => Fresh(s))
      /\ s.cctl = x.cctl /\ s.mode = x.mode /\ s.ccr = x.ccr
      /\ s.start = x.start /\ s.acc = x.acc /\ s.clk = x.clk
      /\ \A d \in 0 .. Overflow : d # Overflow => s.ev[d] = x.ev[d]
  BY WrapNumbers, Dequeued
<1> HIDE DEF s
<1>3. /\ DOMAIN f = Fields /\ f.cctl = s.cctl /\ f.mode = s.mode /\ f.sel = s.sel /\ f.ccr = s.ccr
      /\ f.start = s.start /\ f.acc = s.acc /\ f.clk = s.clk
      /\ f.counter = s.counter /\ f.passed = s.passed
      /\ f.interval = s.interval /\ f.expected = s.expected /\ f.ev = s.ev
  BY <1>2 DEF Timed, Fields
<1> HIDE DEF f
<1>4. /\ DOMAIN g = Fields /\ g.cctl = f.cctl /\ g.mode = f.mode /\ g.sel = f.sel /\ g.ccr = f.ccr
      /\ g.start = f.start /\ g.acc = f.acc /\ g.clk = f.clk
      /\ g.counter = f.counter /\ g.passed = f.passed
      /\ g.interval = f.interval /\ g.expected = f.expected /\ g.ev = f.ev
  BY <1>3 DEF Fields
<1> HIDE DEF g
<1>5. Timed(g, now)
  BY <1>2, <1>3, <1>4 DEF Timed
<1>6. Scheduled(s, g)
  BY <1>3, <1>4 DEF Scheduled
<1>7. x.mode = "CONT" => Fresh(g)
  BY <1>2, <1>5, <1>6, ScheduledFresh
<1>8. /\ Timed(z, now) /\ Scheduled(g, z) /\ \A i \in Channels : z.ev[i] = g.ev[i]
      /\ g.mode = "CONT" /\ Fresh(g) => Aimed(z, 0, z.ev[Overflow], now)
  BY <1>5, ScheduleOverflow
<1> HIDE DEF z
<1>9. /\ z.mode = x.mode /\ z.start = x.start /\ z.acc = x.acc /\ z.clk = x.clk /\ z.ccr = x.ccr
      /\ z.cctl = x.cctl /\ g.mode = x.mode
  BY <1>2, <1>6, <1>8 DEF Scheduled
<1>10. ASSUME z.mode = "CONT", NEW i \in Channels, z.cctl[i].input = "compare"
       PROVE  Aimed(z, z.ccr[i], z.ev[i], now)
  <2>1. z.ev[i] = x.ev[i]
    <3>1. i \in 0 .. Overflow /\ i # Overflow
      BY WrapNumbers
    <3>2. g.ev = s.ev /\ s.ev[i] = x.ev[i]
      BY <1>2, <1>3, <1>4, <3>1
    <3>3. z.ev[i] = g.ev[i]
      BY <1>8
    <3> QED BY <3>2, <3>3
  <2>2. Aimed(x, x.ccr[i], x.ev[i], now)
    BY <1>9, <1>10 DEF Armed
  <2>3. Aimed(z, x.ccr[i], x.ev[i], now)
    BY <1>9, <2>2, AimedSame
  <2> QED BY <1>9, <2>1, <2>3
<1>11. Armed(z, now)
  BY <1>7, <1>8, <1>9, <1>10 DEF Armed
<1> QED BY <1>1, <1>8, <1>11

LEMMA AlarmEvents ==
    ASSUME TimerInv, Alarms(now, dco, t), ExecuteEvents
    PROVE  Alarms(now', dco', t')
<1>1. PICK e \in Due : /\ t' = IF e = Overflow THEN overflow_event_callback(t) ELSE ccr_event_callback(t, e)
                       /\ now' = now /\ dco' = dco
  BY DEF ExecuteEvents
<1>2. e \in 0 .. Overflow /\ t.ev[e] <= now /\ (e # Overflow => e \in Channels)
  BY <1>1, WrapNumbers DEF Due
<1>3. now \in Nat /\ dco \in Dcos /\ Timed(t, now) /\ Armed(t, now) /\ t.cctl \in [Channels -> Cctl]
  BY DEF Alarms, TimerInv, Shape
<1>4. Timed(t', now) /\ Armed(t', now)
  <2>1. CASE e = Overflow
    BY <1>1, <1>3, <2>1, AlarmOverflow
  <2>2. CASE e # Overflow /\ t.cctl[e].input = "compare"
    BY <1>1, <1>2, <1>3, <2>2, AlarmMatched
  <2>3. CASE e # Overflow /\ t.cctl[e].input # "compare"
    BY <1>1, <1>2, <1>3, <2>3, AlarmCaptured
  <2> QED BY <2>1, <2>2, <2>3
<1> QED BY <1>1, <1>3, <1>4 DEF Alarms

LEMMA AlarmInit ==
    Init => AlarmInv
<1> SUFFICES ASSUME Init, Careful PROVE Alarms(now, dco, t)
  BY TimerInvInit DEF AlarmInv, Alarms
<1>1. PICK s \in Sels, v \in Values, ie \in BOOLEAN :
          t = [counter |-> 0, start |-> 0, acc |-> 0, passed |-> 0,
               sel |-> s, clk |-> Rate[dco][s], mode |-> "STOP", tie |-> ie, tifg |-> FALSE,
               ccr |-> [i \in Channels |-> v], last_tiv |-> 0, irq |-> {},
               cctl |-> [i \in Channels |-> [input |-> "compare", cm |-> {}, ie |-> TRUE,
                                             ifg |-> FALSE, cov |-> FALSE]],
               interval |-> [i \in Channels |-> 0], expected |-> [i \in Channels |-> 0],
               ev |-> [e \in 0 .. Overflow |-> Off]]
  BY DEF Init
<1>2. /\ DOMAIN t = Fields /\ t.counter = 0 /\ t.start = 0 /\ t.acc = 0 /\ t.passed = 0
      /\ t.sel = s /\ t.clk = Rate[dco][s] /\ t.mode = "STOP"
      /\ t.ccr = [i \in Channels |-> v]
      /\ t.interval = [i \in Channels |-> 0] /\ t.expected = [i \in Channels |-> 0]
      /\ t.ev = [e \in 0 .. Overflow |-> Off]
  BY SMT, <1>1 DEF Fields
<1>3. now = 0 /\ dco \in Dcos
  BY DEF Init
<1>4. Rate[dco][s] \in WholeClock /\ v \in 0 .. Wrap - 1
  BY <1>3, WholeRate, TimerAssumption DEF Careful
<1>5. 0 \in Nat /\ 0 \in Int /\ 0 <= 0 /\ Off \in Int
  BY SMT DEF Off
<1>6. /\ t.ccr \in [Channels -> 0 .. Wrap - 1] /\ t.interval \in [Channels -> Nat]
      /\ t.expected \in [Channels -> 0 .. Wrap - 1] /\ t.ev \in [0 .. Overflow -> Int]
  <2>1. t.ccr \in [Channels -> 0 .. Wrap - 1]
    BY <1>2, <1>4
  <2>2. t.interval \in [Channels -> Nat]
    BY <1>2, <1>5
  <2>3. t.expected \in [Channels -> 0 .. Wrap - 1]
    BY <1>2, WrapNumbers
  <2>4. t.ev \in [0 .. Overflow -> Int]
    BY <1>2, <1>5
  <2> QED BY <2>1, <2>2, <2>3, <2>4
<1>7. Timed(t, now)
  BY <1>2, <1>3, <1>4, <1>5, <1>6, WrapNumbers DEF Timed, Modes
<1>8. Armed(t, now)
  BY <1>2 DEF Armed
<1> QED BY <1>3, <1>5, <1>7, <1>8 DEF Alarms

LEMMA AlarmNext ==
    AlarmInv /\ [Next]_vars => AlarmInv'
<1> SUFFICES ASSUME AlarmInv, [Next]_vars PROVE AlarmInv'
  OBVIOUS
<1>1. TimerInv /\ TimerInv'
  BY TimerInvNext DEF AlarmInv
<1>2. Careful' <=> Careful
  <2>1. fw' = fw
    BY DEF Next, vars
  <2> QED BY <2>1 DEF Careful, WholeRounds
<1>3. ASSUME Careful PROVE Alarms(now', dco', t')
  <2>1. Alarms(now, dco, t)
    BY <1>3 DEF AlarmInv, Alarms
  <2>2. CASE UNCHANGED vars
    BY <2>1, <2>2 DEF vars
  <2>3. CASE Reti \/ write_sr
    <3>1. now' = now /\ dco' = dco /\ t' = t
      BY <2>3 DEF Reti, write_sr
    <3> QED BY <2>1, <3>1
  <2>4. CASE Next /\ ~(Reti \/ write_sr)
    BY <1>1, <1>3, <2>1, <2>4, AlarmEvents, AlarmExecute, AlarmSleep, AlarmService, AlarmReadCounter,
       AlarmIvRead, AlarmWriteCtl, AlarmWriteCounter, AlarmWriteCctl, AlarmWriteCcr, AlarmClockChanged,
       AlarmCaptureInput DEF Next
  <2> QED BY <2>2, <2>3, <2>4
<1> QED BY <1>1, <1>2, <1>3 DEF AlarmInv, Alarms

-----------------------------------------------------------------------------

\* TxIV names the pending and enabled source of the highest priority, however
\* callbacks, captures, reads of TxIV and register writes follow each other, as
\* long as writes to TxCTL leave TIE and TIFG alone.
THEOREM TivIsExact ==
    Spec => []TivExact
<1>1. TimerInv => TivExact
  BY DEF TimerInv, TivExact, Exact, Tiv, Pending
<1> QED BY <1>1, TimerInvariant, PTL

\* No timer interrupt is lost between the timer and the CPU: a source TxIV names
\* has its vector flagged until the handler reads TxIV, channel 0 its own until
\* its handler is entered, whatever the firmware writes in between.
THEOREM NoTimerInterruptIsLost ==
    Spec => []NoLostTimerInterrupt
<1>1. TimerInv => NoLostTimerInterrupt
  BY DEF TimerInv, NoLostTimerInterrupt, Flagged
<1> QED BY <1>1, TimerInvariant, PTL

\* In continuous mode the compare and overflow events are queued for the next
\* match, to within the rounding of the prediction, for firmware that stops the
\* timer to reconfigure it and writes TxCCTLn right after TxR or TxCCRn: whatever
\* it writes, however late the callbacks run and whenever the DCO is calibrated,
\* for every counter range and clock of whole rounds.
THEOREM AlarmsAreOnTime ==
    Spec => []AlarmOnTime
<1>1. AlarmInv => AlarmOnTime
  <2> SUFFICES ASSUME AlarmInv, Careful, t.mode = "CONT"
               PROVE  /\ \A i \in Channels : t.cctl[i].input = "compare" => Foretold(i, t.ccr[i])
                      /\ Foretold(Overflow, 0)
    BY DEF AlarmOnTime, Careful
  <2>1. now \in Nat /\ Timed(t, now) /\ Armed(t, now)
    BY DEF AlarmInv, Alarms
  <2>2. ASSUME NEW i \in Channels, t.cctl[i].input = "compare" PROVE Foretold(i, t.ccr[i])
    <3>1. i \in 0 .. Overflow /\ Aimed(t, t.ccr[i], t.ev[i], now)
      BY <2>1, <2>2, WrapNumbers DEF Armed
    <3> QED BY <2>1, <3>1, AimedIsForetold
  <2>3. Foretold(Overflow, 0)
    <3>1. Overflow \in 0 .. Overflow /\ Aimed(t, 0, t.ev[Overflow], now)
      BY <2>1, WrapNumbers DEF Armed
    <3> QED BY <2>1, <3>1, AimedIsForetold
  <2> QED BY <2>2, <2>3
<1> QED BY <1>1, AlarmInit, AlarmNext, PTL DEF Spec
=============================================================================
