---------------------------- MODULE CC2420Proofs ----------------------------
(***************************************************************************)
(* Proofs about the RX FIFO of the CC2420, for any size of the FIFO, frame *)
(* length, address position, oscillator and number of frames.              *)
(*                                                                         *)
(* The FIFO is intact for every driver that lets a frame arrive in full,   *)
(* and that does not read while frames arrive which may be rejected: what  *)
(* reject_frame takes back is the length of the FIFO at the frame's start. *)
(***************************************************************************)
EXTENDS CC2420, TLAPS

\* Leaves are first-order unless they cite SMT, for arithmetic and sequences.
USE Zenon

-----------------------------------------------------------------------------
(* Remainders.                                                             *)

LEMMA Multiple ==
    ASSUME NEW n \in Nat \ {0}, NEW q \in Int
    PROVE  /\ q >= 1 => q * n >= n
           /\ q <= -1 => q * n <= -n
           /\ q * n \in Int
BY SMT

\* There is one quotient and remainder.
LEMMA DivUnique ==
    ASSUME NEW n \in Nat \ {0}, NEW p \in Int, NEW q \in Int,
           NEW a \in 0 .. n - 1, NEW b \in 0 .. n - 1, p * n + a = q * n + b
    PROVE  a = b
<1>1. (p - q) * n = b - a
  BY SMT
<1>2. ~ (p - q >= 1) /\ ~ (p - q <= -1)
  BY SMT, <1>1, Multiple
<1>3. p = q
  BY ONLY SMT, <1>2, p \in Int, q \in Int
<1> QED BY SMT, <1>3

LEMMA ModFacts ==
    ASSUME NEW n \in Nat \ {0}, NEW x \in Int
    PROVE  /\ x % n \in 0 .. n - 1 /\ x \div n \in Int
           /\ x = (x \div n) * n + (x % n)
BY SMT

LEMMA ModIs ==
    ASSUME NEW n \in Nat \ {0}, NEW q \in Int, NEW m \in 0 .. n - 1
    PROVE  (q * n + m) % n = m
<1> DEFINE x == q * n + m
<1>1. x \in Int
  BY SMT
<1>2. x % n \in 0 .. n - 1 /\ x \div n \in Int /\ x = (x \div n) * n + (x % n)
  BY <1>1, ModFacts
<1> QED BY <1>2, DivUnique

LEMMA ModSmall ==
    ASSUME NEW n \in Nat \ {0}, NEW m \in 0 .. n - 1
    PROVE  m % n = m
<1>1. 0 * n + m = m /\ 0 \in Int
  BY SMT
<1> QED BY <1>1, ModIs

\* A multiple of n makes no difference.
LEMMA ModPlus ==
    ASSUME NEW n \in Nat \ {0}, NEW x \in Int, NEW q \in Int
    PROVE  (x + q * n) % n = x % n
<1>1. x % n \in 0 .. n - 1 /\ x \div n \in Int /\ x = (x \div n) * n + (x % n)
  BY ModFacts
<1>2. x + q * n = (x \div n + q) * n + (x % n) /\ x \div n + q \in Int
  BY SMT, <1>1
<1> QED BY <1>1, <1>2, ModIs

LEMMA ModSucc ==
    ASSUME NEW n \in Nat \ {0}, NEW x \in Int
    PROVE  (x + 1) % n = IF x % n = n - 1 THEN 0 ELSE (x % n) + 1
<1> DEFINE m == x % n
           d == x \div n
<1>1. m \in 0 .. n - 1 /\ d \in Int /\ x = d * n + m
  BY ModFacts
<1> HIDE DEF m, d
<1>2. CASE m = n - 1
  <2>1. x + 1 = (d + 1) * n + 0 /\ d + 1 \in Int /\ 0 \in 0 .. n - 1
    BY SMT, <1>1, <1>2
  <2> QED BY <1>2, <2>1, ModIs DEF m
<1>3. CASE m # n - 1
  <2>1. x + 1 = d * n + (m + 1) /\ m + 1 \in 0 .. n - 1
    BY SMT, <1>1, <1>3
  <2> QED BY <1>1, <1>3, <2>1, ModIs DEF m
<1> QED BY <1>2, <1>3

\* Numbers less than n apart have different remainders.
LEMMA ModDistinct ==
    ASSUME NEW n \in Nat \ {0}, NEW x \in Int, NEW d \in 1 .. n - 1
    PROVE  (x + d) % n # x % n
<1>1. SUFFICES ASSUME (x + d) % n = x % n PROVE FALSE
  OBVIOUS
<1> DEFINE m == x % n
           p == x \div n
           q == (x + d) \div n
<1>2. x + d \in Int /\ d \in Int
  BY SMT
<1>3. m \in 0 .. n - 1 /\ p \in Int /\ x = p * n + m
  BY ModFacts
<1>4. q \in Int /\ x + d = q * n + m
  BY <1>1, <1>2, ModFacts
<1> HIDE DEF m, p, q
<1>5. (q - p) * n = d /\ q - p \in Int
  BY SMT, <1>3, <1>4
<1>6. ~ (q - p >= 1)
  BY SMT, <1>5, Multiple
<1>7. q - p <= 0 => (q - p) * n <= 0
  BY SMT, <1>5
<1> QED BY ONLY SMT, <1>5, <1>6, <1>7, d \in 1 .. n - 1, n \in Nat \ {0}

\* The remainder of a term may be taken first.
LEMMA ModAdd ==
    ASSUME NEW n \in Nat \ {0}, NEW x \in Int, NEW k \in Int
    PROVE  ((x % n) + k) % n = (x + k) % n
<1> DEFINE m == x % n
           d == x \div n
<1>1. m \in 0 .. n - 1 /\ d \in Int /\ x = d * n + m
  BY ModFacts
<1> HIDE DEF m, d
<1>2. m + k \in Int /\ x + k = (m + k) + d * n
  BY SMT, <1>1
<1>3. ((m + k) + d * n) % n = (m + k) % n
  BY <1>1, <1>2, ModPlus
<1> QED BY <1>2, <1>3 DEF m

\* A number that is not 0 and has remainder 0 is at least n.
LEMMA ModZero ==
    ASSUME NEW n \in Nat \ {0}, NEW x \in Nat, x % n = 0, x # 0
    PROVE  x >= n
<1>1. SUFFICES ASSUME x < n PROVE FALSE
  BY SMT
<1>2. x \in 0 .. n - 1
  BY ONLY SMT, <1>1, x \in Nat, n \in Nat \ {0}
<1>3. x % n = x
  BY <1>2, ModSmall
<1> QED BY <1>3

-----------------------------------------------------------------------------
(* The invariant.                                                          *)

Fields ==
    {"state", "on", "xosc_stable", "rssi_valid", "tx_active", "cca", "fifop", "fifo", "sfd",
     "memory", "write_pos", "read_pos", "fifo_len", "read_left", "mark_pos", "mark_len", "rxlen",
     "rxread", "zero_symbols", "crc_ok", "frame_rejected", "overflow", "should_ack", "shr_pos",
     "tx_pos", "ack_pos", "symbol_event", "oscillator_event", "sfd_clear_event"}

\* The drivers the FIFO is intact for.
Careful(d) ==
    /\ ~d.leaves_frame
    /\ d.reads_in_frame => d.kinds \cap {"other", "badfcf"} = {}

\* Bytes of a frame in the FIFO, with the length byte.
Whole == FrameLen + 1

\* The place in its frame of the byte to be read next, and of the one to be
\* written next.
First(c) == IF c.read_left = 0 THEN 0 ELSE Whole - c.read_left
Phase(c) == (First(c) + c.fifo_len) % Whole

Ring(c) ==
    /\ c.fifo_len \in 0 .. FifoSize /\ c.read_pos \in 0 .. FifoSize - 1
    /\ c.read_left \in 0 .. FrameLen
    /\ DOMAIN c.memory = 0 .. FifoSize - 1
    /\ c.write_pos = (c.read_pos + c.fifo_len) % FifoSize
    /\ \A k \in 0 .. c.fifo_len - 1 :
           c.memory[(c.read_pos + k) % FifoSize] = (First(c) + k) % Whole

\* A frame is on its way into the FIFO; after an overflow nothing is.
Receiving(c) == c.state = "RX_FRAME" /\ ~c.overflow

\* What is in the FIFO ends where the frame on the air continues; with none, or
\* one that is rejected, at the end of a frame.
Aligned(c) ==
    /\ ~c.overflow /\ c.state # "RX_FRAME" => Phase(c) = 0
    /\ Receiving(c) => Phase(c) = IF c.frame_rejected THEN 0 ELSE c.rxread

Synced(c, a) ==
    Receiving(c) =>
        /\ c.rxread \in 0 .. FrameLen /\ c.rxlen = IF c.rxread = 0 THEN 0 ELSE FrameLen
        /\ c.frame_rejected => c.rxread # 0
        /\ a.pos = c.rxread /\ a.due \in Nat

\* Where reject_frame goes back to.
Marked(c, d) ==
    Receiving(c) /\ ~c.frame_rejected /\ ~d.reads_in_frame =>
        /\ c.mark_len \in Nat /\ c.fifo_len = c.mark_len + c.rxread
        /\ c.mark_pos = (c.read_pos + c.mark_len) % FifoSize
        /\ (First(c) + c.mark_len) % Whole = 0

\* The oscillator starts in POWER_DOWN only, and a chip without voltage is off.
Power(c) ==
    /\ ~c.on => c.state = "VREG_OFF"
    /\ c.oscillator_event # Off => c.state = "POWER_DOWN"
    /\ ~c.xosc_stable => c.state \in {"VREG_OFF", "POWER_DOWN"}

Signals(c) ==
    FifopThr >= FrameLen /\ c.read_left = 0 =>
        /\ c.fifo_len > FrameLen => c.fifop
        /\ c.fifop /\ ~c.overflow => c.fifo_len > FrameLen

\* What is on the air is of a kind the driver's neighbours send.
Heard(a, d) == DOMAIN a = {"kind", "pos", "due"} /\ a.kind \in d.kinds \cup {"none"}

Good(c, a, d) ==
    /\ DOMAIN c = Fields /\ Heard(a, d)
    /\ Ring(c) /\ Aligned(c) /\ Synced(c, a) /\ Marked(c, d)
    /\ Power(c) /\ Signals(c)

CInv == Good(r, air, driver)

LEMMA Lift ==
    ASSUME Good(r', air', driver')
    PROVE  CInv'
BY DEF CInv, Good, Heard, Ring, Aligned, Synced, Marked, Power, Signals, First, Phase, Receiving

\* The FIFO is the same.
SameFifo(c, e) ==
    /\ DOMAIN e = Fields
    /\ e.memory = c.memory /\ e.write_pos = c.write_pos /\ e.read_pos = c.read_pos
    /\ e.fifo_len = c.fifo_len /\ e.read_left = c.read_left
    /\ e.overflow = c.overflow /\ e.fifop = c.fifop

\* And the reception is where it was.
SameFrame(c, e) ==
    /\ SameFifo(c, e)
    /\ e.state = c.state /\ e.rxread = c.rxread /\ e.rxlen = c.rxlen
    /\ e.frame_rejected = c.frame_rejected /\ e.mark_pos = c.mark_pos /\ e.mark_len = c.mark_len

SamePower(c, e) ==
    e.on = c.on /\ e.oscillator_event = c.oscillator_event /\ e.xosc_stable = c.xosc_stable

\* The numbers at hand.
LEMMA Numbers ==
    /\ FifoSize \in Nat \ {0} /\ FrameLen \in Nat /\ Whole \in Nat \ {0} /\ FrameLen >= 4
    /\ Whole <= FifoSize /\ AddrPos \in Nat /\ AddrPos < FrameLen /\ AddrPos > 2
    /\ FifopThr \in Nat /\ Whole = FrameLen + 1
BY SMT, CC2420Assumption DEF Whole

-----------------------------------------------------------------------------
(* Steps that leave the FIFO alone.                                        *)

LEMMA SameFifoTrans ==
    ASSUME NEW c, NEW e, NEW f, SameFifo(c, e), SameFifo(e, f)
    PROVE  SameFifo(c, f)
BY DEF SameFifo

LEMMA SameFifoKeeps ==
    ASSUME NEW c, NEW e, SameFifo(c, e)
    PROVE  /\ Ring(c) => Ring(e)
           /\ Signals(c) => Signals(e)
           /\ First(e) = First(c) /\ Phase(e) = Phase(c)
<1>1. First(e) = First(c)
  BY DEF SameFifo, First
<1> QED BY <1>1 DEF SameFifo, Ring, Signals, Phase

\* The reception goes on, or nothing is received before and after.
LEMMA Stays ==
    ASSUME NEW c, NEW a, NEW d, NEW e, NEW b, Good(c, a, d), SameFrame(c, e), Power(e), Heard(b, d),
           Receiving(c) => b.pos = a.pos /\ b.due \in Nat
    PROVE  Good(e, b, d)
<1>1. SameFifo(c, e)
  BY DEF SameFrame
<1>2. Ring(e) /\ Signals(e) /\ First(e) = First(c) /\ Phase(e) = Phase(c) /\ DOMAIN e = Fields
  BY <1>1, SameFifoKeeps DEF Good, SameFifo
<1>3. Receiving(e) <=> Receiving(c)
  BY DEF SameFrame, SameFifo, Receiving
<1>4. Aligned(e)
  BY <1>2, <1>3 DEF Good, Aligned, SameFrame, SameFifo
<1>5. Synced(e, b)
  BY <1>3 DEF Good, Synced, SameFrame
<1>6. Marked(e, d)
  BY <1>2, <1>3 DEF Good, Marked, SameFrame, SameFifo
<1> QED BY <1>2, <1>4, <1>5, <1>6 DEF Good

\* Nothing is received before and after.
LEMMA Moves ==
    ASSUME NEW c, NEW a, NEW d, NEW e, NEW b, Good(c, a, d), SameFifo(c, e), Power(e), Heard(b, d),
           ~Receiving(c), ~c.overflow => e.state # "RX_FRAME"
    PROVE  Good(e, b, d)
<1>1. Ring(e) /\ Signals(e) /\ Phase(e) = Phase(c) /\ DOMAIN e = Fields /\ e.overflow = c.overflow
  BY SameFifoKeeps DEF Good, SameFifo
<1>2. ~Receiving(e)
  BY <1>1 DEF Receiving
<1>3. Aligned(e)
  BY <1>1, <1>2 DEF Good, Aligned, Receiving
<1>4. Synced(e, b) /\ Marked(e, d)
  BY <1>2 DEF Synced, Marked
<1> QED BY <1>1, <1>3, <1>4 DEF Good

\* What set_state to new does, as far as the invariant is concerned.
Entered(c, e, new) ==
    /\ SameFifo(c, e) /\ e.state = new
    /\ e.on = c.on /\ e.oscillator_event = c.oscillator_event
    /\ e.xosc_stable = IF new \in {"VREG_OFF", "POWER_DOWN"} THEN FALSE ELSE c.xosc_stable

\* set_state leaves the FIFO alone whatever the state.
LEMMA SetState ==
    ASSUME NEW c, DOMAIN c = Fields, NEW new
    PROVE  Entered(c, set_state(c, new), new)
<1> DEFINE s == [c EXCEPT !.state = new]
           e == set_state(c, new)
<1>0. DOMAIN s = Fields /\ s.state = new /\ SameFifo(c, s) /\ SamePower(c, s)
  BY DEF Fields, SameFifo, SamePower
<1>1. CASE new \in {"VREG_OFF", "POWER_DOWN"}
  <2>1. e = update_cca([s EXCEPT !.xosc_stable = FALSE, !.rssi_valid = FALSE])
    BY <1>1 DEF set_state
  <2> HIDE DEF s, e
  <2>2. Entered(c, e, new)
    BY <1>0, <1>1, <2>1 DEF update_cca, Fields, SameFifo, SamePower, Entered
  <2> QED BY <2>2 DEF e
<1>2. CASE new = "IDLE"
  <2>1. e = update_cca([s EXCEPT !.rssi_valid = FALSE])
    BY <1>2 DEF set_state
  <2> HIDE DEF s, e
  <2>2. Entered(c, e, new)
    BY <1>0, <1>2, <2>1 DEF update_cca, Fields, SameFifo, SamePower, Entered
  <2> QED BY <2>2 DEF e
<1>3. CASE new = "RX_CALIBRATE"
  <2>1. e = schedule_symbols(s, 12)
    BY <1>3 DEF set_state
  <2> HIDE DEF s, e
  <2>2. Entered(c, e, new)
    BY <1>0, <1>3, <2>1 DEF schedule_symbols, Fields, SameFifo, SamePower, Entered
  <2> QED BY <2>2 DEF e
<1>4. CASE new = "RX_SFD_SEARCH"
  <2>1. e = enter_rx_search(s)
    BY <1>4 DEF set_state
  <2> HIDE DEF s, e
  <2>2. Entered(c, e, new)
    BY <1>0, <1>4, <2>1 DEF enter_rx_search, update_cca, Fields, SameFifo, SamePower, Entered
  <2> QED BY <2>2 DEF e
<1>5. CASE new = "RX_FRAME"
  <2>1. e = rxfifo_mark([s EXCEPT !.rxread = 0, !.rxlen = 0, !.frame_rejected = FALSE,
                                  !.should_ack = FALSE, !.crc_ok = FALSE])
    BY <1>5 DEF set_state
  <2> HIDE DEF s, e
  <2>2. Entered(c, e, new)
    BY <1>0, <1>5, <2>1 DEF rxfifo_mark, Fields, SameFifo, SamePower, Entered
  <2> QED BY <2>2 DEF e
<1>6. CASE new = "RX_WAIT"
  <2>1. e = schedule_symbols(s, 8)
    BY <1>6 DEF set_state
  <2> HIDE DEF s, e
  <2>2. Entered(c, e, new)
    BY <1>0, <1>6, <2>1 DEF schedule_symbols, Fields, SameFifo, SamePower, Entered
  <2> QED BY <2>2 DEF e
<1>7. CASE new = "TX_CALIBRATE"
  <2>1. e = schedule_symbols([s EXCEPT !.sfd_clear_event = Off], 14)
    BY <1>7 DEF set_state
  <2> HIDE DEF s, e
  <2>2. Entered(c, e, new)
    BY <1>0, <1>7, <2>1 DEF schedule_symbols, Fields, SameFifo, SamePower, Entered
  <2> QED BY <2>2 DEF e
<1>8. CASE new \in {"TX_PREAMBLE", "TX_ACK_PREAMBLE"}
  <2> DEFINE p == [s EXCEPT !.shr_pos = 0, !.ack_pos = IF new = "TX_ACK_PREAMBLE" THEN 0 ELSE @]
  <2>1. e = shr_next(p)
    BY <1>8 DEF set_state
  <2> HIDE DEF s, e
  <2>2. DOMAIN p = Fields /\ p.shr_pos = 0 /\ p.state = new /\ SameFifo(c, p) /\ SamePower(c, p)
    BY <1>0 DEF Fields, SameFifo, SamePower
  <2> HIDE DEF p
  <2>3. 0 < 5
    BY SMT
  <2>4. e = schedule_symbols([p EXCEPT !.shr_pos = @ + 1], 2)
    BY <2>1, <2>2, <2>3 DEF shr_next
  <2>5. Entered(c, e, new)
    BY <1>8, <2>2, <2>4 DEF schedule_symbols, Fields, SameFifo, SamePower, Entered
  <2> QED BY <2>5 DEF e
<1>9. CASE new = "TX_ACK_CALIBRATE"
  <2>1. e = schedule_symbols([set_sfd(s, FALSE) EXCEPT !.sfd_clear_event = Off,
                                                       !.tx_active = TRUE], 16)
    BY <1>9 DEF set_state
  <2> HIDE DEF s, e
  <2>2. Entered(c, e, new)
    BY <1>0, <1>9, <2>1 DEF schedule_symbols, set_sfd, Fields, SameFifo, SamePower, Entered
  <2> QED BY <2>2 DEF e
<1>10. CASE new \notin {"VREG_OFF", "POWER_DOWN", "IDLE", "RX_CALIBRATE", "RX_SFD_SEARCH", "RX_FRAME",
                        "RX_WAIT", "TX_CALIBRATE", "TX_PREAMBLE", "TX_ACK_PREAMBLE",
                        "TX_ACK_CALIBRATE"}
  <2>1. e = s
    BY <1>10 DEF set_state
  <2>2. Entered(c, s, new)
    BY <1>0, <1>10 DEF SamePower, Entered
  <2> QED BY <2>1, <2>2
<1> QED BY <1>1, <1>2, <1>3, <1>4, <1>5, <1>6, <1>7, <1>8, <1>9, <1>10

\* Power of a state entered by set_state, with no oscillator on its way.
LEMMA SetStatePower ==
    ASSUME NEW c, NEW new, DOMAIN c = Fields, Power(c), c.state \notin {"VREG_OFF", "POWER_DOWN"},
           new \notin {"VREG_OFF", "POWER_DOWN"}
    PROVE  Power(set_state(c, new))
<1>1. c.oscillator_event = Off /\ c.on /\ c.xosc_stable
  BY DEF Power
<1>2. Entered(c, set_state(c, new), new)
  BY SetState
<1> QED BY <1>1, <1>2 DEF Power, Entered

\* Entering RX_FRAME: nothing of the frame is there, and the FIFO is marked.
LEMMA SetStateFrame ==
    ASSUME NEW c, DOMAIN c = Fields
    PROVE  LET e == set_state(c, "RX_FRAME")
           IN  /\ e.rxread = 0 /\ e.rxlen = 0 /\ e.frame_rejected = FALSE
               /\ e.mark_pos = c.write_pos /\ e.mark_len = c.fifo_len
<1> DEFINE s == [c EXCEPT !.state = "RX_FRAME"]
           e == set_state(c, "RX_FRAME")
<1>1. DOMAIN s = Fields /\ s.write_pos = c.write_pos /\ s.fifo_len = c.fifo_len
  BY DEF Fields
<1>2. e = rxfifo_mark([s EXCEPT !.rxread = 0, !.rxlen = 0, !.frame_rejected = FALSE,
                                !.should_ack = FALSE, !.crc_ok = FALSE])
  BY DEF set_state
<1> HIDE DEF s, e
<1>3. /\ e.rxread = 0 /\ e.rxlen = 0 /\ e.frame_rejected = FALSE
      /\ e.mark_pos = c.write_pos /\ e.mark_len = c.fifo_len
  BY <1>1, <1>2 DEF rxfifo_mark, Fields
<1> QED BY <1>3 DEF e

\* The same change of state for all of the cases below.
Left(c, e) == SameFifo(c, e) /\ Power(e) /\ e.state # "RX_FRAME"

LEMMA LeftBySetState ==
    ASSUME NEW c, NEW new, DOMAIN c = Fields, Power(c), c.state \notin {"VREG_OFF", "POWER_DOWN"},
           new \notin {"VREG_OFF", "POWER_DOWN", "RX_FRAME"}
    PROVE  Left(c, set_state(c, new))
<1>1. Entered(c, set_state(c, new), new)
  BY SetState
<1>2. Power(set_state(c, new))
  BY SetStatePower
<1> QED BY <1>1, <1>2 DEF Left, Entered

LEMMA ShrNext ==
    ASSUME NEW c, DOMAIN c = Fields, Power(c), c.state \in {"TX_PREAMBLE", "TX_ACK_PREAMBLE"}
    PROVE  Left(c, shr_next(c))
<1> DEFINE e == shr_next(c)
           Next2 == IF c.state = "TX_PREAMBLE" THEN "TX_FRAME" ELSE "TX_ACK"
<1>1. DOMAIN e = Fields /\ SameFifo(c, e) /\ SamePower(c, e) /\ e.state \in {c.state, Next2}
  <2>1. CASE c.shr_pos < 5
    <3>1. e = schedule_symbols([c EXCEPT !.shr_pos = @ + 1], 2)
      BY <2>1 DEF shr_next
    <3> HIDE DEF e
    <3> QED BY <3>1 DEF schedule_symbols, SameFifo, SamePower, Fields
  <2>2. CASE ~ (c.shr_pos < 5) /\ c.state = "TX_PREAMBLE"
    <3>1. e = schedule_symbols([set_sfd(c, TRUE) EXCEPT !.state = "TX_FRAME", !.tx_pos = 0,
                                                        !.crc_ok = FALSE], 2)
      BY <2>2 DEF shr_next
    <3> HIDE DEF e
    <3> QED BY <2>2, <3>1 DEF schedule_symbols, set_sfd, SameFifo, SamePower, Fields
  <2>3. CASE ~ (c.shr_pos < 5) /\ c.state # "TX_PREAMBLE"
    <3>1. e = schedule_symbols([set_sfd(c, TRUE) EXCEPT !.state = "TX_ACK"], 2)
      BY <2>3 DEF shr_next
    <3> HIDE DEF e
    <3> QED BY <2>3, <3>1 DEF schedule_symbols, set_sfd, SameFifo, SamePower, Fields
  <2> QED BY <2>1, <2>2, <2>3
<1> HIDE DEF e
<1>2. e.state \notin {"VREG_OFF", "POWER_DOWN", "RX_FRAME"}
  BY <1>1
<1>3. c.on /\ c.oscillator_event = Off /\ c.xosc_stable
  BY DEF Power
<1>4. Power(e)
  BY <1>1, <1>3 DEF Power, SamePower
<1>5. Left(c, e)
  BY <1>1, <1>2, <1>4 DEF Left
<1> QED BY <1>5 DEF e

LEMMA TxDone ==
    ASSUME NEW c, DOMAIN c = Fields, Power(c)
    PROVE  /\ DOMAIN tx_done(c) = Fields /\ SameFifo(c, tx_done(c)) /\ Power(tx_done(c))
           /\ tx_done(c).state = c.state
<1> DEFINE e == tx_done(c)
<1>1. DOMAIN e = Fields /\ SameFifo(c, e) /\ SamePower(c, e) /\ e.state = c.state
  BY DEF tx_done, set_sfd, SameFifo, SamePower, Fields
<1> HIDE DEF e
<1>2. Power(e)
  BY <1>1 DEF Power, SamePower
<1> QED BY <1>1, <1>2 DEF e

\* tx_next and ack_next.
LEMMA SendNext ==
    ASSUME NEW c, DOMAIN c = Fields, Power(c), c.state \in {"TX_FRAME", "TX_ACK"}
    PROVE  Left(c, tx_next(c)) /\ Left(c, ack_next(c))
<1>1. ASSUME NEW new \in {"RX_OVERFLOW", "RX_CALIBRATE"}
      PROVE  Left(c, set_state(tx_done(c), new))
  <2> DEFINE f == tx_done(c)
  <2>1. DOMAIN f = Fields /\ SameFifo(c, f) /\ Power(f) /\ f.state = c.state
    BY TxDone
  <2> HIDE DEF f
  <2>2. Left(f, set_state(f, new))
    BY <2>1, LeftBySetState
  <2>3. Left(c, set_state(f, new))
    BY <2>1, <2>2, SameFifoTrans DEF Left
  <2> QED BY <2>3 DEF f
<1>2. ASSUME NEW e, DOMAIN e = Fields, SameFifo(c, e), SamePower(c, e), e.state = c.state
      PROVE  Left(c, e)
  BY <1>2 DEF Left, Power, SamePower
<1>3. Left(c, tx_next(c))
  <2> DEFINE e == schedule_symbols([c EXCEPT !.tx_pos = @ + 1], 2)
  <2>1. DOMAIN e = Fields /\ SameFifo(c, e) /\ SamePower(c, e) /\ e.state = c.state
    BY DEF schedule_symbols, SameFifo, SamePower, Fields
  <2> HIDE DEF e
  <2>2. Left(c, e)
    BY <1>2, <2>1
  <2> QED BY <1>1, <2>2 DEF tx_next, e
<1>4. Left(c, ack_next(c))
  <2> DEFINE e == schedule_symbols([c EXCEPT !.ack_pos = @ + 1], 2)
  <2>1. DOMAIN e = Fields /\ SameFifo(c, e) /\ SamePower(c, e) /\ e.state = c.state
    BY DEF schedule_symbols, SameFifo, SamePower, Fields
  <2> HIDE DEF e
  <2>2. Left(c, e)
    BY <1>2, <2>1
  <2> QED BY <1>1, <2>2 DEF ack_next, e
<1> QED BY <1>3, <1>4

\* The symbol timer leaves an arriving frame and the FIFO alone.
LEMMA SymbolCallback ==
    ASSUME NEW c, DOMAIN c = Fields, Power(c)
    PROVE  symbol_event_callback(c) = c \/ (c.state # "RX_FRAME" /\ Left(c, symbol_event_callback(c)))
<1> DEFINE e == symbol_event_callback(c)
<1>1. CASE c.state \in {"RX_CALIBRATE", "RX_WAIT"}
  <2>1. e = set_state(c, "RX_SFD_SEARCH")
    BY <1>1 DEF symbol_event_callback
  <2> HIDE DEF e
  <2>2. Left(c, e)
    BY <1>1, <2>1, LeftBySetState
  <2> QED BY <1>1, <2>2 DEF e
<1>2. CASE c.state = "TX_CALIBRATE"
  <2>1. e = set_state(c, "TX_PREAMBLE")
    BY <1>2 DEF symbol_event_callback
  <2> HIDE DEF e
  <2>2. Left(c, e)
    BY <1>2, <2>1, LeftBySetState
  <2> QED BY <1>2, <2>2 DEF e
<1>3. CASE c.state = "TX_ACK_CALIBRATE"
  <2>1. e = set_state(c, "TX_ACK_PREAMBLE")
    BY <1>3 DEF symbol_event_callback
  <2> HIDE DEF e
  <2>2. Left(c, e)
    BY <1>3, <2>1, LeftBySetState
  <2> QED BY <1>3, <2>2 DEF e
<1>4. CASE c.state \in {"TX_PREAMBLE", "TX_ACK_PREAMBLE"}
  <2>1. e = shr_next(c)
    BY <1>4 DEF symbol_event_callback
  <2> QED BY <1>4, <2>1, ShrNext
<1>5. CASE c.state = "TX_FRAME"
  <2>1. e = tx_next(c)
    BY <1>5 DEF symbol_event_callback
  <2> QED BY <1>5, <2>1, SendNext
<1>6. CASE c.state = "TX_ACK"
  <2>1. e = ack_next(c)
    BY <1>6 DEF symbol_event_callback
  <2> QED BY <1>6, <2>1, SendNext
<1>7. CASE c.state \notin {"RX_CALIBRATE", "RX_WAIT", "TX_CALIBRATE", "TX_ACK_CALIBRATE",
                           "TX_PREAMBLE", "TX_ACK_PREAMBLE", "TX_FRAME", "TX_ACK"}
  <2>1. e = c
    BY <1>7 DEF symbol_event_callback
  <2> QED BY <2>1
<1> QED BY <1>1, <1>2, <1>3, <1>4, <1>5, <1>6, <1>7

-----------------------------------------------------------------------------
(* The timers, the air and the regulator.                                  *)

LEMMA KeepTick ==
    ASSUME CInv, Tick
    PROVE  CInv'
<1> DEFINE e == [r EXCEPT !.symbol_event = Down(@), !.oscillator_event = Down(@),
                          !.sfd_clear_event = Down(@)]
           b == [air EXCEPT !.due = Down(@)]
<1>1. r' = e /\ air' = b /\ driver' = driver /\ 0 # air.due
  BY DEF Tick, Timers
<1>2. Good(r, air, driver)
  BY DEF CInv
<1>3. DOMAIN r = Fields /\ DOMAIN air = {"kind", "pos", "due"}
  BY <1>2 DEF Good, Heard
<1>4. /\ SameFrame(r, e) /\ e.on = r.on /\ e.xosc_stable = r.xosc_stable
      /\ e.oscillator_event = Down(r.oscillator_event)
  BY <1>3 DEF Fields, SameFrame, SameFifo
<1>5. /\ DOMAIN b = {"kind", "pos", "due"} /\ b.kind = air.kind /\ b.pos = air.pos
      /\ b.due = Down(air.due)
  BY <1>3
<1> HIDE DEF e, b
<1>6. Power(e)
  <2>1. e.oscillator_event # Off => r.oscillator_event # Off
    BY <1>4 DEF Down
  <2> QED BY <1>2, <1>4, <2>1 DEF Good, Power, SameFrame
<1>7. Heard(b, driver)
  BY <1>2, <1>5 DEF Good, Heard
<1>8. ASSUME Receiving(r) PROVE b.pos = air.pos /\ b.due \in Nat
  <2>1. air.due \in Nat
    BY <1>2, <1>8 DEF Good, Synced
  <2> QED BY SMT, <1>1, <1>5, <2>1 DEF Down, Off
<1>9. Good(e, b, driver)
  BY <1>2, <1>4, <1>6, <1>7, <1>8, Stays
<1> QED BY <1>1, <1>9, Lift

LEMMA KeepFireSymbol ==
    ASSUME CInv, FireSymbol
    PROVE  CInv'
<1> DEFINE c == [r EXCEPT !.symbol_event = Off]
           e == symbol_event_callback(c)
<1>1. r' = e /\ air' = air /\ driver' = driver
  BY DEF FireSymbol
<1>2. Good(r, air, driver) /\ DOMAIN r = Fields
  BY DEF CInv, Good
<1>3. SameFrame(r, c) /\ SamePower(r, c) /\ DOMAIN c = Fields
  BY <1>2 DEF Fields, SameFrame, SameFifo, SamePower
<1> HIDE DEF c
<1>4. Power(c) /\ Heard(air, driver)
  BY <1>2, <1>3 DEF Good, Power, SamePower, SameFrame
<1>5. Receiving(r) => air.due \in Nat
  BY <1>2 DEF Good, Synced
<1>6. e = c \/ (c.state # "RX_FRAME" /\ Left(c, e))
  BY <1>3, <1>4, SymbolCallback
<1> HIDE DEF e
<1>7. CASE e = c
  <2>1. Good(c, air, driver)
    BY <1>2, <1>3, <1>4, <1>5, Stays
  <2>2. Good(e, air, driver)
    BY <1>7, <2>1
  <2> QED BY <1>1, <2>2, Lift
<1>8. CASE c.state # "RX_FRAME" /\ Left(c, e)
  <2>1. ~Receiving(r)
    BY <1>3, <1>8 DEF Receiving, SameFrame
  <2>2. SameFifo(r, e)
    BY <1>3, <1>8, SameFifoTrans DEF SameFrame, Left
  <2>3. Good(e, air, driver)
    BY <1>2, <1>4, <1>8, <2>1, <2>2, Moves DEF Left
  <2> QED BY <1>1, <2>3, Lift
<1> QED BY <1>6, <1>7, <1>8

LEMMA KeepFireOscillator ==
    ASSUME CInv, FireOscillator
    PROVE  CInv'
<1> DEFINE c == [r EXCEPT !.oscillator_event = Off, !.xosc_stable = TRUE]
           e == set_state(c, "IDLE")
<1>1. r' = e /\ air' = air /\ driver' = driver /\ r.oscillator_event = 0
  BY DEF FireOscillator
<1>2. Good(r, air, driver) /\ DOMAIN r = Fields
  BY DEF CInv, Good
<1>3. /\ SameFrame(r, c) /\ c.on = r.on /\ c.oscillator_event = Off /\ c.xosc_stable = TRUE
      /\ DOMAIN c = Fields
  BY <1>2 DEF Fields, SameFrame, SameFifo
<1> HIDE DEF c
<1>4. Entered(c, e, "IDLE")
  BY <1>3, SetState
<1> HIDE DEF e
<1>5. r.state = "POWER_DOWN" /\ r.on
  <2>1. 0 # Off
    BY SMT DEF Off
  <2>2. r.state = "POWER_DOWN"
    BY <1>1, <1>2, <2>1 DEF Good, Power
  <2> QED BY <1>2, <2>2 DEF Good, Power
<1>6. Power(e) /\ SameFifo(r, e) /\ e.state # "RX_FRAME" /\ ~Receiving(r)
  <2>1. Power(e)
    BY <1>3, <1>4, <1>5 DEF Entered, Power
  <2> QED BY <1>3, <1>4, <1>5, <2>1, SameFifoTrans DEF Entered, SameFrame, Receiving
<1>7. Good(e, air, driver)
  BY <1>2, <1>6, Moves DEF Good
<1> QED BY <1>1, <1>7, Lift

LEMMA KeepFireSfdClear ==
    ASSUME CInv, FireSfdClear
    PROVE  CInv'
<1> DEFINE e == [set_sfd(r, FALSE) EXCEPT !.sfd_clear_event = Off]
<1>1. r' = e /\ air' = air /\ driver' = driver
  BY DEF FireSfdClear
<1>2. Good(r, air, driver) /\ DOMAIN r = Fields
  BY DEF CInv, Good
<1>3. SameFrame(r, e) /\ SamePower(r, e)
  BY <1>2 DEF Fields, SameFrame, SameFifo, SamePower, set_sfd
<1> HIDE DEF e
<1>4. Power(e) /\ Heard(air, driver) /\ (Receiving(r) => air.due \in Nat)
  BY <1>2, <1>3 DEF Good, Synced, Power, SamePower, SameFrame
<1>5. Good(e, air, driver)
  BY <1>2, <1>3, <1>4, Stays
<1> QED BY <1>1, <1>5, Lift

LEMMA KeepAirStart ==
    ASSUME CInv, AirStart
    PROVE  CInv'
<1>1. PICK k \in driver.kinds : air' = [kind |-> k, pos |-> -5, due |-> 2]
  BY DEF AirStart
<1>2. air = Silence /\ r' = r /\ driver' = driver
  BY DEF AirStart
<1>3. Good(r, air, driver) /\ DOMAIN r = Fields
  BY DEF CInv, Good
<1>4. ~Receiving(r)
  <2>1. air.due \notin Nat
    BY SMT, <1>2 DEF Silence, Off
  <2> QED BY <1>3, <2>1 DEF Good, Synced
<1>5. Heard(air', driver)
  BY SMT, <1>1 DEF Heard
<1>6. SameFrame(r, r) /\ Power(r)
  BY <1>3 DEF SameFrame, SameFifo, Good
<1>7. Good(r, air', driver)
  BY <1>3, <1>4, <1>5, <1>6, Stays
<1> QED BY <1>2, <1>7, Lift

LEMMA KeepVregOn ==
    ASSUME CInv, VregOn
    PROVE  CInv'
<1> DEFINE c == [r EXCEPT !.on = TRUE]
           e == set_state(c, "POWER_DOWN")
<1>1. r' = e /\ air' = air /\ driver' = driver /\ ~r.on
  BY DEF VregOn
<1>2. Good(r, air, driver) /\ DOMAIN r = Fields
  BY DEF CInv, Good
<1>3. SameFrame(r, c) /\ c.on = TRUE /\ DOMAIN c = Fields
  BY <1>2 DEF Fields, SameFrame, SameFifo
<1> HIDE DEF c
<1>4. Entered(c, e, "POWER_DOWN")
  BY <1>3, SetState
<1> HIDE DEF e
<1>5. r.state = "VREG_OFF"
  BY <1>1, <1>2 DEF Good, Power
<1>6. Power(e)
  BY <1>3, <1>4 DEF Entered, Power
<1>7. SameFifo(r, e) /\ e.state # "RX_FRAME" /\ ~Receiving(r)
  BY <1>3, <1>4, <1>5, SameFifoTrans DEF Entered, SameFrame, Receiving
<1>8. Good(e, air, driver)
  BY <1>2, <1>6, <1>7, Moves DEF Good
<1> QED BY <1>1, <1>8, Lift

LEMMA KeepVregOff ==
    ASSUME CInv, Careful(driver), VregOff
    PROVE  CInv'
<1> DEFINE c == vreg_cancels([r EXCEPT !.on = FALSE, !.tx_active = FALSE])
           e == set_state(c, "VREG_OFF")
<1>1. r' = e /\ air' = air /\ driver' = driver /\ r.state # "RX_FRAME"
  BY DEF VregOff, Careful
<1>2. Good(r, air, driver) /\ DOMAIN r = Fields
  BY DEF CInv, Good
<1>3. SameFrame(r, c) /\ c.oscillator_event = Off /\ DOMAIN c = Fields
  BY <1>2 DEF Fields, SameFrame, SameFifo, vreg_cancels
<1> HIDE DEF c
<1>4. Entered(c, e, "VREG_OFF")
  BY <1>3, SetState
<1> HIDE DEF e
<1>5. Power(e)
  BY <1>3, <1>4 DEF Entered, Power
<1>6. SameFifo(r, e) /\ e.state # "RX_FRAME" /\ ~Receiving(r)
  BY <1>1, <1>3, <1>4, SameFifoTrans DEF Entered, SameFrame, Receiving
<1>7. Good(e, air, driver)
  BY <1>2, <1>5, <1>6, Moves DEF Good
<1> QED BY <1>1, <1>7, Lift

-----------------------------------------------------------------------------
(* Strobes.                                                                *)

\* An empty FIFO between frames, as after the reset and after a flush.
LEMMA Emptied ==
    ASSUME NEW e, NEW a, NEW d, DOMAIN e = Fields, DOMAIN e.memory = 0 .. FifoSize - 1,
           e.write_pos = 0, e.read_pos = 0, e.fifo_len = 0, e.read_left = 0, ~e.fifop,
           e.state # "RX_FRAME", Power(e), Heard(a, d)
    PROVE  Good(e, a, d)
<1>1. /\ 0 \in 0 .. FifoSize - 1 /\ 0 \in 0 .. Whole - 1 /\ 0 + 0 = 0 /\ 0 \in 0 .. FifoSize
      /\ 0 \in 0 .. FrameLen /\ 0 .. 0 - 1 = {} /\ ~ (0 > FrameLen)
  BY SMT, Numbers
<1>2. 0 % FifoSize = 0 /\ 0 % Whole = 0
  BY <1>1, Numbers, ModSmall
<1>3. First(e) = 0
  BY DEF First
<1>4. Ring(e)
  BY <1>1, <1>2, <1>3 DEF Ring
<1>5. Aligned(e) /\ Synced(e, a) /\ Marked(e, d)
  BY <1>1, <1>2, <1>3 DEF Aligned, Synced, Marked, Receiving, Phase
<1>6. Signals(e)
  BY <1>1 DEF Signals
<1> QED BY <1>4, <1>5, <1>6 DEF Good

LEMMA FlushRx ==
    ASSUME NEW c, NEW a, NEW d, Good(c, a, d)
    PROVE  Good(flush_rx(c), a, d)
<1> DEFINE f == [c EXCEPT !.write_pos = 0, !.read_pos = 0, !.fifo_len = 0,
                          !.read_left = packet_forgotten(c),
                          !.rxlen = 0, !.rxread = 0, !.overflow = FALSE,
                          !.frame_rejected = FALSE, !.sfd_clear_event = Off,
                          !.fifo = FALSE, !.fifop = FALSE, !.sfd = FALSE]
           g == [f EXCEPT !.symbol_event = Off]
           Empty(x) == /\ DOMAIN x = Fields /\ x.memory = c.memory /\ x.write_pos = 0 /\ x.read_pos = 0
                       /\ x.fifo_len = 0 /\ x.read_left = 0 /\ ~x.fifop
<1>1. DOMAIN c = Fields /\ DOMAIN c.memory = 0 .. FifoSize - 1 /\ Power(c) /\ Heard(a, d)
  BY DEF Good, Ring
<1>2. Empty(f) /\ SamePower(c, f) /\ f.state = c.state
  BY <1>1 DEF Fields, SamePower, packet_forgotten
<1>3. flush_rx(c) = IF c.state \in RxStates THEN set_state(g, "RX_SFD_SEARCH") ELSE f
  BY DEF flush_rx, search_again
<1> HIDE DEF f
<1>4. Empty(g) /\ SamePower(c, g) /\ g.state = c.state
  BY <1>2 DEF Fields, SamePower
<1> HIDE DEF g
<1>5. Power(f) /\ Power(g)
  BY <1>1, <1>2, <1>4 DEF Power, SamePower
<1>6. CASE c.state \in RxStates
  <2> DEFINE e == set_state(g, "RX_SFD_SEARCH")
  <2>1. g.state \notin {"VREG_OFF", "POWER_DOWN"}
    BY <1>4, <1>6 DEF RxStates
  <2>2. Left(g, e)
    BY <1>4, <1>5, <2>1, LeftBySetState
  <2> HIDE DEF e
  <2>3. Empty(e) /\ e.state # "RX_FRAME" /\ Power(e)
    BY <1>4, <2>2 DEF Left, SameFifo
  <2>4. Good(e, a, d)
    BY <1>1, <2>3, Emptied
  <2> QED BY <1>3, <1>6, <2>4 DEF e
<1>7. CASE c.state \notin RxStates
  <2>1. f.state # "RX_FRAME"
    BY <1>2, <1>7 DEF RxStates
  <2>2. Good(f, a, d)
    BY <1>1, <1>2, <1>5, <2>1, Emptied
  <2> QED BY <1>3, <1>7, <2>2
<1> QED BY <1>6, <1>7

\* What a strobe does that is no flush.
LEMMA StrobeLeaves ==
    ASSUME NEW c, NEW cmd, DOMAIN c = Fields, Power(c), cmd # "SFLUSHRX", c.state # "VREG_OFF",
           c.state = "POWER_DOWN" => cmd = "SXOSCON",
           c.state # "RX_FRAME" \/ cmd \notin {"STXON", "STXONCCA", "SRFOFF", "SXOSCOFF"}
    PROVE  LET e == strobe(c, cmd)
           IN  (SameFrame(c, e) /\ Power(e)) \/ (c.state # "RX_FRAME" /\ Left(c, e))
<1> DEFINE e == strobe(c, cmd)
           Fine(x) == (SameFrame(c, x) /\ Power(x)) \/ (c.state # "RX_FRAME" /\ Left(c, x))
<1>0. c.on
  BY DEF Power
<1>1. CASE cmd = "SXOSCON" /\ ~c.xosc_stable
  <2>1. e = [c EXCEPT !.oscillator_event = OscSymbols]
    BY <1>1 DEF strobe
  <2>2. c.state = "POWER_DOWN"
    BY <1>1 DEF Power
  <2> HIDE DEF e
  <2>3. SameFrame(c, e) /\ e.on = c.on /\ e.xosc_stable = c.xosc_stable
    BY <2>1 DEF Fields, SameFrame, SameFifo
  <2>4. Power(e)
    BY <1>0, <2>2, <2>3 DEF Power, SameFrame
  <2>5. Fine(e)
    BY <2>3, <2>4
  <2> QED BY <2>5 DEF e
<1>2. CASE cmd = "SRXON" /\ c.state = "IDLE"
  <2>1. e = set_state(c, "RX_CALIBRATE")
    BY <1>2 DEF strobe
  <2>2. Left(c, e)
    BY <1>2, <2>1, LeftBySetState
  <2> QED BY <1>2, <2>2
<1>3. CASE \/ cmd = "STXON" /\ c.state \in RxStates \cup {"IDLE"}
           \/ cmd = "STXONCCA" /\ c.state \in RxStates /\ c.cca
  <2> DEFINE f == [c EXCEPT !.tx_active = TRUE]
  <2>1. e = set_state(f, "TX_CALIBRATE")
    BY <1>3 DEF strobe, stxon
  <2>2. SameFrame(c, f) /\ SamePower(c, f) /\ DOMAIN f = Fields
    BY DEF Fields, SameFrame, SameFifo, SamePower
  <2> HIDE DEF f
  <2>3. Power(f) /\ f.state \notin {"VREG_OFF", "POWER_DOWN"} /\ c.state # "RX_FRAME"
    BY <1>3, <2>2 DEF Power, SamePower, SameFrame
  <2>4. Left(f, set_state(f, "TX_CALIBRATE"))
    BY <2>2, <2>3, LeftBySetState
  <2>5. Left(c, e)
    BY <2>1, <2>2, <2>4, SameFifoTrans DEF Left, SameFrame
  <2> QED BY <2>3, <2>5
<1>4. CASE cmd = "SRFOFF"
  <2>1. e = set_state(c, "IDLE")
    BY <1>4 DEF strobe
  <2>2. Left(c, e) /\ c.state # "RX_FRAME"
    BY <1>4, <2>1, LeftBySetState
  <2> QED BY <2>2
<1>5. CASE cmd = "SXOSCOFF"
  <2>1. e = set_state(c, "POWER_DOWN")
    BY <1>5 DEF strobe
  <2>2. Entered(c, e, "POWER_DOWN") /\ c.state # "RX_FRAME"
    BY <1>5, <2>1, SetState
  <2> HIDE DEF e
  <2>3. Left(c, e)
    BY <1>0, <2>2 DEF Entered, Left, Power
  <2> QED BY <2>2, <2>3 DEF e
<1>6. CASE cmd = "SACK" /\ c.state = "RX_FRAME"
  <2>1. e = [c EXCEPT !.should_ack = TRUE]
    BY <1>6 DEF strobe
  <2> HIDE DEF e
  <2>2. SameFrame(c, e) /\ SamePower(c, e)
    BY <2>1 DEF Fields, SameFrame, SameFifo, SamePower
  <2>3. Power(e)
    BY <2>2 DEF Power, SamePower, SameFrame
  <2>4. Fine(e)
    BY <2>2, <2>3
  <2> QED BY <2>4 DEF e
<1>7. CASE cmd = "SACK" /\ c.state # "RX_FRAME" /\ c.crc_ok
  <2>1. e = set_state(c, "TX_ACK_CALIBRATE")
    BY <1>7 DEF strobe
  <2>2. Left(c, e)
    BY <1>7, <2>1, LeftBySetState
  <2> QED BY <1>7, <2>2
<1>8. CASE /\ ~ (cmd = "SXOSCON" /\ ~c.xosc_stable) /\ ~ (cmd = "SRXON" /\ c.state = "IDLE")
           /\ ~ \/ cmd = "STXON" /\ c.state \in RxStates \cup {"IDLE"}
                \/ cmd = "STXONCCA" /\ c.state \in RxStates /\ c.cca
           /\ cmd # "SRFOFF" /\ cmd # "SXOSCOFF" /\ ~ (cmd = "SACK" /\ c.state = "RX_FRAME")
           /\ ~ (cmd = "SACK" /\ c.state # "RX_FRAME" /\ c.crc_ok)
  <2>1. e = c
    BY <1>8 DEF strobe
  <2>2. SameFrame(c, c)
    BY DEF SameFrame, SameFifo
  <2> QED BY <2>1, <2>2
<1> QED BY <1>1, <1>2, <1>3, <1>4, <1>5, <1>6, <1>7, <1>8

LEMMA KeepStrobe ==
    ASSUME CInv, Careful(driver), Strobe
    PROVE  CInv'
<1>1. PICK cmd \in driver.strobes :
          /\ r.state # "VREG_OFF" /\ (r.state = "POWER_DOWN" => cmd = "SXOSCON")
          /\ r.state # "RX_FRAME" \/ cmd \notin {"STXON", "STXONCCA", "SRFOFF", "SXOSCOFF"}
          /\ r' = strobe(r, cmd) /\ air' = air /\ driver' = driver
  BY DEF Strobe, Careful
<1>2. Good(r, air, driver) /\ DOMAIN r = Fields /\ Power(r) /\ Heard(air, driver)
  BY DEF CInv, Good
<1>3. CASE cmd = "SFLUSHRX"
  <2>1. strobe(r, cmd) = flush_rx(r)
    BY <1>3 DEF strobe
  <2>2. Good(flush_rx(r), air, driver)
    BY <1>2, FlushRx
  <2>3. Good(r', air', driver')
    BY <1>1, <2>1, <2>2
  <2> QED BY <2>3, Lift
<1>4. CASE cmd # "SFLUSHRX"
  <2> DEFINE e == strobe(r, cmd)
  <2>1. (SameFrame(r, e) /\ Power(e)) \/ (r.state # "RX_FRAME" /\ Left(r, e))
    BY <1>1, <1>2, <1>4, StrobeLeaves
  <2> HIDE DEF e
  <2>2. ASSUME SameFrame(r, e), Power(e) PROVE Good(e, air, driver)
    <3>1. Receiving(r) => air.due \in Nat
      BY <1>2 DEF Good, Synced
    <3> QED BY <1>2, <2>2, <3>1, Stays
  <2>3. ASSUME r.state # "RX_FRAME", Left(r, e) PROVE Good(e, air, driver)
    <3>1. ~Receiving(r)
      BY <2>3 DEF Receiving
    <3> QED BY <1>2, <2>3, <3>1, Moves DEF Left
  <2>4. Good(e, air, driver)
    BY <2>1, <2>2, <2>3
  <2>5. Good(r', air', driver')
    BY <1>1, <2>4 DEF e
  <2> QED BY <2>5, Lift
<1> QED BY <1>3, <1>4

-----------------------------------------------------------------------------
(* Reading.                                                                *)

LEMMA RingNumbers ==
    ASSUME NEW c, Ring(c)
    PROVE  /\ c.read_pos \in Nat /\ c.read_pos < FifoSize
           /\ c.fifo_len \in Nat /\ c.fifo_len <= FifoSize
           /\ c.read_left \in Nat /\ c.read_left <= FrameLen
           /\ First(c) \in 0 .. FrameLen
<1>1. c.fifo_len \in 0 .. FifoSize /\ c.read_pos \in 0 .. FifoSize - 1 /\ c.read_left \in 0 .. FrameLen
  BY DEF Ring
<1>2. First(c) = IF c.read_left = 0 THEN 0 ELSE Whole - c.read_left
  BY DEF First
<1> QED BY SMT, <1>1, <1>2, Numbers

\* The byte at the head of the FIFO is the length byte when no packet is being read.
LEMMA LengthAhead ==
    ASSUME NEW c, Ring(c), c.fifo_len > 0, c.read_left = 0
    PROVE  LengthByte(c) = FrameLen
<1>1. First(c) = 0
  BY DEF First
<1>2. 0 \in 0 .. c.fifo_len - 1 /\ c.read_pos + 0 = c.read_pos /\ 0 + 0 = 0 /\ 0 \in 0 .. Whole - 1
  BY SMT, RingNumbers, Numbers
<1>3. c.memory[(c.read_pos + 0) % FifoSize] = (0 + 0) % Whole
  BY <1>1, <1>2 DEF Ring
<1>4. c.read_pos % FifoSize = c.read_pos /\ 0 % Whole = 0
  BY <1>2, Numbers, ModSmall DEF Ring
<1>5. c.memory[c.read_pos] = 0
  BY <1>2, <1>3, <1>4
<1> QED BY <1>5 DEF LengthByte

\* A byte is taken out: the ring of the FIFO and the place in the frame advance together.
LEMMA RingRead ==
    ASSUME NEW c, NEW e, Ring(c), c.fifo_len > 0,
           e.read_pos = (c.read_pos + 1) % FifoSize, e.fifo_len = c.fifo_len - 1,
           e.memory = c.memory, e.write_pos = c.write_pos,
           e.read_left \in 0 .. FrameLen, First(e) = (First(c) + 1) % Whole
    PROVE  Ring(e) /\ Phase(e) = Phase(c)
<1> DEFINE p == c.read_pos
           n == c.fifo_len
           f == First(c)
<1>1. p \in Nat /\ n \in Nat /\ n > 0 /\ n <= FifoSize /\ f \in Nat
  <2>1. f \in 0 .. FrameLen
    BY RingNumbers
  <2>2. f \in Nat
    BY SMT, <2>1, Numbers
  <2> QED BY <2>2, RingNumbers
<1> HIDE DEF p, n, f
<1>2. p + 1 \in Int /\ f + 1 \in Int /\ n - 1 \in 0 .. FifoSize /\ n - 1 \in Int
  BY SMT, <1>1, Numbers
<1>3. e.read_pos \in 0 .. FifoSize - 1
  <2>1. (p + 1) % FifoSize \in 0 .. FifoSize - 1
    BY <1>2, Numbers, ModFacts
  <2> QED BY <2>1 DEF p
<1>4. ASSUME NEW k \in Int
      PROVE  /\ (e.read_pos + k) % FifoSize = (p + (k + 1)) % FifoSize
             /\ (First(e) + k) % Whole = (f + (k + 1)) % Whole
  <2>1. (p + 1) + k = p + (k + 1) /\ (f + 1) + k = f + (k + 1)
    BY SMT, <1>1
  <2>2. (((p + 1) % FifoSize) + k) % FifoSize = ((p + 1) + k) % FifoSize
    BY <1>2, Numbers, ModAdd
  <2>3. (((f + 1) % Whole) + k) % Whole = ((f + 1) + k) % Whole
    BY <1>2, Numbers, ModAdd
  <2> QED BY <2>1, <2>2, <2>3 DEF p, f
<1>5. (n - 1) + 1 = n
  BY SMT, <1>1
<1>6. e.write_pos = (e.read_pos + e.fifo_len) % FifoSize
  <2>1. (e.read_pos + (n - 1)) % FifoSize = (p + n) % FifoSize
    BY <1>2, <1>4, <1>5
  <2> QED BY <2>1 DEF Ring, p, n
<1>7. Phase(e) = Phase(c)
  <2>1. (First(e) + (n - 1)) % Whole = (f + n) % Whole
    BY <1>2, <1>4, <1>5
  <2> QED BY <2>1 DEF Phase, f, n
<1>8. ASSUME NEW k \in 0 .. e.fifo_len - 1
      PROVE  e.memory[(e.read_pos + k) % FifoSize] = (First(e) + k) % Whole
  <2>1. e.fifo_len = n - 1
    BY DEF n
  <2>2. k \in Int /\ k + 1 \in 0 .. n - 1
    BY SMT, <1>1, <2>1
  <2>3. c.memory[(p + (k + 1)) % FifoSize] = (f + (k + 1)) % Whole
    BY <2>2 DEF Ring, p, n, f
  <2> QED BY <1>4, <2>2, <2>3
<1>9. e.fifo_len \in 0 .. FifoSize /\ DOMAIN e.memory = 0 .. FifoSize - 1
  BY <1>2 DEF Ring, n
<1> QED BY <1>3, <1>6, <1>7, <1>8, <1>9 DEF Ring

\* What cc2420_spi_exchange does to the chip.
LEMMA SpiReadIs ==
    ASSUME NEW c, DOMAIN c = Fields, c.fifo_len > 0
    PROVE  LET e == spi_read_rxfifo(c)
               b == rxfifo_read(c)
           IN  /\ DOMAIN e = Fields /\ SamePower(c, e)
               /\ e.read_pos = (c.read_pos + 1) % FifoSize /\ e.fifo_len = c.fifo_len - 1
               /\ e.memory = c.memory /\ e.write_pos = c.write_pos /\ e.overflow = c.overflow
               /\ e.state = c.state /\ e.rxread = c.rxread /\ e.rxlen = c.rxlen
               /\ e.frame_rejected = c.frame_rejected
               /\ e.read_left = IF c.read_left = 0 THEN LengthByte(c) ELSE c.read_left - 1
               /\ c.read_left # 0 =>
                      e.fifop = ((c.fifop /\ (c.overflow \/ e.fifo_len > FifopThr))
                                   \/ (c.read_left = 1 /\ another_packet(b)))
               /\ b.memory = e.memory /\ b.read_pos = e.read_pos /\ b.fifo_len = e.fifo_len
<1> DEFINE e == spi_read_rxfifo(c)
           b == rxfifo_read(c)
           w == [b EXCEPT !.fifop = @ /\ (c.overflow \/ b.fifo_len > FifopThr)]
           g == [w EXCEPT !.read_left = LengthByte(c)]
           h == [w EXCEPT !.read_left = @ - 1, !.fifop = @ \/ (c.read_left = 1 /\ another_packet(b))]
           n == IF c.read_left = 0 THEN g ELSE h
           Alike(x, y) ==
               /\ DOMAIN y = Fields /\ SamePower(x, y) /\ y.memory = x.memory
               /\ y.write_pos = x.write_pos /\ y.overflow = x.overflow
               /\ y.state = x.state /\ y.rxread = x.rxread /\ y.rxlen = x.rxlen
               /\ y.frame_rejected = x.frame_rejected
           Ahead(x, y) == y.read_pos = x.read_pos /\ y.fifo_len = x.fifo_len
<1>1. /\ Alike(c, b) /\ b.read_pos = (c.read_pos + 1) % FifoSize /\ b.fifo_len = c.fifo_len - 1
      /\ b.read_left = c.read_left /\ b.fifop = c.fifop
  BY DEF rxfifo_read, Fields, SamePower
<1>2. e = [n EXCEPT !.fifo = @ /\ b.fifo_len > 0]
  BY DEF spi_read_rxfifo
<1> HIDE DEF e, b
<1>3. /\ Alike(b, w) /\ Ahead(b, w) /\ w.read_left = c.read_left
      /\ w.fifop = (c.fifop /\ (c.overflow \/ b.fifo_len > FifopThr))
  BY <1>1 DEF Fields, SamePower
<1> HIDE DEF w
<1>4. Alike(w, g) /\ Ahead(w, g) /\ g.read_left = LengthByte(c)
  BY <1>3 DEF Fields, SamePower
<1>5. /\ Alike(w, h) /\ Ahead(w, h) /\ h.read_left = c.read_left - 1
      /\ h.fifop = (w.fifop \/ (c.read_left = 1 /\ another_packet(b)))
  BY <1>3 DEF Fields, SamePower
<1> HIDE DEF g, h
<1>6. /\ Alike(w, n) /\ Ahead(w, n)
      /\ n.read_left = IF c.read_left = 0 THEN LengthByte(c) ELSE c.read_left - 1
      /\ c.read_left # 0 => n.fifop = (w.fifop \/ (c.read_left = 1 /\ another_packet(b)))
  BY <1>4, <1>5
<1> HIDE DEF n
<1>7. Alike(n, e) /\ Ahead(n, e) /\ e.read_left = n.read_left /\ e.fifop = n.fifop
  BY <1>2, <1>6 DEF Fields, SamePower
<1>8. Alike(c, e) /\ Ahead(b, e) /\ Alike(b, e)
  BY <1>1, <1>3, <1>6, <1>7 DEF SamePower
<1>9. c.read_left # 0 =>
          e.fifop = ((c.fifop /\ (c.overflow \/ e.fifo_len > FifopThr))
                       \/ (c.read_left = 1 /\ another_packet(b)))
  BY <1>3, <1>6, <1>7, <1>8
<1> QED BY <1>1, <1>6, <1>7, <1>8, <1>9 DEF e, b

LEMMA SpiReadGood ==
    ASSUME NEW c, NEW a, NEW d, Good(c, a, d), c.fifo_len > 0, ~Receiving(c) \/ d.reads_in_frame
    PROVE  Good(spi_read_rxfifo(c), a, d)
<1> DEFINE e == spi_read_rxfifo(c)
           b == rxfifo_read(c)
<1>1. DOMAIN c = Fields /\ Ring(c) /\ Heard(a, d)
  BY DEF Good
<1>2. /\ DOMAIN e = Fields /\ SamePower(c, e)
      /\ e.read_pos = (c.read_pos + 1) % FifoSize /\ e.fifo_len = c.fifo_len - 1
      /\ e.memory = c.memory /\ e.write_pos = c.write_pos /\ e.overflow = c.overflow
      /\ e.state = c.state /\ e.rxread = c.rxread /\ e.rxlen = c.rxlen
      /\ e.frame_rejected = c.frame_rejected
      /\ e.read_left = IF c.read_left = 0 THEN LengthByte(c) ELSE c.read_left - 1
      /\ c.read_left # 0 =>
             e.fifop = ((c.fifop /\ (c.overflow \/ e.fifo_len > FifopThr))
                          \/ (c.read_left = 1 /\ another_packet(b)))
      /\ b.memory = e.memory /\ b.read_pos = e.read_pos /\ b.fifo_len = e.fifo_len
  BY <1>1, SpiReadIs
<1> HIDE DEF e, b
<1>3. e.read_left = IF c.read_left = 0 THEN FrameLen ELSE c.read_left - 1
  BY <1>1, <1>2, LengthAhead
<1>4. e.read_left \in 0 .. FrameLen /\ (e.read_left = 0 => c.read_left = 1)
  BY SMT, <1>1, <1>3, RingNumbers, Numbers
<1>5. First(e) = (First(c) + 1) % Whole
  <2>1. First(e) = IF e.read_left = 0 THEN 0 ELSE Whole - e.read_left
    BY DEF First
  <2>2. First(c) = IF c.read_left = 0 THEN 0 ELSE Whole - c.read_left
    BY DEF First
  <2>3. First(c) \in 0 .. FrameLen /\ c.read_left \in Nat
    BY <1>1, RingNumbers
  <2>4. First(c) \in Int
    BY SMT, <2>3, Numbers
  <2>5. First(e) = IF First(c) = Whole - 1 THEN 0 ELSE First(c) + 1
    BY SMT, <1>3, <2>1, <2>2, <2>3, Numbers
  <2>6. First(c) % Whole = First(c)
    <3>1. 0 .. FrameLen = 0 .. Whole - 1
      BY SMT, Numbers
    <3> QED BY <2>3, <3>1, Numbers, ModSmall
  <2>7. (First(c) + 1) % Whole
            = IF First(c) % Whole = Whole - 1 THEN 0 ELSE (First(c) % Whole) + 1
    BY <2>4, Numbers, ModSucc
  <2> QED BY <2>5, <2>6, <2>7
<1>6. Ring(e) /\ Phase(e) = Phase(c)
  BY <1>1, <1>2, <1>4, <1>5, RingRead
<1>7. Receiving(e) <=> Receiving(c)
  BY <1>2 DEF Receiving
<1>8. Aligned(e)
  BY <1>2, <1>6, <1>7 DEF Good, Aligned
<1>9. Synced(e, a)
  BY <1>2, <1>7 DEF Good, Synced
<1>10. Marked(e, d)
  BY <1>7 DEF Marked
<1>11. Power(e)
  BY <1>2 DEF Good, Power, SamePower
<1>12. ASSUME FifopThr >= FrameLen, e.read_left = 0
       PROVE  /\ e.fifo_len > FrameLen => e.fifop
              /\ e.fifop /\ ~e.overflow => e.fifo_len > FrameLen
  <2>1. c.read_left = 1 /\ c.read_left # 0
    <3>1. 1 # 0
      BY SMT
    <3> QED BY <1>4, <1>12, <3>1
  <2>2. e.fifop = ((c.fifop /\ (c.overflow \/ e.fifo_len > FifopThr)) \/ another_packet(b))
    BY <1>2, <2>1
  <2>3. e.fifo_len \in Nat
    BY <1>6, RingNumbers
  <2>4. e.fifo_len > FifopThr => e.fifo_len > FrameLen
    BY SMT, <1>12, <2>3, Numbers
  <2>5. e.fifo_len > FrameLen => e.fifo_len > 0
    BY SMT, <2>3, Numbers
  <2>6. e.fifo_len > 0 => LengthByte(b) = FrameLen
    <3>1. LengthByte(b) = LengthByte(e)
      BY <1>2 DEF LengthByte
    <3> QED BY <1>6, <1>12, <3>1, LengthAhead
  <2>7. another_packet(b) <=> e.fifo_len > 0 /\ e.fifo_len > FrameLen
    BY <1>2, <2>4, <2>6 DEF another_packet
  <2> QED BY <1>2, <2>2, <2>4, <2>5, <2>7
<1>13. Signals(e)
  BY <1>12 DEF Signals
<1>14. Good(e, a, d)
  BY <1>1, <1>2, <1>6, <1>8, <1>9, <1>10, <1>11, <1>13 DEF Good
<1> QED BY <1>14 DEF e

LEMMA KeepSpiRead ==
    ASSUME CInv, SpiRead
    PROVE  CInv'
<1>1. /\ r.fifo_len > 0 /\ (driver.reads_in_frame \/ r.state # "RX_FRAME")
      /\ r' = spi_read_rxfifo(r) /\ air' = air /\ driver' = driver
  BY DEF SpiRead
<1>2. ~Receiving(r) \/ driver.reads_in_frame
  BY <1>1 DEF Receiving
<1>3. Good(spi_read_rxfifo(r), air, driver)
  BY <1>1, <1>2, SpiReadGood DEF CInv
<1>4. Good(r', air', driver')
  BY <1>1, <1>3
<1> QED BY <1>4, Lift

-----------------------------------------------------------------------------
(* A byte from the air.                                                    *)

\* The start of a frame: the FIFO is marked at its end, the end of a frame.
LEMMA EnterFrame ==
    ASSUME NEW c, NEW a, NEW d, NEW b, Good(c, a, d), Heard(b, d), c.state = "RX_SFD_SEARCH",
           b.pos = 0, b.due = 2
    PROVE  Good(set_state(set_sfd(c, TRUE), "RX_FRAME"), b, d)
<1> DEFINE s == set_sfd(c, TRUE)
           e == set_state(s, "RX_FRAME")
<1>1. DOMAIN c = Fields /\ Ring(c) /\ Power(c)
  BY DEF Good
<1>2. SameFrame(c, s) /\ SamePower(c, s) /\ DOMAIN s = Fields
  BY <1>1 DEF set_sfd, Fields, SameFrame, SameFifo, SamePower
<1> HIDE DEF s
<1>3. /\ e.rxread = 0 /\ e.rxlen = 0 /\ e.frame_rejected = FALSE
      /\ e.mark_pos = s.write_pos /\ e.mark_len = s.fifo_len
  BY <1>2, SetStateFrame
<1>4. Entered(s, e, "RX_FRAME")
  BY <1>2, SetState
<1> HIDE DEF e
<1>5. SameFifo(c, e) /\ DOMAIN e = Fields
  BY <1>2, <1>4, SameFifoTrans DEF SameFrame, Entered, SameFifo
<1>6. Ring(e) /\ Signals(e) /\ First(e) = First(c) /\ Phase(e) = Phase(c)
  BY <1>5, SameFifoKeeps DEF Good
<1>7. ~c.overflow => Phase(c) = 0
  BY DEF Good, Aligned
<1>8. Aligned(e)
  BY <1>3, <1>4, <1>5, <1>6, <1>7 DEF Aligned, Receiving, Entered, SameFifo
<1>9. Synced(e, b)
  <2>1. 0 \in 0 .. FrameLen /\ 2 \in Nat
    BY SMT, Numbers
  <2> QED BY <1>3, <2>1 DEF Synced
<1>10. Marked(e, d)
  <2>1. /\ e.mark_len = c.fifo_len /\ e.mark_pos = c.write_pos /\ e.fifo_len = c.fifo_len
        /\ e.read_pos = c.read_pos
    BY <1>2, <1>3, <1>5 DEF SameFrame, SameFifo
  <2>2. c.fifo_len \in Nat /\ c.fifo_len = c.fifo_len + 0
    BY SMT, <1>1, RingNumbers
  <2>3. c.write_pos = (c.read_pos + c.fifo_len) % FifoSize
    BY <1>1 DEF Ring
  <2>4. Receiving(e) => (First(e) + e.mark_len) % Whole = 0
    BY <1>5, <1>6, <1>7, <2>1 DEF Receiving, SameFifo, Phase
  <2> QED BY <1>3, <2>1, <2>2, <2>3, <2>4 DEF Marked
<1>11. Power(e)
  BY <1>1, <1>2, <1>4 DEF Power, Entered, SamePower, SameFrame
<1>12. Good(e, b, d)
  BY <1>5, <1>6, <1>8, <1>9, <1>10, <1>11 DEF Good
<1> QED BY <1>12 DEF e, s

\* The memory m is c's with p at the place to be written next.
Written(c, p, m) == m = [c.memory EXCEPT ![c.write_pos] = p]

\* What rxfifo_write does.
Wrote(c, p, e) ==
    /\ DOMAIN e = Fields /\ SamePower(c, e) /\ Written(c, p, e.memory)
    /\ e.write_pos = (c.write_pos + 1) % FifoSize /\ e.fifo_len = c.fifo_len + 1
    /\ e.read_pos = c.read_pos /\ e.read_left = c.read_left /\ e.fifop = c.fifop
    /\ e.overflow = c.overflow /\ e.state = c.state /\ e.rxread = c.rxread
    /\ e.rxlen = c.rxlen /\ e.frame_rejected = c.frame_rejected
    /\ e.mark_pos = c.mark_pos /\ e.mark_len = c.mark_len

LEMMA WriteIs ==
    ASSUME NEW c, NEW p, DOMAIN c = Fields
    PROVE  Wrote(c, p, rxfifo_write(c, p))
<1> DEFINE e == rxfifo_write(c, p)
<1>1. DOMAIN e = Fields /\ SamePower(c, e)
  BY DEF rxfifo_write, Fields, SamePower
<1>2. /\ Written(c, p, e.memory)
      /\ e.write_pos = (c.write_pos + 1) % FifoSize /\ e.fifo_len = c.fifo_len + 1
  BY DEF rxfifo_write, Fields, Written
<1>3. /\ e.read_pos = c.read_pos /\ e.read_left = c.read_left /\ e.fifop = c.fifop
      /\ e.overflow = c.overflow /\ e.state = c.state /\ e.rxread = c.rxread
      /\ e.rxlen = c.rxlen /\ e.frame_rejected = c.frame_rejected
      /\ e.mark_pos = c.mark_pos /\ e.mark_len = c.mark_len
  BY DEF rxfifo_write, Fields
<1> HIDE DEF e
<1>4. Wrote(c, p, e)
  BY <1>1, <1>2, <1>3 DEF Wrote
<1> QED BY <1>4 DEF e

\* The bytes of c's FIFO are in the memory m, and p after them.
Kept(c, p, m) ==
    /\ DOMAIN m = 0 .. FifoSize - 1 /\ m[c.write_pos] = p
    /\ \A k \in 0 .. c.fifo_len - 1 : m[(c.read_pos + k) % FifoSize] = (First(c) + k) % Whole

\* A byte written while the FIFO has room overwrites none of its bytes.
LEMMA Untouched ==
    ASSUME NEW c, Ring(c), c.fifo_len < FifoSize, NEW p,
           NEW m, Written(c, p, m)
    PROVE  Kept(c, p, m)
<1> DEFINE n == c.fifo_len
<1>1. /\ c.read_pos \in Nat /\ n \in Nat /\ n < FifoSize
      /\ DOMAIN c.memory = 0 .. FifoSize - 1 /\ c.write_pos = (c.read_pos + n) % FifoSize
  BY RingNumbers DEF Ring
<1>2. c.read_pos + n \in Int
  BY SMT, <1>1
<1>3. c.write_pos \in 0 .. FifoSize - 1
  BY <1>1, <1>2, Numbers, ModFacts
<1>4. DOMAIN m = 0 .. FifoSize - 1 /\ m[c.write_pos] = p
  BY <1>1, <1>3 DEF Written
<1>5. ASSUME NEW k \in 0 .. n - 1
      PROVE  m[(c.read_pos + k) % FifoSize] = (First(c) + k) % Whole
  <2> DEFINE x == c.read_pos + k
             d == n - k
  <2>1. x \in Int /\ d \in 1 .. FifoSize - 1 /\ x + d = c.read_pos + n
    <3>1. c.read_pos \in Nat /\ n \in Nat /\ n < FifoSize /\ FifoSize \in Nat
      BY <1>1, Numbers
    <3> HIDE DEF n
    <3> QED BY ONLY SMT, <3>1, k \in 0 .. n - 1
  <2> HIDE DEF x, d
  <2>2. (x + d) % FifoSize # x % FifoSize /\ x % FifoSize \in 0 .. FifoSize - 1
    BY <2>1, Numbers, ModDistinct, ModFacts
  <2>3. x % FifoSize # c.write_pos
    BY <1>1, <2>1, <2>2
  <2>4. m[x % FifoSize] = c.memory[x % FifoSize]
    BY <1>1, <2>2, <2>3 DEF Written
  <2>5. c.memory[x % FifoSize] = (First(c) + k) % Whole
    BY DEF x, Ring
  <2> QED BY <2>4, <2>5 DEF x
<1> QED BY <1>4, <1>5 DEF Kept

\* The byte that continues the frames in the FIFO.
LEMMA RingWrite ==
    ASSUME NEW c, NEW e, NEW p, Ring(c), c.fifo_len < FifoSize, p = Phase(c),
           Written(c, p, e.memory),
           e.write_pos = (c.write_pos + 1) % FifoSize, e.fifo_len = c.fifo_len + 1,
           e.read_pos = c.read_pos, e.read_left = c.read_left
    PROVE  Ring(e) /\ First(e) = First(c) /\ Phase(e) = (p + 1) % Whole
<1> DEFINE n == c.fifo_len
<1>1. /\ c.read_pos \in Nat /\ n \in Nat /\ n < FifoSize /\ First(c) \in 0 .. FrameLen
      /\ c.write_pos = (c.read_pos + n) % FifoSize
  BY RingNumbers DEF Ring
<1>2. /\ c.read_pos + n \in Int /\ (c.read_pos + n) + 1 = c.read_pos + (n + 1)
      /\ First(c) + n \in Int /\ (First(c) + n) + 1 = First(c) + (n + 1) /\ 1 \in Int
      /\ n + 1 \in 0 .. FifoSize /\ \A k \in 0 .. (n + 1) - 1 : k \in 0 .. n - 1 \/ k = n
  BY SMT, <1>1, Numbers
<1>3. First(e) = First(c)
  BY DEF First
<1>4. e.write_pos = (e.read_pos + e.fifo_len) % FifoSize
  <2>1. (((c.read_pos + n) % FifoSize) + 1) % FifoSize = ((c.read_pos + n) + 1) % FifoSize
    BY <1>2, Numbers, ModAdd
  <2> QED BY <1>1, <1>2, <2>1
<1>5. Phase(e) = (p + 1) % Whole
  <2>1. (((First(c) + n) % Whole) + 1) % Whole = ((First(c) + n) + 1) % Whole
    BY <1>2, Numbers, ModAdd
  <2> QED BY <1>2, <1>3, <2>1 DEF Phase
<1>6. Kept(c, p, e.memory)
  BY Untouched
<1>7. ASSUME NEW k \in 0 .. e.fifo_len - 1
      PROVE  e.memory[(e.read_pos + k) % FifoSize] = (First(e) + k) % Whole
  <2>1. CASE k \in 0 .. n - 1
    BY <1>3, <1>6, <2>1 DEF Kept
  <2>2. CASE k = n
    BY <1>1, <1>3, <1>6, <2>2 DEF Phase, Kept
  <2> QED BY <1>2, <2>1, <2>2
<1>8. e.fifo_len \in 0 .. FifoSize /\ e.read_pos \in 0 .. FifoSize - 1 /\ e.read_left \in 0 .. FrameLen
  BY <1>2 DEF Ring
<1> QED BY <1>3, <1>4, <1>5, <1>6, <1>7, <1>8 DEF Ring, Kept

\* A byte written and taken back, with more of the bytes before it.
LEMMA RingBack ==
    ASSUME NEW c, NEW e, NEW p, Ring(c), c.fifo_len < FifoSize,
           Written(c, p, e.memory),
           e.fifo_len \in Nat, e.fifo_len <= c.fifo_len,
           e.write_pos = (c.read_pos + e.fifo_len) % FifoSize,
           e.read_pos = c.read_pos, e.read_left = c.read_left
    PROVE  Ring(e) /\ First(e) = First(c)
<1> DEFINE n == c.fifo_len
<1>1. First(e) = First(c)
  BY DEF First
<1>2. Kept(c, p, e.memory)
  BY Untouched
<1>3. e.fifo_len \in 0 .. FifoSize /\ \A k \in 0 .. e.fifo_len - 1 : k \in 0 .. n - 1
  BY SMT, RingNumbers, Numbers
<1>4. e.read_pos \in 0 .. FifoSize - 1 /\ e.read_left \in 0 .. FrameLen
  BY DEF Ring
<1> QED BY <1>1, <1>2, <1>3, <1>4 DEF Ring, Kept

\* The frame goes on after a byte of it.
LEMMA Continues ==
    ASSUME NEW e, NEW b, NEW d, DOMAIN e = Fields, Heard(b, d), Ring(e), Signals(e), Power(e),
           e.rxread \in 1 .. FrameLen, e.rxlen = FrameLen, b.pos = e.rxread, b.due = 2,
           e.state = "RX_FRAME", Phase(e) = IF e.frame_rejected THEN 0 ELSE e.rxread, Marked(e, d)
    PROVE  Good(e, b, d)
<1>1. e.rxread \in 0 .. FrameLen /\ e.rxread # 0 /\ 2 \in Nat
  BY SMT, Numbers
<1>2. Synced(e, b)
  BY <1>1 DEF Synced
<1>3. Aligned(e)
  BY DEF Aligned
<1> QED BY <1>2, <1>3 DEF Good

\* The frame is over.
LEMMA Finished ==
    ASSUME NEW e, NEW b, NEW d, DOMAIN e = Fields, Heard(b, d), Ring(e), Signals(e), Power(e),
           e.state # "RX_FRAME", Phase(e) = 0
    PROVE  Good(e, b, d)
BY DEF Good, Aligned, Synced, Marked, Receiving

\* The byte is counted.
Counted(c, e) ==
    /\ DOMAIN e = Fields /\ SameFifo(c, e) /\ SamePower(c, e) /\ e.state = c.state
    /\ e.rxread = c.rxread + 1 /\ e.rxlen = c.rxlen /\ e.frame_rejected = c.frame_rejected
    /\ e.mark_pos = c.mark_pos /\ e.mark_len = c.mark_len

LEMMA CountedIs ==
    ASSUME NEW c, DOMAIN c = Fields
    PROVE  Counted(c, [c EXCEPT !.rxread = @ + 1])
BY DEF Counted, SameFifo, SamePower, Fields

LEMMA PowerKept ==
    ASSUME NEW c, NEW e, Power(c), SamePower(c, e), e.state = c.state
    PROVE  Power(e)
BY DEF Power, SamePower

\* What is known of a frame of which a byte is to come.
LEMMA InFrame ==
    ASSUME NEW c, NEW a, NEW d, Good(c, a, d), Receiving(c)
    PROVE  /\ DOMAIN c = Fields /\ Ring(c) /\ Power(c) /\ Signals(c) /\ c.state = "RX_FRAME" /\ ~c.overflow
           /\ c.rxread \in Nat /\ c.rxread <= FrameLen
           /\ c.rxread # FrameLen => c.rxread + 1 \in 1 .. FrameLen
           /\ c.rxread # 0 => c.rxlen = FrameLen
           /\ Phase(c) = IF c.frame_rejected THEN 0 ELSE c.rxread
           /\ c.frame_rejected => c.rxread # 0
<1>1. c.rxread \in 0 .. FrameLen /\ c.rxlen = IF c.rxread = 0 THEN 0 ELSE FrameLen
  BY DEF Good, Synced
<1>2. c.rxread \in Nat /\ c.rxread <= FrameLen
      /\ (c.rxread # FrameLen => c.rxread + 1 \in 1 .. FrameLen)
  BY SMT, <1>1, Numbers
<1> QED BY <1>1, <1>2 DEF Good, Receiving, Synced, Aligned

\* The bytes of a rejected frame are only counted.
LEMMA RejectedByte ==
    ASSUME NEW c, NEW a, NEW d, NEW b, NEW kind, NEW p, Good(c, a, d), Receiving(c), Heard(b, d),
           c.frame_rejected, c.rxread # FrameLen => b.pos = c.rxread + 1 /\ b.due = 2
    PROVE  Good(frame_byte(c, kind, p), b, d)
<1> DEFINE n == [c EXCEPT !.rxread = @ + 1]
<1>1. /\ DOMAIN c = Fields /\ Ring(c) /\ Power(c) /\ Signals(c) /\ c.state = "RX_FRAME"
      /\ c.rxlen = FrameLen /\ Phase(c) = 0
      /\ c.rxread # FrameLen => c.rxread + 1 \in 1 .. FrameLen
  BY InFrame
<1>2. frame_byte(c, kind, p) = IF c.rxread = FrameLen THEN frame_end(n, kind) ELSE n
  BY <1>1 DEF frame_byte
<1>3. Counted(c, n)
  BY <1>1, CountedIs
<1> HIDE DEF n
<1>4. Ring(n) /\ Signals(n) /\ Phase(n) = 0 /\ Power(n) /\ DOMAIN n = Fields /\ n.frame_rejected
  BY <1>1, <1>3, SameFifoKeeps, PowerKept DEF Counted
<1>5. CASE c.rxread = FrameLen
  <2> DEFINE s == set_sfd(n, FALSE)
             e == set_state(s, "RX_WAIT")
  <2>1. frame_end(n, kind) = e
    BY <1>4 DEF frame_end
  <2>2. DOMAIN s = Fields /\ SameFifo(n, s) /\ SamePower(n, s) /\ s.state = n.state
    BY <1>4 DEF set_sfd, Fields, SameFifo, SamePower
  <2> HIDE DEF s
  <2>3. Power(s) /\ s.state \notin {"VREG_OFF", "POWER_DOWN"}
    BY <1>1, <1>3, <1>4, <2>2, PowerKept DEF Counted
  <2>4. Left(s, e)
    BY <2>2, <2>3, LeftBySetState
  <2> HIDE DEF e
  <2>5. SameFifo(n, e) /\ Power(e) /\ e.state # "RX_FRAME"
    BY <2>2, <2>4, SameFifoTrans DEF Left
  <2>6. Ring(e) /\ Signals(e) /\ Phase(e) = 0 /\ DOMAIN e = Fields
    BY <1>4, <2>5, SameFifoKeeps DEF SameFifo
  <2>7. Good(e, b, d)
    BY <2>5, <2>6, Finished
  <2> QED BY <1>2, <1>5, <2>1, <2>7
<1>6. CASE c.rxread # FrameLen
  <2>1. Marked(n, d)
    BY <1>4 DEF Marked
  <2>2. /\ n.rxread \in 1 .. FrameLen /\ n.rxlen = FrameLen /\ b.pos = n.rxread /\ b.due = 2
        /\ n.state = "RX_FRAME"
    BY <1>1, <1>3, <1>6 DEF Counted
  <2>3. Good(n, b, d)
    BY <1>4, <2>1, <2>2, Continues
  <2> QED BY <1>2, <1>6, <2>3
<1> QED BY <1>5, <1>6

\* A byte is in the FIFO that was not, the next one of its frame.
Grown(c, e) ==
    /\ DOMAIN e = Fields /\ SamePower(c, e) /\ Written(c, c.rxread, e.memory)
    /\ e.write_pos = (c.write_pos + 1) % FifoSize /\ e.fifo_len = c.fifo_len + 1
    /\ e.read_pos = c.read_pos /\ e.read_left = c.read_left /\ e.fifop = c.fifop
    /\ e.overflow = c.overflow /\ e.state = c.state /\ e.rxread = c.rxread + 1
    /\ e.rxlen = FrameLen /\ e.frame_rejected = c.frame_rejected
    /\ e.mark_pos = c.mark_pos /\ e.mark_len = c.mark_len

\* Between packets the FIFO holds whole frames and what is there of the one
\* arriving: it comes to more than a frame with the last byte of a frame.
LEMMA Growing ==
    ASSUME NEW c, NEW a, NEW d, Good(c, a, d), Receiving(c), ~c.frame_rejected,
           FifopThr >= FrameLen, c.read_left = 0
    PROVE  /\ c.rxread # FrameLen => (c.fifo_len + 1 > FrameLen <=> c.fifop)
           /\ c.rxread = FrameLen => /\ c.fifo_len + 1 > FrameLen
                                     /\ ~c.fifop => c.fifo_len + 1 <= FrameLen + 1
<1>1. Ring(c) /\ Signals(c) /\ ~c.overflow /\ Phase(c) = c.rxread /\ c.rxread \in Nat
  BY InFrame
<1>2. (0 + c.fifo_len) % Whole = c.rxread
  BY <1>1 DEF Phase, First
<1>3. c.fifo_len \in Nat
  BY <1>1, RingNumbers
<1>4. c.fifo_len <= FrameLen => c.fifo_len = c.rxread
  <2>1. SUFFICES ASSUME c.fifo_len <= FrameLen PROVE c.fifo_len = c.rxread
    OBVIOUS
  <2>2. 0 + c.fifo_len = c.fifo_len /\ c.fifo_len \in 0 .. Whole - 1
    BY SMT, <1>3, <2>1, Numbers
  <2> QED BY <1>2, <2>2, Numbers, ModSmall
<1>5. c.fifo_len > FrameLen <=> c.fifop
  BY <1>1 DEF Signals
<1>6. c.rxread # FrameLen => (c.fifo_len + 1 > FrameLen <=> c.fifo_len > FrameLen)
  BY SMT, <1>1, <1>3, <1>4, Numbers
<1>7. c.rxread = FrameLen => /\ c.fifo_len + 1 > FrameLen
                             /\ ~ (c.fifo_len > FrameLen) => c.fifo_len + 1 <= FrameLen + 1
  BY SMT, <1>1, <1>3, <1>4, Numbers
<1> QED BY <1>5, <1>6, <1>7

LEMMA GrownRing ==
    ASSUME NEW c, NEW a, NEW d, NEW e, Good(c, a, d), Receiving(c), ~c.frame_rejected,
           c.fifo_len < FifoSize, Grown(c, e)
    PROVE  Ring(e) /\ First(e) = First(c) /\ Phase(e) = (c.rxread + 1) % Whole /\ Power(e)
<1>1. Ring(c) /\ c.rxread = Phase(c) /\ Power(c)
  BY InFrame
<1>2. /\ Written(c, c.rxread, e.memory) /\ e.write_pos = (c.write_pos + 1) % FifoSize
      /\ e.fifo_len = c.fifo_len + 1 /\ e.read_pos = c.read_pos /\ e.read_left = c.read_left
  BY DEF Grown
<1>3. Ring(e) /\ First(e) = First(c) /\ Phase(e) = (c.rxread + 1) % Whole
  BY <1>1, <1>2, RingWrite
<1>4. Power(e)
  BY <1>1, PowerKept DEF Grown
<1> QED BY <1>3, <1>4

\* A byte that is not the last.
LEMMA NextByte ==
    ASSUME NEW c, NEW a, NEW d, NEW b, NEW e, Good(c, a, d), Receiving(c), ~c.frame_rejected,
           c.fifo_len < FifoSize, Grown(c, e), c.rxread # FrameLen, Heard(b, d),
           b.pos = c.rxread + 1, b.due = 2
    PROVE  Good(e, b, d)
<1>1. Ring(e) /\ First(e) = First(c) /\ Phase(e) = (c.rxread + 1) % Whole /\ Power(e)
  BY GrownRing
<1>2. c.rxread + 1 \in 1 .. FrameLen /\ c.rxread \in Nat /\ c.state = "RX_FRAME" /\ ~c.overflow
  BY InFrame
<1>3. Phase(e) = e.rxread
  <2>1. c.rxread + 1 \in 0 .. Whole - 1
    BY SMT, <1>2, Numbers
  <2>2. (c.rxread + 1) % Whole = c.rxread + 1
    BY <2>1, Numbers, ModSmall
  <2> QED BY <1>1, <2>2 DEF Grown
<1>4. Signals(e)
  <2>1. ASSUME FifopThr >= FrameLen, e.read_left = 0 PROVE e.fifo_len > FrameLen <=> e.fifop
    <3>1. c.read_left = 0
      BY <2>1 DEF Grown
    <3>2. c.fifo_len + 1 > FrameLen <=> c.fifop
      BY <2>1, <3>1, Growing
    <3> QED BY <3>2 DEF Grown
  <2> QED BY <2>1 DEF Signals
<1>5. Marked(e, d)
  <2>1. SUFFICES ASSUME ~d.reads_in_frame
                 PROVE  /\ e.mark_len \in Nat /\ e.fifo_len = e.mark_len + e.rxread
                        /\ e.mark_pos = (e.read_pos + e.mark_len) % FifoSize
                        /\ (First(e) + e.mark_len) % Whole = 0
    BY DEF Marked
  <2>2. /\ c.mark_len \in Nat /\ c.fifo_len = c.mark_len + c.rxread
        /\ c.mark_pos = (c.read_pos + c.mark_len) % FifoSize
        /\ (First(c) + c.mark_len) % Whole = 0
    BY <2>1 DEF Good, Marked
  <2>3. c.fifo_len + 1 = c.mark_len + (c.rxread + 1)
    BY SMT, <1>2, <2>2
  <2> QED BY <1>1, <2>2, <2>3 DEF Grown
<1>6. /\ DOMAIN e = Fields /\ e.rxread \in 1 .. FrameLen /\ e.rxlen = FrameLen /\ b.pos = e.rxread
      /\ e.state = "RX_FRAME" /\ ~e.frame_rejected
  BY <1>2 DEF Grown
<1> QED BY <1>1, <1>3, <1>4, <1>5, <1>6, Continues

LEMMA RingSame ==
    ASSUME NEW c, NEW e, Ring(c), e.memory = c.memory, e.write_pos = c.write_pos,
           e.read_pos = c.read_pos, e.fifo_len = c.fifo_len, e.read_left = c.read_left
    PROVE  Ring(e) /\ Phase(e) = Phase(c)
<1>1. First(e) = First(c)
  BY DEF First
<1> QED BY <1>1 DEF Ring, Phase

\* The last byte, which may raise FIFOP.
LEMMA LastByte ==
    ASSUME NEW c, NEW a, NEW d, NEW b, NEW n, NEW kind, Good(c, a, d), Receiving(c),
           ~c.frame_rejected, c.fifo_len < FifoSize, Grown(c, n), c.rxread = FrameLen, Heard(b, d)
    PROVE  Good(frame_end(n, kind), b, d)
<1> DEFINE f == [n EXCEPT !.crc_ok = (kind # "badcrc"), !.fifop = fifop_when_alone(n),
                          !.sfd_clear_event = 1]
<1>1. Ring(n) /\ Phase(n) = (c.rxread + 1) % Whole /\ Power(n)
  BY GrownRing
<1>2. c.state = "RX_FRAME" /\ ~c.overflow /\ c.rxread \in Nat
  BY InFrame
<1>3. Phase(n) = 0
  <2>1. c.rxread + 1 = 1 * Whole + 0 /\ 1 \in Int /\ 0 \in 0 .. Whole - 1
    BY SMT, Numbers
  <2>2. (1 * Whole + 0) % Whole = 0
    BY <2>1, Numbers, ModIs
  <2> QED BY <1>1, <2>1, <2>2
<1>4. DOMAIN n = Fields /\ n.state = "RX_FRAME" /\ ~n.frame_rejected /\ ~n.overflow
  BY <1>2 DEF Grown
<1>5. PICK new \in {"TX_ACK_CALIBRATE", "RX_WAIT"} : frame_end(n, kind) = set_state(f, new)
  BY <1>4 DEF frame_end
<1>6. /\ DOMAIN f = Fields /\ SamePower(n, f) /\ f.state = n.state /\ f.overflow = n.overflow
      /\ f.memory = n.memory /\ f.write_pos = n.write_pos /\ f.read_pos = n.read_pos
      /\ f.fifo_len = n.fifo_len /\ f.read_left = n.read_left
  BY <1>4 DEF Fields, SamePower
<1>7. f.fifop = (n.fifop \/ n.fifo_len <= n.rxlen + 1)
  BY <1>4 DEF Fields, fifop_when_alone
<1> HIDE DEF f
<1>8. Ring(f) /\ Phase(f) = 0
  BY <1>1, <1>3, <1>6, RingSame
<1>9. Power(f) /\ f.state \notin {"VREG_OFF", "POWER_DOWN"}
  BY <1>1, <1>4, <1>6, PowerKept
<1>10. Signals(f)
  <2>1. ASSUME FifopThr >= FrameLen, f.read_left = 0 PROVE f.fifop /\ f.fifo_len > FrameLen
    <3>1. c.read_left = 0
      BY <1>6, <2>1 DEF Grown
    <3>2. c.fifo_len + 1 > FrameLen /\ (~c.fifop => c.fifo_len + 1 <= FrameLen + 1)
      BY <2>1, <3>1, Growing
    <3> QED BY <1>6, <1>7, <3>2 DEF Grown
  <2> QED BY <2>1 DEF Signals
<1> DEFINE e == set_state(f, new)
<1>11. Left(f, e)
  BY <1>6, <1>9, LeftBySetState
<1> HIDE DEF e
<1>12. Ring(e) /\ Signals(e) /\ Phase(e) = 0 /\ DOMAIN e = Fields
  BY <1>8, <1>10, <1>11, SameFifoKeeps DEF Left, SameFifo
<1>13. Good(e, b, d)
  BY <1>11, <1>12, Finished DEF Left
<1> QED BY <1>5, <1>13 DEF e

\* The byte by which address filtering rejects the frame: the FIFO is as it was
\* before the frame.
LEMMA RejectingByte ==
    ASSUME NEW c, NEW a, NEW d, NEW b, Good(c, a, d), Receiving(c), Careful(d), ~c.frame_rejected,
           c.fifo_len < FifoSize, c.rxread # 0, RejectedAt(a.kind, c.rxread), Heard(b, d),
           c.rxread # FrameLen => b.pos = c.rxread + 1 /\ b.due = 2
    PROVE  Good(frame_byte(c, a.kind, c.rxread), b, d)
<1> DEFINE v == rxfifo_write(c, c.rxread)
           w == reject_frame(v)
           n == [w EXCEPT !.rxread = @ + 1]
<1>1. /\ DOMAIN c = Fields /\ Ring(c) /\ Power(c) /\ Signals(c) /\ c.state = "RX_FRAME" /\ ~c.overflow
      /\ c.rxread \in Nat /\ c.rxread <= FrameLen /\ c.rxlen = FrameLen
      /\ c.rxread # FrameLen => c.rxread + 1 \in 1 .. FrameLen
  BY InFrame
<1>2. c.rxread # FrameLen
  <2>1. c.rxread = 2 \/ c.rxread = AddrPos
    BY DEF RejectedAt
  <2> QED BY SMT, <2>1, Numbers
<1>3. /\ c.mark_len \in Nat /\ c.fifo_len = c.mark_len + c.rxread
      /\ c.mark_pos = (c.read_pos + c.mark_len) % FifoSize
      /\ (First(c) + c.mark_len) % Whole = 0
  <2>1. a.kind \in {"badfcf", "other"}
    BY DEF RejectedAt
  <2>2. a.kind \in d.kinds
    BY <2>1 DEF Good, Heard
  <2>3. ~d.reads_in_frame
    BY <2>1, <2>2 DEF Careful
  <2> QED BY <2>3 DEF Good, Marked
<1>4. /\ DOMAIN v = Fields /\ SamePower(c, v) /\ Written(c, c.rxread, v.memory)
      /\ v.read_pos = c.read_pos /\ v.read_left = c.read_left /\ v.fifop = c.fifop
      /\ v.overflow = c.overflow /\ v.state = c.state /\ v.rxread = c.rxread
      /\ v.rxlen = c.rxlen /\ v.mark_pos = c.mark_pos /\ v.mark_len = c.mark_len
  <2>1. Wrote(c, c.rxread, v)
    BY <1>1, WriteIs
  <2> HIDE DEF v
  <2> QED BY <2>1 DEF Wrote
<1>5. frame_byte(c, a.kind, c.rxread) = IF w.rxread = w.rxlen THEN frame_end(n, a.kind) ELSE n
  BY DEF frame_byte
<1> HIDE DEF v
<1>6. /\ DOMAIN w = Fields /\ SamePower(v, w) /\ w.memory = v.memory
      /\ w.read_pos = v.read_pos /\ w.read_left = v.read_left /\ w.fifop = v.fifop
      /\ w.overflow = v.overflow /\ w.state = v.state /\ w.rxread = v.rxread /\ w.rxlen = v.rxlen
      /\ w.write_pos = v.mark_pos /\ w.fifo_len = v.mark_len /\ w.frame_rejected = TRUE
  BY <1>4 DEF reject_frame, rxfifo_restore, Fields, SamePower
<1> HIDE DEF w
<1>7. Counted(w, n)
  BY <1>6, CountedIs
<1> HIDE DEF n
<1>8. /\ DOMAIN n = Fields /\ SamePower(c, n) /\ Written(c, c.rxread, n.memory)
      /\ n.read_pos = c.read_pos /\ n.read_left = c.read_left /\ n.fifop = c.fifop
      /\ n.overflow = c.overflow /\ n.state = c.state /\ n.rxread = c.rxread + 1
      /\ n.rxlen = FrameLen /\ n.write_pos = c.mark_pos /\ n.fifo_len = c.mark_len
      /\ n.frame_rejected
  <2>1. DOMAIN n = Fields /\ SamePower(c, n)
    BY <1>4, <1>6, <1>7 DEF Counted, SamePower
  <2>2. /\ n.memory = w.memory /\ n.read_pos = w.read_pos /\ n.read_left = w.read_left
        /\ n.fifop = w.fifop /\ n.overflow = w.overflow /\ n.write_pos = w.write_pos
        /\ n.fifo_len = w.fifo_len
    BY <1>7 DEF Counted, SameFifo
  <2>3. /\ n.state = c.state /\ n.rxread = c.rxread + 1 /\ n.rxlen = FrameLen
        /\ n.frame_rejected
    BY <1>1, <1>4, <1>6, <1>7 DEF Counted
  <2> QED BY <1>4, <1>6, <2>1, <2>2, <2>3
<1>9. c.mark_len <= c.fifo_len /\ (c.fifo_len > FrameLen => c.mark_len # 0)
      /\ (c.mark_len > FrameLen => c.fifo_len > FrameLen)
      /\ (c.mark_len >= Whole => c.mark_len > FrameLen)
  BY SMT, <1>1, <1>3, Numbers
<1>10. Ring(n) /\ First(n) = First(c)
  <2>1. /\ n.fifo_len \in Nat /\ n.fifo_len <= c.fifo_len
        /\ n.write_pos = (c.read_pos + n.fifo_len) % FifoSize
    BY <1>3, <1>8, <1>9
  <2>2. /\ Ring(c) /\ Written(c, c.rxread, n.memory) /\ n.read_pos = c.read_pos
        /\ n.read_left = c.read_left
    BY <1>1, <1>8
  <2> QED BY ONLY Zenon, <2>1, <2>2, c.fifo_len < FifoSize, RingBack
<1>11. Phase(n) = 0
  BY <1>3, <1>8, <1>10 DEF Phase
<1>12. Signals(n)
  <2>1. ASSUME FifopThr >= FrameLen, n.read_left = 0 PROVE n.fifo_len > FrameLen <=> n.fifop
    <3>1. c.fifo_len > FrameLen <=> c.fifop
      BY <1>1, <1>8, <2>1 DEF Signals
    <3>2. First(c) = 0 /\ 0 + c.mark_len = c.mark_len
      <4>1. 0 + c.mark_len = c.mark_len
        BY SMT, <1>3
      <4> QED BY <1>8, <2>1, <4>1 DEF First
    <3>3. c.mark_len # 0 => c.mark_len >= Whole
      BY <1>3, <3>2, Numbers, ModZero
    <3> QED BY <1>8, <1>9, <3>1, <3>3
  <2> QED BY <2>1 DEF Signals
<1>13. Marked(n, d) /\ Power(n)
  BY <1>1, <1>8, PowerKept DEF Marked
<1>14. Good(n, b, d)
  BY <1>1, <1>2, <1>8, <1>10, <1>11, <1>12, <1>13, Continues
<1>15. w.rxread # w.rxlen
  BY <1>1, <1>2, <1>4, <1>6
<1> QED BY <1>5, <1>14, <1>15

\* The chip with the byte and before it is counted.
Taken(c, kind, p) ==
    IF c.frame_rejected THEN c
    ELSE IF c.rxread = 0 THEN [rxfifo_write(c, p) EXCEPT !.rxlen = FrameLen, !.fifo = TRUE]
    ELSE IF RejectedAt(kind, c.rxread) THEN reject_frame(rxfifo_write(c, p))
    ELSE rxfifo_write(c, p)

LEMMA FrameByteIs ==
    ASSUME NEW c, NEW kind, NEW p
    PROVE  LET w == Taken(c, kind, p)
               n == [w EXCEPT !.rxread = @ + 1]
           IN  frame_byte(c, kind, p) = IF w.rxread = w.rxlen THEN frame_end(n, kind) ELSE n
BY DEF frame_byte, Taken

\* A byte of a frame while there is room for it.
LEMMA FrameByte ==
    ASSUME NEW c, NEW a, NEW d, NEW b, Good(c, a, d), Receiving(c), Careful(d),
           c.fifo_len < FifoSize, Heard(b, d),
           c.rxread # FrameLen => b.pos = c.rxread + 1 /\ b.due = 2
    PROVE  Good(frame_byte(c, a.kind, c.rxread), b, d)
<1> DEFINE v == rxfifo_write(c, c.rxread)
<1>1. /\ DOMAIN c = Fields /\ c.rxread \in Nat /\ (c.rxread # 0 => c.rxlen = FrameLen)
  BY InFrame
<1>2. CASE c.frame_rejected
  BY <1>2, RejectedByte
<1>3. CASE ~c.frame_rejected
  <2>1. /\ DOMAIN v = Fields /\ SamePower(c, v) /\ Written(c, c.rxread, v.memory)
        /\ v.write_pos = (c.write_pos + 1) % FifoSize /\ v.fifo_len = c.fifo_len + 1
        /\ v.read_pos = c.read_pos /\ v.read_left = c.read_left /\ v.fifop = c.fifop
        /\ v.overflow = c.overflow /\ v.state = c.state /\ v.rxread = c.rxread
        /\ v.rxlen = c.rxlen /\ v.frame_rejected = c.frame_rejected
        /\ v.mark_pos = c.mark_pos /\ v.mark_len = c.mark_len
    <3>1. Wrote(c, c.rxread, v)
      BY <1>1, WriteIs
    <3> HIDE DEF v
    <3> QED BY <3>1 DEF Wrote
  <2>2. CASE c.rxread = 0
    <3> DEFINE w == [v EXCEPT !.rxlen = FrameLen, !.fifo = TRUE]
               n == [w EXCEPT !.rxread = @ + 1]
    <3>1. frame_byte(c, a.kind, c.rxread) = IF w.rxread = w.rxlen THEN frame_end(n, a.kind) ELSE n
      <4>1. Taken(c, a.kind, c.rxread) = w
        BY <1>3, <2>2 DEF Taken
      <4> HIDE DEF w
      <4> QED BY <4>1, FrameByteIs
    <3> HIDE DEF v
    <3>2. /\ DOMAIN w = Fields /\ SameFifo(v, w) /\ SamePower(v, w) /\ w.state = v.state
          /\ w.rxread = v.rxread /\ w.rxlen = FrameLen /\ w.frame_rejected = v.frame_rejected
          /\ w.mark_pos = v.mark_pos /\ w.mark_len = v.mark_len
      BY <2>1 DEF Fields, SameFifo, SamePower
    <3> HIDE DEF w
    <3>3. Counted(w, n)
      BY <3>2, CountedIs
    <3> HIDE DEF n
    <3>4. Grown(c, n)
      <4>1. SamePower(c, n)
        BY <2>1, <3>2, <3>3 DEF Counted, SamePower
      <4>2. SameFifo(v, n) /\ DOMAIN n = Fields
        BY <3>2, <3>3, SameFifoTrans DEF Counted
      <4>3. /\ n.state = c.state /\ n.rxread = c.rxread + 1 /\ n.rxlen = FrameLen
            /\ n.frame_rejected = c.frame_rejected
            /\ n.mark_pos = c.mark_pos /\ n.mark_len = c.mark_len
        BY <2>1, <3>2, <3>3 DEF Counted
      <4>4. /\ Written(c, c.rxread, n.memory)
            /\ n.write_pos = (c.write_pos + 1) % FifoSize /\ n.fifo_len = c.fifo_len + 1
            /\ n.read_pos = c.read_pos /\ n.read_left = c.read_left /\ n.fifop = c.fifop
            /\ n.overflow = c.overflow
        BY <2>1, <4>2 DEF SameFifo
      <4> QED BY <4>1, <4>2, <4>3, <4>4 DEF Grown
    <3>5. c.rxread # FrameLen
      BY SMT, <2>2, Numbers
    <3>6. Good(n, b, d)
      BY <1>3, <3>4, <3>5, NextByte
    <3> QED BY <2>1, <3>1, <3>2, <3>5, <3>6
  <2>3. CASE c.rxread # 0 /\ RejectedAt(a.kind, c.rxread)
    BY <1>3, <2>3, RejectingByte
  <2>4. CASE c.rxread # 0 /\ ~RejectedAt(a.kind, c.rxread)
    <3> DEFINE n == [v EXCEPT !.rxread = @ + 1]
    <3>1. frame_byte(c, a.kind, c.rxread) = IF v.rxread = v.rxlen THEN frame_end(n, a.kind) ELSE n
      BY <1>3, <2>4 DEF frame_byte
    <3> HIDE DEF v
    <3>2. Counted(v, n)
      BY <2>1, CountedIs
    <3> HIDE DEF n
    <3>3. Grown(c, n)
      BY <1>1, <2>1, <2>4, <3>2 DEF Counted, Grown, SameFifo, SamePower
    <3>4. v.rxread = v.rxlen <=> c.rxread = FrameLen
      BY <1>1, <2>1, <2>4
    <3>5. CASE c.rxread = FrameLen
      <4>1. Good(frame_end(n, a.kind), b, d)
        BY <1>3, <3>3, <3>5, LastByte
      <4> QED BY <3>1, <3>4, <3>5, <4>1
    <3>6. CASE c.rxread # FrameLen
      <4>1. Good(n, b, d)
        BY <1>3, <3>3, <3>6, NextByte
      <4> QED BY <3>1, <3>4, <3>6, <4>1
    <3> QED BY <3>5, <3>6
  <2> QED BY <2>2, <2>3, <2>4
<1> QED BY <1>2, <1>3

LEMMA Overflows ==
    ASSUME NEW c, NEW a, NEW d, NEW b, Good(c, a, d), Receiving(c), Heard(b, d)
    PROVE  Good(set_rx_overflow(c), b, d)
<1> DEFINE e == set_rx_overflow(c)
<1>1. DOMAIN c = Fields /\ Ring(c) /\ Power(c) /\ c.state = "RX_FRAME"
  BY InFrame
<1>2. /\ DOMAIN e = Fields /\ SamePower(c, e) /\ e.memory = c.memory /\ e.write_pos = c.write_pos
      /\ e.read_pos = c.read_pos /\ e.fifo_len = c.fifo_len /\ e.read_left = c.read_left
      /\ e.fifop = TRUE /\ e.overflow = TRUE /\ e.state = "RX_OVERFLOW"
  BY <1>1 DEF set_rx_overflow, Fields, SamePower
<1> HIDE DEF e
<1>3. Ring(e)
  BY <1>1, <1>2, RingSame
<1>4. Aligned(e) /\ Synced(e, b) /\ Marked(e, d) /\ Signals(e)
  BY <1>2 DEF Aligned, Synced, Marked, Signals, Receiving
<1>5. Power(e)
  BY <1>1, <1>2 DEF Power, SamePower
<1>6. Good(e, b, d)
  BY <1>2, <1>3, <1>4, <1>5 DEF Good
<1> QED BY <1>6 DEF e

\* A byte by which the search for a frame goes on, or that nothing listens to.
LEMMA OtherByte ==
    ASSUME NEW c, NEW a, NEW d, NEW b, NEW e, Good(c, a, d), ~Receiving(c), Heard(b, d),
           SameFrame(c, e), SamePower(c, e)
    PROVE  Good(e, b, d)
<1>1. Power(e)
  BY PowerKept DEF Good, SameFrame
<1> QED BY <1>1, Stays

LEMMA ReceiveByte ==
    ASSUME NEW c, NEW a, NEW d, NEW b, Good(c, a, d), Careful(d), Heard(b, d),
           a.pos # FrameLen => b.pos = a.pos + 1 /\ b.due = 2
    PROVE  Good(receive_byte(c, a.kind, a.pos), b, d)
<1> DEFINE p == a.pos
           e == receive_byte(c, a.kind, p)
<1>1. DOMAIN c = Fields
  BY DEF Good
<1>2. CASE c.state = "RX_SFD_SEARCH"
  <2>1. ~Receiving(c) /\ c.state # "RX_FRAME"
    BY <1>2 DEF Receiving
  <2> DEFINE u == [c EXCEPT !.zero_symbols = @ + 1]
             z == [c EXCEPT !.zero_symbols = 0]
             s == set_state(set_sfd(c, TRUE), "RX_FRAME")
  <2>2. Good(u, b, d)
    <3>1. SameFrame(c, u) /\ SamePower(c, u)
      BY <1>1 DEF Fields, SameFrame, SameFifo, SamePower
    <3> QED BY <2>1, <3>1, OtherByte
  <2>3. Good(z, b, d)
    <3>1. SameFrame(c, z) /\ SamePower(c, z)
      BY <1>1 DEF Fields, SameFrame, SameFifo, SamePower
    <3> QED BY <2>1, <3>1, OtherByte
  <2>4. p = -1 => Good(s, b, d)
    <3>1. SUFFICES ASSUME p = -1 PROVE Good(s, b, d)
      OBVIOUS
    <3>2. p # FrameLen /\ p + 1 = 0
      BY SMT, <3>1, Numbers
    <3>3. b.pos = 0 /\ b.due = 2
      BY <3>2
    <3> QED BY <1>2, <3>3, EnterFrame
  <2>5. Good(c, b, d)
    <3>1. SameFrame(c, c) /\ SamePower(c, c)
      BY <1>1 DEF SameFrame, SameFifo, SamePower
    <3> QED BY <2>1, <3>1, OtherByte
  <2> QED BY ONLY Zenon, <1>2, <2>2, <2>3, <2>4, <2>5 DEF receive_byte
<1>3. CASE Receiving(c)
  <2>1. c.state = "RX_FRAME" /\ ~c.overflow /\ Ring(c) /\ p = c.rxread
    BY <1>3, InFrame DEF Good, Synced
  <2>2. CASE rxfifo_full(c)
    <3>1. e = set_rx_overflow(c)
      BY <2>1, <2>2 DEF receive_byte
    <3> QED BY <1>3, <3>1, Overflows
  <2>3. CASE ~rxfifo_full(c)
    <3>1. e = frame_byte(c, a.kind, c.rxread)
      BY <2>1, <2>3 DEF receive_byte
    <3>2. c.fifo_len < FifoSize
      BY SMT, <2>1, <2>3, RingNumbers, Numbers DEF rxfifo_full
    <3>3. Good(frame_byte(c, a.kind, c.rxread), b, d)
      BY <1>3, <2>1, <3>2, FrameByte
    <3> QED BY <3>1, <3>3
  <2> QED BY <2>2, <2>3
<1>4. CASE c.state # "RX_SFD_SEARCH" /\ ~Receiving(c)
  <2>1. e = c
    BY <1>4 DEF receive_byte, Receiving
  <2>2. SameFrame(c, c) /\ SamePower(c, c)
    BY <1>1 DEF SameFrame, SameFifo, SamePower
  <2>3. Good(c, b, d)
    BY <1>4, <2>2, OtherByte
  <2> QED BY <2>1, <2>3
<1> QED BY <1>2, <1>3, <1>4

LEMMA KeepAirByte ==
    ASSUME CInv, Careful(driver), AirByte
    PROVE  CInv'
<1> DEFINE b == IF air.pos = FrameLen THEN Silence ELSE [air EXCEPT !.pos = @ + 1, !.due = 2]
<1>1. r' = receive_byte(r, air.kind, air.pos) /\ air' = b /\ driver' = driver
  BY DEF AirByte
<1>2. Good(r, air, driver) /\ Heard(air, driver)
  BY DEF CInv, Good
<1>3. Heard(b, driver)
  <2>1. CASE air.pos = FrameLen
    <3>1. b = Silence
      BY <2>1
    <3>2. DOMAIN Silence = {"kind", "pos", "due"} /\ Silence.kind = "none"
      BY SMT DEF Silence
    <3> HIDE DEF b
    <3> QED BY <3>1, <3>2 DEF Heard
  <2>2. CASE air.pos # FrameLen
    BY <1>2, <2>2 DEF Heard
  <2> QED BY <2>1, <2>2
<1>4. air.pos # FrameLen => b.pos = air.pos + 1 /\ b.due = 2
  BY <1>2 DEF Heard
<1> HIDE DEF b
<1>5. Good(receive_byte(r, air.kind, air.pos), b, driver)
  BY <1>2, <1>3, <1>4, ReceiveByte
<1>6. Good(r', air', driver')
  BY <1>1, <1>5
<1> QED BY <1>6, Lift

-----------------------------------------------------------------------------
(* The theorems.                                                           *)

LEMMA CInvInit ==
    Init => CInv
<1> SUFFICES ASSUME Init PROVE CInv
  OBVIOUS
<1>1. r = Reset /\ air = Silence
  BY DEF Init
<1>2. /\ DOMAIN r = Fields /\ DOMAIN r.memory = 0 .. FifoSize - 1
      /\ r.write_pos = 0 /\ r.read_pos = 0 /\ r.fifo_len = 0 /\ r.read_left = 0 /\ ~r.fifop
      /\ r.state = "VREG_OFF" /\ r.oscillator_event = Off
  BY SMT, <1>1 DEF Reset, Fields
<1>3. Heard(air, driver)
  BY SMT, <1>1 DEF Silence, Heard
<1>4. Power(r) /\ r.state # "RX_FRAME"
  BY <1>2 DEF Power
<1> QED BY <1>2, <1>3, <1>4, Emptied DEF CInv

IInv == Careful(driver) => CInv

LEMMA IInvNext ==
    IInv /\ [Next]_vars => IInv'
<1> SUFFICES ASSUME IInv, [Next]_vars, Careful(driver') PROVE CInv'
  BY DEF IInv, Careful
<1>1. driver' = driver
  BY DEF Next, vars, Tick, Fire, FireSymbol, FireOscillator, FireSfdClear, AirByte, AirStart, Strobe,
         SpiRead, VregOn, VregOff
<1>2. CInv /\ Careful(driver)
  BY <1>1 DEF IInv
<1>3. CASE UNCHANGED vars
  <2>1. Good(r', air', driver')
    BY <1>2, <1>3 DEF CInv, vars
  <2> QED BY <2>1, Lift
<1>4. CASE Next
  BY <1>2, <1>4, KeepTick, KeepFireSymbol, KeepFireOscillator, KeepFireSfdClear, KeepAirByte,
     KeepAirStart, KeepStrobe, KeepSpiRead, KeepVregOn, KeepVregOff DEF Next, Fire
<1> QED BY <1>3, <1>4

\* The byte count of the RX FIFO is the distance of its positions, and what a
\* driver reads from it is whole frames one after the other (rxfifo_write,
\* rxfifo_read, rxfifo_mark and rxfifo_restore of cc2420.c), through any number
\* of arrivals, rejections, overflows, flushes and power cycles: for every driver
\* that lets an arriving frame end, and that does not read while frames arrive
\* which address filtering may reject.
THEOREM FifoStaysIntact ==
    Spec => [](Careful(driver) => FifoIntact)
<1>1. ASSUME IInv, Careful(driver) PROVE FifoIntact
  <2>1. Ring(r)
    BY <1>1 DEF IInv, CInv, Good
  <2>2. r.read_pos \in Nat /\ r.fifo_len \in Nat
    BY <2>1, RingNumbers
  <2>3. /\ r.read_pos + r.fifo_len \in Int /\ -r.read_pos \in Int
        /\ (r.read_pos + r.fifo_len) + (-r.read_pos) = r.fifo_len
    BY SMT, <2>2
  <2>4. (((r.read_pos + r.fifo_len) % FifoSize) + (-r.read_pos)) % FifoSize
            = ((r.read_pos + r.fifo_len) + (-r.read_pos)) % FifoSize
    BY <2>3, Numbers, ModAdd
  <2>5. r.write_pos = (r.read_pos + r.fifo_len) % FifoSize
    BY <2>1 DEF Ring
  <2>6. r.write_pos \in Int
    <3>1. r.write_pos \in 0 .. FifoSize - 1
      BY <2>3, <2>5, Numbers, ModFacts
    <3> QED BY SMT, <3>1, Numbers
  <2>7. r.write_pos + (-r.read_pos) = r.write_pos - r.read_pos
    BY ONLY SMT, <2>2, <2>6
  <2>8. (r.write_pos - r.read_pos) % FifoSize = r.fifo_len % FifoSize
    BY <2>3, <2>4, <2>5, <2>7
  <2>9. \A k \in 0 .. r.fifo_len - 1 :
            r.memory[(r.read_pos + k) % FifoSize] = (First(r) + k) % Whole
    BY <2>1 DEF Ring
  <2>10. First(r) = IF r.read_left = 0 THEN 0 ELSE FrameLen + 1 - r.read_left
    <3>1. r.read_left \in Nat /\ First(r) = IF r.read_left = 0 THEN 0 ELSE Whole - r.read_left
      BY <2>1, RingNumbers DEF First
    <3> QED BY SMT, <3>1, Numbers
  <2> QED BY <2>8, <2>9, <2>10 DEF FifoIntact, Whole
<1>2. Init => IInv
  BY CInvInit DEF IInv
<1> QED BY <1>1, <1>2, IInvNext, PTL DEF Spec

\* FIFOP, the only interrupt of a received frame (frame completion and the read
\* of a packet's last byte in cc2420_spi_exchange): between packets it is high
\* when a whole frame waits in the FIFO and, but for an overflow, only then.
\* The threshold must not be below a frame, where FIFOP means something else.
THEOREM FifopIsExact ==
    FifopThr >= FrameLen => (Spec => [](Careful(driver) => FifopSignals))
<1> SUFFICES ASSUME FifopThr >= FrameLen PROVE Spec => [](Careful(driver) => FifopSignals)
  OBVIOUS
<1>1. ASSUME IInv, Careful(driver) PROVE FifopSignals
  BY <1>1 DEF IInv, CInv, Good, Signals, FifopSignals
<1>2. Init => IInv
  BY CInvInit DEF IInv
<1> QED BY <1>1, <1>2, IInvNext, PTL DEF Spec
=============================================================================
