--------------------------- MODULE RadioBusProofs ---------------------------
(***************************************************************************)
(* Proofs about the radio bus.                                             *)
(*                                                                         *)
(* Four arguments, each with an invariant of its own.  BusInv is about the *)
(* lazy RX-stall timer and needs no assumption on what is sent.  The other *)
(* three rest on CoreInv, which says of well-formed frames that the frame  *)
(* assembler stands where the sender is: OrderInv for the air times of the *)
(* bytes, AirInv for the busy windows and StageInv for the staged bytes.   *)
(* The traffic each one needs is named in its theorem and defined in       *)
(* RadioBus.                                                               *)
(***************************************************************************)
EXTENDS RadioBus, TLAPS

\* Leaves are first-order unless they cite SMT, for arithmetic and sequences.
USE Zenon

(***************************************************************************)
(* The stall timer.                                                        *)
(***************************************************************************)

\* The shape of what the timer depends on.
Shape ==
    /\ now \in Nat
    /\ seq \in Nat
    /\ active \subseteq Nodes
    /\ tx \in [Nodes -> [id : Nat, band : Bands, bytes : Seq(0 .. 255),
                         pos : Nat, pace : Nat, at : Nat]]
    /\ first_byte_ns \in [Nodes -> Nat]
    /\ cap_len \in [Nodes -> Nat]
    /\ sent \in Nat
    /\ DOMAIN rx = HasStall
    /\ rx_stall_deadline_ns \in [HasStall -> Nat]
    /\ rx_stall_pending \in [HasStall -> BOOLEAN]
    /\ \A e \in queue : /\ e.kind \in {"byte", "timer"}
                        /\ e.kind = "timer" => e.node \in HasStall
                        /\ e.time \in Nat

\* Inductive: the pending flag is exact and the deadline covers every byte.
BusInv == Shape /\ TimerExact /\ DeadlineCovers

\* The later of two times is one of them and bounds both.
LEMMA LaterFacts ==
    ASSUME NEW a \in Nat, NEW b \in Nat
    PROVE  Later(a, b) \in Nat /\ Later(a, b) >= a /\ Later(a, b) >= b
BY SMT DEF Later

\* The shape of a transmission.
LEMMA TxType ==
    ASSUME BusInv, NEW n \in Nodes
    PROVE  /\ tx[n].id \in Nat /\ tx[n].band \in Bands /\ tx[n].bytes \in Seq(0 .. 255)
           /\ tx[n].pos \in Nat /\ tx[n].pace \in Nat /\ tx[n].at \in Nat
           /\ first_byte_ns[n] \in Nat /\ cap_len[n] \in Nat
<1>1. /\ tx \in [Nodes -> [id : Nat, band : Bands, bytes : Seq(0 .. 255),
                           pos : Nat, pace : Nat, at : Nat]]
      /\ first_byte_ns \in [Nodes -> Nat] /\ cap_len \in [Nodes -> Nat]
  BY DEF BusInv, Shape
<1>2. tx[n] \in [id : Nat, band : Bands, bytes : Seq(0 .. 255), pos : Nat, pace : Nat, at : Nat]
  BY ONLY Zenon, <1>1
<1> QED BY ONLY Zenon, <1>1, <1>2

\* The time a byte is scheduled for is a natural number.
LEMMA ByteTime ==
    ASSUME Shape, NEW n \in Nodes, NEW byte, NEW t \in Nat
    PROVE  /\ clock_start(n, byte, t) \in Nat
           /\ byte_index(n, byte) \in Nat
           /\ byte_time_ns(n, byte, t) \in Nat
<1>1. clock_start(n, byte, t) \in Nat
  BY DEF Shape, clock_start
<1>2. byte_index(n, byte) \in Nat
  BY DEF Shape, byte_index
<1>3. sender_byte_ns(n) \in {4, 20}
  BY DEF sender_byte_ns, byte_period_ns
<1>4. byte_index(n, byte) * sender_byte_ns(n) \in Nat
  BY SMT, <1>2, <1>3
<1> QED
  BY SMT, <1>1, <1>2, <1>4 DEF byte_time_ns

\* The invariant holds before the first byte is sent.
LEMMA InitBusInv == Init => BusInv
BY SMT, BusAssumption
   DEF Init, BusInv, Shape, TimerExact, DeadlineCovers, Idle, Bands, TimerFor, ByteFor

\* The events Schedule adds.
LEMMA ScheduleStep ==
    ASSUME BusInv, NEW n \in Nodes, NEW to, to \subseteq active, NEW byte,
           NEW t \in Nat, Schedule(n, to, byte, t), active' = active
    PROVE  /\ rx_stall_deadline_ns' \in [HasStall -> Nat]
           /\ rx_stall_pending' \in [HasStall -> BOOLEAN]
           /\ \A e \in queue' : /\ e.kind \in {"byte", "timer"}
                                /\ e.kind = "timer" => e.node \in HasStall
                                /\ e.time \in Nat
           /\ seq' \in Nat
           /\ TimerExact'
           /\ DeadlineCovers'
<1> DEFINE bt == Later(byte_time_ns(n, byte, t), t)
           armed == {k \in to \cap HasStall : ~rx_stall_pending[k]}
           bytes == {RxByte(bt, seq + 1, i, n, byte) : i \in to}
           timers == {Timer(extended_deadline(i, bt), seq + 2, i) : i \in armed}
<1>1. bt \in Nat
  BY ByteTime, LaterFacts DEF BusInv
<1>2. \A i \in HasStall : /\ rx_stall_deadline_ns[i] \in Nat
                          /\ extended_deadline(i, bt) \in Nat
                          /\ extended_deadline(i, bt) >= rx_stall_deadline_ns[i]
                          /\ extended_deadline(i, bt) >= bt + SIM_RADIO_RX_STALL_NS
  <2> TAKE i \in HasStall
  <2>1. rx_stall_deadline_ns[i] \in Nat
    BY DEF BusInv, Shape
  <2>2. bt + SIM_RADIO_RX_STALL_NS \in Nat
    BY SMT, <1>1 DEF SIM_RADIO_RX_STALL_NS
  <2> HIDE DEF bt
  <2> QED
    BY <2>1, <2>2, LaterFacts DEF extended_deadline
<1>3. queue' = queue \cup bytes \cup timers
  BY DEF Schedule
<1>4. \A i \in HasStall :
         /\ rx_stall_deadline_ns'[i] = IF i \in to THEN extended_deadline(i, bt)
                                       ELSE rx_stall_deadline_ns[i]
         /\ rx_stall_pending'[i] = (rx_stall_pending[i] \/ i \in to)
  BY DEF Schedule
<1>5. rx_stall_deadline_ns' \in [HasStall -> Nat]
  <2> HIDE DEF bt
  <2> QED
    BY <1>2 DEF Schedule, bt
<1>6. rx_stall_pending' \in [HasStall -> BOOLEAN]
  BY DEF Schedule, BusInv, Shape
<1>7. \A e \in bytes : e.kind = "byte" /\ e.time = bt /\ e.node \in to
  BY SMT DEF RxByte
<1>8. \A e \in timers : /\ e.kind = "timer" /\ e.node \in armed
                        /\ e = Timer(extended_deadline(e.node, bt), seq + 2, e.node)
                        /\ e.time = extended_deadline(e.node, bt)
  BY SMT DEF Timer
<1>9. \A i \in armed : Timer(extended_deadline(i, bt), seq + 2, i) \in timers
                       /\ Timer(extended_deadline(i, bt), seq + 2, i).kind = "timer"
                       /\ Timer(extended_deadline(i, bt), seq + 2, i).node = i
  BY DEF Timer
<1> HIDE DEF bt, bytes, timers
<1>10. \A e \in queue' : /\ e.kind \in {"byte", "timer"}
                         /\ e.kind = "timer" => e.node \in HasStall
                         /\ e.time \in Nat
  <2>1. \A i \in armed : i \in HasStall
    OBVIOUS
  <2> HIDE DEF armed
  <2> TAKE e \in queue'
  <2>2. CASE e \in queue
    BY <2>2 DEF BusInv, Shape
  <2>3. CASE e \in bytes
    BY <2>3, <1>1, <1>7
  <2>4. CASE e \in timers
    BY <2>4, <2>1, <1>2, <1>8
  <2> QED
    BY <2>2, <2>3, <2>4, <1>3
<1>11. \A i \in HasStall : TimerFor(i)' = TimerFor(i) \cup {e \in timers : e.node = i}
  BY <1>3, <1>7, <1>8 DEF TimerFor
<1>12. TimerExact'
  <2> SUFFICES ASSUME NEW i \in HasStall \cap active
               PROVE  /\ rx_stall_pending'[i] <=> TimerFor(i)' # {}
                      /\ \A e, f \in TimerFor(i)' : e = f
    BY DEF TimerExact
  <2>1. /\ rx_stall_pending[i] <=> TimerFor(i) # {}
        /\ \A e, f \in TimerFor(i) : e = f
    BY DEF BusInv, TimerExact
  <2>2. CASE i \in armed
    <3>1. TimerFor(i) = {}
      BY <2>1, <2>2
    <3>2. TimerFor(i)' = {e \in timers : e.node = i}
      BY <3>1, <1>11
    <3>3. rx_stall_pending'[i]
      BY <1>4, <2>2
    <3> QED
      BY SMT, <3>2, <3>3, <2>2, <1>8, <1>9
  <2>3. CASE i \notin armed
    <3>1. TimerFor(i)' = TimerFor(i)
      <4> HIDE DEF armed
      <4>1. \A e \in timers : e.node # i
        BY <2>3, <1>8
      <4> QED
        BY <4>1, <1>11
    <3>2. rx_stall_pending'[i] <=> rx_stall_pending[i]
      BY <2>3, <1>4
    <3> QED
      BY <3>1, <3>2, <2>1
  <2> QED
    BY <2>2, <2>3
<1>13. DeadlineCovers'
  <2> SUFFICES ASSUME NEW i \in HasStall \cap active, NEW e \in queue',
                      e.kind = "byte", e.node = i
               PROVE  rx_stall_deadline_ns'[i] >= e.time + SIM_RADIO_RX_STALL_NS
    BY DEF DeadlineCovers, ByteFor, SIM_RADIO_RX_STALL_NS
  <2>1. CASE e \in queue
    <3>1. rx_stall_deadline_ns[i] >= e.time + SIM_RADIO_RX_STALL_NS
      BY <2>1 DEF BusInv, DeadlineCovers, ByteFor
    <3>2. e.time \in Nat
      BY <2>1 DEF BusInv, Shape
    <3>3. rx_stall_deadline_ns'[i] >= rx_stall_deadline_ns[i]
      BY SMT, <1>2, <1>4
    <3> QED
      BY SMT, <3>1, <3>2, <3>3, <1>2, <1>5 DEF SIM_RADIO_RX_STALL_NS
  <2>2. CASE e \in bytes
    BY <2>2, <1>7, <1>4, <1>2
  <2> QED
    BY <2>1, <2>2, <1>3, <1>8
<1>14. seq' \in Nat
  BY SMT DEF Schedule, BusInv, Shape
<1> QED
  BY <1>5, <1>6, <1>10, <1>12, <1>13, <1>14

\* Steps that leave the timers and the pending events alone.
LEMMA TimersUntouched ==
    ASSUME BusInv, active' \subseteq active, queue' = queue,
           UNCHANGED <<rx_stall_deadline_ns, rx_stall_pending>>
    PROVE  TimerExact' /\ DeadlineCovers'
BY SMT DEF BusInv, TimerExact, DeadlineCovers, TimerFor, ByteFor

\* Starting a frame touches neither timers nor pending events.
LEMMA StartStep == BusInv /\ Start => BusInv'
<1> SUFFICES ASSUME BusInv, Start PROVE BusInv'
  OBVIOUS
<1>1. TimerExact' /\ DeadlineCovers'
  BY TimersUntouched DEF Start, StartFrame
<1>2. PICK n \in active \cap PerByte, band \in Bands :
         \E f \in Frames[<<n, band>>] : StartFrame(n, band, f)
  BY DEF Start
<1>lengths. PICK f \in Frames[<<n, band>>] : StartFrame(n, band, f)
  BY <1>2
<1>2b. tx' = [tx EXCEPT ![n] = [id |-> sent + 1, band |-> band, bytes |-> f.bytes,
                                pos |-> 0, pace |-> f.pace, at |-> now]]
  BY <1>lengths DEF StartFrame
<1>3. n \in Nodes /\ f.bytes \in Seq(0 .. 255) /\ f.pace \in Nat
  BY SMT, BusAssumption DEF BusInv, Shape
<1>4. tx' \in [Nodes -> [id : Nat, band : Bands, bytes : Seq(0 .. 255),
                         pos : Nat, pace : Nat, at : Nat]]
  BY SMT, <1>2b, <1>3 DEF BusInv, Shape
<1>5. sent' = sent + 1
  BY DEF Start, StartFrame
<1>6. UNCHANGED <<now, queue, seq, first_byte_ns, cap_len, rx, rx_stall_deadline_ns,
                  rx_stall_pending, active>>
  BY DEF Start, StartFrame
<1>7. Shape'
  <2>1. sent' \in Nat
    BY SMT, <1>5 DEF BusInv, Shape
  <2> QED BY <1>4, <1>6, <2>1 DEF BusInv, Shape
<1> QED
  BY <1>1, <1>7 DEF BusInv

\* sim_radio_bus_tx_byte: the new byte events and deadlines go together.
LEMMA TxByteStep == BusInv /\ TxByte => BusInv'
<1> SUFFICES ASSUME BusInv, TxByte PROVE BusInv'
  OBVIOUS
<1> DEFINE byte(n) == tx[n].bytes[tx[n].pos + 1]
           hear(n) == Reach[<<n, tx[n].band>>] \cap active
<1>1. PICK n \in active :
         /\ now' = tx[n].at
         /\ Schedule(n, hear(n) \cap PerByte, byte(n), tx[n].at)
         /\ first_byte_ns' = [first_byte_ns EXCEPT ![n] = clock_start(n, byte(n), tx[n].at)]
         /\ cap_len' = [cap_len EXCEPT ![n] = byte_index(n, byte(n)) + 1]
         /\ tx' = [tx EXCEPT ![n].pos = @ + 1, ![n].at = tx[n].at + tx[n].pace]
         /\ UNCHANGED <<rx, active, sent>>
  BY DEF TxByte
<1>2. n \in Nodes /\ tx[n].at \in Nat /\ tx[n].pace \in Nat /\ tx[n].pos \in Nat
  BY DEF BusInv, Shape
<1>3. hear(n) \cap PerByte \subseteq active
  OBVIOUS
<1> HIDE DEF byte, hear
<1>4. /\ rx_stall_deadline_ns' \in [HasStall -> Nat]
      /\ rx_stall_pending' \in [HasStall -> BOOLEAN]
      /\ \A e \in queue' : /\ e.kind \in {"byte", "timer"}
                           /\ e.kind = "timer" => e.node \in HasStall
                           /\ e.time \in Nat
      /\ seq' \in Nat
      /\ TimerExact'
      /\ DeadlineCovers'
  BY <1>1, <1>2, <1>3, ScheduleStep
<1>5. clock_start(n, byte(n), tx[n].at) \in Nat /\ byte_index(n, byte(n)) \in Nat
  BY <1>2, ByteTime DEF BusInv
<1>6. first_byte_ns' \in [Nodes -> Nat] /\ cap_len' \in [Nodes -> Nat]
  BY SMTT(30), <1>1, <1>2, <1>5 DEF BusInv, Shape
<1>7. tx' \in [Nodes -> [id : Nat, band : Bands, bytes : Seq(0 .. 255),
                         pos : Nat, pace : Nat, at : Nat]]
  <2>1. tx' = [tx EXCEPT ![n] = [tx[n] EXCEPT !.pos = tx[n].pos + 1,
                                             !.at = tx[n].at + tx[n].pace]]
    BY <1>1, <1>2 DEF BusInv, Shape
  <2>2. tx[n].pos + 1 \in Nat /\ tx[n].at + tx[n].pace \in Nat
    BY SMT, <1>2
  <2>3. tx[n] \in [id : Nat, band : Bands, bytes : Seq(0 .. 255),
                   pos : Nat, pace : Nat, at : Nat]
    BY <1>2 DEF BusInv, Shape
  <2>4. [tx[n] EXCEPT !.pos = tx[n].pos + 1, !.at = tx[n].at + tx[n].pace]
            \in [id : Nat, band : Bands, bytes : Seq(0 .. 255),
                 pos : Nat, pace : Nat, at : Nat]
    BY <2>2, <2>3
  <2> QED
    BY <2>1, <2>4, <1>2 DEF BusInv, Shape
<1> QED
  BY <1>1, <1>2, <1>4, <1>6, <1>7 DEF BusInv, Shape

\* deliver_rx_byte only takes a byte event away.
LEMMA PumpByteStep == BusInv /\ PumpByte => BusInv'
<1> SUFFICES ASSUME BusInv, NEW e \in queue, e.kind = "byte", now' = e.time,
                    queue' = queue \ {e}, DOMAIN rx' = HasStall,
                    UNCHANGED <<seq, tx, first_byte_ns, cap_len, rx_stall_deadline_ns,
                                rx_stall_pending, active, sent>>
             PROVE  BusInv'
  BY DEF PumpByte, BusInv, Shape
<1>1. Shape'
  BY DEF BusInv, Shape
<1>2. \A i : TimerFor(i)' = TimerFor(i) /\ ByteFor(i)' \subseteq ByteFor(i)
  BY DEF TimerFor, ByteFor
<1>3. TimerExact'
  BY <1>2 DEF BusInv, TimerExact
<1>4. DeadlineCovers'
  BY <1>2 DEF BusInv, DeadlineCovers
<1> QED
  BY <1>1, <1>3, <1>4 DEF BusInv

\* deliver_radio_timer: the fired timer is re-armed or the flag is cleared.
LEMMA PumpTimerStep == BusInv /\ PumpTimer => BusInv'
<1> SUFFICES ASSUME BusInv, PumpTimer PROVE BusInv'
  OBVIOUS
<1>1. PICK e \in queue :
         /\ e.kind = "timer"
         /\ now' = e.time
         /\ IF e.node \notin active
            THEN /\ queue' = queue \ {e}
                 /\ UNCHANGED <<seq, rx_stall_pending, rx>>
            ELSE /\ queue' = (queue \ {e}) \cup rearmed(e.node, e.time)
                 /\ seq' = seq + 1
                 /\ rx_stall_pending' = [rx_stall_pending EXCEPT
                                            ![e.node] = rearmed(e.node, e.time) # {}]
                 /\ DOMAIN rx' = HasStall
         /\ UNCHANGED <<tx, first_byte_ns, cap_len, rx_stall_deadline_ns, active, sent>>
  BY DEF PumpTimer, BusInv, Shape
<1> DEFINE again == rearmed(e.node, e.time)
<1>2. e.node \in HasStall /\ e.time \in Nat
  BY <1>1 DEF BusInv, Shape
<1>3. \A a \in again : /\ a.kind = "timer" /\ a.node = e.node
                       /\ a.time = rx_stall_deadline_ns[e.node]
                       /\ again = {a}
  BY SMT DEF rearmed, Timer
<1>4. rx_stall_deadline_ns[e.node] \in Nat
  BY <1>2 DEF BusInv, Shape
<1> HIDE DEF again
<1>5. queue' \subseteq (queue \ {e}) \cup again
  BY <1>1 DEF again
<1>6. \A d \in queue' : /\ d.kind \in {"byte", "timer"}
                        /\ d.kind = "timer" => d.node \in HasStall
                        /\ d.time \in Nat
  <2> TAKE d \in queue'
  <2>1. CASE d \in queue
    BY <2>1 DEF BusInv, Shape
  <2>2. CASE d \in again
    BY <2>2, <1>2, <1>3, <1>4
  <2> QED
    BY <2>1, <2>2, <1>5
<1>7. seq' \in Nat /\ DOMAIN rx' = HasStall /\ rx_stall_pending' \in [HasStall -> BOOLEAN]
  <2>1. CASE e.node \notin active
    BY <2>1, <1>1 DEF BusInv, Shape
  <2>2. CASE e.node \in active
    <3>1. /\ seq' = seq + 1 /\ DOMAIN rx' = HasStall
          /\ rx_stall_pending' = [rx_stall_pending EXCEPT ![e.node] = again # {}]
      BY <2>2, <1>1 DEF again
    <3>2. (again # {}) \in BOOLEAN
      OBVIOUS
    <3> QED
      BY SMT, <3>1, <3>2, <1>2 DEF BusInv, Shape
  <2> QED
    BY <2>1, <2>2
<1>8. Shape'
  BY <1>1, <1>2, <1>6, <1>7 DEF BusInv, Shape
<1>9. \A i \in HasStall : ByteFor(i)' \subseteq ByteFor(i)
  BY <1>3, <1>5 DEF ByteFor
<1>10. DeadlineCovers'
  BY <1>1, <1>9 DEF BusInv, DeadlineCovers
<1>11. TimerExact'
  <2> SUFFICES ASSUME NEW i \in HasStall \cap active
               PROVE  /\ rx_stall_pending'[i] <=> TimerFor(i)' # {}
                      /\ \A d, f \in TimerFor(i)' : d = f
    BY <1>1 DEF TimerExact
  <2>1. /\ rx_stall_pending[i] <=> TimerFor(i) # {}
        /\ \A d, f \in TimerFor(i) : d = f
    BY DEF BusInv, TimerExact
  <2>2. CASE i # e.node
    <3>1. TimerFor(i)' = TimerFor(i)
      <4>1. queue' = queue \ {e} \/ queue' = (queue \ {e}) \cup again
        BY <1>1 DEF again
      <4> QED
        BY <4>1, <2>2, <1>3 DEF TimerFor
    <3>2. rx_stall_pending'[i] = rx_stall_pending[i]
      BY <2>2, <1>1 DEF BusInv, Shape
    <3> QED
      BY <3>1, <3>2, <2>1
  <2>3. CASE i = e.node
    <3>1. /\ queue' = (queue \ {e}) \cup again
          /\ rx_stall_pending'[i] = (again # {})
      BY <2>3, <1>1, <1>2 DEF again, BusInv, Shape
    <3>2. e \in TimerFor(i)
      BY <2>3, <1>1 DEF TimerFor
    <3>3. \A d \in queue \ {e} : ~(d.kind = "timer" /\ d.node = i)
      BY <3>2, <2>1 DEF TimerFor
    <3>4. TimerFor(i)' = again
      BY <3>1, <3>3, <2>3, <1>3 DEF TimerFor
    <3> QED
      BY <3>1, <3>4, <1>3
  <2> QED
    BY <2>2, <2>3
<1> QED
  BY <1>8, <1>10, <1>11 DEF BusInv

\* What Abort and Remove leave of the bus.
LEMMA SilencedStep ==
    ASSUME BusInv, NEW n \in Nodes, active' \subseteq active,
           tx' = [tx EXCEPT ![n] = Idle],
           UNCHANGED <<now, queue, seq, first_byte_ns, cap_len, rx_stall_deadline_ns,
                       rx_stall_pending, rx, sent>>
    PROVE  BusInv'
<1>1. Idle \in [id : Nat, band : Bands, bytes : Seq(0 .. 255),
                pos : Nat, pace : Nat, at : Nat]
  BY SMT DEF Idle, Bands
<1>2. TimerExact' /\ DeadlineCovers'
  BY TimersUntouched
<1>3. Shape'
  BY <1>1 DEF BusInv, Shape
<1> QED
  BY <1>2, <1>3 DEF BusInv

\* An aborted transmission leaves the receivers alone.
LEMMA AbortStep == BusInv /\ Abort => BusInv'
BY SilencedStep, BusAssumption DEF Abort

\* A removed mote no longer counts as a running receiver.
LEMMA RemoveStep == BusInv /\ Remove => BusInv'
BY SilencedStep, BusAssumption DEF Remove

\* reboot_node cancels the mote's events and clears its timer state together.
LEMMA RebootStep == BusInv /\ Reboot => BusInv'
<1> SUFFICES ASSUME BusInv, NEW n \in Resettable,
                    active' = active \cup {n},
                    tx' = [tx EXCEPT ![n] = Idle],
                    queue' = {e \in queue : e.node # n},
                    rx_stall_deadline_ns' = [i \in HasStall |->
                        IF i = n THEN 0 ELSE rx_stall_deadline_ns[i]],
                    rx_stall_pending' = [i \in HasStall |-> i # n /\ rx_stall_pending[i]],
                    DOMAIN rx' = HasStall,
                    first_byte_ns' = [first_byte_ns EXCEPT ![n] = 0],
                    cap_len' = [cap_len EXCEPT ![n] = 0],
                    UNCHANGED <<now, seq, sent>>
             PROVE  BusInv'
  BY DEF Reboot, pending_reset
<1>1. n \in Nodes
  BY BusAssumption
<1>2. Idle \in [id : Nat, band : Bands, bytes : Seq(0 .. 255),
                pos : Nat, pace : Nat, at : Nat]
  BY SMT DEF Idle, Bands
<1>3. Shape'
  BY <1>1, <1>2 DEF BusInv, Shape
<1>4. TimerFor(n)' = {} /\ ByteFor(n)' = {}
  BY DEF TimerFor, ByteFor
<1>5. \A i \in HasStall \ {n} : /\ TimerFor(i)' = TimerFor(i)
                                /\ ByteFor(i)' = ByteFor(i)
                                /\ rx_stall_pending'[i] = rx_stall_pending[i]
                                /\ rx_stall_deadline_ns'[i] = rx_stall_deadline_ns[i]
  BY SMT DEF TimerFor, ByteFor, BusInv, Shape
<1>6. n \in HasStall => ~rx_stall_pending'[n]
  OBVIOUS
<1>7. TimerExact'
  BY SMT, <1>4, <1>5, <1>6 DEF BusInv, TimerExact
<1>8. DeadlineCovers'
  BY <1>4, <1>5 DEF BusInv, DeadlineCovers
<1> QED
  BY <1>3, <1>7, <1>8 DEF BusInv

\* Time passing changes nothing but the clock.
LEMMA WaitStep == BusInv /\ Wait => BusInv'
<1> SUFFICES ASSUME BusInv, NEW g \in Gaps, now' = now + g,
                    UNCHANGED <<queue, seq, tx, first_byte_ns, cap_len, active, sent, rx,
                                rx_stall_deadline_ns, rx_stall_pending>>
             PROVE  BusInv'
  BY DEF Wait
<1>1. Shape'
  BY SMT, BusAssumption DEF BusInv, Shape
<1> QED
  BY <1>1, TimersUntouched DEF BusInv

\* BusInv holds in every reachable state: the argument behind the theorems on
\* the stall timer of dispatch_tx_byte and sim_radio_bus_rx_stall_expired.
THEOREM BusInvariant == Spec => []BusInv
<1>1. Init => BusInv
  BY InitBusInv
<1>2. BusInv /\ [Next]_vars => BusInv'
  <2> SUFFICES ASSUME BusInv, [Next]_vars PROVE BusInv'
    OBVIOUS
  <2>1. CASE Start
    BY <2>1, StartStep
  <2>2. CASE TxByte
    BY <2>2, TxByteStep
  <2>3. CASE Pump
    BY <2>3, PumpByteStep, PumpTimerStep DEF Pump
  <2>4. CASE Abort
    BY <2>4, AbortStep
  <2>5. CASE Remove
    BY <2>5, RemoveStep
  <2>6. CASE Reboot
    BY <2>6, RebootStep
  <2>7. CASE Wait
    BY <2>7, WaitStep
  <2>8. CASE UNCHANGED vars
    <3>1. TimerExact' /\ DeadlineCovers'
      BY <2>8, TimersUntouched DEF vars
    <3>2. Shape'
      BY <2>8 DEF vars, BusInv, Shape
    <3> QED
      BY <3>1, <3>2 DEF BusInv
  <2> QED
    BY <2>1, <2>2, <2>3, <2>4, <2>5, <2>6, <2>7, <2>8 DEF Next
<1> QED
  BY <1>1, <1>2, PTL DEF Spec

\* At most one stall timer of a running receiver is ever in the event queue,
\* and rx_stall_pending says exactly whether it is.
THEOREM TimerIsExact == Spec => []TimerExact
<1>1. BusInv => TimerExact
  BY DEF BusInv
<1> QED
  BY <1>1, BusInvariant, PTL

\* The stall deadline lies a full window behind every byte that is scheduled.
THEOREM DeadlineCoversBytes == Spec => []DeadlineCovers
<1>1. BusInv => DeadlineCovers
  BY DEF BusInv
<1> QED
  BY <1>1, BusInvariant, PTL

\* The bound on resets counts up from zero.
LEMMA ResetsCounted == Spec => [](resets \in Nat)
<1>1. Init => resets \in Nat
  BY SMT DEF Init
<1>2. resets \in Nat /\ [Next]_vars => (resets \in Nat)'
  <2> SUFFICES ASSUME resets \in Nat, [Next]_vars PROVE resets' \in Nat
    OBVIOUS
  <2>1. resets' = resets \/ resets' = resets + 1
    BY DEF Next, Pump, Start, StartFrame, TxByte, PumpByte, PumpTimer, Abort, Remove,
           Reboot, Wait, vars
  <2> QED
    BY SMT, <2>1
<1> QED
  BY <1>1, <1>2, PTL DEF Spec

\* rx_stall never gives up a frame whose bytes are still on their way.
THEOREM StallIsNeverFalse == Spec => NoFalseStall
<1> DEFINE Kept(i) == MidFrame(i) /\ ~MidFrame(i)' /\ resets' = resets
                      /\ ByteFor(i)' = ByteFor(i) => ByteFor(i) = {}
<1>1. BusInv /\ resets \in Nat /\ [Next]_vars
         => [\A i \in HasStall \cap active : Kept(i)]_vars
  <2> SUFFICES ASSUME BusInv, resets \in Nat, Next, NEW i \in HasStall \cap active,
                      MidFrame(i), ~MidFrame(i)', resets' = resets,
                      ByteFor(i)' = ByteFor(i), NEW b \in ByteFor(i)
               PROVE  FALSE
    OBVIOUS
  <2>1. rx'[i] # rx[i]
    BY DEF MidFrame
  <2>2. CASE PumpByte
    <3>1. PICK e \in queue : /\ e.kind = "byte"
                             /\ queue' = queue \ {e}
                             /\ i # e.node => rx'[i] = rx[i]
      BY <2>2 DEF PumpByte
    <3>2. e \in ByteFor(i) /\ e \notin ByteFor(i)'
      BY <3>1, <2>1 DEF ByteFor
    <3> QED
      BY <3>2
  <2>3. CASE PumpTimer
    <3>1. PICK e \in queue :
             /\ e.kind = "timer"
             /\ Free(e.time)
             /\ e.node \notin active => rx' = rx
             /\ rx' = rx \/ rx' = [rx EXCEPT ![e.node] = rx_after_timer(e.node, e.time)]
      BY <2>3 DEF PumpTimer
    <3>2. e.node = i /\ e.time \in Nat
      BY <3>1, <2>1 DEF BusInv, Shape
    <3>3. ~(e.time < rx_stall_deadline_ns[i])
      BY <3>1, <3>2, <2>1 DEF rx_after_timer, BusInv, Shape
    <3>4. b \in queue /\ b.time \in Nat /\ e.time <= b.time
      BY <3>1 DEF Free, ByteFor, BusInv, Shape
    <3>5. rx_stall_deadline_ns[i] >= b.time + SIM_RADIO_RX_STALL_NS
      BY DEF BusInv, DeadlineCovers
    <3>6. rx_stall_deadline_ns[i] \in Nat
      BY DEF BusInv, Shape
    <3> QED
      BY SMT, <3>2, <3>3, <3>4, <3>5, <3>6 DEF SIM_RADIO_RX_STALL_NS
  <2>4. CASE Abort \/ Remove \/ Reboot
    <3>1. resets' = resets + 1
      BY <2>4 DEF Abort, Remove, Reboot
    <3> QED
      BY SMT, <3>1
  <2>5. CASE Start \/ TxByte \/ Wait
    BY <2>5, <2>1 DEF Start, StartFrame, TxByte, Wait
  <2> QED
    BY <2>2, <2>3, <2>4, <2>5 DEF Next, Pump
<1> QED
  BY <1>1, BusInvariant, ResetsCounted, PTL DEF Spec, NoFalseStall

(***************************************************************************)
(* The frame assembler: it stands where the sender is.                     *)
(***************************************************************************)

\* The senders whose firmware does not abort frames.
Clean == Nodes \ Aborters

\* What the assembler is made of.
Byte == 0 .. 255
Window == Byte \X Byte \X Byte \X Byte

AsmType ==
    [state : {"PREAMBLE", "LENGTH", "SUBGHZ_PHR", "PAYLOAD"}, zero_count : Nat,
     sync_match : Window, expected_len : Nat, payload_count : Nat,
     phr_lo : Nat \cup {-1}, subghz : BOOLEAN, subghz_phr_len : Nat]

\* Where the assembler stands after the first p bytes of the frame b.
At24(a, b, p) ==
    \/ p \in 0 .. 4 /\ a.state = "PREAMBLE" /\ a.zero_count = p
    \/ p = 5 /\ a.state = "LENGTH" /\ ~a.subghz
    \/ /\ p \in 6 .. Len(b) - 1 /\ a.state = "PAYLOAD" /\ ~a.subghz
       /\ a.expected_len = Len(b) - 6 /\ a.payload_count = p - 6

\* The last bytes of a sub-GHz frame are in the sync window.
Synced(a, b, p) ==
    /\ p >= 5 => a.sync_match[4] = b[p]
    /\ p >= 6 => a.sync_match[3] = b[p - 1]
    /\ p >= 7 => a.sync_match[2] = b[p - 2]

\* Where the assembler stands after the first p bytes of the sub-GHz frame b.
AtSub(a, b, p) ==
    \/ p \in 0 .. 7 /\ a.state = "PREAMBLE" /\ a.zero_count = 0 /\ Synced(a, b, p)
    \/ p = 8 /\ a.state = "SUBGHZ_PHR" /\ a.phr_lo = -1 /\ a.subghz
    \/ /\ p = 9 /\ SubHeader(b) = 10 /\ a.state = "SUBGHZ_PHR" /\ a.phr_lo = 0
       /\ a.subghz /\ a.subghz_phr_len = 2
    \/ /\ p \in SubHeader(b) .. Len(b) - 1 /\ a.state = "PAYLOAD" /\ a.subghz
       /\ a.expected_len = Len(b) - SubHeader(b) - 2 /\ a.payload_count = p - SubHeader(b)
       /\ a.subghz_phr_len = SubHeader(b) - 8

\* The assembler waits for a frame.
Rests(a) == a.state = "PREAMBLE" /\ a.zero_count = 0

\* A byte slides into the window.
SlidIn(s, byte, z) ==
    /\ z \in Window
    /\ z[4] = byte /\ z[3] = s[4] /\ z[2] = s[3]
    /\ z = RADIO_FRAME_802154G_SYNC_WORD <=>
          s[2] = 147 /\ s[3] = 11 /\ s[4] = 81 /\ byte = 222

\* The sync window shifts by one byte and matches the sync word at its last byte.
LEMMA Slide ==
    ASSUME NEW s \in Window, NEW byte \in Byte
    PROVE  SlidIn(s, byte, <<s[2], s[3], s[4], byte>>)
<1> DEFINE z == <<s[2], s[3], s[4], byte>>
<1>1. z \in Window
  BY SMT DEF Window
<1>2. z[4] = byte /\ z[3] = s[4] /\ z[2] = s[3]
  OBVIOUS
<1>3. z = RADIO_FRAME_802154G_SYNC_WORD <=> s[2] = 147 /\ s[3] = 11 /\ s[4] = 81 /\ byte = 222
  BY DEF RADIO_FRAME_802154G_SYNC_WORD
<1> QED BY <1>1, <1>2, <1>3 DEF SlidIn

\* A byte of the preamble.
Slid(a, byte, r) ==
    /\ r \in AsmType
    /\ r.sync_match[4] = byte
    /\ r.sync_match[3] = a.sync_match[4]
    /\ r.sync_match[2] = a.sync_match[3]
    /\ byte = 0 => /\ r.state = a.state /\ r.zero_count = a.zero_count + 1
                   /\ r.subghz = a.subghz
    /\ byte = SFD /\ a.zero_count >= 4 => r.state = "LENGTH" /\ r.subghz = FALSE
    /\ byte # 0 /\ ~(byte = SFD /\ a.zero_count >= 4) =>
          r.state = a.state /\ r.zero_count = 0 /\ r.subghz = a.subghz

\* What asm_preamble makes of a byte that does not end the sync word.
LEMMA PreambleByte ==
    ASSUME NEW a \in AsmType, NEW byte \in Byte,
           ~(a.sync_match[2] = 147 /\ a.sync_match[3] = 11 /\ a.sync_match[4] = 81 /\ byte = 222)
    PROVE  Slid(a, byte, asm_preamble(a, byte))
<1> DEFINE z == <<a.sync_match[2], a.sync_match[3], a.sync_match[4], byte>>
           s == [a EXCEPT !.sync_match = z]
<1>1. a.sync_match \in Window /\ a.zero_count \in Nat
  BY DEF AsmType
<1>2. /\ z \in Window
      /\ z[4] = byte /\ z[3] = a.sync_match[4] /\ z[2] = a.sync_match[3]
      /\ z # RADIO_FRAME_802154G_SYNC_WORD
  <2>1. SlidIn(a.sync_match, byte, z)
    BY <1>1, Slide
  <2> HIDE DEF z
  <2> QED BY <2>1 DEF SlidIn
<1>3. s.sync_match = z
  BY DEF AsmType
<1>4. asm_preamble(a, byte) =
         IF byte = 0 THEN [s EXCEPT !.zero_count = s.zero_count + 1]
         ELSE IF a.zero_count >= 4 /\ byte = SFD
         THEN [s EXCEPT !.state = "LENGTH", !.subghz = FALSE]
         ELSE [s EXCEPT !.zero_count = 0]
  BY <1>2, <1>3 DEF asm_preamble
<1> HIDE DEF z
<1>5. s \in AsmType /\ s.state = a.state /\ s.subghz = a.subghz
      /\ s.zero_count = a.zero_count
  BY SMT, <1>2 DEF AsmType
<1>6. a.zero_count + 1 \in Nat /\ 0 \in Nat
  BY SMT, <1>1
<1> HIDE DEF s
<1>7. CASE byte = 0
  <2> DEFINE r == [s EXCEPT !.zero_count = s.zero_count + 1]
  <2>1. /\ r \in AsmType /\ r.sync_match = z /\ r.state = a.state /\ r.subghz = a.subghz
        /\ r.zero_count = a.zero_count + 1
    BY <1>3, <1>5, <1>6 DEF AsmType
  <2>2. asm_preamble(a, byte) = r /\ byte # SFD
    BY SMT, <1>4, <1>7 DEF SFD
  <2> HIDE DEF r
  <2> QED BY <2>1, <2>2, <1>2, <1>7 DEF Slid
<1>8. CASE byte # 0 /\ a.zero_count >= 4 /\ byte = SFD
  <2> DEFINE r == [s EXCEPT !.state = "LENGTH", !.subghz = FALSE]
  <2>1. /\ r \in AsmType /\ r.sync_match = z /\ r.state = "LENGTH" /\ r.subghz = FALSE
    BY <1>3, <1>5 DEF AsmType
  <2>2. asm_preamble(a, byte) = r
    BY <1>4, <1>8
  <2> HIDE DEF r
  <2> QED BY <2>1, <2>2, <1>2, <1>8 DEF Slid
<1>9. CASE byte # 0 /\ ~(a.zero_count >= 4 /\ byte = SFD)
  <2> DEFINE r == [s EXCEPT !.zero_count = 0]
  <2>1. /\ r \in AsmType /\ r.sync_match = z /\ r.state = a.state /\ r.subghz = a.subghz
        /\ r.zero_count = 0
    BY <1>3, <1>5, <1>6 DEF AsmType
  <2>2. asm_preamble(a, byte) = r
    BY <1>4, <1>9
  <2> HIDE DEF r
  <2> QED BY <2>1, <2>2, <1>2, <1>9 DEF Slid
<1> QED BY <1>7, <1>8, <1>9

\* The two fields of the assembler's answer.
LEMMA FedMore == ASSUME NEW r, NEW q, r = More(q) PROVE r.asm = q /\ ~r.complete
BY SMT DEF More

\* The payload, in both bands.
Counted(a, r) ==
    /\ r.asm \in AsmType
    /\ r.complete <=> a.payload_count + 1 >= payload_target(a)
    /\ ~r.complete => r.asm.state = "PAYLOAD"
    /\ r.complete => Rests(r.asm)
    /\ r.asm.payload_count = a.payload_count + 1
    /\ r.asm.expected_len = a.expected_len
    /\ r.asm.subghz = a.subghz
    /\ r.asm.subghz_phr_len = a.subghz_phr_len

\* asm_feed counts the payload and completes the frame at its target.
LEMMA PayloadByte ==
    ASSUME NEW a \in AsmType, NEW byte, a.state = "PAYLOAD"
    PROVE  Counted(a, asm_feed(a, byte))
<1>1. /\ a.payload_count \in Nat /\ a.payload_count + 1 \in Nat /\ payload_target(a) \in Nat
      /\ 0 \in Nat /\ -1 \in Nat \cup {-1}
  BY SMT DEF AsmType, payload_target
<1>2. <<0, 0, 0, 0>> \in Window
  BY SMT DEF Window, Byte
<1> DEFINE r == asm_feed(a, byte)
           m == [a EXCEPT !.payload_count = a.payload_count + 1]
<1>3. /\ m \in AsmType /\ m.state = "PAYLOAD" /\ m.payload_count = a.payload_count + 1
      /\ m.expected_len = a.expected_len /\ m.subghz = a.subghz
      /\ m.subghz_phr_len = a.subghz_phr_len
  BY <1>1 DEF AsmType
<1>4. CASE a.payload_count + 1 < payload_target(a)
  <2>1. ~(a.payload_count + 1 >= payload_target(a))
    BY SMT, <1>1, <1>4
  <2>2. r = More(m)
    BY <1>4, <2>1 DEF asm_feed
  <2> HIDE DEF m, r
  <2>3. r.asm = m /\ ~r.complete
    BY <2>2, FedMore
  <2>4. Counted(a, r)
    BY <1>3, <2>1, <2>3 DEF Counted
  <2> QED BY <2>4 DEF r
<1>5. CASE a.payload_count + 1 >= payload_target(a)
  <2>1. ~(a.payload_count + 1 < payload_target(a))
    BY SMT, <1>1, <1>5
  <2> DEFINE d1 == [m EXCEPT !.state = "PREAMBLE", !.zero_count = 0]
             d == [d1 EXCEPT !.sync_match = <<0, 0, 0, 0>>, !.phr_lo = -1]
  <2>2. r = [asm |-> d, complete |-> TRUE]
    BY <1>5, <2>1 DEF asm_feed
  <2> HIDE DEF m
  <2>3. /\ d1 \in AsmType /\ d1.payload_count = a.payload_count + 1
        /\ d1.expected_len = a.expected_len /\ d1.subghz = a.subghz
        /\ d1.subghz_phr_len = a.subghz_phr_len /\ d1.state = "PREAMBLE" /\ d1.zero_count = 0
    BY <1>1, <1>3 DEF AsmType
  <2> HIDE DEF d1
  <2>4. /\ d \in AsmType /\ d.payload_count = a.payload_count + 1
        /\ d.expected_len = a.expected_len /\ d.subghz = a.subghz
        /\ d.subghz_phr_len = a.subghz_phr_len /\ d.state = "PREAMBLE" /\ d.zero_count = 0
    BY <1>1, <1>2, <2>3 DEF AsmType
  <2> HIDE DEF d, r
  <2>5. r.asm = d /\ r.complete
    BY SMT, <2>2
  <2>6. Counted(a, r)
    BY <1>5, <2>4, <2>5 DEF Counted, Rests
  <2> QED BY <2>6 DEF r
<1> QED BY SMT, <1>1, <1>4, <1>5

\* What a 2.4 GHz frame in progress becomes with its next byte.
Fed24(a, b, p, r) ==
    /\ r.asm \in AsmType
    /\ r.complete <=> p + 1 = Len(b)
    /\ r.complete => Rests(r.asm)
    /\ ~r.complete => At24(r.asm, b, p + 1)
    /\ p + 1 >= 6 => frame_air_bytes(r.asm) = Len(b) /\ (r.complete \/ r.asm.state = "PAYLOAD")
    /\ ~a.subghz => ~r.asm.subghz

\* The bytes a 2.4 GHz frame is made of.
LEMMA Bytes24 ==
    ASSUME NEW b, WellFormed24(b), NEW p, p \in 0 .. Len(b) - 1
    PROVE  /\ Len(b) \in 9 .. 133 /\ p \in Nat
           /\ \/ p \in 0 .. 3 /\ b[p + 1] = 0
              \/ p = 4 /\ b[p + 1] = SFD
              \/ p = 5 /\ b[p + 1] = Len(b) - 6
              \/ p \in 6 .. Len(b) - 1
<1>1. Len(b) \in 9 .. 133
  BY DEF WellFormed24
<1>2. CASE p \in 0 .. 3
  <2>1. p + 1 \in 1 .. 4 /\ p \in Nat
    BY ONLY SMT, <1>2
  <2> QED BY <1>1, <1>2, <2>1 DEF WellFormed24
<1>3. CASE p = 4
  <2>1. p + 1 = 5 /\ p \in Nat
    BY ONLY SMT, <1>3
  <2> QED BY <1>1, <1>3, <2>1 DEF WellFormed24
<1>4. CASE p = 5
  <2>1. p + 1 = 6 /\ p \in Nat
    BY ONLY SMT, <1>4
  <2> QED BY <1>1, <1>4, <2>1 DEF WellFormed24, IEEE802154_PHY_HEADER_BYTES
<1>5. CASE p \in 6 .. Len(b) - 1
  BY SMT, <1>1, <1>5
<1>6. p \in 0 .. 3 \/ p = 4 \/ p = 5 \/ p \in 6 .. Len(b) - 1
  <2> DEFINE L == Len(b)
  <2>1. p \in 0 .. L - 1 /\ L \in 9 .. 133
    BY <1>1
  <2> HIDE DEF L
  <2>2. p \in 0 .. 3 \/ p = 4 \/ p = 5 \/ p \in 6 .. L - 1
    BY ONLY SMT, <2>1
  <2> QED BY <2>2 DEF L
<1> QED BY <1>2, <1>3, <1>4, <1>5, <1>6

\* sim_radio_bus_asm_feed follows a 2.4 GHz frame from its first byte to its last.
LEMMA Feed24 ==
    ASSUME NEW a, NEW b, NEW p, a \in AsmType, WellFormed24(b), p \in 0 .. Len(b) - 1,
           At24(a, b, p), b[p + 1] \in Byte
    PROVE  Fed24(a, b, p, asm_feed(a, b[p + 1]))
<1> DEFINE byte == b[p + 1]
           r == asm_feed(a, byte)
           L == Len(b)
<1>1. /\ L \in 9 .. 133 /\ p \in Nat
      /\ \/ p \in 0 .. 3 /\ byte = 0
         \/ p = 4 /\ byte = SFD
         \/ p = 5 /\ byte = L - 6
         \/ p \in 6 .. L - 1
  BY Bytes24
<1>2. /\ p \in 0 .. 4 => (p \in 0 .. 3 \/ p = 4) /\ p # 5 /\ ~(p \in 6 .. L - 1)
      /\ p \in 0 .. 3 => p \in 0 .. 4 /\ p # 4 /\ p + 1 \in 0 .. 4 /\ p + 1 # L /\ ~(p + 1 >= 6)
      /\ p = 4 => p \in 0 .. 4 /\ p + 1 = 5 /\ p + 1 # L /\ ~(p + 1 >= 6)
      /\ p = 5 => p + 1 \in 6 .. L - 1 /\ p + 1 # L /\ (p + 1) - 6 = 0 /\ 6 + (L - 6) = L
                  /\ L - 6 \in 3 .. 127 /\ L - 6 \in Nat /\ ~(p \in 0 .. 4)
                  /\ ~(p \in 6 .. L - 1)
      /\ p \in 6 .. L - 1 => /\ ~(p \in 0 .. 4) /\ p # 5 /\ (p - 6) + 1 = (p + 1) - 6
                             /\ (p - 6) + 1 >= L - 6 <=> p + 1 = L
                             /\ p + 1 # L => p + 1 \in 6 .. L - 1
                             /\ 6 + (L - 6) = L /\ (L - 6) + 0 = L - 6
  <2> HIDE DEF L
  <2> QED BY ONLY SMT, <1>1
<1> HIDE DEF L, byte, r
<1>3. CASE p \in 0 .. 3 /\ byte = 0
  <2>1. a.state = "PREAMBLE" /\ a.zero_count = p
    BY <1>2, <1>3 DEF At24, L
  <2> DEFINE q == asm_preamble(a, byte)
  <2>2. r = More(q)
    BY <2>1 DEF asm_feed, r
  <2>3. Slid(a, byte, q)
    <3>1. byte # 222
      BY ONLY SMT, <1>3
    <3> QED BY <3>1, PreambleByte DEF byte
  <2> HIDE DEF q
  <2>4. q \in AsmType /\ q.state = "PREAMBLE" /\ q.zero_count = p + 1 /\ q.subghz = a.subghz
    BY <1>3, <2>1, <2>3 DEF Slid
  <2>5. r.asm = q /\ ~r.complete
    BY <2>2, FedMore
  <2>6. Fed24(a, b, p, r)
    BY <1>2, <1>3, <2>4, <2>5 DEF Fed24, At24, L
  <2> QED BY <2>6 DEF r, byte
<1>4. CASE p = 4 /\ byte = SFD
  <2>1. a.state = "PREAMBLE" /\ a.zero_count = p
    BY <1>2, <1>4 DEF At24, L
  <2> DEFINE q == asm_preamble(a, byte)
  <2>2. r = More(q)
    BY <2>1 DEF asm_feed, r
  <2>3. byte # 222 /\ a.zero_count >= 4
    BY ONLY SMT, <1>4, <2>1 DEF SFD
  <2>4. Slid(a, byte, q)
    BY <2>3, PreambleByte DEF byte
  <2> HIDE DEF q
  <2>5. q \in AsmType /\ q.state = "LENGTH" /\ q.subghz = FALSE
    BY <1>4, <2>3, <2>4 DEF Slid
  <2>6. r.asm = q /\ ~r.complete
    BY <2>2, FedMore
  <2>7. Fed24(a, b, p, r)
    BY <1>2, <1>4, <2>5, <2>6 DEF Fed24, At24, L
  <2> QED BY <2>7 DEF r, byte
<1>5. CASE p = 5 /\ byte = L - 6
  <2>1. a.state = "LENGTH" /\ ~a.subghz
    BY <1>2, <1>5 DEF At24, L
  <2> DEFINE q == [a EXCEPT !.expected_len = byte, !.state = "PAYLOAD", !.payload_count = 0]
  <2>2. byte \in 3 .. 127 /\ byte \in Nat /\ 0 \in Nat
    BY <1>2, <1>5
  <2>3. r = More(q)
    BY <2>1, <2>2 DEF asm_feed, asm_length, r
  <2>4. /\ q \in AsmType /\ q.state = "PAYLOAD" /\ q.subghz = a.subghz /\ q.expected_len = byte
        /\ q.payload_count = 0
    BY <2>2 DEF AsmType
  <2> HIDE DEF q
  <2>5. r.asm = q /\ ~r.complete
    BY <2>3, FedMore
  <2>6. p + 1 \in 6 .. L - 1 /\ p + 1 # L /\ (p + 1) - 6 = 0 /\ 6 + byte = L
    BY <1>2, <1>5
  <2>7. frame_air_bytes(q) = L
    BY <2>1, <2>4, <2>6 DEF frame_air_bytes, IEEE802154_PHY_HEADER_BYTES
  <2>8. At24(q, b, p + 1)
    BY <1>5, <2>1, <2>4, <2>6 DEF At24, L
  <2>9. Fed24(a, b, p, r)
    BY <2>1, <2>4, <2>5, <2>6, <2>7, <2>8 DEF Fed24, L
  <2> QED BY <2>9 DEF r, byte
<1>6. CASE p \in 6 .. L - 1
  <2>1. /\ a.state = "PAYLOAD" /\ ~a.subghz /\ a.expected_len = L - 6
        /\ a.payload_count = p - 6
    BY <1>2, <1>6 DEF At24, L
  <2>2. Counted(a, r)
    BY <2>1, PayloadByte DEF r
  <2>3. payload_target(a) = L - 6
    BY <1>2, <1>6, <2>1 DEF payload_target
  <2>4. r.complete <=> p + 1 = L
    BY <1>2, <1>6, <2>1, <2>2, <2>3 DEF Counted
  <2>5. /\ r.asm \in AsmType /\ r.asm.subghz = a.subghz /\ r.asm.expected_len = L - 6
        /\ r.asm.payload_count = (p + 1) - 6
        /\ ~r.complete => r.asm.state = "PAYLOAD"
        /\ r.complete => Rests(r.asm)
    BY <1>2, <1>6, <2>1, <2>2 DEF Counted
  <2>6. frame_air_bytes(r.asm) = L
    BY <1>2, <1>6, <2>1, <2>5 DEF frame_air_bytes, IEEE802154_PHY_HEADER_BYTES
  <2>7. p + 1 # L => p + 1 \in 6 .. L - 1
    BY <1>2, <1>6
  <2>8. ~r.complete => At24(r.asm, b, p + 1)
    BY <2>1, <2>4, <2>5, <2>7 DEF At24, L
  <2>9. Fed24(a, b, p, r)
    BY <2>1, <2>4, <2>5, <2>6, <2>8 DEF Fed24, L
  <2> QED BY <2>9 DEF r, byte
<1> QED BY <1>1, <1>3, <1>4, <1>5, <1>6

\* The last byte of the sync word.
SyncEnd(a, r) ==
    /\ r \in AsmType /\ r.state = "SUBGHZ_PHR" /\ r.phr_lo = -1 /\ r.subghz = TRUE

\* The first three bytes of the sync word are in the window.
SyncNear(a) == a.sync_match[2] = 147 /\ a.sync_match[3] = 11 /\ a.sync_match[4] = 81

\* The last byte of the sync word opens the PHR.
LEMMA SyncByte ==
    ASSUME NEW a \in AsmType, NEW byte \in Byte, SyncNear(a), byte = 222
    PROVE  SyncEnd(a, asm_preamble(a, byte))
<1> DEFINE z == <<a.sync_match[2], a.sync_match[3], a.sync_match[4], byte>>
           s == [a EXCEPT !.sync_match = z]
<1>1. a.sync_match \in Window /\ 0 \in Nat /\ -1 \in Nat \cup {-1}
  BY SMT DEF AsmType
<1>2. z \in Window /\ z = RADIO_FRAME_802154G_SYNC_WORD
  <2>1. SlidIn(a.sync_match, byte, z)
    BY ONLY Zenon, <1>1, Slide
  <2> HIDE DEF z
  <2> QED BY <2>1 DEF SlidIn, SyncNear
<1>3. s.sync_match = z
  BY DEF AsmType
<1> DEFINE s1 == [s EXCEPT !.state = "SUBGHZ_PHR", !.subghz = TRUE]
           r == [s1 EXCEPT !.subghz_phr_len = 0, !.phr_lo = -1, !.payload_count = 0]
<1>4. asm_preamble(a, byte) = r
  BY <1>2, <1>3 DEF asm_preamble
<1> HIDE DEF z
<1>5. s \in AsmType
  BY <1>2 DEF AsmType
<1> HIDE DEF s
<1>6. s1 \in AsmType /\ s1.state = "SUBGHZ_PHR" /\ s1.subghz = TRUE
  BY <1>5 DEF AsmType
<1> HIDE DEF s1
<1>7. r \in AsmType /\ r.state = "SUBGHZ_PHR" /\ r.subghz = TRUE /\ r.phr_lo = -1
  BY <1>1, <1>6 DEF AsmType
<1> HIDE DEF r
<1> QED BY <1>4, <1>7 DEF SyncEnd

\* What a sub-GHz frame in progress becomes with its next byte.
FedSub(a, b, p, r) ==
    /\ r.asm \in AsmType
    /\ r.complete <=> p + 1 = Len(b)
    /\ r.complete => Rests(r.asm)
    /\ ~r.complete => AtSub(r.asm, b, p + 1)
    /\ p + 1 >= SubHeader(b) =>
          /\ frame_air_bytes(r.asm) = Len(b) /\ r.asm.subghz
          /\ r.complete \/ r.asm.state = "PAYLOAD"
    /\ a.subghz => r.asm.subghz

\* The bytes a sub-GHz frame is made of.
SubByte(b, p) ==
    \/ p \in 0 .. 6 /\ b[p + 1] \in {85, 147, 11, 81}
    \/ p = 7 /\ b[p + 1] = 222
    \/ p = 8
    \/ p = 9 /\ SubHeader(b) = 10
    \/ p \in SubHeader(b) .. Len(b) - 1

SubLengths(b) ==
    SubHeader(b) \in {9, 10} /\ Len(b) \in SubHeader(b) + 5 .. SubHeader(b) + 202
SyncBytes(b) == b[5] = 147 /\ b[6] = 11 /\ b[7] = 81 /\ b[8] = 222

\* A well-formed sub-GHz frame is made of those bytes.
LEMMA BytesSub ==
    ASSUME NEW b, WellFormedSub(b), NEW p, p \in 0 .. Len(b) - 1
    PROVE  SubLengths(b) /\ SyncBytes(b) /\ SubByte(b, p) /\ p \in Nat
<1> DEFINE H == SubHeader(b)
           L == Len(b)
<1>1. H \in {9, 10} /\ L \in H + 5 .. H + 202 /\ p \in 0 .. L - 1
  BY DEF WellFormedSub, SubHeader
<1>2. b[5] = 147 /\ b[6] = 11 /\ b[7] = 81 /\ b[8] = 222
  <2>1. \A k \in 1 .. 4 : b[4 + k] = RADIO_FRAME_802154G_SYNC_WORD[k]
    BY DEF WellFormedSub
  <2> QED BY ONLY SMT, <2>1 DEF RADIO_FRAME_802154G_SYNC_WORD
<1>lengths. SubLengths(b) /\ SyncBytes(b)
  BY <1>1, <1>2 DEF SubLengths, SyncBytes
<1> HIDE DEF H, L
<1>3. /\ p \in Nat
      /\ p \in 0 .. 3 \/ p = 4 \/ p = 5 \/ p = 6 \/ p = 7 \/ p = 8 \/ (p = 9 /\ H = 10)
         \/ p \in H .. L - 1
  BY ONLY SMT, <1>1
<1>4. CASE p \in 0 .. 3
  <2>1. p + 1 \in 1 .. 4 /\ p \in 0 .. 6
    BY ONLY SMT, <1>4
  <2>2. b[p + 1] = 85
    BY <2>1 DEF WellFormedSub
  <2>3. SubByte(b, p)
    BY <2>1, <2>2 DEF SubByte
  <2> QED BY <1>lengths, <1>3, <2>3
<1>5. CASE p \in {4, 5, 6, 7}
  <2>1. p = 4 \/ p = 5 \/ p = 6 \/ p = 7
    BY <1>5
  <2>2. (p = 7 /\ b[p + 1] = 222) \/ (p \in 0 .. 6 /\ b[p + 1] \in {85, 147, 11, 81})
    BY ONLY SMT, <1>2, <2>1
  <2>3. SubByte(b, p)
    BY ONLY Zenon, <2>2 DEF SubByte
  <2> QED BY <1>lengths, <1>3, <2>3
<1>6. CASE p = 8 \/ (p = 9 /\ H = 10) \/ p \in H .. L - 1
  <2>1. SubByte(b, p)
    BY <1>6 DEF SubByte, H, L
  <2> QED BY <1>lengths, <1>3, <2>1
<1> QED BY <1>3, <1>4, <1>5, <1>6

\* sim_radio_bus_asm_feed follows a sub-GHz frame through preamble and sync word.
LEMMA FeedSync ==
    ASSUME NEW a, NEW b, NEW p, a \in AsmType, WellFormedSub(b), p \in 0 .. Len(b) - 1,
           AtSub(a, b, p), b[p + 1] \in Byte, p \in 0 .. 7
    PROVE  FedSub(a, b, p, asm_feed(a, b[p + 1]))
<1> DEFINE byte == b[p + 1]
           r == asm_feed(a, byte)
           H == SubHeader(b)
           L == Len(b)
           q == asm_preamble(a, byte)
<1>range. p \in 0 .. 7 /\ p \in 0 .. Len(b) - 1 /\ WellFormedSub(b)
  OBVIOUS
<1>bytes. SubLengths(b) /\ SyncBytes(b) /\ SubByte(b, p)
  BY ONLY Zenon, <1>range, BytesSub
<1>1. H \in {9, 10} /\ L \in H + 5 .. H + 202
  BY ONLY Zenon, <1>bytes DEF SubLengths
<1> HIDE DEF H, L, byte, r, q
<1>2. /\ p # 8 /\ p # 9 /\ ~(p \in H .. L - 1) /\ p \in Nat
      /\ p + 1 # L /\ ~(p + 1 >= H)
      /\ p # 7 => p + 1 \in 0 .. 7
      /\ p = 7 => p + 1 = 8 /\ p >= 5 /\ p >= 6 /\ p >= 7 /\ p - 1 = 6 /\ p - 2 = 5
  BY ONLY SMT, <1>1, <1>range
<1>3. a.state = "PREAMBLE" /\ a.zero_count = 0 /\ Synced(a, b, p)
  BY <1>2 DEF AtSub, H, L
<1>4. r.asm = q /\ ~r.complete
  <2>1. r = More(q)
    BY <1>3 DEF asm_feed, r, q
  <2> QED BY <2>1, FedMore
<1>5. CASE p \in 0 .. 6 /\ byte \in {85, 147, 11, 81}
  <2>1. byte # 222 /\ byte # 0 /\ ~(0 >= 4)
    BY ONLY SMT, <1>5
  <2>2. Slid(a, byte, q)
    BY <2>1, PreambleByte DEF byte, q
  <2>3. q \in AsmType /\ q.state = "PREAMBLE" /\ q.zero_count = 0 /\ q.subghz = a.subghz
    <3>1. byte # 0 /\ ~(byte = SFD /\ a.zero_count >= 4)
      BY ONLY Zenon, <1>3, <2>1
    <3>2. q \in AsmType /\ q.state = a.state /\ q.zero_count = 0 /\ q.subghz = a.subghz
      BY ONLY Zenon, <2>2, <3>1 DEF Slid
    <3> QED BY ONLY Zenon, <1>3, <3>2
  <2>4. /\ q.sync_match[4] = b[p + 1] /\ q.sync_match[3] = a.sync_match[4]
        /\ q.sync_match[2] = a.sync_match[3]
    BY <2>2 DEF Slid, byte
  <2>5. Synced(q, b, p + 1)
    <3>1. /\ p >= 5 => a.sync_match[4] = b[p]
          /\ p >= 6 => a.sync_match[3] = b[p - 1]
      BY <1>3 DEF Synced
    <3>2. /\ (p + 1) - 1 = p /\ (p + 1) - 2 = p - 1
          /\ p + 1 >= 6 => p >= 5
          /\ p + 1 >= 7 => p >= 6
      BY ONLY SMT, <1>2
    <3> QED BY <2>4, <3>1, <3>2 DEF Synced
  <2>6. p + 1 \in 0 .. 7
    BY ONLY SMT, <1>5
  <2>7. AtSub(q, b, p + 1)
    BY <2>3, <2>5, <2>6 DEF AtSub
  <2>8. FedSub(a, b, p, r)
    BY <1>2, <1>4, <2>3, <2>7 DEF FedSub, H, L
  <2> QED BY <2>8 DEF r, byte
<1>6. CASE p = 7 /\ byte = 222
  <2>1. SyncNear(a)
    <3>1. a.sync_match[4] = b[p] /\ a.sync_match[3] = b[p - 1] /\ a.sync_match[2] = b[p - 2]
      BY <1>2, <1>3, <1>6 DEF Synced
    <3> QED BY ONLY SMT, <1>bytes, <1>6, <3>1 DEF SyncBytes, SyncNear
  <2>2. SyncEnd(a, q)
    <3>1. a \in AsmType /\ byte \in Byte
      BY DEF byte
    <3> QED BY ONLY Zenon, <3>1, <1>6, <2>1, SyncByte DEF q
  <2>3. q \in AsmType /\ q.state = "SUBGHZ_PHR" /\ q.phr_lo = -1 /\ q.subghz
    BY <2>2 DEF SyncEnd
  <2>4. AtSub(q, b, p + 1)
    BY <1>2, <1>6, <2>3 DEF AtSub
  <2>5. FedSub(a, b, p, r)
    BY <1>2, <1>4, <2>3, <2>4 DEF FedSub, H, L
  <2> QED BY <2>5 DEF r, byte
<1> QED BY <1>bytes, <1>2, <1>5, <1>6 DEF SubByte, byte, H, L

\* The PHR of a sub-GHz frame.
OnePhr(a, byte) == [a EXCEPT !.expected_len = byte, !.subghz_phr_len = 1,
                             !.state = "PAYLOAD", !.payload_count = 0]
FirstPhr(a, byte) == [a EXCEPT !.phr_lo = byte % 8, !.subghz_phr_len = 2]
LastPhr(a, byte) == [a EXCEPT !.expected_len = byte, !.state = "PAYLOAD", !.payload_count = 0]

\* A sensible first byte is the whole PHR; another one is the first of two.
LEMMA PhrByte ==
    ASSUME NEW a, NEW byte, a \in AsmType, byte \in Byte
    PROVE  /\ a.phr_lo = -1 /\ byte \in SensibleLength => asm_subghz_phr(a, byte) = OnePhr(a, byte)
           /\ a.phr_lo = -1 /\ byte \notin SensibleLength => asm_subghz_phr(a, byte) = FirstPhr(a, byte)
           /\ a.phr_lo = 0 /\ byte \in SensibleLength => asm_subghz_phr(a, byte) = LastPhr(a, byte)
<1>1. /\ a.phr_lo = -1 => a.phr_lo < 0 /\ ~(a.phr_lo >= 0)
      /\ a.phr_lo = 0 => ~(a.phr_lo < 0) /\ a.phr_lo >= 0 /\ a.phr_lo * 256 + byte = byte
  BY SMT DEF Byte
<1>2. ASSUME a.phr_lo = -1, byte \in SensibleLength PROVE asm_subghz_phr(a, byte) = OnePhr(a, byte)
  BY <1>1, <1>2 DEF asm_subghz_phr, OnePhr
<1>3. ASSUME a.phr_lo = -1, byte \notin SensibleLength
      PROVE  asm_subghz_phr(a, byte) = FirstPhr(a, byte)
  BY <1>1, <1>3 DEF asm_subghz_phr, FirstPhr
<1>4. ASSUME a.phr_lo = 0, byte \in SensibleLength PROVE asm_subghz_phr(a, byte) = LastPhr(a, byte)
  <2> DEFINE len == a.phr_lo * 256 + byte
  <2>1. len = byte /\ ~(a.phr_lo < 0) /\ a.phr_lo >= 0
    BY <1>1, <1>4
  <2>2. a.phr_lo >= 0 /\ len \in SensibleLength /\ ~(a.phr_lo < 0) =>
           asm_subghz_phr(a, byte) =
              [a EXCEPT !.expected_len = len, !.state = "PAYLOAD", !.payload_count = 0]
    BY ONLY Zenon DEF asm_subghz_phr
  <2> HIDE DEF len
  <2> QED BY <1>4, <2>1, <2>2 DEF LastPhr
<1> QED BY <1>2, <1>3, <1>4

\* The assembler takes the PHR of a sub-GHz frame.
LEMMA FeedPhr ==
    ASSUME NEW a, NEW b, NEW p, a \in AsmType, WellFormedSub(b), p \in 0 .. Len(b) - 1,
           AtSub(a, b, p), b[p + 1] \in Byte, p = 8 \/ (p = 9 /\ SubHeader(b) = 10)
    PROVE  FedSub(a, b, p, asm_feed(a, b[p + 1]))
<1> DEFINE byte == b[p + 1]
           r == asm_feed(a, byte)
           H == SubHeader(b)
           L == Len(b)
           q == asm_subghz_phr(a, byte)
<1>1. p \in 0 .. Len(b) - 1 /\ WellFormedSub(b) /\ (p = 8 \/ (p = 9 /\ H = 10))
  OBVIOUS
<1>2. H \in {9, 10} /\ L \in H + 5 .. H + 202
  <2>1. SubLengths(b)
    BY ONLY Zenon, <1>1, BytesSub
  <2> QED BY ONLY Zenon, <2>1 DEF SubLengths
<1>3. /\ H = 9 <=> b[9] \in SensibleLength
      /\ b[9] \notin SensibleLength => b[9] % 8 = 0
      /\ b[H] = L - H - 2
  <2>1. H = IF b[9] \in SensibleLength THEN 9 ELSE 10
    BY DEF SubHeader
  <2>2. 9 # 10
    BY SMT
  <2> QED BY <2>1, <2>2 DEF WellFormedSub
<1>4. a \in AsmType /\ byte \in Byte /\ AtSub(a, b, p)
  OBVIOUS
<1> HIDE DEF H, L, byte, r, q
<1>5. /\ ~(p \in 0 .. 7) /\ p \in Nat
      /\ p = 8 => p + 1 = 9 /\ p # 9 /\ ~(p \in H .. L - 1) /\ p + 1 # L
      /\ p = 8 /\ H = 9 => p + 1 \in H .. L - 1 /\ (p + 1) - H = 0 /\ H - 8 = 1
                           /\ 4 + 4 + 1 + (L - H - 2) + 2 = L /\ L - H - 2 \in Nat
      /\ p = 8 /\ H = 10 => ~(p + 1 >= H)
      /\ p = 9 /\ H = 10 => p + 1 \in H .. L - 1 /\ (p + 1) - H = 0 /\ H - 8 = 2 /\ p # 8
                            /\ 4 + 4 + 2 + (L - H - 2) + 2 = L /\ L - H - 2 \in Nat
                            /\ L - H - 2 \in SensibleLength /\ p + 1 # L /\ p + 1 = H
                            /\ ~(p \in H .. L - 1)
  BY ONLY SMT, <1>1, <1>2 DEF SensibleLength
<1>6. a.state = "SUBGHZ_PHR" /\ a.subghz
      /\ (p = 8 => a.phr_lo = -1)
      /\ (p = 9 => a.phr_lo = 0 /\ a.subghz_phr_len = 2)
  BY <1>1, <1>4, <1>5 DEF AtSub, H, L
<1>7. r.asm = q /\ ~r.complete
  <2>1. r = More(q)
    BY <1>6 DEF asm_feed, r, q
  <2> QED BY <2>1, FedMore
<1>8. 0 \in Nat /\ 1 \in Nat /\ 2 \in Nat /\ 0 \in Nat \cup {-1}
  BY ONLY SMT
<1>9. CASE p = 8 /\ H = 9
  <2>1. byte \in SensibleLength /\ byte = L - H - 2
    <3>1. byte = b[9]
      BY <1>5, <1>9 DEF byte
    <3> QED BY <1>3, <1>9, <3>1
  <2> DEFINE a1 == [a EXCEPT !.expected_len = byte, !.subghz_phr_len = 1]
             z == [a1 EXCEPT !.state = "PAYLOAD", !.payload_count = 0]
  <2>2. q = z
    <3>1. a.phr_lo = -1
      BY <1>6, <1>9
    <3> QED BY ONLY Zenon, <1>4, <2>1, <3>1, PhrByte DEF q, a1, z, OnePhr
  <2>3. byte \in Nat
    BY <1>5, <1>9, <2>1
  <2>4. /\ a1 \in AsmType /\ a1.expected_len = byte /\ a1.subghz_phr_len = 1
        /\ a1.subghz = a.subghz
    BY <1>4, <1>8, <2>3 DEF AsmType
  <2> HIDE DEF a1
  <2>5. /\ z \in AsmType /\ z.expected_len = byte /\ z.subghz_phr_len = 1
        /\ z.subghz = a.subghz /\ z.state = "PAYLOAD" /\ z.payload_count = 0
    BY <1>8, <2>4 DEF AsmType
  <2> HIDE DEF z
  <2>6. /\ p + 1 \in H .. L - 1 /\ (p + 1) - H = 0 /\ H - 8 = 1 /\ p + 1 # L
        /\ 4 + 4 + 1 + byte + 2 = L
    BY <1>5, <1>9, <2>1
  <2>7. frame_air_bytes(z) = L
    BY <1>6, <2>5, <2>6 DEF frame_air_bytes
  <2>8. AtSub(z, b, p + 1)
    <3>1. /\ p + 1 \in H .. L - 1 /\ z.state = "PAYLOAD" /\ z.subghz
          /\ z.expected_len = L - H - 2 /\ z.payload_count = (p + 1) - H
          /\ z.subghz_phr_len = H - 8
      BY <1>6, <2>1, <2>5, <2>6
    <3> QED BY <3>1 DEF AtSub, H, L
  <2>9. FedSub(a, b, p, r)
    BY <1>6, <1>7, <2>2, <2>5, <2>6, <2>7, <2>8 DEF FedSub, L
  <2> QED BY <2>9 DEF r, byte
<1>10. CASE p = 8 /\ H = 10
  <2>1. byte \notin SensibleLength /\ byte % 8 = 0
    <3>1. byte = b[9]
      BY <1>5, <1>10 DEF byte
    <3>2. H # 9
      BY ONLY SMT, <1>10
    <3> QED BY <1>3, <3>1, <3>2
  <2> DEFINE z == [a EXCEPT !.phr_lo = byte % 8, !.subghz_phr_len = 2]
  <2>2. q = z
    <3>1. a.phr_lo = -1
      BY <1>6, <1>10
    <3> QED BY ONLY Zenon, <1>4, <2>1, <3>1, PhrByte DEF q, z, FirstPhr
  <2>3. /\ z \in AsmType /\ z.phr_lo = 0 /\ z.subghz_phr_len = 2
        /\ z.subghz = a.subghz /\ z.state = a.state
    BY <1>4, <1>8, <2>1 DEF AsmType
  <2> HIDE DEF z
  <2>4. AtSub(q, b, p + 1)
    BY <1>5, <1>6, <1>10, <2>2, <2>3 DEF AtSub, H
  <2>5. FedSub(a, b, p, r)
    <3>1. ~(p + 1 >= H) /\ p + 1 # L
      BY <1>5, <1>10
    <3> QED BY <1>6, <1>7, <2>2, <2>3, <2>4, <3>1 DEF FedSub, H, L
  <2> QED BY <2>5 DEF r, byte
<1>11. CASE p = 9 /\ H = 10
  <2>1. byte \in SensibleLength /\ byte = L - H - 2
    <3>1. byte = b[H]
      BY <1>5, <1>11 DEF byte
    <3>2. L - H - 2 \in SensibleLength
      BY <1>5, <1>11
    <3> QED BY <1>3, <3>1, <3>2
  <2> DEFINE a1 == [a EXCEPT !.expected_len = byte]
             z == [a1 EXCEPT !.state = "PAYLOAD", !.payload_count = 0]
  <2>2. q = z
    <3>1. a.phr_lo = 0
      BY <1>6, <1>11
    <3> QED BY ONLY Zenon, <1>4, <2>1, <3>1, PhrByte DEF q, a1, z, LastPhr
  <2>3. byte \in Nat
    BY <1>5, <1>11, <2>1
  <2>4. /\ a1 \in AsmType /\ a1.expected_len = byte /\ a1.subghz_phr_len = 2
        /\ a1.subghz = a.subghz
    BY <1>4, <1>6, <1>11, <2>3 DEF AsmType
  <2> HIDE DEF a1
  <2>5. /\ z \in AsmType /\ z.expected_len = byte /\ z.subghz_phr_len = 2
        /\ z.subghz = a.subghz /\ z.state = "PAYLOAD" /\ z.payload_count = 0
    BY <1>8, <2>4 DEF AsmType
  <2> HIDE DEF z
  <2>6. /\ p + 1 \in H .. L - 1 /\ (p + 1) - H = 0 /\ H - 8 = 2 /\ p + 1 # L
        /\ 4 + 4 + 2 + byte + 2 = L
    BY <1>5, <1>11, <2>1
  <2>7. frame_air_bytes(z) = L
    BY <1>6, <2>5, <2>6 DEF frame_air_bytes
  <2>8. AtSub(z, b, p + 1)
    <3>1. /\ p + 1 \in H .. L - 1 /\ z.state = "PAYLOAD" /\ z.subghz
          /\ z.expected_len = L - H - 2 /\ z.payload_count = (p + 1) - H
          /\ z.subghz_phr_len = H - 8
      BY <1>6, <2>1, <2>5, <2>6
    <3> QED BY <3>1 DEF AtSub, H, L
  <2>9. FedSub(a, b, p, r)
    BY <1>6, <1>7, <2>2, <2>5, <2>6, <2>7, <2>8 DEF FedSub, L
  <2> QED BY <2>9 DEF r, byte
<1> QED BY <1>1, <1>2, <1>9, <1>10, <1>11

\* sim_radio_bus_asm_feed follows a sub-GHz frame from its first byte to its last.
LEMMA FeedSub ==
    ASSUME NEW a, NEW b, NEW p, a \in AsmType, WellFormedSub(b), p \in 0 .. Len(b) - 1,
           AtSub(a, b, p), b[p + 1] \in Byte
    PROVE  FedSub(a, b, p, asm_feed(a, b[p + 1]))
<1> DEFINE r == asm_feed(a, b[p + 1])
           H == SubHeader(b)
           L == Len(b)
<1>1. p \in 0 .. L - 1 /\ SubLengths(b) /\ SubByte(b, p)
  BY ONLY Zenon, BytesSub, WellFormedSub(b), p \in 0 .. Len(b) - 1
<1>2. H \in {9, 10} /\ L \in H + 5 .. H + 202
  BY ONLY Zenon, <1>1 DEF SubLengths
<1> HIDE DEF H, L, r
<1>3. CASE p \in 0 .. 7
  BY <1>3, FeedSync DEF r
<1>4. CASE p = 8 \/ (p = 9 /\ H = 10)
  BY <1>4, FeedPhr DEF r, H
<1>5. CASE p \in H .. L - 1
  <2>1. /\ ~(p \in 0 .. 7) /\ p # 8 /\ ~(p = 9 /\ H = 10)
        /\ (p - H) + 1 = (p + 1) - H
        /\ (p - H) + 1 >= (L - H - 2) + 2 <=> p + 1 = L
        /\ p + 1 # L => p + 1 \in H .. L - 1
        /\ 4 + 4 + (H - 8) + (L - H - 2) + 2 = L
    BY ONLY SMT, <1>2, <1>5
  <2>2. /\ a.state = "PAYLOAD" /\ a.subghz /\ a.expected_len = L - H - 2
        /\ a.payload_count = p - H /\ a.subghz_phr_len = H - 8
    BY <2>1 DEF AtSub, H, L
  <2>3. Counted(a, r)
    BY <2>2, PayloadByte DEF r
  <2>4. payload_target(a) = (L - H - 2) + 2
    BY <2>2 DEF payload_target
  <2>5. r.complete <=> p + 1 = L
    BY <2>1, <2>2, <2>3, <2>4 DEF Counted
  <2>6. /\ r.asm \in AsmType /\ r.asm.subghz = a.subghz /\ r.asm.expected_len = L - H - 2
        /\ r.asm.payload_count = (p + 1) - H /\ r.asm.subghz_phr_len = H - 8
        /\ ~r.complete => r.asm.state = "PAYLOAD"
        /\ r.complete => Rests(r.asm)
    BY <2>1, <2>2, <2>3 DEF Counted
  <2>7. frame_air_bytes(r.asm) = L
    BY <2>1, <2>2, <2>6 DEF frame_air_bytes
  <2>8. ~r.complete => AtSub(r.asm, b, p + 1)
    <3> SUFFICES ASSUME ~r.complete PROVE AtSub(r.asm, b, p + 1)
      OBVIOUS
    <3>1. p + 1 \in H .. L - 1 /\ r.asm.state = "PAYLOAD" /\ r.asm.subghz
      BY <2>1, <2>2, <2>5, <2>6
    <3> QED BY <2>6, <3>1 DEF AtSub, H, L
  <2>9. FedSub(a, b, p, r)
    BY <2>2, <2>5, <2>6, <2>7, <2>8 DEF FedSub, H, L
  <2> QED BY <2>9 DEF r
<1>6. p \in 0 .. 7 \/ p = 8 \/ (p = 9 /\ H = 10) \/ p \in H .. L - 1
  BY ONLY SMT, <1>1, <1>2
<1> QED BY <1>3, <1>4, <1>5, <1>6

(***************************************************************************)
(* The assemblers of all senders.                                          *)
(***************************************************************************)

\* The assembler is where the transmission is.
InStep(x, a) ==
    IF x.pos = Len(x.bytes) THEN Rests(a)
    ELSE /\ x.pos \in 0 .. Len(x.bytes) - 1
         /\ x.band = "2.4GHz" => WellFormed24(x.bytes) /\ At24(a, x.bytes, x.pos)
         /\ x.band = "868MHz" => WellFormedSub(x.bytes) /\ AtSub(a, x.bytes, x.pos)

\* What holds of each sender: the assembler is where the transmission is, and
\* "complete" is said of a frame whose bytes are all sent and of no other.
Core(n) ==
    /\ tx_asm[n] \in AsmType
    /\ n \in active => InStep(tx[n], tx_asm[n])
    /\ n \notin active => tx[n] = Idle
    /\ tx[n].pos > 0 => (complete[n] <=> ~Sending(n))

\* Inductive for well-formed frames.
CoreInv ==
    /\ BusInv
    /\ DOMAIN tx_asm = Nodes /\ DOMAIN complete = Nodes
    /\ \A n \in Clean : Core(n)

\* A node that sends nothing has nothing left to send.
LEMMA IdleRests == Idle.pos = Len(Idle.bytes) /\ ~(Idle.pos > 0)
BY SMT DEF Idle

\* sim_radio_bus_asm_reset leaves the assembler waiting.
LEMMA ResetType == AsmReset \in AsmType /\ Rests(AsmReset)
<1>1. <<0, 0, 0, 0>> \in Window /\ 0 \in Nat /\ -1 \in Nat \cup {-1}
  BY SMT DEF Window, Byte
<1> QED BY <1>1 DEF AsmReset, AsmType, Rests

\* At first nobody sends.
LEMMA InitCore == Init => CoreInv
<1> SUFFICES ASSUME Init PROVE CoreInv
  OBVIOUS
<1>1. BusInv
  BY InitBusInv
<1>2. DOMAIN tx_asm = Nodes /\ DOMAIN complete = Nodes
  BY DEF Init
<1>3. \A n \in Nodes : tx_asm[n] = AsmReset /\ tx[n] = Idle
  BY DEF Init
<1>4. \A n \in Clean : Core(n)
  BY <1>3, IdleRests, ResetType DEF Core, InStep, Clean
<1> QED BY <1>1, <1>2, <1>4 DEF CoreInv

\* What does not touch a node's transmission.
LEMMA CoreKept ==
    ASSUME NEW n, Core(n), tx'[n] = tx[n], tx_asm'[n] = tx_asm[n], complete'[n] = complete[n],
           n \in active' <=> n \in active
    PROVE  Core(n)'
BY DEF Core, Sending

\* A step that neither sends nor resets.
LEMMA CoreUntouched ==
    ASSUME CoreInv, BusInv', UNCHANGED <<tx, tx_asm, complete, active>>
    PROVE  CoreInv'
<1>1. \A n \in Clean : Core(n)'
  BY CoreKept DEF CoreInv
<1> QED BY <1>1 DEF CoreInv

\* A new frame finds the assembler waiting.
LEMMA StartCore ==
    ASSUME CoreInv, WellFormedFrames, Start, BusInv'
    PROVE  CoreInv'
<1>1. PICK n \in active \cap PerByte, band \in Bands :
         \E f \in Frames[<<n, band>>] : StartFrame(n, band, f)
  BY DEF Start
<1>2. PICK f \in Frames[<<n, band>>] : StartFrame(n, band, f)
  BY <1>1
<1>started. tx' = [tx EXCEPT ![n] = [id |-> sent + 1, band |-> band, bytes |-> f.bytes,
                                pos |-> 0, pace |-> f.pace, at |-> now]]
  BY <1>2 DEF StartFrame
<1>3. UNCHANGED <<tx_asm, complete, active>>
  BY <1>2 DEF StartFrame
<1>4. n \in Nodes /\ n \in active
  BY DEF CoreInv, BusInv, Shape
<1> DEFINE x == [id |-> sent + 1, band |-> band, bytes |-> f.bytes,
                 pos |-> 0, pace |-> f.pace, at |-> now]
<1>5. DOMAIN tx = Nodes
  BY DEF CoreInv, BusInv, Shape
<1>6. tx'[n] = x /\ \A m \in Nodes \ {n} : tx'[m] = tx[m]
  BY <1>started, <1>4, <1>5
<1>7. ASSUME n \in Clean PROVE Core(n)'
  <2>1. tx_asm[n] \in AsmType /\ InStep(tx[n], tx_asm[n])
    BY <1>4, <1>7 DEF CoreInv, Core
  <2>2. Rests(tx_asm[n])
    <3>1. tx[n].pos \in Nat /\ Len(tx[n].bytes) \in Nat
      <4>1. tx[n].pos \in Nat /\ tx[n].bytes \in Seq(0 .. 255)
        BY <1>4 DEF CoreInv, BusInv, Shape
      <4> QED BY SMT, <4>1
    <3>2. ~(tx[n].pos < Len(tx[n].bytes))
      BY <1>2 DEF Sending, StartFrame
    <3>3. tx[n].pos \in 0 .. Len(tx[n].bytes) - 1 => tx[n].pos < Len(tx[n].bytes)
      BY SMT, <3>1
    <3> QED BY <2>1, <3>2, <3>3 DEF InStep
  <2>3. /\ band = "2.4GHz" => WellFormed24(f.bytes)
        /\ band = "868MHz" => WellFormedSub(f.bytes)
    BY <1>4 DEF WellFormedFrames
  <2>4. 0 \in 0 .. Len(f.bytes) - 1 /\ Len(f.bytes) # 0
    <3>1. CASE band = "2.4GHz"
      <4>1. Len(f.bytes) \in 9 .. 133
        BY <2>3, <3>1 DEF WellFormed24
      <4> DEFINE L == Len(f.bytes)
      <4>2. L \in 9 .. 133
        BY <4>1
      <4> HIDE DEF L
      <4>3. 0 \in 0 .. L - 1 /\ L # 0
        BY ONLY SMT, <4>2
      <4> QED BY <4>3 DEF L
    <3>2. CASE band = "868MHz"
      <4>1. SubHeader(f.bytes) \in {9, 10}
            /\ Len(f.bytes) \in SubHeader(f.bytes) + 5 .. SubHeader(f.bytes) + 202
        BY <2>3, <3>2 DEF WellFormedSub, SubHeader
      <4> DEFINE H == SubHeader(f.bytes)
                 L == Len(f.bytes)
      <4>2. H \in {9, 10} /\ L \in H + 5 .. H + 202
        BY <4>1
      <4> HIDE DEF H, L
      <4>3. 0 \in 0 .. L - 1 /\ L # 0
        BY ONLY SMT, <4>2
      <4> QED BY <4>3 DEF L
    <3> QED BY <3>1, <3>2 DEF Bands
  <2>5. 0 \in 0 .. 4 /\ 0 \in 0 .. 7 /\ ~(0 >= 5) /\ ~(0 >= 6) /\ ~(0 >= 7) /\ ~(0 > 0)
    BY SMT
  <2>6. At24(tx_asm[n], f.bytes, 0) /\ AtSub(tx_asm[n], f.bytes, 0)
    BY <2>2, <2>5 DEF At24, AtSub, Synced, Rests
  <2>7. x.pos = 0 /\ x.bytes = f.bytes /\ x.band = band
    OBVIOUS
  <2> HIDE DEF x
  <2>8. InStep(x, tx_asm[n])
    BY <2>3, <2>4, <2>6, <2>7 DEF InStep
  <2> QED BY <1>3, <1>4, <1>6, <2>1, <2>5, <2>7, <2>8 DEF Core
<1>8. \A m \in Clean : Core(m)'
  <2> TAKE m \in Clean
  <2>1. CASE m = n
    BY <1>7, <2>1
  <2>2. CASE m # n
    BY <1>3, <1>6, <2>2, CoreKept DEF Clean, CoreInv
  <2> QED BY <2>1, <2>2
<1> QED BY <1>3, <1>8 DEF CoreInv

\* The byte a sending node hands to the bus, and what the assembler makes of it.
Byte24(n) == Fed24(tx_asm[n], tx[n].bytes, tx[n].pos, Fed(n, tx[n].bytes[tx[n].pos + 1]))
ByteSub(n) == FedSub(tx_asm[n], tx[n].bytes, tx[n].pos, Fed(n, tx[n].bytes[tx[n].pos + 1]))

\* A sending node has a next byte.
LEMMA SendingBytes ==
    ASSUME CoreInv, NEW n \in Nodes, Sending(n)
    PROVE  /\ tx[n].pos \in 0 .. Len(tx[n].bytes) - 1 /\ tx[n].pos # Len(tx[n].bytes)
           /\ tx[n].pos \in Nat /\ Len(tx[n].bytes) \in Nat
           /\ tx[n].bytes[tx[n].pos + 1] \in Byte
           /\ tx[n].pos + 1 > 0
           /\ tx[n].pos + 1 <= Len(tx[n].bytes)
<1> DEFINE b == tx[n].bytes
           p == tx[n].pos
<1>1. p \in Nat /\ b \in Seq(Byte) /\ p < Len(b)
  <2>1. tx[n] \in [id : Nat, band : Bands, bytes : Seq(0 .. 255),
                   pos : Nat, pace : Nat, at : Nat]
    BY DEF CoreInv, BusInv, Shape
  <2>2. tx[n].pos < Len(tx[n].bytes)
    BY DEF Sending
  <2> QED BY ONLY Zenon, <2>1, <2>2 DEF Byte
<1> HIDE DEF b, p
<1>2. Len(b) \in Nat
  BY ONLY SMT, <1>1
<1>3. /\ p \in 0 .. Len(b) - 1 /\ p # Len(b) /\ p + 1 > 0 /\ p + 1 <= Len(b)
      /\ p + 1 \in 1 .. Len(b)
  <2> DEFINE L == Len(b)
  <2>1. L \in Nat /\ p \in Nat /\ p < L
    BY <1>1, <1>2
  <2> HIDE DEF L
  <2>2. /\ p \in 0 .. L - 1 /\ p # L /\ p + 1 > 0 /\ p + 1 <= L
        /\ p + 1 \in 1 .. L
    BY ONLY SMT, <2>1
  <2> QED BY <2>2 DEF L
<1>4. b[p + 1] \in Byte
  BY ONLY SMT, <1>1, <1>3
<1> QED BY <1>1, <1>2, <1>3, <1>4 DEF b, p

\* The assembler follows the frame, whatever its band.
LEMMA TxFed ==
    ASSUME CoreInv, NEW n \in Clean, n \in active, Sending(n)
    PROVE  /\ tx[n].band = "2.4GHz" => Byte24(n)
           /\ tx[n].band = "868MHz" => ByteSub(n)
<1>1. n \in Nodes /\ tx_asm[n] \in AsmType /\ InStep(tx[n], tx_asm[n])
  BY DEF CoreInv, Core, Clean
<1>2. /\ tx[n].pos \in 0 .. Len(tx[n].bytes) - 1 /\ tx[n].pos # Len(tx[n].bytes)
      /\ tx[n].bytes[tx[n].pos + 1] \in Byte
  BY <1>1, SendingBytes
<1>3. ASSUME tx[n].band = "2.4GHz" PROVE Byte24(n)
  <2>1. WellFormed24(tx[n].bytes) /\ At24(tx_asm[n], tx[n].bytes, tx[n].pos)
    BY <1>1, <1>2, <1>3 DEF InStep
  <2> QED BY <1>1, <1>2, <2>1, Feed24 DEF Byte24, Fed
<1>4. ASSUME tx[n].band = "868MHz" PROVE ByteSub(n)
  <2>1. WellFormedSub(tx[n].bytes) /\ AtSub(tx_asm[n], tx[n].bytes, tx[n].pos)
    BY <1>1, <1>2, <1>4 DEF InStep
  <2> QED BY <1>1, <1>2, <2>1, FeedSub DEF ByteSub, Fed
<1> QED BY <1>3, <1>4

\* What sim_radio_bus_tx_byte does to the sender's own state.
Sent(n) ==
    /\ tx'[n].pos = tx[n].pos + 1 /\ tx'[n].at = tx[n].at + tx[n].pace
    /\ tx'[n].bytes = tx[n].bytes /\ tx'[n].band = tx[n].band /\ tx'[n].id = tx[n].id
    /\ tx'[n].pace = tx[n].pace
    /\ tx_asm'[n] = Fed(n, tx[n].bytes[tx[n].pos + 1]).asm
    /\ complete'[n] = Fed(n, tx[n].bytes[tx[n].pos + 1]).complete
    /\ \A m \in Nodes \ {n} : tx'[m] = tx[m] /\ tx_asm'[m] = tx_asm[m] /\ complete'[m] = complete[m]

\* The transmission x one byte on, with its next byte at a.
Advanced(x, y, p, a) ==
    /\ y.pos = p /\ y.at = a /\ y.bytes = x.bytes /\ y.band = x.band
    /\ y.id = x.id /\ y.pace = x.pace

\* The record of a transmission after a byte.
LEMMA Advance ==
    ASSUME NEW x, NEW p, NEW a,
           DOMAIN x = {"id", "band", "bytes", "pos", "pace", "at"}
    PROVE  Advanced(x, [x EXCEPT !.pos = p, !.at = a], p, a)
<1> DEFINE z == [x EXCEPT !.pos = p]
           y == [z EXCEPT !.at = a]
<1>1. DOMAIN x = {"id", "band", "bytes", "pos", "pace", "at"}
  OBVIOUS
<1>2. /\ z.pos = p /\ z.bytes = x.bytes /\ z.band = x.band
      /\ z.id = x.id /\ z.pace = x.pace /\ DOMAIN z = DOMAIN x
  BY <1>1
<1> HIDE DEF z
<1>3. Advanced(x, y, p, a)
  BY <1>1, <1>2 DEF Advanced
<1> QED BY <1>3 DEF z

\* TxByte touches the sender, and no other node.
LEMMA TxSent ==
    ASSUME CoreInv, NEW n \in active,
           tx' = [tx EXCEPT ![n].pos = @ + 1, ![n].at = tx[n].at + tx[n].pace],
           tx_asm' = [tx_asm EXCEPT ![n] = Fed(n, tx[n].bytes[tx[n].pos + 1]).asm],
           complete' = [complete EXCEPT ![n] = Fed(n, tx[n].bytes[tx[n].pos + 1]).complete]
    PROVE  Sent(n)
<1>1. n \in Nodes /\ DOMAIN tx = Nodes /\ DOMAIN tx_asm = Nodes /\ DOMAIN complete = Nodes
      /\ tx \in [Nodes -> [id : Nat, band : Bands, bytes : Seq(0 .. 255),
                         pos : Nat, pace : Nat, at : Nat]]
  BY DEF CoreInv, BusInv, Shape
<1>2. \A m \in Nodes \ {n} : tx'[m] = tx[m] /\ tx_asm'[m] = tx_asm[m] /\ complete'[m] = complete[m]
  BY <1>1
<1>3. /\ tx_asm'[n] = Fed(n, tx[n].bytes[tx[n].pos + 1]).asm
      /\ complete'[n] = Fed(n, tx[n].bytes[tx[n].pos + 1]).complete
  BY <1>1
<1>4. tx'[n] = [tx[n] EXCEPT !.pos = tx[n].pos + 1, !.at = tx[n].at + tx[n].pace]
  BY <1>1
<1>5. Advanced(tx[n], tx'[n], tx[n].pos + 1, tx[n].at + tx[n].pace)
  <2>1. tx[n] \in [id : Nat, band : Bands, bytes : Seq(0 .. 255),
                         pos : Nat, pace : Nat, at : Nat]
    BY <1>1
  <2> DEFINE x == tx[n]
             p == tx[n].pos + 1
             a == tx[n].at + tx[n].pace
  <2>2. tx'[n] = [x EXCEPT !.pos = p, !.at = a]
    BY <1>4
  <2>3. DOMAIN x = {"id", "band", "bytes", "pos", "pace", "at"}
    BY ONLY Zenon, <2>1
  <2> HIDE DEF x, p, a
  <2>4. Advanced(x, [x EXCEPT !.pos = p, !.at = a], p, a)
    BY ONLY Zenon, <2>3, Advance
  <2>5. Advanced(x, tx'[n], p, a)
    BY ONLY Zenon, <2>2, <2>4
  <2> QED BY <2>5 DEF x, p, a
<1> QED BY <1>2, <1>3, <1>5 DEF Sent, Advanced

\* Each byte keeps the assembler in step.
LEMMA TxCore ==
    ASSUME CoreInv, TxByte, BusInv'
    PROVE  CoreInv'
<1>1. PICK n \in active : /\ Sending(n)
        /\ tx' = [tx EXCEPT ![n].pos = @ + 1, ![n].at = tx[n].at + tx[n].pace]
        /\ tx_asm' = [tx_asm EXCEPT ![n] = Fed(n, tx[n].bytes[tx[n].pos + 1]).asm]
        /\ complete' = [complete EXCEPT ![n] = Fed(n, tx[n].bytes[tx[n].pos + 1]).complete]
        /\ active' = active
  BY DEF TxByte
<1>2. Sent(n) /\ n \in Nodes
  BY <1>1, TxSent DEF CoreInv, BusInv, Shape
<1>3. DOMAIN tx_asm' = Nodes /\ DOMAIN complete' = Nodes
  BY <1>1 DEF CoreInv
<1>4. ASSUME n \in Clean PROVE Core(n)'
  <2> DEFINE r == Fed(n, tx[n].bytes[tx[n].pos + 1])
             b == tx[n].bytes
             p == tx[n].pos
  <2>1. /\ r.asm \in AsmType
        /\ r.complete <=> p + 1 = Len(b)
        /\ r.complete => Rests(r.asm)
        /\ ~r.complete /\ tx[n].band = "2.4GHz" => At24(r.asm, b, p + 1)
        /\ ~r.complete /\ tx[n].band = "868MHz" => AtSub(r.asm, b, p + 1)
    <3>1. tx[n].band \in Bands
      BY <1>2 DEF CoreInv, BusInv, Shape
    <3>2. "2.4GHz" # "868MHz"
      OBVIOUS
    <3>3. CASE tx[n].band = "2.4GHz"
      <4>1. Byte24(n)
        BY <1>1, <1>4, <3>3, TxFed
      <4> QED BY <3>2, <3>3, <4>1 DEF Byte24, Fed24
    <3>4. CASE tx[n].band = "868MHz"
      <4>1. ByteSub(n)
        BY <1>1, <1>4, <3>4, TxFed
      <4> QED BY <3>2, <3>4, <4>1 DEF ByteSub, FedSub
    <3> QED BY <3>1, <3>3, <3>4 DEF Bands
  <2>2. /\ tx[n].band = "2.4GHz" => WellFormed24(b)
        /\ tx[n].band = "868MHz" => WellFormedSub(b)
    <3>1. p # Len(b)
      BY <1>1, <1>2, SendingBytes
    <3> QED BY <1>1, <1>4, <3>1 DEF CoreInv, Core, InStep
  <2>3. /\ p + 1 # Len(b) => p + 1 \in 0 .. Len(b) - 1 /\ p + 1 < Len(b)
        /\ p + 1 = Len(b) => ~(p + 1 < Len(b))
    <3> DEFINE L == Len(b)
    <3>1. p \in Nat /\ L \in Nat /\ p + 1 <= L
      BY <1>1, <1>2, SendingBytes
    <3> HIDE DEF p, L
    <3>2. /\ p + 1 # L => p + 1 \in 0 .. L - 1 /\ p + 1 < L
          /\ p + 1 = L => ~(p + 1 < L)
      BY ONLY SMT, <3>1
    <3> QED BY <3>2 DEF L
  <2>4. /\ tx'[n].pos = p + 1 /\ tx'[n].bytes = b /\ tx'[n].band = tx[n].band
        /\ tx_asm'[n] = r.asm /\ complete'[n] = r.complete
    BY <1>2 DEF Sent
  <2> HIDE DEF r, b, p
  <2>5. InStep(tx'[n], tx_asm'[n])
    BY <2>1, <2>2, <2>3, <2>4 DEF InStep
  <2>6. complete'[n] <=> ~(tx'[n].pos < Len(tx'[n].bytes))
    BY <2>1, <2>3, <2>4
  <2> QED BY <1>1, <2>1, <2>4, <2>5, <2>6 DEF Core, Sending
<1>5. \A m \in Clean : Core(m)'
  <2> TAKE m \in Clean
  <2>1. CASE m = n
    BY <1>4, <2>1
  <2>2. CASE m # n
    BY <1>1, <1>2, <2>2, CoreKept DEF Clean, CoreInv, Sent
  <2> QED BY <2>1, <2>2
<1> QED BY <1>3, <1>5 DEF CoreInv

\* A node that is taken off the air rests.
LEMMA IdleCore ==
    ASSUME NEW n \in Clean, tx'[n] = Idle, tx_asm'[n] \in AsmType,
           n \in active' => Rests(tx_asm'[n])
    PROVE  Core(n)'
BY IdleRests DEF Core, InStep

\* An abort touches only senders that CoreInv does not speak of.
LEMMA AbortCore ==
    ASSUME CoreInv, Abort, BusInv'
    PROVE  CoreInv'
<1>1. PICK n \in Aborters : /\ tx' = [tx EXCEPT ![n] = Idle]
                            /\ UNCHANGED <<tx_asm, complete, active>>
  BY DEF Abort
<1>2. \A m \in Clean : tx'[m] = tx[m]
  <2>1. DOMAIN tx = Nodes
    BY DEF CoreInv, BusInv, Shape
  <2>2. \A m \in Clean : m \in Nodes /\ m # n
    BY DEF Clean
  <2> QED BY ONLY Zenon, <1>1, <2>1, <2>2
<1>3. \A m \in Clean : Core(m)'
  BY <1>1, <1>2, CoreKept DEF CoreInv
<1> QED BY <1>1, <1>3 DEF CoreInv

\* A removed node sends nothing.
LEMMA RemoveCore ==
    ASSUME CoreInv, Remove, BusInv'
    PROVE  CoreInv'
<1>1. PICK n \in Resettable \cap active : /\ tx' = [tx EXCEPT ![n] = Idle]
                                          /\ active' = active \ {n}
                                          /\ UNCHANGED <<tx_asm, complete>>
  BY DEF Remove
<1>2. tx'[n] = Idle /\ \A m \in Clean : m # n => tx'[m] = tx[m] /\ (m \in active' <=> m \in active)
  BY <1>1 DEF Clean, CoreInv, BusInv, Shape
<1>3. \A m \in Clean : Core(m)'
  <2> TAKE m \in Clean
  <2>1. tx_asm'[m] \in AsmType
    BY <1>1 DEF CoreInv, Core
  <2>2. CASE m = n
    BY <1>1, <1>2, <2>1, <2>2, IdleCore
  <2>3. CASE m # n
    BY <1>1, <1>2, <2>3, CoreKept DEF CoreInv
  <2> QED BY <2>2, <2>3
<1> QED BY <1>1, <1>3 DEF CoreInv

\* A rebooted node sends nothing and its assembler is reset.
LEMMA RebootCore ==
    ASSUME CoreInv, Reboot, BusInv'
    PROVE  CoreInv'
<1>1. PICK n \in Resettable : /\ tx' = [tx EXCEPT ![n] = Idle]
                              /\ active' = active \cup {n}
                              /\ tx_asm' = [tx_asm EXCEPT ![n] = AsmReset]
                              /\ UNCHANGED complete
  BY DEF Reboot
<1>2. n \in Nodes
  BY BusAssumption
<1>3. /\ tx'[n] = Idle /\ tx_asm'[n] = AsmReset
      /\ \A m \in Clean : m # n => /\ tx'[m] = tx[m] /\ tx_asm'[m] = tx_asm[m]
                                   /\ (m \in active' <=> m \in active)
  BY <1>1, <1>2 DEF Clean, CoreInv, BusInv, Shape
<1>4. \A m \in Clean : Core(m)'
  <2> TAKE m \in Clean
  <2>1. CASE m = n
    BY <1>3, <2>1, IdleCore, ResetType
  <2>2. CASE m # n
    BY <1>1, <1>3, <2>2, CoreKept DEF CoreInv
  <2> QED BY <2>1, <2>2
<1> QED BY <1>1, <1>4 DEF CoreInv

\* Every step of the bus keeps the assemblers in step with the senders.
LEMMA NextCore ==
    ASSUME WellFormedFrames, CoreInv, [Next]_vars, BusInv'
    PROVE  CoreInv'
<1>1. CASE Start
  BY <1>1, StartCore
<1>2. CASE TxByte
  BY <1>2, TxCore
<1>3. CASE Abort
  BY <1>3, AbortCore
<1>4. CASE Remove
  BY <1>4, RemoveCore
<1>5. CASE Reboot
  BY <1>5, RebootCore
<1>6. CASE UNCHANGED <<tx, tx_asm, complete, active>>
  BY <1>6, CoreUntouched
<1>7. Pump \/ Wait \/ UNCHANGED vars => UNCHANGED <<tx, tx_asm, complete, active>>
  BY DEF Pump, PumpByte, PumpTimer, Wait, vars
<1> QED BY <1>1, <1>2, <1>3, <1>4, <1>5, <1>6, <1>7 DEF Next

\* The assembler follows every frame.  Fed the frames the chips produce,
\* sim_radio_bus_asm_feed stands, after each byte and in both bands, where the
\* sender is, knows the length once the header is past, reports the frame
\* complete at its last byte and nowhere else, and waits again after it:
\* through payloads that look like a preamble or a sync word, and through
\* removals and reboots in mid-frame.
THEOREM AssemblersInStep == WellFormedFrames => (Spec => []CoreInv)
<1> SUFFICES ASSUME WellFormedFrames PROVE Spec => []CoreInv
  OBVIOUS
<1>1. Init => CoreInv
  BY InitCore
<1>2. CoreInv /\ BusInv' /\ [Next]_vars => CoreInv'
  BY NextCore
<1> QED BY <1>1, <1>2, BusInvariant, PTL DEF Spec

(***************************************************************************)
(* The byte clock: bytes are scheduled in the order they are sent.         *)
(***************************************************************************)

\* The index the byte clock has reached after p bytes: a sub-GHz preamble
\* restarts it with every byte.
CapAt(band, p) == IF band = "2.4GHz" THEN p ELSE IF p <= 4 THEN 1 ELSE p - 3

\* A preamble byte restarts the byte clock, and no other byte does.
LEMMA ClockStarts ==
    ASSUME CoreInv, NEW n \in Clean, n \in active, Sending(n)
    PROVE  LET byte == tx[n].bytes[tx[n].pos + 1]
           IN  /\ tx[n].band = "2.4GHz" => (clock_started(n, byte) <=> tx[n].pos = 0)
               /\ tx[n].band = "868MHz" => (clock_started(n, byte) <=> tx[n].pos < 4)
<1> DEFINE b == tx[n].bytes
           p == tx[n].pos
           a == tx_asm[n]
           L == Len(b)
<1>1. a \in AsmType /\ InStep(tx[n], a) /\ n \in Nodes
  BY DEF CoreInv, Core, Clean
<1>2. p \in 0 .. L - 1 /\ p # L /\ p \in Nat /\ L \in Nat
  BY <1>1, SendingBytes
<1>3. ASSUME tx[n].band = "2.4GHz" PROVE clock_started(n, b[p + 1]) <=> p = 0
  <2>1. WellFormed24(b) /\ At24(a, b, p)
    BY <1>1, <1>2, <1>3 DEF InStep
  <2> HIDE DEF b, p, L, a
  <2>2. CASE p = 0
    <3>1. b[p + 1] = 0
      <4>0. \A k \in 1 .. 4 : b[k] = 0
        BY <2>1 DEF WellFormed24
      <4>1. b[1] = 0
        BY ONLY SMT, <4>0
      <4> QED BY SMT, <4>1, <2>2
    <3>2. a.state = "PREAMBLE" /\ a.zero_count = 0
      <4>1. ~(p = 5) /\ ~(p \in 6 .. L - 1)
        BY ONLY SMT, <2>2, <1>2
      <4> QED BY <2>1, <2>2, <4>1 DEF At24, L
    <3> QED BY <2>2, <3>1, <3>2 DEF clock_started, a
  <2>3. CASE p # 0
    <3>1. a.state # "PREAMBLE" \/ a.zero_count # 0
      BY <2>1, <2>3 DEF At24
    <3> QED BY <2>3, <3>1 DEF clock_started, a
  <2> QED BY <2>2, <2>3
<1>4. ASSUME tx[n].band = "868MHz" PROVE clock_started(n, b[p + 1]) <=> p < 4
  <2>1. WellFormedSub(b) /\ AtSub(a, b, p)
    BY <1>1, <1>2, <1>4 DEF InStep
  <2>2. SyncBytes(b)
    BY ONLY Zenon, BytesSub, <2>1, <1>2
  <2> HIDE DEF b, p, L, a
  <2>3. CASE p < 4
    <3>1. b[p + 1] = 85
      <4>1. p + 1 \in 1 .. 4
        BY ONLY SMT, <2>3, <1>2
      <4> QED BY <2>1, <4>1 DEF WellFormedSub
    <3>2. a.state = "PREAMBLE" /\ a.zero_count = 0
      <4>1. SubHeader(b) \in {9, 10}
        BY DEF SubHeader
      <4>2. p # 8 /\ p # 9 /\ ~(p \in SubHeader(b) .. L - 1)
        BY ONLY SMT, <2>3, <1>2, <4>1
      <4> QED BY <2>1, <4>2 DEF AtSub, L
    <3> QED BY <2>3, <3>1, <3>2 DEF clock_started, a
  <2>4. CASE ~(p < 4)
    <3>1. CASE p \in 4 .. 7
      <4>1. b[p + 1] \in {147, 11, 81, 222}
        BY ONLY SMT, <3>1, <2>2 DEF SyncBytes
      <4>2. b[p + 1] \notin {0, 85}
        BY SMT, <4>1
      <4> QED BY <2>4, <4>2 DEF clock_started
    <3>2. CASE ~(p \in 4 .. 7)
      <4>1. ~(p \in 0 .. 7)
        BY ONLY SMT, <2>4, <3>2, <1>2
      <4>2. a.state # "PREAMBLE"
        BY <2>1, <4>1 DEF AtSub
      <4> QED BY <2>4, <4>2 DEF clock_started, a
    <3> QED BY <3>1, <3>2
  <2> QED BY <2>3, <2>4
<1> QED BY <1>3, <1>4

\* The bytes of a sender that are on their way.
Pending(n) == {e \in queue : e.kind = "byte" /\ e.from = n}

\* The byte e is not later than the next byte of n can be.
Reached(n, e) ==
    \/ e.time <= tx[n].at
    \/ e.time <= first_byte_ns[n] + (cap_len[n] - 1) * sender_byte_ns(n)

\* The byte clock of the frame being sent.
Clocked(n) ==
    /\ Sending(n) => tx[n].id <= sent /\ Frames[<<n, tx[n].band>>] # {}
    /\ Frames[<<n, "868MHz">>] = {} => ~tx_asm[n].subghz
    /\ Sending(n) /\ tx[n].pos > 0 => /\ first_byte_ns[n] <= tx[n].at
                                      /\ cap_len[n] = CapAt(tx[n].band, tx[n].pos)

\* What is pending or heard of the frame being sent was sent before.
Behind(n) ==
    /\ \A e \in Pending(n) :
          /\ e.frame <= sent
          /\ Sending(n) /\ e.frame = tx[n].id => e.pos <= tx[n].pos /\ Reached(n, e)
    /\ \A i \in Nodes :
          /\ heard[<<n, i>>].frame <= sent
          /\ Sending(n) /\ heard[<<n, i>>].frame = tx[n].id => heard[<<n, i>>].pos <= tx[n].pos

\* Two pending bytes of one frame for one receiver.
Follows(e, f) ==
    e.node = f.node /\ e.frame = f.frame => /\ e.pos < f.pos => Before(e, f)
                                            /\ e.pos = f.pos => e = f

\* The bytes of a frame are queued in the order they were sent.
Lined(n) ==
    /\ \A e, f \in Pending(n) : Follows(e, f)
    /\ \A e \in Pending(n) :
          heard[<<n, e.node>>].frame = e.frame => heard[<<n, e.node>>].pos < e.pos

\* The shape of what is on its way.
Flight ==
    /\ heard \in [Nodes \X Nodes -> [frame : Nat, pos : Nat]]
    /\ \A e \in queue :
          /\ e.seq \in Nat /\ e.seq <= seq
          /\ e.kind = "byte" => /\ e.node \in Nodes /\ e.from \in Nodes
                                /\ e.frame \in Nat /\ e.pos \in Nat /\ e.pos > 0

\* Inductive, with CoreInv, for senders of one band.
InOrder(n) == Clocked(n) /\ Behind(n) /\ Lined(n)
OrderInv == Flight /\ \A n \in Clean : InOrder(n)

\* At first nothing is on its way.
LEMMA InitOrder == Init => OrderInv
<1> SUFFICES ASSUME Init PROVE OrderInv
  OBVIOUS
<1>1. /\ queue = {} /\ sent = 0
      /\ heard = [p \in Nodes \X Nodes |-> [frame |-> 0, pos |-> 0]]
      /\ \A n \in Nodes : tx[n] = Idle /\ tx_asm[n] = AsmReset
  BY DEF Init
<1>2. Flight
  <2>1. [frame |-> 0, pos |-> 0] \in [frame : Nat, pos : Nat]
    BY SMT
  <2> QED BY <1>1, <2>1 DEF Flight
<1>3. ASSUME NEW n \in Clean PROVE InOrder(n)
  <2>1. n \in Nodes /\ ~Sending(n) /\ ~tx_asm[n].subghz
    <3>1. ~(Idle.pos < Len(Idle.bytes))
      BY SMT DEF Idle
    <3>2. ~AsmReset.subghz
      BY SMT DEF AsmReset
    <3> QED BY <1>1, <3>1, <3>2 DEF Sending, Clean
  <2>2. Pending(n) = {}
    BY <1>1 DEF Pending
  <2>3. \A i \in Nodes : heard[<<n, i>>].frame <= sent
    <3>1. \A i \in Nodes : heard[<<n, i>>].frame = 0
      BY SMT, <1>1, <2>1
    <3> QED BY SMT, <1>1, <3>1
  <2> QED BY <2>1, <2>2, <2>3 DEF InOrder, Clocked, Behind, Lined
<1> QED BY <1>2, <1>3 DEF OrderInv

\* A step that leaves the transmission of n alone and adds no byte of it.
LEMMA OrderKept ==
    ASSUME BusInv, Flight, NEW n \in Nodes, InOrder(n), tx'[n] = tx[n], tx_asm'[n] = tx_asm[n],
           first_byte_ns'[n] = first_byte_ns[n], cap_len'[n] = cap_len[n],
           sent' \in Nat, sent <= sent',
           Pending(n)' \subseteq Pending(n),
           \A i \in Nodes : heard'[<<n, i>>] = heard[<<n, i>>]
    PROVE  InOrder(n)'
<1>1. Sending(n)' <=> Sending(n)
  BY DEF Sending
<1>2. \A e : Reached(n, e)' <=> Reached(n, e)
  BY DEF Reached, sender_byte_ns
<1>3. \A x \in Nat : x <= sent => x <= sent'
  BY SMT DEF BusInv, Shape
<1>4. /\ tx[n].id \in Nat
      /\ \A e \in Pending(n) : e.frame \in Nat /\ e.node \in Nodes
      /\ \A i \in Nodes : heard[<<n, i>>].frame \in Nat
  BY DEF BusInv, Shape, Flight, Pending
<1>5. Clocked(n)'
  BY <1>1, <1>3, <1>4 DEF InOrder, Clocked
<1>6. Behind(n)'
  <2>1. \A e \in Pending(n)' : /\ e.frame <= sent'
                               /\ Sending(n)' /\ e.frame = tx'[n].id
                                     => e.pos <= tx'[n].pos /\ Reached(n, e)'
    BY <1>1, <1>2, <1>3, <1>4 DEF InOrder, Behind
  <2>2. \A i \in Nodes : /\ heard'[<<n, i>>].frame <= sent'
                         /\ Sending(n)' /\ heard'[<<n, i>>].frame = tx'[n].id
                               => heard'[<<n, i>>].pos <= tx'[n].pos
    BY <1>1, <1>3, <1>4 DEF InOrder, Behind
  <2> QED BY <2>1, <2>2 DEF Behind
<1>7. Lined(n)'
  BY <1>4 DEF InOrder, Lined, Follows, Before
<1> QED BY <1>5, <1>6, <1>7 DEF InOrder

\* A node that stops sending: the bytes on their way stay in order.
LEMMA OrderIdle ==
    ASSUME BusInv, Flight, NEW n \in Nodes, InOrder(n), tx'[n] = Idle,
           Frames[<<n, "868MHz">>] = {} => ~tx_asm'[n].subghz,
           sent' = sent, Pending(n)' \subseteq Pending(n), heard' = heard
    PROVE  InOrder(n)'
<1>1. ~Sending(n)'
  <2>1. ~(Idle.pos < Len(Idle.bytes))
    BY SMT DEF Idle
  <2> QED BY <2>1 DEF Sending
<1>2. Clocked(n)'
  BY <1>1 DEF Clocked
<1>3. Behind(n)'
  BY <1>1 DEF InOrder, Behind
<1>4. Lined(n)'
  BY DEF InOrder, Lined, Follows, Before
<1> QED BY <1>2, <1>3, <1>4 DEF InOrder

\* A step that sends and delivers nothing.
LEMMA QuietOrder ==
    ASSUME BusInv, OrderInv,
           UNCHANGED <<tx, tx_asm, first_byte_ns, cap_len, sent, heard, queue, seq>>
    PROVE  OrderInv'
<1>1. Flight'
  BY DEF OrderInv, Flight
<1>2. sent' \in Nat /\ sent <= sent'
  BY SMT DEF BusInv, Shape
<1>3. \A n : Pending(n)' \subseteq Pending(n)
  BY DEF Pending
<1>4. \A n \in Clean : InOrder(n)'
  BY <1>2, <1>3, OrderKept DEF OrderInv, Clean
<1> QED BY <1>1, <1>4 DEF OrderInv

\* A stall timer changes no byte.
LEMMA TimerOrder ==
    ASSUME BusInv, OrderInv, PumpTimer
    PROVE  OrderInv'
<1>1. PICK e \in queue :
         /\ \/ queue' = queue \ {e} /\ seq' = seq
            \/ queue' = (queue \ {e}) \cup rearmed(e.node, e.time) /\ seq' = seq + 1
         /\ UNCHANGED <<tx, tx_asm, first_byte_ns, cap_len, sent, heard>>
  BY DEF PumpTimer
<1>2. \A f \in rearmed(e.node, e.time) : f.kind = "timer" /\ f.seq = seq + 1
  BY SMT DEF rearmed, Timer
<1>3. \A n : Pending(n)' \subseteq Pending(n)
  BY <1>1, <1>2 DEF Pending
<1>4. seq \in Nat /\ seq + 1 \in Nat /\ seq + 1 <= seq + 1
      /\ \A s \in Nat : s <= seq => s <= seq + 1
  BY SMT DEF BusInv, Shape
<1>5. Flight'
  <2>1. heard' \in [Nodes \X Nodes -> [frame : Nat, pos : Nat]]
    BY <1>1 DEF OrderInv, Flight
  <2>2. ASSUME NEW f \in queue'
        PROVE  /\ f.seq \in Nat /\ f.seq <= seq'
               /\ f.kind = "byte" => /\ f.node \in Nodes /\ f.from \in Nodes
                                     /\ f.frame \in Nat /\ f.pos \in Nat /\ f.pos > 0
    <3>1. CASE f \in queue
      BY <1>1, <1>4, <3>1 DEF OrderInv, Flight
    <3>2. CASE f \notin queue
      <4>1. f.kind = "timer" /\ f.seq = seq + 1 /\ seq' = seq + 1
        BY <1>1, <1>2, <3>2, <2>2
      <4> QED BY <1>4, <4>1
    <3> QED BY <3>1, <3>2
  <2> QED BY <2>1, <2>2 DEF Flight
<1>6. sent' \in Nat /\ sent <= sent'
  BY SMT, <1>1 DEF BusInv, Shape
<1>7. \A n \in Clean : InOrder(n)'
  BY <1>1, <1>3, <1>6, OrderKept DEF OrderInv, Clean
<1> QED BY <1>5, <1>7 DEF OrderInv

\* A byte that is delivered was the first of those pending for its receiver.
LEMMA ByteOrder ==
    ASSUME BusInv, OrderInv, PumpByte
    PROVE  OrderInv'
<1>1. PICK e \in queue :
         /\ e.kind = "byte"
         /\ \A f \in queue \ {e} : Before(e, f) \/ f.node # e.node
         /\ queue' = queue \ {e}
         /\ \/ heard' = heard
            \/ heard' = [heard EXCEPT ![<<e.from, e.node>>] = [frame |-> e.frame, pos |-> e.pos]]
         /\ UNCHANGED <<seq, tx, tx_asm, first_byte_ns, cap_len, sent>>
  BY DEF PumpByte
<1>2. /\ e.node \in Nodes /\ e.from \in Nodes /\ e.frame \in Nat /\ e.pos \in Nat
      /\ <<e.from, e.node>> \in Nodes \X Nodes /\ e.time \in Nat /\ e.seq \in Nat
  BY <1>1 DEF OrderInv, Flight, BusInv, Shape
<1>3. heard \in [Nodes \X Nodes -> [frame : Nat, pos : Nat]]
  BY DEF OrderInv, Flight
<1>4. Flight'
  <2>1. heard' \in [Nodes \X Nodes -> [frame : Nat, pos : Nat]]
    <3>1. [frame |-> e.frame, pos |-> e.pos] \in [frame : Nat, pos : Nat]
      BY <1>2
    <3> QED BY <1>1, <1>3, <3>1
  <2>2. ASSUME NEW f \in queue'
        PROVE  /\ f.seq \in Nat /\ f.seq <= seq'
               /\ f.kind = "byte" => /\ f.node \in Nodes /\ f.from \in Nodes
                                     /\ f.frame \in Nat /\ f.pos \in Nat /\ f.pos > 0
    <3>1. f \in queue /\ seq' = seq
      BY <1>1
    <3> QED BY <3>1 DEF OrderInv, Flight
  <2> QED BY <2>1, <2>2 DEF Flight
<1>5. sent' \in Nat /\ sent <= sent'
  BY SMT, <1>1 DEF BusInv, Shape
<1>6. \A n : Pending(n)' = Pending(n) \ {e}
  BY <1>1 DEF Pending
<1>7. ASSUME NEW n \in Clean PROVE InOrder(n)'
  <2>1. n \in Nodes /\ InOrder(n)
    BY DEF Clean, OrderInv
  <2>2. CASE \A i \in Nodes : heard'[<<n, i>>] = heard[<<n, i>>]
    BY <1>1, <1>5, <1>6, <2>1, <2>2, OrderKept DEF OrderInv
  <2>3. CASE ~(\A i \in Nodes : heard'[<<n, i>>] = heard[<<n, i>>])
    <3>1. \A i \in Nodes : <<n, i>> # <<e.from, e.node>> => heard'[<<n, i>>] = heard[<<n, i>>]
      BY SMT, <1>1, <1>3, <2>1
    <3>2. e.from = n /\ \A i \in Nodes : i # e.node => heard'[<<n, i>>] = heard[<<n, i>>]
      BY <2>3, <3>1
    <3>3. heard'[<<n, e.node>>] = [frame |-> e.frame, pos |-> e.pos]
      BY <1>1, <1>2, <1>3, <2>3, <3>2
    <3>4. heard'[<<n, e.node>>].frame = e.frame /\ heard'[<<n, e.node>>].pos = e.pos
      BY ONLY SMT, <3>3
    <3>5. e \in Pending(n)
      BY <1>1, <3>2 DEF Pending
    <3>6. Clocked(n)'
      BY <1>1, <2>1 DEF InOrder, Clocked, Sending
    <3>7. Behind(n)'
      <4>1. Sending(n)' <=> Sending(n)
        BY <1>1 DEF Sending
      <4>2. \A f \in Pending(n)' :
              /\ f.frame <= sent'
              /\ Sending(n)' /\ f.frame = tx'[n].id => f.pos <= tx'[n].pos /\ Reached(n, f)'
        BY <1>1, <1>6, <2>1, <4>1 DEF InOrder, Behind, Reached, sender_byte_ns
      <4>3. \A i \in Nodes :
              /\ heard'[<<n, i>>].frame <= sent'
              /\ Sending(n)' /\ heard'[<<n, i>>].frame = tx'[n].id
                    => heard'[<<n, i>>].pos <= tx'[n].pos
        <5>1. sent' = sent /\ tx' = tx
          BY <1>1
        <5>2. Behind(n)
          BY <2>1 DEF InOrder
        <5> TAKE i \in Nodes
        <5>3. CASE i = e.node
          BY <3>4, <3>5, <4>1, <5>1, <5>2, <5>3 DEF Behind
        <5>4. CASE i # e.node
          <6>1. heard'[<<n, i>>] = heard[<<n, i>>]
            BY <3>2, <5>4
          <6> QED BY <4>1, <5>1, <5>2, <6>1 DEF Behind
        <5> QED BY <5>3, <5>4
      <4> QED BY <4>2, <4>3 DEF Behind
    <3>8. Lined(n)'
      <4>1. \A f, g \in Pending(n)' : Follows(f, g)'
        BY <1>6, <2>1 DEF InOrder, Lined, Follows, Before
      <4>2. ASSUME NEW f \in Pending(n)', heard'[<<n, f.node>>].frame = f.frame
            PROVE  heard'[<<n, f.node>>].pos < f.pos
        <5>1. f \in Pending(n) /\ f # e /\ f \in queue /\ f.kind = "byte"
          BY <1>6 DEF Pending
        <5>2. f.node \in Nodes /\ f.pos \in Nat /\ f.time \in Nat /\ f.seq \in Nat
          BY <5>1 DEF OrderInv, Flight, BusInv, Shape
        <5>3. CASE f.node # e.node
          BY <4>2, <2>1, <3>2, <5>1, <5>2, <5>3 DEF InOrder, Lined
        <5>4. CASE f.node = e.node
          <6>1. f.frame = e.frame
            BY <3>4, <4>2, <5>4
          <6>2. Before(e, f)
            BY <1>1, <5>1, <5>4
          <6>3. ~Before(f, e)
            BY SMT, <1>2, <5>2, <6>2 DEF Before
          <6>4. Follows(f, e)
            BY <2>1, <3>5, <5>1 DEF InOrder, Lined
          <6>5. ~(f.pos < e.pos) /\ f.pos # e.pos
            BY <5>1, <5>4, <6>1, <6>3, <6>4 DEF Follows
          <6>6. e.pos < f.pos
            BY SMT, <1>2, <5>2, <6>5
          <6> QED BY <3>4, <5>4, <6>6
        <5> QED BY <5>3, <5>4
      <4> QED BY <4>1, <4>2 DEF Lined
    <3> QED BY <3>6, <3>7, <3>8 DEF InOrder
  <2> QED BY <2>2, <2>3
<1> QED BY <1>4, <1>7 DEF OrderInv

\* The bytes of a new frame have a number that no pending byte has.
LEMMA StartOrder ==
    ASSUME BusInv, OrderInv, Start
    PROVE  OrderInv'
<1>1. PICK n \in active \cap PerByte, band \in Bands :
         \E f \in Frames[<<n, band>>] : StartFrame(n, band, f)
  BY DEF Start
<1>2. PICK f \in Frames[<<n, band>>] : StartFrame(n, band, f)
  BY <1>1
<1>started. tx' = [tx EXCEPT ![n] = [id |-> sent + 1, band |-> band, bytes |-> f.bytes,
                                pos |-> 0, pace |-> f.pace, at |-> now]]
  BY <1>2 DEF StartFrame
<1>3. /\ sent' = sent + 1
      /\ UNCHANGED <<queue, seq, tx_asm, first_byte_ns, cap_len, heard>>
  BY <1>2 DEF StartFrame
<1>4. n \in Nodes /\ DOMAIN tx = Nodes
  BY DEF BusInv, Shape
<1>5. /\ tx'[n].id = sent + 1 /\ tx'[n].band = band /\ tx'[n].pos = 0
      /\ \A m \in Nodes \ {n} : tx'[m] = tx[m]
  BY <1>started, <1>4
<1>6. /\ sent' \in Nat /\ sent <= sent' /\ sent + 1 <= sent'
      /\ \A x \in Nat : x <= sent => x <= sent' /\ x # sent + 1
      /\ ~(0 > 0)
  BY SMT, <1>3 DEF BusInv, Shape
<1>7. \A m : Pending(m)' = Pending(m)
  BY <1>3 DEF Pending
<1>8. Flight'
  BY <1>3 DEF OrderInv, Flight
<1>9. ASSUME n \in Clean PROVE InOrder(n)'
  <2>1. InOrder(n)
    BY <1>9 DEF OrderInv
  <2>2. Clocked(n)'
    <3>1. Frames[<<n, tx'[n].band>>] # {}
      BY <1>5
    <3>2. tx'[n].id <= sent' /\ ~(tx'[n].pos > 0)
      BY <1>5, <1>6
    <3> QED BY <1>3, <2>1, <3>1, <3>2 DEF InOrder, Clocked
  <2>3. Behind(n)'
    <3>1. ASSUME NEW e \in Pending(n)
          PROVE  e.frame <= sent' /\ e.frame # tx'[n].id
      <4>1. e.frame \in Nat /\ e.frame <= sent
        BY <2>1 DEF OrderInv, Flight, Pending, InOrder, Behind
      <4> QED BY <1>5, <1>6, <4>1
    <3>2. ASSUME NEW i \in Nodes
          PROVE  heard'[<<n, i>>].frame <= sent' /\ heard'[<<n, i>>].frame # tx'[n].id
      <4>1. heard[<<n, i>>].frame \in Nat /\ heard[<<n, i>>].frame <= sent
        BY <2>1, <1>4 DEF OrderInv, Flight, InOrder, Behind
      <4> QED BY <1>3, <1>5, <1>6, <4>1
    <3> QED BY <1>7, <3>1, <3>2 DEF Behind
  <2>4. Lined(n)'
    BY <1>3, <1>7, <2>1 DEF InOrder, Lined, Follows, Before
  <2> QED BY <2>2, <2>3, <2>4 DEF InOrder
<1>10. \A m \in Clean : InOrder(m)'
  <2> TAKE m \in Clean
  <2>1. CASE m = n
    BY <1>9, <2>1
  <2>2. CASE m # n
    <3>1. m \in Nodes /\ tx'[m] = tx[m] /\ InOrder(m) /\ Flight
      BY <1>5, <2>2 DEF Clean, OrderInv
    <3> QED BY <1>3, <1>6, <1>7, <3>1, OrderKept
  <2> QED BY <2>1, <2>2
<1> QED BY <1>8, <1>10 DEF OrderInv

\* Bytes of a frame that is cut off stay on their way, and in order.
LEMMA StopOrder ==
    ASSUME BusInv, CoreInv, OrderInv, Abort \/ Remove \/ Reboot
    PROVE  OrderInv'
<1>1. PICK n \in Nodes : /\ tx' = [tx EXCEPT ![n] = Idle]
                         /\ queue' \subseteq queue
                         /\ \/ UNCHANGED <<tx_asm, first_byte_ns, cap_len>>
                            \/ /\ tx_asm' = [tx_asm EXCEPT ![n] = AsmReset]
                               /\ first_byte_ns' = [first_byte_ns EXCEPT ![n] = 0]
                               /\ cap_len' = [cap_len EXCEPT ![n] = 0]
                         /\ UNCHANGED <<seq, heard, sent>>
  <2>1. Aborters \subseteq Nodes /\ Resettable \subseteq Nodes
    BY BusAssumption
  <2>2. CASE Abort
    BY <2>1, <2>2 DEF Abort
  <2>3. CASE Remove
    BY <2>1, <2>3 DEF Remove
  <2>4. CASE Reboot
    BY <2>1, <2>4 DEF Reboot
  <2> QED BY <2>2, <2>3, <2>4
<1>2. /\ tx'[n] = Idle /\ tx_asm'[n] \in {tx_asm[n], AsmReset}
      /\ \A m \in Nodes \ {n} : /\ tx'[m] = tx[m] /\ tx_asm'[m] = tx_asm[m]
                                /\ first_byte_ns'[m] = first_byte_ns[m] /\ cap_len'[m] = cap_len[m]
  <2>1. /\ DOMAIN tx = Nodes /\ DOMAIN tx_asm = Nodes
        /\ DOMAIN first_byte_ns = Nodes /\ DOMAIN cap_len = Nodes
    BY DEF CoreInv, BusInv, Shape
  <2>2. tx'[n] = Idle /\ \A m \in Nodes \ {n} : tx'[m] = tx[m]
    BY ONLY Zenon, <1>1, <2>1
  <2>3. tx_asm'[n] \in {tx_asm[n], AsmReset} /\ \A m \in Nodes \ {n} : tx_asm'[m] = tx_asm[m]
    BY ONLY Zenon, <1>1, <2>1
  <2>4. \A m \in Nodes \ {n} : /\ first_byte_ns'[m] = first_byte_ns[m]
                               /\ cap_len'[m] = cap_len[m]
    BY ONLY Zenon, <1>1, <2>1
  <2> QED BY ONLY Zenon, <2>2, <2>3, <2>4
<1>3. \A m : Pending(m)' \subseteq Pending(m)
  BY <1>1 DEF Pending
<1>4. Flight'
  <2>1. \A e \in queue' : /\ e.seq \in Nat /\ e.seq <= seq'
               /\ e.kind = "byte" => /\ e.node \in Nodes /\ e.from \in Nodes
                                     /\ e.frame \in Nat /\ e.pos \in Nat /\ e.pos > 0
    <3> TAKE e \in queue'
    <3>1. e \in queue /\ seq' = seq
      BY <1>1
    <3> QED BY <3>1 DEF OrderInv, Flight
  <2> QED BY <1>1, <2>1 DEF OrderInv, Flight
<1>5. sent' = sent /\ sent' \in Nat /\ sent <= sent' /\ heard' = heard
  BY SMT, <1>1 DEF BusInv, Shape
<1>6. \A m \in Clean : InOrder(m)'
  <2> TAKE m \in Clean
  <2>0. m \in Nodes /\ InOrder(m) /\ Flight
    BY DEF Clean, OrderInv
  <2>1. CASE m = n
    <3>1. ~AsmReset.subghz
      BY SMT DEF AsmReset
    <3>2. Frames[<<n, "868MHz">>] = {} => ~tx_asm'[n].subghz
      BY <1>2, <2>0, <2>1, <3>1 DEF InOrder, Clocked
    <3> QED BY <1>2, <1>3, <1>5, <2>0, <2>1, <3>2, OrderIdle
  <2>2. CASE m # n
    BY <1>2, <1>3, <1>5, <2>0, <2>2, OrderKept
  <2> QED BY <2>1, <2>2
<1> QED BY <1>4, <1>6 DEF OrderInv

\* What was due before is not after the byte clock's next tick.
LEMMA NotLater ==
    ASSUME NEW e, NEW at, NEW first, NEW cap, NEW q, e \in Nat, at \in Nat, first \in Nat, cap \in Nat,
           q \in {4, 20}, e <= at \/ e <= first + (cap - 1) * q
    PROVE  e <= Later(first + cap * q, at)
<1>1. CASE q = 4
  BY SMT, <1>1 DEF Later
<1>2. CASE q = 20
  BY SMT, <1>2 DEF Later
<1> QED BY <1>1, <1>2

\* A byte is not due after the next byte can be, whichever period holds then.
LEMMA Ticked ==
    ASSUME NEW first, NEW ix, NEW q, NEW qq, NEW at, NEW pace,
           first \in Nat, ix \in Nat, q \in {4, 20}, qq \in {4, 20}, q <= qq,
           at \in Nat, pace \in Nat
    PROVE  LET bt == Later(first + ix * q, at)
           IN  bt <= at + pace \/ bt <= first + ((ix + 1) - 1) * qq
<1>1. (ix + 1) - 1 = ix /\ ix * q <= ix * qq /\ ix * q \in Nat /\ ix * qq \in Nat
  <2>1. CASE q = 4 /\ qq = 4
    BY SMT, <2>1
  <2>2. CASE q = 4 /\ qq = 20
    BY SMT, <2>2
  <2>3. CASE q = 20 /\ qq = 20
    BY SMT, <2>3
  <2>4. ~(q = 20 /\ qq = 4)
    BY SMT
  <2> QED BY <2>1, <2>2, <2>3, <2>4
<1> DEFINE u == ix * q
           v == ix * qq
<1>2. u \in Nat /\ v \in Nat /\ u <= v
  BY <1>1
<1> HIDE DEF u, v
<1>3. Later(first + u, at) <= at + pace \/ Later(first + u, at) <= first + v
  BY SMT, <1>2 DEF Later
<1> QED BY <1>1, <1>3 DEF u, v

\* The byte period of a sender never gets shorter during a frame.
LEMMA PeriodGrows ==
    ASSUME CoreInv, OneBandEach, NEW n \in Clean, n \in active, Sending(n), Clocked(n), Sent(n)
    PROVE  /\ sender_byte_ns(n) \in {4, 20} /\ sender_byte_ns(n)' \in {4, 20}
           /\ sender_byte_ns(n) <= sender_byte_ns(n)'
<1>1. n \in Nodes /\ tx[n].band \in Bands
  BY DEF CoreInv, BusInv, Shape, Clean
<1>2. tx_asm'[n].subghz \/ ~tx_asm[n].subghz
  <2>1. CASE tx[n].band = "2.4GHz"
    <3>1. Frames[<<n, "868MHz">>] = {}
      BY <1>1, <2>1 DEF Clocked, OneBandEach
    <3> QED BY <3>1 DEF Clocked
  <2>2. CASE tx[n].band = "868MHz"
    <3>1. ByteSub(n)
      BY <2>2, TxFed
    <3>2. tx_asm[n].subghz => Fed(n, tx[n].bytes[tx[n].pos + 1]).asm.subghz
      BY <3>1 DEF ByteSub, FedSub
    <3> QED BY <3>2 DEF Sent
  <2> QED BY <1>1, <2>1, <2>2 DEF Bands
<1>3. sender_byte_ns(n) \in {4, 20} /\ sender_byte_ns(n)' \in {4, 20}
  BY DEF sender_byte_ns, byte_period_ns
<1>4. tx_asm'[n].subghz => sender_byte_ns(n)' = 20
  BY DEF sender_byte_ns, byte_period_ns
<1>5. ~tx_asm[n].subghz => sender_byte_ns(n) = 4
  BY DEF sender_byte_ns, byte_period_ns
<1> DEFINE q == sender_byte_ns(n)
           qq == sender_byte_ns(n)'
<1>6. q \in {4, 20} /\ qq \in {4, 20} /\ (qq = 20 \/ q = 4)
  BY <1>2, <1>3, <1>4, <1>5
<1> HIDE DEF q, qq
<1>7. q <= qq
  BY ONLY SMT, <1>6
<1> QED BY <1>3, <1>7 DEF q, qq

\* What TxByte does to the byte clock of n.
Ticks(n) ==
    LET byte == tx[n].bytes[tx[n].pos + 1]
    IN  /\ first_byte_ns'[n] = clock_start(n, byte, tx[n].at)
        /\ cap_len'[n] = byte_index(n, byte) + 1

\* The air time of the next byte of n.
BusTime(n) == Later(byte_time_ns(n, tx[n].bytes[tx[n].pos + 1], tx[n].at), tx[n].at)

\* What is pending of the frame is due no later than its next byte.
LEMMA BytesDue ==
    ASSUME CoreInv, OrderInv, NEW n \in Clean, n \in active, Sending(n),
           NEW e \in Pending(n), e.frame = tx[n].id
    PROVE  e.time <= BusTime(n)
<1> DEFINE byte == tx[n].bytes[tx[n].pos + 1]
           t == tx[n].at
<1>1. /\ n \in Nodes /\ t \in Nat /\ first_byte_ns[n] \in Nat /\ cap_len[n] \in Nat
      /\ tx[n].pos \in Nat /\ tx[n].band \in Bands
  BY DEF CoreInv, BusInv, Shape, Clean
<1>2. /\ e.time \in Nat /\ e.pos \in Nat /\ e.pos > 0 /\ e.pos <= tx[n].pos /\ Reached(n, e)
  BY DEF CoreInv, BusInv, Shape, OrderInv, Flight, InOrder, Behind, Pending
<1>3. tx[n].pos > 0
  BY SMT, <1>1, <1>2
<1>4. sender_byte_ns(n) \in {4, 20}
  BY DEF sender_byte_ns, byte_period_ns
<1>5. CASE clock_started(n, byte)
  <2>1. tx[n].band = "868MHz" /\ tx[n].pos < 4
    <3>1. tx[n].pos # 0
      BY SMT, <1>1, <1>3
    <3> QED BY <1>1, <1>5, <3>1, ClockStarts DEF Bands
  <2>2. cap_len[n] = 1 /\ first_byte_ns[n] <= t
    <3>1. cap_len[n] = CapAt(tx[n].band, tx[n].pos) /\ first_byte_ns[n] <= t
      BY <1>3 DEF OrderInv, InOrder, Clocked
    <3>2. tx[n].pos <= 4 /\ "868MHz" # "2.4GHz"
      BY SMT, <1>1, <2>1
    <3> QED BY <2>1, <3>1, <3>2 DEF CapAt
  <2>3. BusTime(n) = Later(t + 0 * sender_byte_ns(n), t)
    BY <1>5 DEF BusTime, byte_time_ns, clock_start, byte_index
  <2> DEFINE q == sender_byte_ns(n)
             first == first_byte_ns[n]
             x == e.time
  <2>4. /\ x \in Nat /\ t \in Nat /\ first \in Nat /\ q \in {4, 20} /\ first <= t
        /\ x <= t \/ x <= first + (1 - 1) * q
    BY <1>1, <1>2, <1>4, <2>2 DEF Reached
  <2> HIDE DEF q, first, x, t
  <2>5. 0 * q = 0 /\ (1 - 1) * q = 0
    BY ONLY SMT, <2>4
  <2>6. x <= Later(t + 0 * q, t)
    BY ONLY SMT, <2>4, <2>5 DEF Later
  <2> QED BY <2>3, <2>6 DEF q, x
<1>6. CASE ~clock_started(n, byte)
  <2>1. BusTime(n) = Later(first_byte_ns[n] + cap_len[n] * sender_byte_ns(n), t)
    BY <1>6 DEF BusTime, byte_time_ns, clock_start, byte_index
  <2>2. e.time <= Later(first_byte_ns[n] + cap_len[n] * sender_byte_ns(n), t)
    BY <1>1, <1>2, <1>4, NotLater DEF Reached
  <2> QED BY <2>1, <2>2
<1> QED BY <1>5, <1>6

\* The byte clock of n after its byte.
LEMMA ClockAfter ==
    ASSUME CoreInv, OrderInv, OneBandEach, NEW n \in Clean, n \in active, Sending(n), Sent(n),
           Ticks(n)
    PROVE  /\ first_byte_ns'[n] <= tx'[n].at
           /\ cap_len'[n] = CapAt(tx'[n].band, tx'[n].pos)
           /\ \/ BusTime(n) <= tx'[n].at
              \/ BusTime(n) <= first_byte_ns'[n] + (cap_len'[n] - 1) * sender_byte_ns(n)'
           /\ BusTime(n) \in Nat
<1> DEFINE byte == tx[n].bytes[tx[n].pos + 1]
           t == tx[n].at
           p == tx[n].pos
           band == tx[n].band
           cs == clock_start(n, byte, t)
           ix == byte_index(n, byte)
           q == sender_byte_ns(n)
           qq == sender_byte_ns(n)'
           pace == tx[n].pace
<1>1. /\ n \in Nodes /\ t \in Nat /\ first_byte_ns[n] \in Nat /\ cap_len[n] \in Nat
      /\ p \in Nat /\ band \in Bands /\ pace \in Nat
  BY DEF CoreInv, BusInv, Shape, Clean
<1>2. q \in {4, 20} /\ qq \in {4, 20} /\ q <= qq
  BY PeriodGrows DEF OrderInv, InOrder
<1>3. /\ first_byte_ns'[n] = cs /\ cap_len'[n] = ix + 1 /\ tx'[n].at = t + pace
      /\ tx'[n].pos = p + 1 /\ tx'[n].band = band
  BY DEF Ticks, Sent
<1>4. BusTime(n) = Later(cs + ix * q, t)
  BY DEF BusTime, byte_time_ns
<1>5. cs \in Nat /\ ix \in Nat
  BY <1>1, ByteTime DEF CoreInv, BusInv
<1>6. ASSUME clock_started(n, byte)
      PROVE  first_byte_ns'[n] <= tx'[n].at /\ cap_len'[n] = CapAt(tx'[n].band, tx'[n].pos)
  <2>1. cs = t /\ ix = 0
    BY <1>6 DEF clock_start, byte_index
  <2>2. ix + 1 = 1 /\ cs <= t + pace
    <3> HIDE DEF cs, ix, t, pace
    <3> QED BY SMT, <1>1, <2>1
  <2>3. CapAt(band, p + 1) = 1
    <3>1. CASE band = "2.4GHz"
      <4>1. p = 0
        BY <1>6, <3>1, ClockStarts
      <4>2. p + 1 = 1
        BY SMT, <4>1
      <4> QED BY <3>1, <4>2 DEF CapAt
    <3>2. CASE band = "868MHz"
      <4>1. p < 4
        BY <1>6, <3>2, ClockStarts
      <4>2. p + 1 <= 4 /\ band # "2.4GHz"
        <5> HIDE DEF p
        <5> QED BY SMT, <1>1, <3>2, <4>1
      <4> QED BY <4>2 DEF CapAt
    <3> QED BY <1>1, <3>1, <3>2 DEF Bands
  <2> QED BY <1>3, <2>1, <2>2, <2>3
<1>7. ASSUME ~clock_started(n, byte)
      PROVE  first_byte_ns'[n] <= tx'[n].at /\ cap_len'[n] = CapAt(tx'[n].band, tx'[n].pos)
  <2>1. cs = first_byte_ns[n] /\ ix = cap_len[n]
    BY <1>7 DEF clock_start, byte_index
  <2>2. /\ band = "2.4GHz" => p # 0
        /\ band = "868MHz" => ~(p < 4)
    BY <1>7, ClockStarts
  <2>3. p > 0
    <3>1. (p # 0 \/ ~(p < 4)) => p > 0
      <4> HIDE DEF p
      <4> QED BY SMT, <1>1
    <3> QED BY <1>1, <2>2, <3>1 DEF Bands
  <2>4. first_byte_ns[n] <= t /\ cap_len[n] = CapAt(band, p)
    BY <2>3 DEF OrderInv, InOrder, Clocked
  <2>5. cs <= t + pace
    <3> DEFINE first == first_byte_ns[n]
    <3>1. first \in Nat /\ first <= t /\ t \in Nat /\ pace \in Nat
      BY <1>1, <2>4
    <3> HIDE DEF first, t, pace
    <3>2. first <= t + pace
      BY ONLY SMT, <3>1
    <3> QED BY <2>1, <3>2 DEF first
  <2>6. CapAt(band, p) + 1 = CapAt(band, p + 1)
    <3> HIDE DEF p, band
    <3>1. CASE band = "2.4GHz"
      BY <3>1 DEF CapAt
    <3>2. CASE band = "868MHz"
      <4>1. "868MHz" # "2.4GHz" /\ ~(p < 4)
        BY <2>2, <3>2
      <4> QED BY SMT, <1>1, <3>2, <4>1 DEF CapAt
    <3> QED BY <1>1, <3>1, <3>2 DEF Bands
  <2> QED BY <1>3, <2>1, <2>4, <2>5, <2>6
<1>8. /\ first_byte_ns'[n] <= tx'[n].at
      /\ cap_len'[n] = CapAt(tx'[n].band, tx'[n].pos)
  BY <1>6, <1>7
<1>9. BusTime(n) <= t + pace \/ BusTime(n) <= cs + ((ix + 1) - 1) * qq
  <2> HIDE DEF cs, ix, q, qq, t, pace
  <2> QED BY <1>1, <1>2, <1>4, <1>5, Ticked
<1>10. BusTime(n) \in Nat
  <2>1. byte_time_ns(n, byte, t) \in Nat
    BY <1>1, ByteTime DEF CoreInv, BusInv
  <2> QED BY <1>1, <2>1, LaterFacts DEF BusTime
<1> QED BY <1>3, <1>8, <1>9, <1>10

\* The byte e is the one n has just handed to the bus, for the receiver e.node.
JustSent(n, e) ==
    /\ e.kind = "byte" /\ e.from = n /\ e.frame = tx[n].id /\ e.pos = tx[n].pos + 1
    /\ e.time = BusTime(n) /\ e.seq = seq + 1 /\ e.node \in Nodes
    /\ e = RxByte(BusTime(n), seq + 1, e.node, n, tx[n].bytes[tx[n].pos + 1])

\* The events of a byte, and which of them are whose.
LEMMA Queued ==
    ASSUME NEW n, NEW to, to \subseteq Nodes,
           Schedule(n, to, tx[n].bytes[tx[n].pos + 1], tx[n].at)
    PROVE  /\ seq' = seq + 2
           /\ \A e \in queue' : \/ e \in queue
                                \/ JustSent(n, e)
                                \/ e.kind = "timer" /\ e.seq = seq + 2
           /\ queue \subseteq queue'
<1> DEFINE byte == tx[n].bytes[tx[n].pos + 1]
           t == tx[n].at
           bytes == {RxByte(BusTime(n), seq + 1, i, n, byte) : i \in to}
           armed == {k \in to \cap HasStall : ~rx_stall_pending[k]}
           timers == {Timer(extended_deadline(i, BusTime(n)), seq + 2, i) : i \in armed}
<1>1. queue' = queue \cup bytes \cup timers /\ seq' = seq + 2
  BY DEF Schedule, BusTime
<1>2. \A e \in timers : e.kind = "timer" /\ e.seq = seq + 2
  BY SMT DEF Timer
<1>3. ASSUME NEW e \in bytes PROVE JustSent(n, e)
  <2>1. PICK i \in to : e = RxByte(BusTime(n), seq + 1, i, n, byte)
    OBVIOUS
  <2>2. /\ e.kind = "byte" /\ e.from = n /\ e.frame = tx[n].id /\ e.pos = tx[n].pos + 1
        /\ e.time = BusTime(n) /\ e.seq = seq + 1 /\ e.node = i
    <3> DEFINE id == tx[n].id
               k == tx[n].pos + 1
               bt == BusTime(n)
               q == seq + 1
    <3>1. e = [kind |-> "byte", time |-> bt, seq |-> q, node |-> i, from |-> n,
               frame |-> id, pos |-> k, byte |-> byte]
      BY ONLY Zenon, <2>1 DEF RxByte
    <3> HIDE DEF byte, id, k, bt, q
    <3>2. /\ e.kind = "byte" /\ e.from = n /\ e.frame = id /\ e.pos = k
          /\ e.time = bt /\ e.seq = q /\ e.node = i
      BY ONLY SMT, <3>1
    <3> QED BY ONLY Zenon, <3>2 DEF id, k, bt, q
  <2> QED BY <2>1, <2>2 DEF JustSent
<1> HIDE DEF bytes, timers
<1> QED BY <1>1, <1>2, <1>3

\* The byte just sent is queued behind those before it.
LEMMA TxOrder ==
    ASSUME BusInv, CoreInv, OrderInv, OneBandEach, TxByte
    PROVE  OrderInv'
<1>1. PICK n \in active : /\ Sending(n)
        /\ tx' = [tx EXCEPT ![n].pos = @ + 1, ![n].at = tx[n].at + tx[n].pace]
        /\ tx_asm' = [tx_asm EXCEPT ![n] = Fed(n, tx[n].bytes[tx[n].pos + 1]).asm]
        /\ complete' = [complete EXCEPT ![n] = Fed(n, tx[n].bytes[tx[n].pos + 1]).complete]
        /\ active' = active
        /\ Schedule(n, Reach[<<n, tx[n].band>>] \cap active \cap PerByte,
                    tx[n].bytes[tx[n].pos + 1], tx[n].at)
        /\ first_byte_ns' = [first_byte_ns EXCEPT ![n] =
                                clock_start(n, tx[n].bytes[tx[n].pos + 1], tx[n].at)]
        /\ cap_len' = [cap_len EXCEPT ![n] = byte_index(n, tx[n].bytes[tx[n].pos + 1]) + 1]
        /\ UNCHANGED <<heard, sent>>
  BY DEF TxByte
<1>2. Sent(n) /\ n \in Nodes /\ PerByte \subseteq Nodes
  BY <1>1, TxSent, BusAssumption DEF CoreInv, BusInv, Shape
<1>3. /\ seq' = seq + 2 /\ queue \subseteq queue'
      /\ \A e \in queue' : \/ e \in queue
                           \/ JustSent(n, e)
                           \/ e.kind = "timer" /\ e.seq = seq + 2
  <2>1. Reach[<<n, tx[n].band>>] \cap active \cap PerByte \subseteq Nodes
    BY <1>2
  <2> QED BY <1>1, <2>1, Queued
<1>4. /\ Ticks(n)
      /\ \A m \in Nodes \ {n} : first_byte_ns'[m] = first_byte_ns[m] /\ cap_len'[m] = cap_len[m]
  BY <1>1, <1>2 DEF Ticks, BusInv, Shape
<1>5. /\ seq \in Nat /\ seq + 1 \in Nat /\ seq + 2 \in Nat /\ seq + 1 <= seq + 2
      /\ seq + 2 <= seq + 2
      /\ \A x \in Nat : x <= seq => x <= seq + 2 /\ x < seq + 1
  BY SMT DEF BusInv, Shape
<1>6. /\ sent' = sent /\ sent' \in Nat /\ sent <= sent' /\ heard' = heard
  <2>1. sent \in Nat /\ sent' = sent /\ heard' = heard
    BY <1>1 DEF BusInv, Shape
  <2> QED BY ONLY SMT, <2>1
<1>7. tx[n].pos + 1 \in Nat /\ tx[n].pos + 1 > 0 /\ tx[n].id \in Nat
  <2>1. tx[n].pos \in Nat /\ tx[n].id \in Nat
    BY <1>2 DEF BusInv, Shape
  <2> QED BY SMT, <2>1
<1>8. Flight'
  <2>1. heard' \in [Nodes \X Nodes -> [frame : Nat, pos : Nat]]
    BY <1>6 DEF OrderInv, Flight
  <2>2. ASSUME NEW f \in queue'
        PROVE  /\ f.seq \in Nat /\ f.seq <= seq'
               /\ f.kind = "byte" => /\ f.node \in Nodes /\ f.from \in Nodes
                                     /\ f.frame \in Nat /\ f.pos \in Nat /\ f.pos > 0
    <3>1. CASE f \in queue
      BY <1>3, <1>5, <3>1 DEF OrderInv, Flight
    <3>2. CASE JustSent(n, f)
      BY <1>2, <1>3, <1>5, <1>7, <3>2 DEF JustSent
    <3>3. CASE f.kind = "timer" /\ f.seq = seq + 2
      <4>1. "timer" # "byte"
        OBVIOUS
      <4> QED BY <1>3, <1>5, <3>3, <4>1
    <3> QED BY <1>3, <3>1, <3>2, <3>3
  <2> QED BY <2>1, <2>2 DEF Flight
<1>9. ASSUME NEW m \in Clean, m # n PROVE InOrder(m)'
  <2>1. m \in Nodes /\ InOrder(m) /\ Flight
    BY DEF Clean, OrderInv
  <2>2. Pending(m)' \subseteq Pending(m)
    <3>1. ASSUME NEW e \in Pending(m)' PROVE e \in Pending(m)
      <4>1. e \in queue' /\ e.kind = "byte" /\ e.from = m
        BY DEF Pending
      <4>2. ~JustSent(n, e) /\ ~(e.kind = "timer")
        BY <1>9, <4>1 DEF JustSent
      <4> QED BY <1>3, <4>1, <4>2 DEF Pending
    <3> QED BY <3>1
  <2>3. /\ tx'[m] = tx[m] /\ tx_asm'[m] = tx_asm[m]
        /\ first_byte_ns'[m] = first_byte_ns[m] /\ cap_len'[m] = cap_len[m]
    BY <1>2, <1>4, <1>9, <2>1 DEF Sent
  <2> QED BY <1>6, <2>1, <2>2, <2>3, OrderKept
<1>10. ASSUME n \in Clean PROVE InOrder(n)'
  <2>1. InOrder(n) /\ Flight
    BY <1>10 DEF OrderInv
  <2>2. /\ first_byte_ns'[n] <= tx'[n].at
        /\ cap_len'[n] = CapAt(tx'[n].band, tx'[n].pos)
        /\ \/ BusTime(n) <= tx'[n].at
           \/ BusTime(n) <= first_byte_ns'[n] + (cap_len'[n] - 1) * sender_byte_ns(n)'
        /\ BusTime(n) \in Nat
    BY <1>1, <1>2, <1>4, <1>10, ClockAfter
  <2>3. /\ tx'[n].pos = tx[n].pos + 1 /\ tx'[n].band = tx[n].band /\ tx'[n].id = tx[n].id
        /\ tx_asm'[n] = Fed(n, tx[n].bytes[tx[n].pos + 1]).asm
    BY <1>2 DEF Sent
  <2>4. Clocked(n)'
    <3>1. tx[n].id <= sent /\ Frames[<<n, tx[n].band>>] # {}
      BY <1>1, <2>1 DEF InOrder, Clocked
    <3>2. Frames[<<n, "868MHz">>] = {} => ~tx_asm'[n].subghz
      <4> SUFFICES ASSUME Frames[<<n, "868MHz">>] = {} PROVE ~tx_asm'[n].subghz
        OBVIOUS
      <4>1. ~tx_asm[n].subghz /\ tx[n].band \in Bands
        BY <1>2, <2>1 DEF InOrder, Clocked, BusInv, Shape
      <4>2. tx[n].band = "2.4GHz"
        BY <3>1, <4>1 DEF Bands
      <4>3. Byte24(n)
        BY <1>1, <1>10, <4>2, TxFed
      <4>4. ~tx_asm[n].subghz => ~Fed(n, tx[n].bytes[tx[n].pos + 1]).asm.subghz
        BY <4>3 DEF Byte24, Fed24
      <4> QED BY <2>3, <4>1, <4>4
    <3> QED BY <1>6, <2>2, <2>3, <3>1, <3>2 DEF Clocked
  <2>5. \A e \in Pending(n)' : e \in Pending(n) \/ JustSent(n, e)
    <3> TAKE e \in Pending(n)'
    <3>1. e \in queue' /\ e.kind = "byte" /\ e.from = n
      BY DEF Pending
    <3>2. ~(e.kind = "timer")
      BY <3>1
    <3> QED BY <1>3, <3>1, <3>2 DEF Pending
  <2>6. \A e \in Pending(n)' : e.frame = tx[n].id => e.time <= BusTime(n)
    <3> TAKE e \in Pending(n)'
    <3>1. CASE e \in Pending(n)
      BY <1>1, <1>10, <3>1, BytesDue
    <3>2. CASE JustSent(n, e)
      <4>1. BusTime(n) <= BusTime(n)
        BY SMT, <2>2
      <4> QED BY <3>2, <4>1 DEF JustSent
    <3> QED BY <2>5, <3>1, <3>2
  <2>7. Behind(n)'
    <3>1. ASSUME NEW e \in Pending(n)'
          PROVE  /\ e.frame <= sent'
                 /\ e.frame = tx'[n].id => e.pos <= tx'[n].pos /\ Reached(n, e)'
      <4>1. e.frame <= sent
        <5>1. tx[n].id <= sent
          BY <1>1, <2>1 DEF InOrder, Clocked
        <5> QED BY <2>1, <2>5, <5>1 DEF InOrder, Behind, JustSent
      <4>2. e.time \in Nat /\ e.pos \in Nat
        <5>1. CASE e \in Pending(n)
          BY <2>1, <5>1 DEF Pending, BusInv, Shape, Flight
        <5>2. CASE JustSent(n, e)
          BY <1>7, <2>2, <5>2 DEF JustSent
        <5> QED BY <2>5, <5>1, <5>2
      <4>3. ASSUME e.frame = tx[n].id PROVE e.pos <= tx[n].pos + 1
        <5>1. CASE e \in Pending(n)
          <6>1. e.pos <= tx[n].pos /\ tx[n].pos \in Nat
            BY <1>1, <1>2, <2>1, <4>3, <5>1 DEF InOrder, Behind, BusInv, Shape
          <6> QED BY SMT, <4>2, <6>1
        <5>2. CASE JustSent(n, e)
          <6>1. e.pos = tx[n].pos + 1
            BY <5>2 DEF JustSent
          <6> QED BY SMT, <1>7, <6>1
        <5> QED BY <2>5, <5>1, <5>2
      <4>4. ASSUME e.frame = tx[n].id PROVE Reached(n, e)'
        <5> DEFINE x == e.time
                   u == tx'[n].at
                   v == first_byte_ns'[n] + (cap_len'[n] - 1) * sender_byte_ns(n)'
        <5>1. /\ x <= BusTime(n) /\ x \in Nat /\ BusTime(n) \in Nat /\ u \in Int /\ v \in Int
              /\ BusTime(n) <= u \/ BusTime(n) <= v
          <6>1. u \in Int
            <7>1. tx[n].at \in Nat /\ tx[n].pace \in Nat /\ u = tx[n].at + tx[n].pace
              BY <1>2 DEF BusInv, Shape, Sent
            <7> QED BY SMT, <7>1
          <6>2. v \in Int
            <7>1. first_byte_ns'[n] \in Nat /\ cap_len'[n] \in Nat
              <8>1. /\ clock_start(n, tx[n].bytes[tx[n].pos + 1], tx[n].at) \in Nat
                    /\ byte_index(n, tx[n].bytes[tx[n].pos + 1]) \in Nat
                BY <1>2, ByteTime DEF BusInv, Shape
              <8>2. byte_index(n, tx[n].bytes[tx[n].pos + 1]) + 1 \in Nat
                BY SMT, <8>1
              <8> QED BY <1>4, <8>1, <8>2 DEF Ticks
            <7>2. sender_byte_ns(n)' \in {4, 20}
              BY DEF sender_byte_ns, byte_period_ns
            <7> QED BY SMT, <7>1, <7>2
          <6> QED BY <2>2, <2>6, <4>2, <4>4, <6>1, <6>2
        <5> HIDE DEF x, u, v
        <5>2. x <= u \/ x <= v
          BY ONLY SMT, <5>1
        <5> QED BY <5>2 DEF x, u, v, Reached
      <4> QED BY <1>6, <2>3, <4>1, <4>3, <4>4
    <3>2. ASSUME NEW i \in Nodes
          PROVE  /\ heard'[<<n, i>>].frame <= sent'
                 /\ heard'[<<n, i>>].frame = tx'[n].id => heard'[<<n, i>>].pos <= tx'[n].pos
      <4>1. /\ heard[<<n, i>>].frame <= sent
            /\ heard[<<n, i>>].frame = tx[n].id => heard[<<n, i>>].pos <= tx[n].pos
        BY <1>1, <2>1 DEF InOrder, Behind
      <4>2. heard[<<n, i>>].pos \in Nat /\ tx[n].pos \in Nat
        BY <1>2, <2>1 DEF Flight, BusInv, Shape
      <4>3. heard[<<n, i>>].pos <= tx[n].pos => heard[<<n, i>>].pos <= tx[n].pos + 1
        BY SMT, <4>2
      <4> QED BY <1>6, <2>3, <4>1, <4>3
    <3> QED BY <3>1, <3>2 DEF Behind
  <2>8. Lined(n)'
    <3>1. ASSUME NEW e \in Pending(n)', NEW f \in Pending(n)', e.node = f.node,
                 e.frame = f.frame
          PROVE  /\ e.pos < f.pos => Before(e, f)
                 /\ e.pos = f.pos => e = f
      <4>1. CASE e \in Pending(n) /\ f \in Pending(n)
        BY <2>1, <3>1, <4>1 DEF InOrder, Lined, Follows
      <4>2. CASE JustSent(n, e) /\ JustSent(n, f)
        <5>1. ~(e.pos < f.pos)
          <6>1. e.pos = tx[n].pos + 1 /\ f.pos = tx[n].pos + 1
            BY <4>2 DEF JustSent
          <6> QED BY SMT, <1>7, <6>1
        <5> QED BY <3>1, <4>2, <5>1 DEF JustSent
      <4>3. ASSUME NEW g, NEW h, g \in Pending(n), JustSent(n, h), g.frame = h.frame
            PROVE  g.pos < h.pos /\ Before(g, h)
        <5>1. g.frame = tx[n].id /\ h.pos = tx[n].pos + 1 /\ h.time = BusTime(n) /\ h.seq = seq + 1
          BY <4>3 DEF JustSent
        <5>2. g.pos <= tx[n].pos /\ g.time <= BusTime(n)
          BY <1>1, <1>10, <2>1, <4>3, <5>1, BytesDue DEF InOrder, Behind
        <5>3. /\ g.pos \in Nat /\ g.time \in Nat /\ g.seq \in Nat /\ g.seq <= seq
              /\ tx[n].pos \in Nat
          BY <1>2, <2>1, <4>3 DEF Flight, Pending, BusInv, Shape
        <5>4. g.pos < tx[n].pos + 1 /\ g.seq < seq + 1
          BY SMT, <1>5, <5>2, <5>3
        <5>5. g.time < BusTime(n) \/ g.time = BusTime(n)
          BY SMT, <2>2, <5>2, <5>3
        <5> QED BY <5>1, <5>4, <5>5 DEF Before
      <4>4. CASE e \in Pending(n) /\ JustSent(n, f)
        <5>1. e.pos < f.pos /\ Before(e, f)
          BY <3>1, <4>3, <4>4
        <5>2. e.pos # f.pos
          <6>1. f.pos \in Nat
            BY <1>7, <4>4 DEF JustSent
          <6> QED BY SMT, <5>1, <6>1
        <5> QED BY <5>1, <5>2
      <4>5. CASE JustSent(n, e) /\ f \in Pending(n)
        <5>1. f.pos < e.pos
          BY <3>1, <4>3, <4>5
        <5>2. e.pos \in Nat /\ f.pos \in Nat
          BY <1>7, <2>1, <4>5 DEF JustSent, Flight, Pending
        <5>3. e.pos # f.pos /\ ~(e.pos < f.pos)
          BY SMT, <5>1, <5>2
        <5> QED BY <5>3
      <4> QED BY <2>5, <4>1, <4>2, <4>4, <4>5
    <3>2. ASSUME NEW e \in Pending(n)', heard'[<<n, e.node>>].frame = e.frame
          PROVE  heard'[<<n, e.node>>].pos < e.pos
      <4>1. CASE e \in Pending(n)
        BY <1>6, <2>1, <3>2, <4>1 DEF InOrder, Lined
      <4>2. CASE JustSent(n, e)
        <5>1. e.node \in Nodes /\ e.frame = tx[n].id /\ e.pos = tx[n].pos + 1
          BY <4>2 DEF JustSent
        <5>2. heard[<<n, e.node>>].pos <= tx[n].pos
          BY <1>1, <1>6, <2>1, <3>2, <5>1 DEF InOrder, Behind
        <5>3. heard[<<n, e.node>>].pos \in Nat /\ tx[n].pos \in Nat
          BY <1>2, <2>1, <5>1 DEF Flight, BusInv, Shape
        <5>4. heard[<<n, e.node>>].pos < tx[n].pos + 1
          BY SMT, <5>2, <5>3
        <5> QED BY <1>6, <5>1, <5>4
      <4> QED BY <2>5, <4>1, <4>2
    <3> QED BY <3>1, <3>2 DEF Lined, Follows, Before
  <2> QED BY <2>4, <2>7, <2>8 DEF InOrder
<1> QED BY <1>8, <1>9, <1>10 DEF OrderInv

\* Every step of the bus keeps the bytes in order.
LEMMA NextOrder ==
    ASSUME BusInv, CoreInv, OrderInv, OneBandEach, [Next]_vars
    PROVE  OrderInv'
<1>1. CASE Start
  BY <1>1, StartOrder
<1>2. CASE TxByte
  BY <1>2, TxOrder
<1>3. CASE Abort \/ Remove \/ Reboot
  BY <1>3, StopOrder
<1>4. CASE PumpByte
  BY <1>4, ByteOrder
<1>5. CASE PumpTimer
  BY <1>5, TimerOrder
<1>6. CASE UNCHANGED <<tx, tx_asm, first_byte_ns, cap_len, sent, heard, queue, seq>>
  BY <1>6, QuietOrder
<1>7. Wait \/ UNCHANGED vars
         => UNCHANGED <<tx, tx_asm, first_byte_ns, cap_len, sent, heard, queue, seq>>
  BY DEF Wait, vars
<1> QED BY <1>1, <1>2, <1>3, <1>4, <1>5, <1>6, <1>7 DEF Next, Pump

\* The bytes of a frame reach each receiver in the order they were sent: the
\* air times sim_radio_bus_tx_byte computes from the byte clock never fall
\* behind those of earlier bytes, although the clock restarts with each
\* preamble byte below 1 GHz and its period changes at the sync word.
THEOREM BytesArriveInOrder ==
    WellFormedFrames /\ OneBandEach => (Spec => []BytesInOrder)
<1> SUFFICES ASSUME WellFormedFrames, OneBandEach PROVE Spec => []BytesInOrder
  OBVIOUS
<1>1. Init => OrderInv
  BY InitOrder
<1>2. BusInv /\ CoreInv /\ OrderInv /\ [Next]_vars => OrderInv'
  BY NextOrder
<1>3. OrderInv => BytesInOrder
  <2> SUFFICES ASSUME OrderInv PROVE BytesInOrder
    OBVIOUS
  <2>1. \A e \in queue : e.kind = "byte" /\ e.from \notin Aborters
                            => /\ e.from \in Clean /\ e \in Pending(e.from)
                               /\ Lined(e.from)
    BY DEF OrderInv, Flight, InOrder, Clean, Pending
  <2> QED BY <2>1 DEF BytesInOrder, Lined, Follows, Pending
<1>4. Spec => []CoreInv
  BY AssemblersInStep
<1> QED BY <1>1, <1>2, <1>3, <1>4, BusInvariant, PTL DEF Spec

(***************************************************************************)
(* The busy windows: listening motes know of every frame.                  *)
(***************************************************************************)

\* How long the frame of n is on the air.
Airtime(n) == Len(tx[n].bytes) * byte_period_ns(tx[n].band = "868MHz")

\* The announced end covers the frame, or at least what is sent of its header.
Covered(n) ==
    \/ on_air_end_ns[n] >= air_end[n]
    \/ /\ Sending(n)
       /\ tx[n].band = "2.4GHz" => /\ on_air_end_ns[n] >= first_byte_ns[n] + 24
                                   /\ tx[n].at <= first_byte_ns[n] + 4 * tx[n].pos
                                   /\ tx[n].pos < 6
       /\ tx[n].band = "868MHz" => on_air_end_ns[n] > first_byte_ns[n]

\* What holds of each frame on the air: its bytes come in time, and the motes in
\* reach know of the end announced last.
OnAir(n) ==
    /\ Sending(n) => /\ now <= tx[n].at
                     /\ tx[n].band = "2.4GHz" => tx[n].pace <= 4
                     /\ tx[n].band = "868MHz" => tx[n].pace = 0
                     /\ tx[n].pos = 0 => air_end[n] = tx[n].at + Airtime(n)
    /\ tx[n].pos > 0 => /\ \A i \in Listeners \cap Reach[<<n, tx[n].band>>] \cap active :
                              busy[i] >= on_air_end_ns[n]
                        /\ air_end[n] = first_byte_ns[n] + Airtime(n)
                        /\ Covered(n)
                        /\ Sending(n) /\ tx[n].band = "868MHz" => tx[n].at = first_byte_ns[n]

\* The shape of the busy windows.
AirShape ==
    /\ DOMAIN on_air_end_ns = Nodes /\ \A n \in Clean : on_air_end_ns[n] \in Nat
    /\ busy \in [Listeners -> Nat]
    /\ air_end \in [Nodes -> Nat]

\* Inductive, with CoreInv and OrderInv, for brisk senders.
AirInv == AirShape /\ \A n \in Clean : OnAir(n)

\* At first the air is free.
LEMMA InitAir == Init => AirInv
<1> SUFFICES ASSUME Init PROVE AirInv
  OBVIOUS
<1>1. AirShape
  <2>1. 0 \in Nat
    BY SMT
  <2> QED BY <2>1 DEF Init, AirShape, Clean
<1>2. ASSUME NEW n \in Clean PROVE OnAir(n)
  <2>1. tx[n] = Idle
    BY DEF Init, Clean
  <2>2. ~(Idle.pos < Len(Idle.bytes)) /\ ~(Idle.pos > 0)
    BY SMT DEF Idle
  <2> QED BY <2>1, <2>2 DEF OnAir, Sending
<1> QED BY <1>1, <1>2 DEF AirInv

\* A step that leaves the transmission of n alone.
LEMMA AirKept ==
    ASSUME BusInv, AirShape, AirShape', NEW n \in Clean, OnAir(n), tx'[n] = tx[n],
           first_byte_ns'[n] = first_byte_ns[n], on_air_end_ns'[n] = on_air_end_ns[n],
           air_end'[n] = air_end[n], Sending(n) => now' <= tx[n].at,
           \A i \in Listeners : busy'[i] >= busy[i],
           Listeners \cap active' = Listeners \cap active
    PROVE  OnAir(n)'
<1>1. (Sending(n)' <=> Sending(n)) /\ Airtime(n)' = Airtime(n)
  BY DEF Sending, Airtime
<1>2. Covered(n)' <=> Covered(n)
  BY <1>1 DEF Covered
<1>3. ASSUME tx[n].pos > 0, NEW i \in Listeners \cap Reach[<<n, tx[n].band>>] \cap active'
      PROVE  busy'[i] >= on_air_end_ns'[n]
  <2>1. busy[i] >= on_air_end_ns[n] /\ busy'[i] >= busy[i]
    BY <1>3 DEF OnAir
  <2>2. busy[i] \in Nat /\ busy'[i] \in Nat /\ on_air_end_ns[n] \in Nat
    BY DEF AirShape
  <2> QED BY SMT, <2>1, <2>2
<1> QED BY <1>1, <1>2, <1>3 DEF OnAir

\* Of a node that sends nothing there is nothing to say.
LEMMA AirIdle ==
    ASSUME NEW n, tx'[n] = Idle
    PROVE  OnAir(n)'
<1>1. ~(Idle.pos < Len(Idle.bytes)) /\ ~(Idle.pos > 0)
  BY SMT DEF Idle
<1> QED BY <1>1 DEF OnAir, Sending

\* While no byte is sent only the clock moves, and not past the next byte.
LEMMA QuietAir ==
    ASSUME BusInv, AirInv, UNCHANGED <<tx, first_byte_ns, on_air_end_ns, busy, air_end, active>>,
           \A n \in Clean : Sending(n) => now' <= tx[n].at
    PROVE  AirInv'
<1>1. AirShape /\ AirShape'
  BY DEF AirInv, AirShape
<1>2. \A i \in Listeners : busy'[i] >= busy[i]
  <2>1. \A i \in Listeners : busy[i] \in Nat /\ busy'[i] = busy[i]
    BY <1>1 DEF AirShape
  <2> QED BY SMT, <2>1
<1>3. \A n \in Clean : OnAir(n)'
  <2> TAKE n \in Clean
  <2>1. n \in Nodes /\ OnAir(n)
    BY DEF Clean, AirInv
  <2> QED BY <1>1, <1>2, <2>1, AirKept
<1> QED BY <1>1, <1>3 DEF AirInv

\* Deliveries and idle periods only move the clock.
LEMMA PumpAir ==
    ASSUME BusInv, AirInv, Pump \/ Wait \/ UNCHANGED vars
    PROVE  AirInv'
<1>1. UNCHANGED <<tx, first_byte_ns, on_air_end_ns, busy, air_end, active>>
  BY DEF Pump, PumpByte, PumpTimer, Wait, vars
<1>2. \A n \in Clean : Sending(n) => now' <= tx[n].at
  <2>1. CASE Pump \/ Wait
    <3>1. Free(now')
      BY <2>1 DEF Pump, PumpByte, PumpTimer, Wait
    <3> QED BY <3>1 DEF Free, Clean
  <2>2. CASE UNCHANGED vars
    BY <2>2 DEF AirInv, OnAir, vars
  <2> QED BY <2>1, <2>2
<1> QED BY <1>1, <1>2, QuietAir

\* A node that stops sending takes nothing from what others announced.
LEMMA StopAir ==
    ASSUME BusInv, AirInv, Abort \/ Remove \/ Reboot
    PROVE  AirInv'
<1>1. PICK n \in Nodes : /\ tx' = [tx EXCEPT ![n] = Idle]
                         /\ air_end' = [air_end EXCEPT ![n] = now]
                         /\ \/ UNCHANGED first_byte_ns
                            \/ first_byte_ns' = [first_byte_ns EXCEPT ![n] = 0]
                         /\ \/ active' = active
                            \/ n \in Resettable /\ active' \in {active \ {n}, active \cup {n}}
                         /\ UNCHANGED <<now, on_air_end_ns, busy>>
  <2>1. Aborters \subseteq Nodes /\ Resettable \subseteq Nodes
    BY BusAssumption
  <2>2. CASE Abort
    BY <2>1, <2>2 DEF Abort
  <2>3. CASE Remove
    BY <2>1, <2>3 DEF Remove
  <2>4. CASE Reboot
    BY <2>1, <2>4 DEF Reboot
  <2> QED BY <2>2, <2>3, <2>4
<1>2. Listeners \cap active' = Listeners \cap active
  <2>1. n \in Resettable => n \notin Listeners
    BY BusAssumption
  <2> QED BY <1>1, <2>1
<1>3. AirShape /\ AirShape'
  BY <1>1 DEF AirInv, AirShape, BusInv, Shape
<1>4. \A i \in Listeners : busy'[i] >= busy[i]
  <2>1. \A i \in Listeners : busy[i] \in Nat /\ busy'[i] = busy[i]
    BY <1>1, <1>3 DEF AirShape
  <2> QED BY SMT, <2>1
<1>5. /\ tx'[n] = Idle
      /\ \A m \in Nodes \ {n} : /\ tx'[m] = tx[m] /\ first_byte_ns'[m] = first_byte_ns[m]
                                /\ air_end'[m] = air_end[m] /\ on_air_end_ns'[m] = on_air_end_ns[m]
  BY <1>1, <1>3 DEF BusInv, Shape, AirShape
<1>6. \A m \in Clean : OnAir(m)'
  <2> TAKE m \in Clean
  <2>0. m \in Nodes /\ OnAir(m)
    BY DEF Clean, AirInv
  <2>1. CASE m = n
    BY <1>5, <2>1, AirIdle
  <2>2. CASE m # n
    <3>1. Sending(m) => now' <= tx[m].at
      BY <1>1, <2>0 DEF OnAir
    <3> QED BY <1>2, <1>3, <1>4, <1>5, <2>0, <2>2, <3>1, AirKept
  <2> QED BY <2>1, <2>2
<1> QED BY <1>3, <1>6 DEF AirInv

\* A new frame has not been announced yet.
LEMMA StartAir ==
    ASSUME BusInv, AirInv, Brisk, Start
    PROVE  AirInv'
<1>1. PICK n \in active \cap PerByte, band \in Bands :
         \E f \in Frames[<<n, band>>] : StartFrame(n, band, f)
  BY DEF Start
<1>2. PICK f \in Frames[<<n, band>>] : StartFrame(n, band, f)
  BY <1>1
<1>started. tx' = [tx EXCEPT ![n] = [id |-> sent + 1, band |-> band, bytes |-> f.bytes,
                                pos |-> 0, pace |-> f.pace, at |-> now]]
  BY <1>2 DEF StartFrame
<1>end. air_end' = [air_end EXCEPT ![n] =
                      now + Len(f.bytes) * byte_period_ns(band = "868MHz")]
  BY <1>2 DEF StartFrame
<1>3. UNCHANGED <<now, first_byte_ns, on_air_end_ns, busy, active>>
  BY <1>2 DEF StartFrame
<1>4. n \in Nodes /\ DOMAIN tx = Nodes /\ now \in Nat
  BY DEF BusInv, Shape
<1>5. /\ tx'[n].band = band /\ tx'[n].pos = 0 /\ tx'[n].bytes = f.bytes
      /\ tx'[n].pace = f.pace /\ tx'[n].at = now
      /\ \A m \in Nodes \ {n} : tx'[m] = tx[m]
  BY <1>started, <1>4
<1>6. AirShape /\ AirShape'
  <2>1. now + Len(f.bytes) * byte_period_ns(band = "868MHz") \in Nat
    <3>1. f.bytes \in Seq(0 .. 255)
      <4>1. <<n, band>> \in Nodes \X Bands
        BY <1>4
      <4>2. Frames[<<n, band>>] \subseteq [bytes : Seq(0 .. 255), pace : Nat]
        BY <4>1, BusAssumption
      <4> QED BY <4>2
    <3>2. Len(f.bytes) \in Nat
      BY ONLY SMT, <3>1
    <3>3. byte_period_ns(band = "868MHz") \in {4, 20}
      BY DEF byte_period_ns
    <3> DEFINE L == Len(f.bytes)
               q == byte_period_ns(band = "868MHz")
    <3>4. L \in Nat /\ q \in {4, 20} /\ now \in Nat
      BY <1>4, <3>2, <3>3
    <3> HIDE DEF L, q
    <3>5. now + L * q \in Nat
      BY ONLY SMT, <3>4
    <3> QED BY <3>5 DEF L, q
  <2> QED BY <1>end, <1>3, <2>1 DEF AirInv, AirShape
<1>7. /\ air_end'[n] = now + Len(f.bytes) * byte_period_ns(band = "868MHz")
      /\ \A m \in Nodes \ {n} : air_end'[m] = air_end[m]
  BY <1>end, <1>4, <1>6 DEF AirShape
<1>8. \A i \in Listeners : busy'[i] >= busy[i]
  <2>1. \A i \in Listeners : busy[i] \in Nat /\ busy'[i] = busy[i]
    BY <1>3, <1>6 DEF AirShape
  <2> QED BY SMT, <2>1
<1>9. OnAir(n)'
  <2>1. now <= now /\ ~(0 > 0)
    BY SMT, <1>4
  <2>2. /\ band = "2.4GHz" => f.pace <= 4
        /\ band = "868MHz" => f.pace = 0
    BY <1>4 DEF Brisk, byte_period_ns
  <2>3. air_end'[n] = tx'[n].at + Airtime(n)'
    BY <1>5, <1>7 DEF Airtime
  <2> QED BY <1>3, <1>5, <2>1, <2>2, <2>3 DEF OnAir
<1>10. \A m \in Clean : OnAir(m)'
  <2> TAKE m \in Clean
  <2>0. m \in Nodes /\ OnAir(m)
    BY DEF Clean, AirInv
  <2>1. CASE m = n
    BY <1>9, <2>1
  <2>2. CASE m # n
    <3>1. Sending(m) => now' <= tx[m].at
      BY <1>3, <2>0 DEF OnAir
    <3> QED BY <1>3, <1>5, <1>6, <1>7, <1>8, <2>0, <2>2, <3>1, AirKept
  <2> QED BY <2>1, <2>2
<1> QED BY <1>6, <1>10 DEF AirInv

\* How far bus_on_air looks ahead, in bytes.
AirBytes(fed) ==
    IF fed.complete \/ fed.asm.state = "PAYLOAD" THEN frame_air_bytes(fed.asm)
    ELSE IF fed.asm.subghz THEN 0 ELSE IEEE802154_PHY_HEADER_BYTES

\* The look-ahead is a number of bytes.
LEMMA AirBytesType ==
    ASSUME NEW r, r.asm \in AsmType
    PROVE  AirBytes(r) \in Nat
<1>1. r.asm.expected_len \in Nat /\ r.asm.subghz_phr_len \in Nat
  BY DEF AsmType
<1>2. frame_air_bytes(r.asm) \in Nat
  BY SMT, <1>1 DEF frame_air_bytes, IEEE802154_PHY_HEADER_BYTES
<1>3. 0 \in Nat /\ IEEE802154_PHY_HEADER_BYTES \in Nat
  BY SMT DEF IEEE802154_PHY_HEADER_BYTES
<1> QED BY <1>2, <1>3 DEF AirBytes

\* The end of the frame as the byte of n shows it, and the start of its clock.
EndOf(n) == on_air_end(n, tx[n].bytes[tx[n].pos + 1], tx[n].at)
StartOf(n) == clock_start(n, tx[n].bytes[tx[n].pos + 1], tx[n].at)
FedOf(n) == Fed(n, tx[n].bytes[tx[n].pos + 1])

\* The end announced lies after the start of the clock, and covers the look-ahead.
LEMMA EndBounds ==
    ASSUME BusInv, NEW n \in Nodes, FedOf(n).asm \in AsmType
    PROVE  /\ EndOf(n) \in Nat /\ StartOf(n) \in Nat /\ EndOf(n) > StartOf(n)
           /\ EndOf(n) >= StartOf(n) + AirBytes(FedOf(n)) * sender_byte_ns(n)
<1> DEFINE byte == tx[n].bytes[tx[n].pos + 1]
           t == tx[n].at
           cs == clock_start(n, byte, t)
           ix == byte_index(n, byte)
           q == sender_byte_ns(n)
           k == AirBytes(FedOf(n))
<1>1. t \in Nat
  BY DEF BusInv, Shape
<1>2. cs \in Nat /\ ix \in Nat
  BY <1>1, ByteTime DEF BusInv
<1>3. q \in {4, 20}
  BY DEF sender_byte_ns, byte_period_ns
<1>4. k \in Nat
  BY AirBytesType
<1>5. EndOf(n) = Later((cs + ix * q) + q, cs + k * q) /\ StartOf(n) = cs
  BY DEF EndOf, StartOf, on_air_end, byte_time_ns, AirBytes, FedOf
<1> HIDE DEF cs, ix, q, k
<1>6. ix * q \in Nat /\ k * q \in Nat
  BY ONLY SMT, <1>2, <1>3, <1>4
<1> DEFINE u == ix * q
           v == k * q
<1>7. u \in Nat /\ v \in Nat
  BY <1>6
<1> HIDE DEF u, v
<1>8. LET w == Later((cs + u) + q, cs + v) IN w \in Nat /\ w > cs /\ w >= cs + v
  BY ONLY SMT, <1>2, <1>3, <1>7 DEF Later
<1> QED BY <1>2, <1>5, <1>8 DEF u, v, q, k

\* Past the PHY header the end announced is the end of the frame.
LEMMA FrameEnd ==
    ASSUME CoreInv, OneBandEach, NEW n \in Clean, n \in active, Sending(n), Clocked(n)
    PROVE  /\ EndOf(n) \in Nat /\ StartOf(n) \in Nat /\ EndOf(n) > StartOf(n)
           /\ tx[n].band = "2.4GHz" /\ tx[n].pos + 1 >= 6 => EndOf(n) >= StartOf(n) + Airtime(n)
           /\ tx[n].band = "2.4GHz" /\ ~(tx[n].pos + 1 >= 6) => EndOf(n) >= StartOf(n) + 24
           /\ tx[n].band = "868MHz" /\ tx[n].pos + 1 >= SubHeader(tx[n].bytes)
                 => EndOf(n) >= StartOf(n) + Airtime(n)
<1> DEFINE b == tx[n].bytes
           p == tx[n].pos
           r == FedOf(n)
           L == Len(b)
           H == SubHeader(b)
<1>1. n \in Nodes /\ BusInv /\ tx[n].band \in Bands
  BY DEF CoreInv, Clean, BusInv, Shape
<1>2. p \in Nat /\ L \in Nat /\ p # L /\ p + 1 <= L /\ p \in 0 .. L - 1
  BY <1>1, SendingBytes
<1>3. InStep(tx[n], tx_asm[n])
  BY DEF CoreInv, Core
<1>4. r.asm \in AsmType
  BY <1>1, TxFed DEF Byte24, ByteSub, Fed24, FedSub, FedOf, Bands
<1>5. /\ EndOf(n) \in Nat /\ StartOf(n) \in Nat /\ EndOf(n) > StartOf(n)
      /\ EndOf(n) >= StartOf(n) + AirBytes(r) * sender_byte_ns(n)
  BY <1>1, <1>4, EndBounds
<1> HIDE DEF r, b, p, L, H
<1>6. ASSUME tx[n].band = "2.4GHz"
      PROVE  /\ p + 1 >= 6 => EndOf(n) >= StartOf(n) + Airtime(n)
             /\ ~(p + 1 >= 6) => EndOf(n) >= StartOf(n) + 24
  <2>1. ~tx_asm[n].subghz
    <3>1. Frames[<<n, "868MHz">>] = {}
      BY <1>1, <1>6 DEF Clocked, OneBandEach
    <3> QED BY <3>1 DEF Clocked
  <2>2. sender_byte_ns(n) = 4
    BY <2>1 DEF sender_byte_ns, byte_period_ns
  <2>3. Airtime(n) = L * 4
    <3>1. tx[n].band # "868MHz"
      BY <1>6
    <3> QED BY <3>1 DEF Airtime, byte_period_ns, L, b
  <2>4. Fed24(tx_asm[n], b, p, r)
    BY <1>6, TxFed DEF Byte24, b, p, r, FedOf
  <2>5. ASSUME p + 1 >= 6 PROVE AirBytes(r) = L
    BY <2>4, <2>5 DEF AirBytes, Fed24, L
  <2>6. ASSUME ~(p + 1 >= 6) PROVE AirBytes(r) = 6
    <3>1. L \in 9 .. 133
      BY <1>2, <1>3, <1>6 DEF InStep, WellFormed24, b, p, L
    <3>2. p + 1 # L /\ ~(p + 1 \in 6 .. L - 1)
      BY ONLY SMT, <1>2, <2>6, <3>1
    <3>3. ~r.complete /\ At24(r.asm, b, p + 1) /\ ~r.asm.subghz
      BY <2>1, <2>4, <3>2 DEF Fed24, L
    <3>4. r.asm.state \in {"PREAMBLE", "LENGTH"}
      BY <3>2, <3>3 DEF At24, L
    <3>5. r.asm.state # "PAYLOAD"
      BY <3>4
    <3> QED BY <3>3, <3>5 DEF AirBytes, IEEE802154_PHY_HEADER_BYTES
  <2>7. 6 * 4 = 24
    BY SMT
  <2> QED BY <1>5, <2>2, <2>3, <2>5, <2>6, <2>7
<1>7. ASSUME tx[n].band = "868MHz", p + 1 >= H
      PROVE  EndOf(n) >= StartOf(n) + Airtime(n)
  <2>1. WellFormedSub(b) /\ AtSub(tx_asm[n], b, p)
    BY <1>2, <1>3, <1>7 DEF InStep, b, p, L
  <2>2. tx_asm[n].subghz
    <3>1. H \in {9, 10}
      BY DEF H, SubHeader
    <3>2. ~(p \in 0 .. 7)
      BY ONLY SMT, <1>2, <1>7, <3>1
    <3> QED BY <2>1, <3>2 DEF AtSub
  <2>3. sender_byte_ns(n) = 20
    BY <2>2 DEF sender_byte_ns, byte_period_ns
  <2>4. Airtime(n) = L * 20
    BY <1>7 DEF Airtime, byte_period_ns, L, b
  <2>5. FedSub(tx_asm[n], b, p, r)
    BY <1>7, TxFed DEF ByteSub, b, p, r, FedOf
  <2>6. AirBytes(r) = L
    BY <1>7, <2>5 DEF AirBytes, FedSub, L, H
  <2> QED BY <1>5, <2>3, <2>4, <2>6
<1> QED BY <1>5, <1>6, <1>7 DEF b, p, H

\* bus_on_air: the end announced only grows, and who hears it knows of it.
Told(n, to, started, end) ==
    /\ DOMAIN on_air_end_ns' = Nodes /\ \A m \in Nodes \ {n} : on_air_end_ns'[m] = on_air_end_ns[m]
    /\ on_air_end_ns'[n] \in Nat /\ on_air_end_ns'[n] >= end
    /\ ~started => on_air_end_ns'[n] >= on_air_end_ns[n]
    /\ busy' \in [Listeners -> Nat]
    /\ \A i \in Listeners : busy'[i] >= busy[i]
    /\ \A i \in Listeners \cap to :
          started \/ busy[i] >= on_air_end_ns[n] => busy'[i] >= on_air_end_ns'[n]

\* bus_on_air tells every mote in reach.
LEMMA AnnounceTold ==
    ASSUME AirShape, NEW n \in Clean, NEW to, NEW byte, NEW t, Announce(n, to, byte, t),
           on_air_end(n, byte, t) \in Nat
    PROVE  Told(n, to, clock_started(n, byte), on_air_end(n, byte, t))
<1> DEFINE started == clock_started(n, byte)
           last == IF started THEN 0 ELSE on_air_end_ns[n]
           end == on_air_end(n, byte, t)
<1>1. /\ last \in Nat /\ end \in Nat /\ n \in Nodes
      /\ on_air_end_ns[n] \in Nat
  <2>1. 0 \in Nat
    BY SMT
  <2> QED BY <2>1 DEF AirShape, Clean
<1>2. \/ /\ end > last
         /\ on_air_end_ns' = [on_air_end_ns EXCEPT ![n] = end]
         /\ busy' = [i \in Listeners |-> IF i \in to THEN Later(busy[i], end) ELSE busy[i]]
      \/ /\ ~(end > last)
         /\ on_air_end_ns' = [on_air_end_ns EXCEPT ![n] = last]
         /\ busy' = busy
  BY DEF Announce
<1>3. ~started => last = on_air_end_ns[n]
  OBVIOUS
<1>4. started => last = 0
  OBVIOUS
<1> HIDE DEF started, last, end
<1>5. \A i \in Listeners : busy[i] \in Nat
  BY DEF AirShape
<1>6. \A i \in Listeners : Later(busy[i], end) \in Nat /\ Later(busy[i], end) >= busy[i]
                           /\ Later(busy[i], end) >= end
  BY <1>1, <1>5, LaterFacts
<1>7. /\ DOMAIN on_air_end_ns' = Nodes
      /\ \A m \in Nodes \ {n} : on_air_end_ns'[m] = on_air_end_ns[m]
  BY <1>2 DEF AirShape
<1>8. \/ end > last /\ on_air_end_ns'[n] = end
      \/ ~(end > last) /\ on_air_end_ns'[n] = last /\ busy' = busy
  BY <1>1, <1>2 DEF AirShape
<1>9. /\ on_air_end_ns'[n] \in Nat /\ on_air_end_ns'[n] >= end /\ on_air_end_ns'[n] >= last
  BY SMT, <1>1, <1>8
<1>10. busy' \in [Listeners -> Nat]
  BY <1>2, <1>5, <1>6 DEF AirShape
<1>11. \A i \in Listeners : busy'[i] >= busy[i]
  <2> TAKE i \in Listeners
  <2>1. busy[i] >= busy[i]
    BY SMT, <1>5
  <2> QED BY <1>2, <1>6, <2>1
<1>12. ASSUME NEW i \in Listeners \cap to, started \/ busy[i] >= on_air_end_ns[n]
       PROVE  busy'[i] >= on_air_end_ns'[n]
  <2>1. CASE end > last
    <3>1. busy'[i] = Later(busy[i], end) /\ on_air_end_ns'[n] = end
      BY <1>2, <1>8, <2>1
    <3> QED BY <1>6, <3>1
  <2>2. CASE ~(end > last)
    <3>1. busy'[i] = busy[i] /\ on_air_end_ns'[n] = last
      BY <1>8, <2>2
    <3>2. CASE started
      <4>1. busy[i] >= 0
        BY SMT, <1>5
      <4> QED BY <1>4, <3>1, <3>2, <4>1
    <3>3. CASE ~started
      BY <1>3, <1>12, <3>1, <3>3
    <3> QED BY <3>2, <3>3
  <2> QED BY <2>1, <2>2
<1> QED BY <1>3, <1>7, <1>9, <1>10, <1>11, <1>12 DEF Told, started, end

\* After its byte the frame of n is covered.
LEMMA TxCovered ==
    ASSUME CoreInv, OrderInv, AirInv, OneBandEach, NEW n \in Clean, n \in active, Sending(n), Sent(n),
           Ticks(n), air_end' = air_end, active' = active, now' = tx[n].at,
           Told(n, Reach[<<n, tx[n].band>>] \cap active \cap Listeners,
                clock_started(n, tx[n].bytes[tx[n].pos + 1]), EndOf(n))
    PROVE  OnAir(n)'
<1> DEFINE byte == tx[n].bytes[tx[n].pos + 1]
           t == tx[n].at
           p == tx[n].pos
           first == first_byte_ns[n]
           on == on_air_end_ns[n]
           on2 == on_air_end_ns'[n]
           started == clock_started(n, byte)
<1>1. /\ n \in Nodes /\ BusInv /\ t \in Nat /\ p \in Nat /\ first \in Nat /\ on \in Nat
      /\ tx[n].band \in Bands /\ tx[n].pace \in Nat /\ air_end[n] \in Nat
  <2>1. n \in Nodes /\ BusInv
    BY DEF Clean, CoreInv
  <2>2. on \in Nat /\ air_end[n] \in Nat
    BY <2>1 DEF AirInv, AirShape
  <2> QED BY <2>1, <2>2, TxType
<1>2. OnAir(n) /\ Clocked(n)
  BY DEF AirInv, OrderInv, InOrder
<1>3. /\ tx'[n].pos = p + 1 /\ tx'[n].at = t + tx[n].pace /\ tx'[n].bytes = tx[n].bytes
      /\ tx'[n].band = tx[n].band /\ tx'[n].pace = tx[n].pace
      /\ Airtime(n)' = Airtime(n)
  BY DEF Sent, Airtime
<1>4. first_byte_ns'[n] = StartOf(n)
  BY DEF Ticks, StartOf
<1>5. /\ EndOf(n) \in Nat /\ StartOf(n) \in Nat /\ EndOf(n) > StartOf(n)
      /\ tx[n].band = "2.4GHz" /\ p + 1 >= 6 => EndOf(n) >= StartOf(n) + Airtime(n)
      /\ tx[n].band = "2.4GHz" /\ ~(p + 1 >= 6) => EndOf(n) >= StartOf(n) + 24
      /\ tx[n].band = "868MHz" /\ p + 1 >= SubHeader(tx[n].bytes)
            => EndOf(n) >= StartOf(n) + Airtime(n)
  BY <1>2, FrameEnd
<1>6. /\ on2 \in Nat /\ on2 >= EndOf(n)
      /\ ~started => on2 >= on
      /\ \A i \in Listeners \cap (Reach[<<n, tx[n].band>>] \cap active \cap Listeners) :
            started \/ busy[i] >= on => busy'[i] >= on2
  BY DEF Told
<1>7. /\ tx[n].band = "2.4GHz" => (started <=> p = 0)
      /\ tx[n].band = "868MHz" => (started <=> p < 4)
  BY ClockStarts
<1>8. (started => StartOf(n) = t) /\ (~started => StartOf(n) = first)
  BY DEF StartOf, clock_start
<1>9. p > 0 <=> p # 0
  <2> HIDE DEF p
  <2> QED BY ONLY SMT, <1>1
<1>10. p = 0 => started
  <2>1. p = 0 => p < 4
    <3> HIDE DEF p
    <3> QED BY ONLY SMT, <1>1
  <2> QED BY <1>1, <1>7, <2>1 DEF Bands
<1>11. air_end'[n] = first_byte_ns'[n] + Airtime(n)'
  <2>1. CASE p = 0
    BY <1>2, <1>3, <1>4, <1>8, <1>10, <2>1 DEF OnAir
  <2>2. CASE p # 0
    <3>1. air_end[n] = first + Airtime(n)
      BY <1>2, <1>9, <2>2 DEF OnAir
    <3>2. StartOf(n) = first
      <4>1. CASE ~started
        BY <1>8, <4>1
      <4>2. CASE started
        <5>1. tx[n].band = "868MHz"
          BY <1>1, <1>7, <2>2, <4>2 DEF Bands
        <5> QED BY <1>2, <1>8, <1>9, <2>2, <4>2, <5>1 DEF OnAir
      <4> QED BY <4>1, <4>2
    <3> QED BY <1>3, <1>4, <3>1, <3>2
  <2> QED BY <2>1, <2>2
<1>12. Sending(n)' => now' <= tx'[n].at
  <2> DEFINE pace == tx[n].pace
  <2>1. t \in Nat /\ pace \in Nat
    BY <1>1
  <2> HIDE DEF t, pace
  <2>2. t <= t + pace
    BY ONLY SMT, <2>1
  <2> QED BY <1>3, <2>2 DEF t, pace
<1>13. \A i \in Listeners \cap Reach[<<n, tx'[n].band>>] \cap active' : busy'[i] >= on2
  <2> TAKE i \in Listeners \cap Reach[<<n, tx'[n].band>>] \cap active'
  <2>1. i \in Listeners \cap Reach[<<n, tx[n].band>>] \cap active
    BY <1>3
  <2>2. started \/ busy[i] >= on
    BY <1>2, <1>9, <1>10, <2>1 DEF OnAir
  <2> QED BY <1>6, <2>1, <2>2
<1>14. ASSUME tx[n].band = "868MHz" PROVE tx'[n].at = first_byte_ns'[n]
  <2>1. tx[n].pace = 0
    BY <1>2, <1>14 DEF OnAir
  <2>2. t + 0 = t
    BY SMT, <1>1
  <2>3. CASE started
    BY <1>3, <1>4, <1>8, <2>1, <2>2, <2>3
  <2>4. CASE ~started
    <3>1. t = first
      BY <1>2, <1>9, <1>10, <1>14, <2>4 DEF OnAir
    <3> QED BY <1>3, <1>4, <1>8, <2>1, <2>2, <2>4, <3>1
  <2> QED BY <2>3, <2>4
<1>15. Covered(n)'
  <2> DEFINE S == StartOf(n)
             E == EndOf(n)
             A == air_end'[n]
             L == Len(tx[n].bytes)
             pace == tx[n].pace
             at == tx'[n].at
  <2>1. /\ S \in Nat /\ E \in Nat /\ on2 \in Nat /\ A \in Nat /\ L \in Nat
        /\ E > S /\ on2 >= E /\ first_byte_ns'[n] = S /\ A = S + Airtime(n) /\ A = air_end[n]
        /\ at = t + pace /\ pace \in Nat
    BY <1>1, <1>3, <1>4, <1>5, <1>6, <1>11, SendingBytes
  <2>2. ASSUME E >= S + Airtime(n) PROVE Covered(n)'
    <3>1. E >= A
      BY <2>1, <2>2
    <3> HIDE DEF E, A, on2
    <3>2. on2 >= A
      BY ONLY SMT, <2>1, <3>1
    <3> QED BY <3>2 DEF Covered, A, on2
  <2>3. InStep(tx[n], tx_asm[n]) /\ p # L
    BY <1>1, SendingBytes DEF CoreInv, Core
  <2>4. ASSUME tx[n].band = "2.4GHz", ~(p + 1 >= 6) PROVE Covered(n)'
    <3>1. Sending(n)' /\ p + 1 < 6
      <4>1. L \in 9 .. 133
        BY <2>3, <2>4 DEF InStep, WellFormed24
      <4> HIDE DEF p, L
      <4>2. p + 1 < L /\ p + 1 < 6
        BY ONLY SMT, <1>1, <2>4, <4>1
      <4> QED BY <1>3, <4>2 DEF Sending, L, p
    <3>2. E >= S + 24
      BY <1>5, <2>4
    <3>3. on2 >= S + 24
      <4> HIDE DEF E, S, on2
      <4> QED BY ONLY SMT, <2>1, <3>2
    <3>4. pace <= 4
      BY <1>2, <2>4 DEF OnAir
    <3>5. on2 >= A \/ at <= S + 4 * (p + 1)
      <4>1. CASE p = 0
        <5>1. S = t
          BY <1>8, <1>10, <4>1
        <5> HIDE DEF S, t, p, pace, at
        <5>2. at <= S + 4 * (p + 1)
          BY ONLY SMT, <1>1, <2>1, <3>4, <4>1, <5>1
        <5> QED BY <5>2
      <4>2. CASE p # 0
        <5>1. ~started /\ p > 0
          BY <1>7, <1>9, <2>4, <4>2
        <5>2. S = first /\ on2 >= on
          BY <1>6, <1>8, <5>1
        <5>3. on >= A \/ t <= first + 4 * p
          BY <1>2, <2>1, <2>4, <5>1 DEF OnAir, Covered
        <5> HIDE DEF S, t, p, pace, at, on, on2, A, first
        <5> QED BY ONLY SMT, <1>1, <2>1, <3>4, <5>2, <5>3
      <4> QED BY <4>1, <4>2
    <3>6. tx'[n].band = "2.4GHz" /\ tx'[n].band # "868MHz"
      BY <1>3, <2>4
    <3>7. /\ on_air_end_ns'[n] >= first_byte_ns'[n] + 24 /\ tx'[n].pos < 6
          /\ \/ on_air_end_ns'[n] >= air_end'[n]
             \/ tx'[n].at <= first_byte_ns'[n] + 4 * tx'[n].pos
      BY <1>3, <2>1, <3>1, <3>3, <3>5
    <3> QED BY <3>1, <3>6, <3>7 DEF Covered
  <2>5. ASSUME tx[n].band = "868MHz", ~(p + 1 >= SubHeader(tx[n].bytes)) PROVE Covered(n)'
    <3>1. Sending(n)'
      <4> DEFINE H == SubHeader(tx[n].bytes)
      <4>1. H \in {9, 10} /\ L \in H + 5 .. H + 202 /\ ~(p + 1 >= H)
        BY <2>3, <2>5 DEF InStep, WellFormedSub, SubHeader
      <4> HIDE DEF p, L, H
      <4>2. p + 1 < L
        BY ONLY SMT, <1>1, <4>1
      <4> QED BY <1>3, <4>2 DEF Sending, L, p
    <3>2. on2 > S
      <4> HIDE DEF E, S, on2
      <4> QED BY ONLY SMT, <2>1
    <3>3. tx'[n].band = "868MHz" /\ tx'[n].band # "2.4GHz"
      BY <1>3, <2>5
    <3> QED BY <2>1, <3>1, <3>2, <3>3 DEF Covered
  <2> QED BY <1>1, <1>5, <2>2, <2>4, <2>5 DEF Bands
<1>16. tx'[n].pos # 0
  <2>1. p + 1 # 0
    <3> HIDE DEF p
    <3> QED BY ONLY SMT, <1>1
  <2> QED BY <1>3, <2>1
<1> QED BY <1>2, <1>3, <1>11, <1>12, <1>13, <1>14, <1>15, <1>16 DEF OnAir

\* Each byte keeps the busy windows right.
LEMMA TxAir ==
    ASSUME BusInv, CoreInv, OrderInv, AirInv, OneBandEach, Brisk, TxByte
    PROVE  AirInv'
<1>1. PICK n \in active : /\ Sending(n)
        /\ Free(tx[n].at)
        /\ now' = tx[n].at
        /\ tx' = [tx EXCEPT ![n].pos = @ + 1, ![n].at = tx[n].at + tx[n].pace]
        /\ tx_asm' = [tx_asm EXCEPT ![n] = Fed(n, tx[n].bytes[tx[n].pos + 1]).asm]
        /\ complete' = [complete EXCEPT ![n] = Fed(n, tx[n].bytes[tx[n].pos + 1]).complete]
        /\ Announce(n, Reach[<<n, tx[n].band>>] \cap active \cap Listeners,
                    tx[n].bytes[tx[n].pos + 1], tx[n].at)
        /\ first_byte_ns' = [first_byte_ns EXCEPT ![n] =
                                clock_start(n, tx[n].bytes[tx[n].pos + 1], tx[n].at)]
        /\ cap_len' = [cap_len EXCEPT ![n] = byte_index(n, tx[n].bytes[tx[n].pos + 1]) + 1]
        /\ UNCHANGED <<active, air_end>>
  BY DEF TxByte
<1>2. Sent(n) /\ n \in Nodes /\ AirShape
  BY <1>1, TxSent DEF CoreInv, BusInv, Shape, AirInv
<1>3. /\ Ticks(n)
      /\ \A m \in Nodes \ {n} : first_byte_ns'[m] = first_byte_ns[m]
  BY <1>1, <1>2 DEF Ticks, BusInv, Shape
<1> DEFINE to == Reach[<<n, tx[n].band>>] \cap active \cap Listeners
<1>4. ASSUME n \in Clean
      PROVE  Told(n, to, clock_started(n, tx[n].bytes[tx[n].pos + 1]), EndOf(n))
  <2>1. EndOf(n) \in Nat
    BY <1>1, <1>4, FrameEnd DEF OrderInv, InOrder
  <2> QED BY <1>1, <1>2, <1>4, <2>1, AnnounceTold DEF EndOf
<1>5. /\ AirShape'
      /\ \A m \in Nodes \ {n} : on_air_end_ns'[m] = on_air_end_ns[m]
      /\ \A i \in Listeners : busy'[i] >= busy[i]
  <2>0. air_end' \in [Nodes -> Nat]
    BY <1>1, <1>2 DEF AirShape
  <2>1. CASE n \in Clean
    <3>1. /\ DOMAIN on_air_end_ns' = Nodes
          /\ \A m \in Nodes \ {n} : on_air_end_ns'[m] = on_air_end_ns[m]
          /\ on_air_end_ns'[n] \in Nat /\ busy' \in [Listeners -> Nat]
          /\ \A i \in Listeners : busy'[i] >= busy[i]
      BY <1>4, <2>1 DEF Told
    <3>2. \A m \in Clean : on_air_end_ns'[m] \in Nat
      BY <1>2, <3>1 DEF AirShape, Clean
    <3> QED BY <2>0, <3>1, <3>2 DEF AirShape
  <2>2. CASE n \notin Clean
    <3>1. to = {}
      <4>1. n \in Aborters /\ tx[n].band \in Bands
        BY <1>2, <2>2 DEF Clean, BusInv, Shape
      <4> QED BY <1>2, <4>1 DEF Brisk
    <3>2. \/ busy' = [i \in Listeners |-> IF i \in to
                                          THEN Later(busy[i], EndOf(n)) ELSE busy[i]]
          \/ busy' = busy
      BY <1>1 DEF Announce, EndOf
    <3>3. busy' \in [Listeners -> Nat] /\ \A i \in Listeners : busy'[i] = busy[i] /\ busy[i] \in Nat
      <4> HIDE DEF to
      <4> QED BY <1>2, <3>1, <3>2 DEF AirShape
    <3>4. \A i \in Listeners : busy'[i] >= busy[i]
      BY SMT, <3>3
    <3>5. /\ DOMAIN on_air_end_ns' = Nodes
          /\ \A m \in Nodes \ {n} : on_air_end_ns'[m] = on_air_end_ns[m]
      <4>1. \E x : on_air_end_ns' = [on_air_end_ns EXCEPT ![n] = x]
        BY <1>1 DEF Announce
      <4> QED BY <1>2, <4>1 DEF AirShape
    <3>6. \A m \in Clean : on_air_end_ns'[m] \in Nat
      BY <1>2, <2>2, <3>5 DEF AirShape, Clean
    <3> QED BY <2>0, <3>3, <3>4, <3>5, <3>6 DEF AirShape
  <2> QED BY <2>1, <2>2
<1>6. \A m \in Clean : OnAir(m)'
  <2> TAKE m \in Clean
  <2>0. m \in Nodes /\ OnAir(m)
    BY DEF Clean, AirInv
  <2>1. CASE m = n
    BY <1>1, <1>2, <1>3, <1>4, <2>1, TxCovered
  <2>2. CASE m # n
    <3>1. Sending(m) => now' <= tx[m].at
      BY <1>1, <2>0 DEF Free
    <3>2. /\ tx'[m] = tx[m] /\ first_byte_ns'[m] = first_byte_ns[m]
          /\ on_air_end_ns'[m] = on_air_end_ns[m] /\ air_end'[m] = air_end[m]
          /\ Listeners \cap active' = Listeners \cap active
      BY <1>1, <1>2, <1>3, <1>5, <2>0, <2>2 DEF Sent
    <3> QED BY <1>2, <1>5, <2>0, <3>1, <3>2, AirKept
  <2> QED BY <2>1, <2>2
<1> QED BY <1>5, <1>6 DEF AirInv

\* A covered frame keeps the channel busy.
LEMMA BusyNow ==
    ASSUME BusInv, AirInv, Brisk
    PROVE  ChannelBusy
<1> SUFFICES ASSUME NEW n \in Nodes, NEW i \in Listeners \cap Reach[<<n, tx[n].band>>] \cap active,
                    tx[n].pos > 0, now < air_end[n]
             PROVE  busy[i] > now
  BY DEF ChannelBusy
<1>1. /\ now \in Nat /\ tx[n].at \in Nat /\ tx[n].pos \in Nat /\ first_byte_ns[n] \in Nat
      /\ air_end[n] \in Nat /\ busy[i] \in Nat /\ tx[n].band \in Bands
  <2>1. now \in Nat /\ air_end[n] \in Nat /\ busy[i] \in Nat
    BY DEF BusInv, Shape, AirInv, AirShape
  <2> QED BY <2>1, TxType
<1>2. n \in Clean
  <2>1. n \notin Aborters
    BY <1>1 DEF Brisk
  <2> QED BY <2>1 DEF Clean
<1>3. on_air_end_ns[n] \in Nat /\ busy[i] >= on_air_end_ns[n] /\ Covered(n)
  BY <1>2 DEF AirInv, AirShape, OnAir
<1>4. CASE on_air_end_ns[n] >= air_end[n]
  BY SMT, <1>1, <1>3, <1>4
<1>5. CASE ~(on_air_end_ns[n] >= air_end[n])
  <2>1. Sending(n) /\ now <= tx[n].at
    BY <1>2, <1>3, <1>5 DEF Covered, AirInv, OnAir
  <2>2. CASE tx[n].band = "2.4GHz"
    <3>1. /\ on_air_end_ns[n] >= first_byte_ns[n] + 24
          /\ tx[n].at <= first_byte_ns[n] + 4 * tx[n].pos
          /\ tx[n].pos < 6
      BY <1>3, <1>5, <2>2 DEF Covered
    <3> DEFINE p == tx[n].pos
               t == tx[n].at
               f == first_byte_ns[n]
               x == on_air_end_ns[n]
    <3>2. /\ p \in Nat /\ t \in Nat /\ f \in Nat /\ x \in Nat /\ now \in Nat /\ busy[i] \in Nat
          /\ x >= f + 24 /\ t <= f + 4 * p /\ p < 6 /\ now <= t /\ busy[i] >= x
      BY <1>1, <1>3, <2>1, <3>1
    <3> HIDE DEF p, t, f, x
    <3> QED BY ONLY SMT, <3>2
  <2>3. CASE tx[n].band = "868MHz"
    <3>1. on_air_end_ns[n] > first_byte_ns[n] /\ tx[n].at = first_byte_ns[n]
      BY <1>2, <1>3, <1>5, <2>1, <2>3 DEF Covered, AirInv, OnAir
    <3> DEFINE t == tx[n].at
               x == on_air_end_ns[n]
    <3>2. /\ t \in Nat /\ x \in Nat /\ now \in Nat /\ busy[i] \in Nat
          /\ x > t /\ now <= t /\ busy[i] >= x
      BY <1>1, <1>3, <2>1, <3>1
    <3> HIDE DEF t, x
    <3> QED BY ONLY SMT, <3>2
  <2> QED BY <1>1, <2>2, <2>3 DEF Bands
<1> QED BY <1>4, <1>5

\* A listening mote in reach of a frame finds the channel busy until the frame
\* has left the air: what bus_on_air announces covers the next byte until the
\* length is known and the whole frame from then on, although an announcement
\* is made only when the end grows.
THEOREM ChannelIsBusy ==
    WellFormedFrames /\ OneBandEach /\ Brisk => (Spec => []ChannelBusy)
<1> SUFFICES ASSUME WellFormedFrames, OneBandEach, Brisk PROVE Spec => []ChannelBusy
  OBVIOUS
<1>1. Init => AirInv /\ OrderInv
  BY InitAir, InitOrder
<1>2. BusInv /\ CoreInv /\ OrderInv /\ [Next]_vars => OrderInv'
  BY NextOrder
<1>3. BusInv /\ CoreInv /\ OrderInv /\ AirInv /\ [Next]_vars => AirInv'
  <2> SUFFICES ASSUME BusInv, CoreInv, OrderInv, AirInv, [Next]_vars PROVE AirInv'
    OBVIOUS
  <2>1. CASE Start
    BY <2>1, StartAir
  <2>2. CASE TxByte
    BY <2>2, TxAir
  <2>3. CASE Abort \/ Remove \/ Reboot
    BY <2>3, StopAir
  <2>4. CASE Pump \/ Wait \/ UNCHANGED vars
    BY <2>4, PumpAir
  <2> QED BY <2>1, <2>2, <2>3, <2>4 DEF Next
<1>4. BusInv /\ AirInv => ChannelBusy
  BY BusyNow
<1>5. Spec => []CoreInv
  BY AssemblersInStep
<1> QED BY <1>1, <1>2, <1>3, <1>4, <1>5, BusInvariant, PTL DEF Spec

(***************************************************************************)
(* The staged bytes: frame consumers are handed whole frames.              *)
(***************************************************************************)

\* A staged byte.
Piece(n, id, k) == [from |-> n, frame |-> id, pos |-> k]
Pieces == [from : Nodes, frame : Nat, pos : Nat]

\* The last bytes of the buffer s are the first p of the frame id of n.
EndsWith(n, id, p, s) ==
    \A k \in 1 .. Len(s) : k > Len(s) - p => s[k] = Piece(n, id, p + (k - Len(s)))
Recent(n, s) == EndsWith(n, tx[n].id, tx[n].pos, s)

\* All the bytes of one transmission, in order.
Whole(s) == \A k \in 1 .. Len(s) : s[k] = [s[1] EXCEPT !.pos = k]

\* What the frame consumer c has staged of the sender n.
StagedFor(n, c) ==
    \A band \in Bands : Frames[<<n, band>>] # {} =>
        IF c \in Reach[<<n, band>>] THEN Recent(n, rf_pending[c]) ELSE rf_pending[c] = <<>>

\* Inductive, with CoreInv, for one sender per fleet with frame consumers.
StageInv ==
    /\ fleet \in Fleets /\ active \subseteq fleet /\ Consumers \cap fleet \subseteq active
    /\ \A n \in Nodes : Sending(n) => Frames[<<n, tx[n].band>>] # {}
    /\ \A c \in Consumers : /\ rf_pending[c] \in Seq(Pieces)
                            /\ c \notin fleet => rf_pending[c] = <<>>
                            /\ Whole(handed[c])
    /\ \A c \in Consumers \cap fleet : \A n \in fleet : Sends(n) => StagedFor(n, c)

\* Nothing is staged in an empty buffer.
LEMMA EmptyFacts ==
    /\ \A n, id, p : EndsWith(n, id, p, <<>>)
    /\ Whole(<<>>) /\ <<>> \in Seq(Pieces)
<1>1. Len(<<>>) = 0 /\ 1 .. 0 = {} /\ <<>> \in Seq(Pieces)
  BY SMT
<1> QED BY <1>1 DEF EndsWith, Whole

\* At first nothing is staged.
LEMMA InitStage == Init => StageInv
<1> SUFFICES ASSUME Init PROVE StageInv
  OBVIOUS
<1>1. /\ fleet \in Fleets /\ active = fleet
      /\ \A n \in Nodes : tx[n] = Idle
      /\ \A c \in Consumers : rf_pending[c] = <<>> /\ handed[c] = <<>>
  BY DEF Init
<1>2. \A n \in Nodes : ~Sending(n)
  <2>1. ~(Idle.pos < Len(Idle.bytes))
    BY SMT DEF Idle
  <2> QED BY <1>1, <2>1 DEF Sending
<1> QED BY <1>1, <1>2, EmptyFacts DEF StageInv, StagedFor, Recent

\* A step that stages nothing.
LEMMA StageKept ==
    ASSUME BusInv, StageInv, fleet' = fleet, active' \subseteq fleet,
           Consumers \cap fleet \subseteq active',
           \A n \in Nodes : Sending(n)' => Frames[<<n, tx'[n].band>>] # {},
           \A c \in Consumers : rf_pending'[c] = rf_pending[c] /\ handed'[c] = handed[c],
           \A n \in Nodes : tx'[n] = tx[n] \/ tx'[n].pos = 0
    PROVE  StageInv'
<1>1. ASSUME NEW c \in Consumers, NEW n \in Nodes, Recent(n, rf_pending[c])
      PROVE  Recent(n, rf_pending[c])'
  <2>1. CASE tx'[n] = tx[n]
    BY <1>1, <2>1 DEF Recent
  <2>2. CASE tx'[n].pos = 0
    <3> DEFINE s == rf_pending[c]
    <3>1. rf_pending'[c] = s /\ s \in Seq(Pieces)
      BY DEF StageInv
    <3> HIDE DEF s
    <3>2. Len(s) \in Nat
      BY ONLY SMT, <3>1
    <3>3. \A k \in 1 .. Len(s) : ~(k > Len(s) - 0)
      BY SMT, <3>2
    <3> QED BY <2>2, <3>1, <3>3 DEF Recent, EndsWith
  <2> QED BY <2>1, <2>2
<1>2. fleet \subseteq Nodes
  BY BusAssumption DEF StageInv
<1>3. ASSUME NEW c \in Consumers \cap fleet, NEW n \in fleet, Sends(n) PROVE StagedFor(n, c)'
  BY <1>1, <1>2, <1>3 DEF StageInv, StagedFor
<1>4. \A c \in Consumers : /\ rf_pending'[c] \in Seq(Pieces)
                           /\ c \notin fleet' => rf_pending'[c] = <<>>
                           /\ Whole(handed'[c])
  BY DEF StageInv
<1> QED BY <1>3, <1>4 DEF StageInv

\* A new frame has no byte staged.
LEMMA StartStage ==
    ASSUME BusInv, StageInv, Start, fleet' = fleet
    PROVE  StageInv'
<1>1. PICK n \in active \cap PerByte, band \in Bands :
         \E f \in Frames[<<n, band>>] : StartFrame(n, band, f)
  BY DEF Start
<1>2. PICK f \in Frames[<<n, band>>] : StartFrame(n, band, f)
  BY <1>1
<1>3. /\ tx' = [tx EXCEPT ![n] = [id |-> sent + 1, band |-> band, bytes |-> f.bytes,
                                pos |-> 0, pace |-> f.pace, at |-> now]]
      /\ UNCHANGED <<active, rf_pending, handed>>
  BY <1>2 DEF StartFrame
<1>4. n \in Nodes /\ DOMAIN tx = Nodes
  BY DEF BusInv, Shape
<1>5. tx'[n].pos = 0 /\ tx'[n].band = band /\ \A m \in Nodes \ {n} : tx'[m] = tx[m]
  BY <1>3, <1>4
<1>6. \A m \in Nodes : Sending(m)' => Frames[<<m, tx'[m].band>>] # {}
  <2> TAKE m \in Nodes
  <2>1. CASE m = n
    BY <1>5, <2>1
  <2>2. CASE m # n
    BY <1>5, <2>2 DEF StageInv, Sending
  <2> QED BY <2>1, <2>2
<1>7. \A m \in Nodes : tx'[m] = tx[m] \/ tx'[m].pos = 0
  BY <1>5
<1>8. active' \subseteq fleet /\ Consumers \cap fleet \subseteq active'
  BY <1>3 DEF StageInv
<1> QED BY <1>3, <1>6, <1>7, <1>8, StageKept

\* A sender that is removed leaves its bytes staged, and the next frame behind them.
LEMMA StopStage ==
    ASSUME BusInv, StageInv, OneSender, Abort \/ Remove \/ Reboot, fleet' = fleet
    PROVE  StageInv'
<1>0. Consumers \cap Resettable = {}
  BY DEF OneSender
<1>1. PICK n \in Nodes : /\ tx' = [tx EXCEPT ![n] = Idle]
                         /\ \/ active' = active
                            \/ n \in Resettable /\ active' = active \ {n}
                            \/ n \in fleet /\ active' = active \cup {n}
                         /\ \/ UNCHANGED rf_pending
                            \/ /\ n \in Resettable
                               /\ rf_pending' = [c \in Consumers |->
                                                    IF c = n THEN <<>> ELSE rf_pending[c]]
                         /\ UNCHANGED handed
  <2>1. Aborters \subseteq Nodes /\ Resettable \subseteq Nodes
    BY BusAssumption
  <2>2. CASE Abort
    BY <2>1, <2>2 DEF Abort
  <2>3. CASE Remove
    BY <2>1, <2>3 DEF Remove
  <2>4. CASE Reboot
    BY <2>1, <2>4 DEF Reboot
  <2> QED BY <2>2, <2>3, <2>4
<1>2. tx'[n] = Idle /\ \A m \in Nodes \ {n} : tx'[m] = tx[m]
  BY <1>1 DEF BusInv, Shape
<1>3. Idle.pos = 0 /\ ~(Idle.pos < Len(Idle.bytes))
  BY SMT DEF Idle
<1>4. \A m \in Nodes : Sending(m)' => Frames[<<m, tx'[m].band>>] # {}
  BY <1>2, <1>3 DEF StageInv, Sending
<1>5. \A m \in Nodes : tx'[m] = tx[m] \/ tx'[m].pos = 0
  BY <1>2, <1>3
<1>6. \A c \in Consumers : rf_pending'[c] = rf_pending[c] /\ handed'[c] = handed[c]
  BY <1>0, <1>1
<1>7. active' \subseteq fleet /\ Consumers \cap fleet \subseteq active'
  BY <1>0, <1>1 DEF StageInv
<1> QED BY <1>4, <1>5, <1>6, <1>7, StageKept

\* A step that touches no buffer.
LEMMA QuietStage ==
    ASSUME BusInv, StageInv, UNCHANGED <<fleet, active, tx, rf_pending, handed>>
    PROVE  StageInv'
<1>1. \A m \in Nodes : Sending(m)' => Frames[<<m, tx'[m].band>>] # {}
  BY DEF StageInv, Sending
<1>2. active' \subseteq fleet /\ Consumers \cap fleet \subseteq active'
  BY DEF StageInv
<1> QED BY <1>1, <1>2, StageKept

\* What dispatch_tx_byte and frame_complete do to the buffer of c.
Buffer(n, to, c) ==
    IF c \in to THEN Append(rf_pending[c], Piece(n, tx[n].id, tx[n].pos + 1)) ELSE rf_pending[c]

Restaged(n, to, c) ==
    /\ FedOf(n).complete =>
          /\ rf_pending'[c] = <<>>
          /\ \/ handed'[c] = handed[c]
             \/ /\ handed'[c] = Buffer(n, to, c) /\ Buffer(n, to, c) # <<>>
                /\ Len(Buffer(n, to, c)) = frame_air_bytes(FedOf(n).asm)
    /\ ~FedOf(n).complete => rf_pending'[c] = Buffer(n, to, c) /\ handed'[c] = handed[c]

\* Stage hands over a buffer of the length of the frame, and nothing else.
LEMMA StageEffect ==
    ASSUME NEW n, NEW to, Stage(n, to, tx[n].bytes[tx[n].pos + 1], tx[n].at), NEW c \in Consumers
    PROVE  Restaged(n, to, c)
<1> DEFINE byte == tx[n].bytes[tx[n].pos + 1]
           t == tx[n].at
           staged == [d \in Consumers |-> Buffer(n, to, d)]
           total == frame_air_bytes(FedOf(n).asm)
<1>1. staged[c] = Buffer(n, to, c)
  OBVIOUS
<1> DEFINE tx_end == byte_time_ns(n, byte, t) + sender_byte_ns(n)
           tx_start == Later(0, tx_end - total * sender_byte_ns(n))
           coll_start == IF FedOf(n).asm.subghz THEN t ELSE tx_start
           taken == {d \in Consumers \ {n} : /\ is_whole_frame(staged[d], total)
                                             /\ coll_start >= emu_rx_end_ns[d]}
<1>2. IF FedOf(n).complete
      THEN /\ rf_pending' = [d \in Consumers |-> <<>>]
           /\ handed' = [d \in Consumers |-> IF d \in taken THEN staged[d] ELSE handed[d]]
      ELSE /\ rf_pending' = staged
           /\ UNCHANGED handed
  BY DEF Stage, Buffer, Piece, FedOf
<1>3. \A d \in taken : is_whole_frame(staged[d], total)
  OBVIOUS
<1> HIDE DEF staged, total, taken
<1>4. ASSUME FedOf(n).complete
      PROVE  /\ rf_pending'[c] = <<>>
             /\ \/ handed'[c] = handed[c]
                \/ handed'[c] = staged[c] /\ staged[c] # <<>> /\ Len(staged[c]) = total
  BY <1>2, <1>3, <1>4 DEF is_whole_frame
<1>5. ASSUME ~FedOf(n).complete
      PROVE  rf_pending'[c] = staged[c] /\ handed'[c] = handed[c]
  BY <1>2, <1>5
<1> QED BY <1>1, <1>4, <1>5 DEF Restaged, total

\* The buffer z is s with x behind it.
Appended(S, s, x, z) ==
    /\ z \in Seq(S) /\ Len(z) = Len(s) + 1 /\ Len(s) \in Nat
    /\ \A k \in 1 .. Len(s) : z[k] = s[k]
    /\ z[Len(s) + 1] = x

\* What Append does.
LEMMA AppendFacts ==
    ASSUME NEW S, NEW s, NEW x, s \in Seq(S), x \in S
    PROVE  Appended(S, s, x, Append(s, x))
BY SMT DEF Appended

\* A buffer that ends with p bytes of a frame ends with p + 1 after the next.
LEMMA EndGrows ==
    ASSUME NEW n, NEW id, NEW p, NEW s, s \in Seq(Pieces), p \in Nat, EndsWith(n, id, p, s),
           Piece(n, id, p + 1) \in Pieces
    PROVE  EndsWith(n, id, p + 1, Append(s, Piece(n, id, p + 1)))
<1> DEFINE x == Piece(n, id, p + 1)
           z == Append(s, x)
           L == Len(s)
<1>0. Appended(Pieces, s, x, z)
  BY AppendFacts
<1> HIDE DEF x, z
<1>1. /\ Len(z) = L + 1 /\ L \in Nat /\ z[L + 1] = x
      /\ \A k \in 1 .. L : z[k] = s[k]
  BY <1>0 DEF Appended
<1>2. \A k \in 1 .. L : k > L - p => s[k] = Piece(n, id, p + (k - L))
  BY DEF EndsWith
<1> HIDE DEF L
<1>3. ASSUME NEW k \in 1 .. L + 1, k > (L + 1) - (p + 1)
      PROVE  z[k] = Piece(n, id, (p + 1) + (k - (L + 1)))
  <2>1. CASE k = L + 1
    <3>1. (p + 1) + (k - (L + 1)) = p + 1
      BY ONLY SMT, <1>1, p \in Nat, <2>1
    <3> QED BY <1>1, <2>1, <3>1 DEF x
  <2>2. CASE k # L + 1
    <3>1. k \in 1 .. L /\ k > L - p /\ (p + 1) + (k - (L + 1)) = p + (k - L)
      BY ONLY SMT, <1>1, p \in Nat, <1>3, <2>2
    <3> QED BY <1>1, <1>2, <3>1
  <2> QED BY <2>1, <2>2
<1>4. EndsWith(n, id, p + 1, z)
  BY <1>1, <1>3 DEF EndsWith
<1> QED BY <1>4 DEF z, x

\* A buffer as long as the frame is the frame.
LEMMA EndWhole ==
    ASSUME NEW n, NEW id, NEW p, NEW s, s \in Seq(Pieces), p \in Nat, EndsWith(n, id, p, s),
           Len(s) = p
    PROVE  Whole(s)
<1>1. ASSUME NEW k \in 1 .. p PROVE s[k] = Piece(n, id, k) /\ 1 \in 1 .. p
  <2>1. k > p - p /\ p + (k - p) = k /\ 1 \in 1 .. p
    BY ONLY SMT, p \in Nat, <1>1
  <2> QED BY <2>1 DEF EndsWith
<1>2. \A k : [Piece(n, id, 1) EXCEPT !.pos = k] = Piece(n, id, k)
  BY SMT DEF Piece
<1>3. ASSUME NEW k \in 1 .. p PROVE s[k] = [s[1] EXCEPT !.pos = k]
  <2>1. s[1] = Piece(n, id, 1) /\ s[k] = Piece(n, id, k)
    BY <1>1
  <2> QED BY <1>2, <2>1
<1> QED BY <1>3 DEF Whole

\* At its last byte the assembler knows the length of the frame.
FullLength(n) == frame_air_bytes(FedOf(n).asm) = tx[n].pos + 1

\* The length known at the last byte is the number of bytes sent.
LEMMA CompleteLength ==
    ASSUME CoreInv, NEW n \in Clean, n \in active, Sending(n), FedOf(n).complete
    PROVE  FullLength(n)
<1> DEFINE b == tx[n].bytes
           p == tx[n].pos
           L == Len(b)
           H == SubHeader(b)
<1>1. /\ n \in Nodes /\ tx[n].band \in Bands /\ InStep(tx[n], tx_asm[n])
      /\ p # L /\ p \in Nat
  BY SendingBytes DEF CoreInv, Core, Clean, BusInv, Shape
<1>2. CASE tx[n].band = "2.4GHz"
  <2>1. Fed24(tx_asm[n], b, p, FedOf(n))
    BY <1>2, TxFed DEF Byte24, FedOf
  <2>2. L \in 9 .. 133
    BY <1>1, <1>2 DEF InStep, WellFormed24
  <2>3. p + 1 = L
    BY <2>1 DEF Fed24
  <2> HIDE DEF p, L
  <2>4. p + 1 >= 6
    BY ONLY SMT, <1>1, <2>2, <2>3
  <2>5. frame_air_bytes(FedOf(n).asm) = L
    BY <2>1, <2>4 DEF Fed24, p, L
  <2> QED BY <2>3, <2>5 DEF FullLength, p
<1>3. CASE tx[n].band = "868MHz"
  <2>1. FedSub(tx_asm[n], b, p, FedOf(n))
    BY <1>3, TxFed DEF ByteSub, FedOf
  <2>2. H \in {9, 10} /\ L \in H + 5 .. H + 202
    BY <1>1, <1>3 DEF InStep, WellFormedSub, SubHeader
  <2>3. p + 1 = L
    BY <2>1 DEF FedSub
  <2> HIDE DEF p, L, H
  <2>4. p + 1 >= H
    BY ONLY SMT, <1>1, <2>2, <2>3
  <2>5. frame_air_bytes(FedOf(n).asm) = L
    BY <2>1, <2>4 DEF FedSub, p, L, H
  <2> QED BY <2>3, <2>5 DEF FullLength, p
<1> QED BY <1>1, <1>2, <1>3 DEF Bands

\* Each byte is staged behind those before it, and what is handed over is whole.
LEMMA TxStage ==
    ASSUME BusInv, CoreInv, StageInv, OneBandEach, OneSender, TxByte, fleet' = fleet
    PROVE  StageInv'
<1>1. PICK n \in active : /\ Sending(n)
        /\ tx' = [tx EXCEPT ![n].pos = @ + 1, ![n].at = tx[n].at + tx[n].pace]
        /\ tx_asm' = [tx_asm EXCEPT ![n] = Fed(n, tx[n].bytes[tx[n].pos + 1]).asm]
        /\ complete' = [complete EXCEPT ![n] = Fed(n, tx[n].bytes[tx[n].pos + 1]).complete]
        /\ active' = active
        /\ Stage(n, Reach[<<n, tx[n].band>>] \cap active \cap Consumers,
                 tx[n].bytes[tx[n].pos + 1], tx[n].at)
  BY DEF TxByte
<1> DEFINE to == Reach[<<n, tx[n].band>>] \cap active \cap Consumers
<1>2. Sent(n) /\ n \in Nodes /\ n \in fleet /\ fleet \subseteq Nodes /\ tx[n].band \in Bands
  BY <1>1, TxSent, BusAssumption DEF BusInv, Shape, StageInv
<1>3. \A c \in Consumers : Restaged(n, to, c)
  BY <1>1, StageEffect
<1> HIDE DEF to
<1>4. \A m \in Nodes : Sending(m)' => Frames[<<m, tx'[m].band>>] # {}
  <2> TAKE m \in Nodes
  <2>1. CASE m = n
    <3>1. tx'[n].band = tx[n].band
      BY <1>2 DEF Sent
    <3>2. Frames[<<n, tx[n].band>>] # {}
      BY <1>1, <1>2 DEF StageInv
    <3> QED BY <2>1, <3>1, <3>2
  <2>2. CASE m # n
    <3>1. tx'[m] = tx[m]
      BY <1>2, <2>2 DEF Sent
    <3> QED BY <3>1 DEF StageInv, Sending
  <2> QED BY <2>1, <2>2
<1>5. Frames[<<n, tx[n].band>>] # {} /\ Sends(n)
  BY <1>1, <1>2 DEF StageInv, Sends
<1>6. ASSUME NEW c \in Consumers, rf_pending[c] = <<>>, c \notin to
      PROVE  rf_pending'[c] = <<>> /\ handed'[c] = handed[c]
  BY <1>3, <1>6 DEF Restaged, Buffer
<1>7. \A c \in Consumers : c \notin fleet => c \notin to
  BY DEF to, StageInv
<1>8. ASSUME NEW c \in Consumers \cap fleet
      PROVE  /\ rf_pending'[c] \in Seq(Pieces) /\ Whole(handed'[c])
             /\ \A m \in fleet : Sends(m) => StagedFor(m, c)'
  <2>1. n \in Clean /\ \A m \in fleet : Sends(m) => m = n
    <3>1. fleet \cap Consumers # {} /\ fleet \in Fleets
      BY <1>8 DEF StageInv
    <3> QED BY <1>2, <1>5, <3>1 DEF OneSender, Clean
  <2>2. /\ rf_pending[c] \in Seq(Pieces) /\ Whole(handed[c]) /\ StagedFor(n, c)
        /\ c \in active
    BY <1>2, <1>5, <1>8 DEF StageInv
  <2>3. ASSUME NEW band \in Bands, Frames[<<n, band>>] # {} PROVE band = tx[n].band
    <3>1. Frames[<<n, "2.4GHz">>] = {} \/ Frames[<<n, "868MHz">>] = {}
      BY <1>2 DEF OneBandEach
    <3>2. /\ band = "2.4GHz" \/ band = "868MHz"
          /\ tx[n].band = "2.4GHz" \/ tx[n].band = "868MHz"
      BY <1>2 DEF Bands
    <3>3. /\ band = "2.4GHz" => Frames[<<n, "2.4GHz">>] # {}
          /\ band = "868MHz" => Frames[<<n, "868MHz">>] # {}
      BY <2>3
    <3>4. /\ tx[n].band = "2.4GHz" => Frames[<<n, "2.4GHz">>] # {}
          /\ tx[n].band = "868MHz" => Frames[<<n, "868MHz">>] # {}
      BY <1>5
    <3> QED BY <3>1, <3>2, <3>3, <3>4
  <2>4. CASE c \notin Reach[<<n, tx[n].band>>]
    <3>1. rf_pending[c] = <<>> /\ c \notin to
      BY <1>2, <1>5, <2>2, <2>4 DEF StagedFor, to
    <3>2. rf_pending'[c] = <<>> /\ handed'[c] = handed[c]
      BY <1>6, <3>1
    <3>3. StagedFor(n, c)'
      BY <2>3, <2>4, <3>2 DEF StagedFor
    <3> QED BY <2>1, <2>2, <3>2, <3>3, EmptyFacts
  <2>5. CASE c \in Reach[<<n, tx[n].band>>]
    <3> DEFINE s == rf_pending[c]
               id == tx[n].id
               p == tx[n].pos
               z == Append(s, Piece(n, id, p + 1))
    <3>1. c \in to /\ Buffer(n, to, c) = z
      BY <2>2, <2>5 DEF to, Buffer
    <3>2. s \in Seq(Pieces) /\ EndsWith(n, id, p, s) /\ p \in Nat /\ p + 1 \in Nat
          /\ Piece(n, id, p + 1) \in Pieces
      <4>1. p \in Nat /\ id \in Nat
        BY <1>2 DEF BusInv, Shape
      <4>2. p + 1 \in Nat
        BY SMT, <4>1
      <4>3. Piece(n, id, p + 1) \in Pieces
        BY <1>2, <4>1, <4>2 DEF Piece, Pieces
      <4>4. Recent(n, s)
        BY <1>2, <1>5, <2>2, <2>5 DEF StagedFor
      <4> QED BY <2>2, <4>1, <4>2, <4>3, <4>4 DEF Recent
    <3>3. tx'[n].pos = p + 1 /\ tx'[n].id = id
      BY <1>2 DEF Sent
    <3>4. Restaged(n, to, c)
      BY <1>3
    <3> HIDE DEF s, id, p
    <3>5. EndsWith(n, id, p + 1, z)
      BY ONLY Zenon, <3>2, EndGrows
    <3>6. z \in Seq(Pieces) /\ z = Append(s, Piece(n, id, p + 1))
      <4>1. Appended(Pieces, s, Piece(n, id, p + 1), z)
        BY ONLY Zenon, <3>2, AppendFacts
      <4> QED BY <4>1 DEF Appended
    <3> HIDE DEF z
    <3>7. CASE ~FedOf(n).complete
      <4>1. rf_pending'[c] = z /\ handed'[c] = handed[c]
        BY <3>1, <3>4, <3>7 DEF Restaged
      <4>2. StagedFor(n, c)'
        BY <2>3, <2>5, <3>3, <3>5, <4>1 DEF StagedFor, Recent
      <4> QED BY <2>1, <2>2, <3>6, <4>1, <4>2
    <3>8. CASE FedOf(n).complete
      <4>1. /\ rf_pending'[c] = <<>>
            /\ handed'[c] = handed[c] \/ (handed'[c] = z /\ Len(z) = frame_air_bytes(FedOf(n).asm))
        BY <3>1, <3>4, <3>8 DEF Restaged
      <4>2. StagedFor(n, c)'
        <5>1. Recent(n, <<>>)'
          BY EmptyFacts DEF Recent
        <5> QED BY <2>3, <2>5, <4>1, <5>1 DEF StagedFor
      <4>3. frame_air_bytes(FedOf(n).asm) = p + 1
        <5>1. FullLength(n)
          BY <1>1, <2>1, <3>8, CompleteLength
        <5> QED BY <5>1 DEF FullLength, p
      <4>4. Whole(handed'[c])
        <5>1. Len(z) = p + 1 => Whole(z)
          BY ONLY Zenon, <3>2, <3>5, <3>6, EndWhole
        <5> QED BY <2>2, <4>1, <4>3, <5>1
      <4> QED BY <2>1, <4>1, <4>2, <4>4, EmptyFacts
    <3> QED BY <3>7, <3>8
  <2> QED BY <2>4, <2>5
<1>9. ASSUME NEW c \in Consumers, c \notin fleet
      PROVE  rf_pending'[c] = <<>> /\ Whole(handed'[c])
  BY <1>6, <1>7, <1>9 DEF StageInv
<1>10. active' \subseteq fleet /\ Consumers \cap fleet \subseteq active'
  BY <1>1 DEF StageInv
<1>11. \A c \in Consumers : /\ rf_pending'[c] \in Seq(Pieces)
                            /\ c \notin fleet => rf_pending'[c] = <<>>
                            /\ Whole(handed'[c])
  BY <1>8, <1>9, EmptyFacts
<1>12. fleet' = fleet /\ fleet \in Fleets
  BY DEF StageInv
<1> QED BY <1>4, <1>8, <1>10, <1>11, <1>12 DEF StageInv

\* The assembler completes a frame at its last byte and nowhere else, and a
\* frame consumer is handed (sim_radio_bus_frame_complete) nothing but all the
\* bytes of one transmission, in order: bytes that a removed sender left staged
\* by dispatch_tx_byte are never taken for a part of the next frame.
THEOREM FramesStayWhole ==
    WellFormedFrames /\ OneBandEach /\ OneSender => (Spec => []BatchIntact)
<1> SUFFICES ASSUME WellFormedFrames, OneBandEach, OneSender PROVE Spec => []BatchIntact
  OBVIOUS
<1>1. Init => StageInv
  BY InitStage
<1>2. BusInv /\ CoreInv /\ StageInv /\ [Next]_vars => StageInv'
  <2> SUFFICES ASSUME BusInv, CoreInv, StageInv, [Next]_vars PROVE StageInv'
    OBVIOUS
  <2>1. fleet' = fleet
    BY DEF Next, vars
  <2>2. CASE Start
    BY <2>1, <2>2, StartStage
  <2>3. CASE TxByte
    BY <2>1, <2>3, TxStage
  <2>4. CASE Abort \/ Remove \/ Reboot
    BY <2>1, <2>4, StopStage
  <2>5. CASE Pump \/ Wait \/ UNCHANGED vars
    <3>1. UNCHANGED <<active, tx, rf_pending, handed>>
      BY <2>5 DEF Pump, PumpByte, PumpTimer, Wait, vars
    <3> QED BY <2>1, <3>1, QuietStage
  <2> QED BY <2>2, <2>3, <2>4, <2>5 DEF Next
<1>3. CoreInv /\ StageInv => BatchIntact
  BY DEF CoreInv, Core, StageInv, Whole, BatchIntact, Clean
<1>4. Spec => []CoreInv
  BY AssemblersInStep
<1> QED BY <1>1, <1>2, <1>3, <1>4, BusInvariant, PTL DEF Spec

=============================================================================
