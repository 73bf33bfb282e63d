------------------------------ MODULE NrfRadio ------------------------------
(***************************************************************************)
(* The radio of the nRF52840 with its shortcuts, and the event routing of  *)
(* PPI and EGU, of src/arm/nrf52840_soc.c, as functions from one state of  *)
(* the peripherals to the next.  A task raises events, an event triggers   *)
(* tasks through a shortcut or a PPI channel, and so on to any depth: each *)
(* function says what it does to the state s and which steps it takes      *)
(* next, and Perform takes them depth first, like the calls of the code.   *)
(*                                                                         *)
(* s.at gives each deferred event the ticks until it is due, or Off.  A    *)
(* tick is the air time of a byte.  An on-air byte is a value of a small   *)
(* set; a check sequence is right when the payload is that of a frame.     *)
(***************************************************************************)
EXTENDS Integers, Sequences

CONSTANTS RampUp, RampDown, AirTime, AckDelay, \* delays, in ticks
          MaxIncoming,                         \* the size of rx_incoming
          Frames,                              \* payloads with a right FCS
          AckRequests                          \* those that ask this node for an acknowledgement

Off == -1
Deferred == {"ramp", "disable", "tx", "ack"}

\* Latched are the events that some code reads again: RXEN looks at CRCOK, a
\* PPI channel that is being enabled at its event.
Latches == {"CRCOK", "DISABLED", "EGU"}

\* Preamble, SFD and the length byte; the SFD's value is also a length.
Length(b) == CASE b = "len2" -> 2 [] b = "len3" -> 3 [] b = "sfd" -> 122 [] OTHER -> 0

radio_init(shorts, ppi) ==
    [state |-> "DISABLED", phase |-> "preamble", remaining |-> 0, got |-> <<>>,
     incoming |-> <<>>, latched |-> {}, shorts |-> shorts, ppi |-> ppi,
     at |-> [e \in Deferred |-> Off], ack |-> FALSE, rxen_pending |-> FALSE,
     \* What happened so far, for the properties.
     open |-> FALSE, expect |-> FALSE, ok |-> FALSE]

Schedule(s, e, ticks) == [s EXCEPT !.at[e] = ticks]
Cancel(s, e) == [s EXCEPT !.at[e] = Off]

\* What a function does: the state it leaves, and the steps it takes next.
Then(s, steps) == [s |-> s, steps |-> steps]
Done(s) == Then(s, <<>>)

Do(what) == <<what, "">>
Event(event) == <<"event", event>>
Short(short) == <<"short", short>>
Task(task) == <<"task", task>>

-----------------------------------------------------------------------------
(* Events and what they trigger.                                           *)

\* The tasks of the channels that listen to the event, in turn.  One may be the
\* trigger of EGU, whose event goes through the channels again.
nrf_ppi_event_notify(s, event) ==
    LET hit == SelectSeq(s.ppi, LAMBDA c : c.on /\ c.eep = event)
    IN  [i \in DOMAIN hit |-> Task(hit[i].tep)]

nrf_egu_fire(s) ==
    Then([s EXCEPT !.latched = @ \union {"EGU"}], nrf_ppi_event_notify(s, "EGU"))

radio_event(s, event) ==
    Then([s EXCEPT !.latched = @ \union ({event} \intersect Latches),
                   !.open = (@ \/ (event = "FRAMESTART" /\ s.state = "RX"))
                            /\ event \notin {"CRCOK", "CRCERROR"},
                   !.ok = (@ # (event = "CRCOK"))],
         nrf_ppi_event_notify(s, event))

\* The task that a shortcut triggers.
ShortTask ==
    [READY_START |-> "START", TXREADY_START |-> "START", RXREADY_START |-> "START",
     PHYEND_START |-> "START", END_START |-> "START",
     END_DISABLE |-> "DISABLE", PHYEND_DISABLE |-> "DISABLE",
     DISABLED_TXEN |-> "TXEN", DISABLED_RXEN |-> "RXEN", CCAIDLE_TXEN |-> "TXEN",
     RXREADY_CCASTART |-> "CCASTART", CCAIDLE_STOP |-> "STOP"]

radio_apply_shorts_after_event(s, short) ==
    Then(s, IF short \in s.shorts THEN <<Task(ShortTask[short])>> ELSE <<>>)

radio_set_state(s, state) ==
    Then([s EXCEPT !.state = state],
         IF state = "RXIDLE"
         THEN <<Event("READY"), Event("RXREADY"),
                Short("READY_START"), Short("RXREADY_START"), Short("RXREADY_CCASTART")>>
         ELSE <<Event("READY"), Event("TXREADY"), Short("READY_START"), Short("TXREADY_START")>>)

-----------------------------------------------------------------------------
(* The deferred events.                                                    *)

Disabling == {"TXDISABLE", "RXDISABLE"}

nrf_radio_disable_cb(s) ==
    IF s.state \notin Disabling THEN Done(s)
    ELSE Then([s EXCEPT !.state = "DISABLED"],
              <<Event("DISABLED"), Short("DISABLED_TXEN"), Short("DISABLED_RXEN")>>)

nrf_radio_tx_done_cb(s) ==
    IF s.state # "TX" THEN Done(s)
    ELSE Then(s, <<Event("PAYLOAD"), Event("END"), Event("PHYEND"), Do("tx idle"),
                   Short("END_DISABLE"), Short("PHYEND_DISABLE"),
                   Short("END_START"), Short("PHYEND_START")>>)

nrf_radio_ack_cb(s) ==
    Done(IF s.ack THEN [s EXCEPT !.ack = FALSE, !.expect = FALSE] ELSE s)

nrf_radio_ramp_cb(s) ==
    CASE s.state = "RXRU" -> radio_set_state(s, "RXIDLE")
      [] s.state = "TXRU" -> radio_set_state(s, "TXIDLE")
      [] OTHER -> Done(s)

radio_start_rampup(s, state) == Done(Schedule([s EXCEPT !.state = state], "ramp", RampUp))

radio_complete_pending_tx(s) ==
    IF s.state # "TX" THEN Done(s) ELSE nrf_radio_tx_done_cb(Cancel(s, "tx"))

-----------------------------------------------------------------------------
(* Reception.                                                              *)

Locked(s) == s.state = "RX" /\ s.phase \in {"length", "payload"}

\* END and PHYEND, the latch of DISABLED that a shortcut asks for, and the
\* CRC event; then the shortcuts that restart.
EndOfFrame(crc) ==
    <<Event("END"), Event("PHYEND"), Do("latch disabled"), Event(crc),
      Short("END_START"), Short("PHYEND_START")>>

LatchDisabled(s) ==
    IF {"END_DISABLE", "PHYEND_DISABLE"} \intersect s.shorts = {} THEN s
    ELSE [s EXCEPT !.state = "DISABLED", !.latched = @ \union {"DISABLED"}]

Idle(s) == IF s.state = "RX" THEN [s EXCEPT !.state = "RXIDLE"] ELSE s
Reparse(s) == [s EXCEPT !.phase = "preamble", !.got = <<>>]

\* Mutant: an aborted reception is dropped without a word to the driver.
radio_abort_inflight_rx_silent(s) ==
    IF ~Locked(s) THEN Done(s) ELSE Done([s EXCEPT !.phase = "preamble", !.state = "RXIDLE"])

radio_abort_inflight_rx(s) ==
    IF ~Locked(s) THEN Done(s) ELSE Then(Reparse(s), EndOfFrame("CRCERROR") \o <<Do("idle")>>)

nrf_radio_rx_stall(s) ==
    IF ~Locked(s) THEN Done(s)
    ELSE Then(s, EndOfFrame("CRCERROR") \o <<Do("idle"), Do("reparse")>>)

FrameComplete(s) ==
    Then(s, <<Event("PAYLOAD")>> \o EndOfFrame(IF s.got \in Frames THEN "CRCOK" ELSE "CRCERROR")
            \o <<<<"complete", s.got>>, Short("END_DISABLE")>>)

\* The acknowledgement is staged for a data frame that asks for one.
StageAck(s, payload) ==
    IF payload \in Frames \intersect AckRequests
    THEN Schedule([s EXCEPT !.ack = TRUE, !.expect = TRUE], "ack", AckDelay) ELSE s

Complete(s, payload) == Reparse([StageAck(s, payload) EXCEPT !.state = "RXIDLE"])

ReceiveSfd(s, b) ==
    CASE b = "sfd" -> Then([s EXCEPT !.phase = "length"], <<Event("ADDRESS"), Event("FRAMESTART")>>)
      [] b = "pre" -> Done(s)
      [] OTHER -> Done([s EXCEPT !.phase = "preamble"])

ReceiveLength(s, b) ==
    IF Length(b) = 0 THEN radio_abort_inflight_rx(s)
    ELSE Done([s EXCEPT !.phase = "payload", !.remaining = Length(b), !.got = <<>>])

ReceivePayload(s, b) ==
    LET r == [s EXCEPT !.remaining = @ - 1, !.got = Append(@, b)]
    IN  IF r.remaining = 0 THEN FrameComplete(r) ELSE Done(r)

\* Mutant: the bytes that arrive during the ramp-up are dropped.
BufferedLate(s, b) ==
    IF s.state = "RXIDLE" THEN [s EXCEPT !.incoming = Append(@, b)] ELSE s

\* A byte that arrives while the radio arms for reception.
Buffered(s, b) ==
    IF s.state \in {"RXRU", "RXIDLE"} /\ Len(s.incoming) < MaxIncoming
    THEN [s EXCEPT !.incoming = Append(@, b)] ELSE s

nrf_radio_receive_byte(s, b) ==
    IF s.state # "RX" THEN Done(Buffered(s, b))
    ELSE CASE s.phase = "preamble" -> Done(IF b = "pre" THEN [s EXCEPT !.phase = "sfd"] ELSE s)
           [] s.phase = "sfd" -> ReceiveSfd(s, b)
           [] s.phase = "length" -> ReceiveLength(s, b)
           [] s.phase = "payload" -> ReceivePayload(s, b)

-----------------------------------------------------------------------------
(* Tasks.                                                                  *)

\* A task that follows DISABLE at once completes it first.
CompleteDisable(s) ==
    IF s.state \notin Disabling THEN Done(s)
    ELSE Then([Cancel(s, "disable") EXCEPT !.state = "DISABLED"], <<Event("DISABLED")>>)

TaskTxen(s) ==
    CASE s.state = "DISABLED" -> radio_start_rampup(s, "TXRU")
      [] s.state \in {"TX", "TXRU", "TXIDLE"} -> Done(s)
      [] OTHER -> radio_set_state(s, "TXIDLE")

TaskRxen(s) ==
    CASE s.state = "DISABLED" /\ "CRCOK" \in s.latched -> Done([s EXCEPT !.rxen_pending = TRUE])
      [] s.state = "DISABLED" /\ "CRCOK" \notin s.latched -> radio_start_rampup(s, "RXRU")
      [] s.state \in {"RX", "RXRU", "RXIDLE"} -> Done(s)
      [] OTHER -> radio_set_state(s, "RXIDLE")

\* The driver's own frame: the bytes heard before are stale, and a staged
\* acknowledgement is cancelled.
StartTx(s) ==
    Then([s EXCEPT !.incoming = <<>>, !.state = "TX"],
         <<Event("ADDRESS"), Event("FRAMESTART"), Do("transmit")>>)

Transmit(s) ==
    LET mine == IF s.ack THEN [Cancel(s, "ack") EXCEPT !.ack = FALSE] ELSE s
    IN  Schedule([mine EXCEPT !.expect = FALSE], "tx", AirTime)

\* The buffered bytes are received one after the other.
StartRx(s) ==
    Then([s EXCEPT !.state = "RX", !.phase = "preamble", !.incoming = <<>>],
         [i \in DOMAIN s.incoming |-> <<"byte", s.incoming[i]>>])

StopTx(s) == IF s.state = "TX" THEN Cancel([s EXCEPT !.state = "TXIDLE"], "tx") ELSE s

\* Mutant: a receiver is disabled without the event that completes it.
RampDownTxOnly(s) ==
    LET r == Cancel(Cancel(s, "ramp"), "tx")
    IN  IF s.state \in {"TX", "TXIDLE", "TXRU"}
        THEN Schedule([r EXCEPT !.state = "TXDISABLE"], "disable", RampDown)
        ELSE [r EXCEPT !.state = "RXDISABLE"]

StartRampDown(s) ==
    LET down == IF s.state \in {"TX", "TXIDLE", "TXRU"} THEN "TXDISABLE" ELSE "RXDISABLE"
    IN  Schedule([Cancel(Cancel(s, "ramp"), "tx") EXCEPT !.state = down], "disable", RampDown)

TaskStart(s) ==
    CASE s.state = "TXIDLE" -> StartTx(s)
      [] s.state = "RXIDLE" -> StartRx(s)
      [] OTHER -> Done(s)

TaskDisable(s) ==
    Then(s, IF s.state = "DISABLED" THEN <<Event("DISABLED")>> ELSE <<Do("abort"), Do("ramp down")>>)

\* With the trigger of EGU, which a PPI channel may name instead.
radio_trigger_task(s, task) ==
    CASE task = "TXEN" -> Then(s, <<Do("complete disable"), Do("txen")>>)
      [] task = "RXEN" -> Then(s, <<Do("complete tx"), Do("complete disable"), Do("rxen")>>)
      [] task = "START" -> TaskStart(s)
      [] task = "STOP" -> Then(s, <<Do("abort"), Do("idle"), Do("stop tx")>>)
      [] task = "DISABLE" -> TaskDisable(s)
      [] task = "CCASTART" ->
             Then(s, <<Event("CCAIDLE"), Short("CCAIDLE_TXEN"), Short("CCAIDLE_STOP")>>)
      [] task = "RSSISTART" -> Done(s)    \* no channel hears RSSIEND
      [] task = "EDSTART" -> Then(s, <<Event("EDEND")>>)
      [] task = "EGU" -> nrf_egu_fire(s)

-----------------------------------------------------------------------------
(* A step, and the steps that follow from it.                              *)

Step(s, what, arg) ==
    CASE what = "event" -> radio_event(s, arg)
      [] what = "short" -> radio_apply_shorts_after_event(s, arg)
      [] what = "task" -> radio_trigger_task(s, arg)
      [] what = "byte" -> nrf_radio_receive_byte(s, arg)
      [] what = "stall" -> nrf_radio_rx_stall(s)
      [] what = "ramp" -> nrf_radio_ramp_cb(s)
      [] what = "disable" -> nrf_radio_disable_cb(s)
      [] what = "tx" -> nrf_radio_tx_done_cb(s)
      [] what = "ack" -> nrf_radio_ack_cb(s)
      [] what = "tx idle" -> Done([s EXCEPT !.state = "TXIDLE"])
      [] what = "latch disabled" -> Done(LatchDisabled(s))
      [] what = "idle" -> Done(Idle(s))
      [] what = "reparse" -> Done(Reparse(s))
      [] what = "complete" -> Done(Complete(s, arg))
      [] what = "complete tx" -> radio_complete_pending_tx(s)
      [] what = "complete disable" -> CompleteDisable(s)
      [] what = "abort" -> radio_abort_inflight_rx(s)
      [] what = "txen" -> TaskTxen(s)
      [] what = "rxen" -> TaskRxen(s)
      [] what = "transmit" -> Done(Transmit(s))
      [] what = "stop tx" -> Done(StopTx(s))
      [] what = "ramp down" -> Done(StartRampDown(s))

RECURSIVE Perform(_, _)
Perform(s, steps) ==
    IF steps = <<>> THEN s
    ELSE LET did == Step(s, Head(steps)[1], Head(steps)[2])
         IN  Perform(did.s, did.steps \o Tail(steps))
=============================================================================
