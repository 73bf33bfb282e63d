---------------------------- MODULE CoSimulation -----------------------------
(***************************************************************************)
(* csim as the slave of Renode's clock (src/services/renode_cosim_service.c *)
(* and the loop of test/test_mixed_multinode.c) with a co-simulation       *)
(* device (RenodeDev), external motes (ExtNode) and emulated motes in one  *)
(* simulation.  Four parties take turns: Renode, which ticks the clock and *)
(* whose guest reads and writes the device while csim may still be busy;   *)
(* csim's one thread; the peers behind the external motes, which answer,   *)
(* misbehave or die; and the emulated motes, which print and run.          *)
(*                                                                         *)
(* Renode sends on the main socket and reads replies of bus accesses       *)
(* there; interrupt levels, console lines and tick confirmations come on   *)
(* the async socket.  Renode has one access and one tick unanswered at     *)
(* most.  What csim sends is taken to be read at once.                     *)
(***************************************************************************)
EXTENDS ExtNode, RenodeDev, FiniteSets

CONSTANTS
  Peers, Motes,    \* slots of external and of emulated motes
  None,            \* no slot
  MaxTime,         \* the largest time of an int64_t
  Second,          \* nanoseconds in a second, as few as the bounds allow
  FreqHz,          \* cfg.freq_hz, ticks in a second
  Ticks,           \* counts a tickClock carries
  WakeDelay,       \* the 1 ms after which injected console input is read
  MaxNap,          \* bound on how far ahead a mote asks to be woken
  LogCap,          \* LOGQ_CAP_MAX, in lines
  GuestReads, GuestWrites   \* what the guest accesses

ASSUME SlotsAssumption ==
  None \notin Peers \cup Motes /\ Peers \cap Motes = {} /\ Consoles \subseteq Peers \cup Motes
ASSUME ClockAssumption ==
  /\ MaxTime \in Nat /\ Second \in Nat \ {0} /\ FreqHz \in Nat \ {0}
  /\ Ticks \subseteq Nat /\ MaxNap \in Nat /\ WakeDelay \in Nat /\ LogCap \in Nat
  /\ Never \in Nat /\ Never > MaxTime + MaxNap + WakeDelay
ASSUME AccessAssumption == GuestReads \subseteq Reads /\ GuestWrites \subseteq Writes

VARIABLES
  now,         \* sim_rt.now_ns
  sim_ns,      \* the boundary csim runs to
  wakes,       \* pending wakeup of each slot (Never: none)
  peers,       \* the engines of the external motes
  running,     \* the slot whose execute() is under way, or None
  stop,        \* sim_runtime_request_stop was called
  pc,          \* loop "top", "recv", "pump", "exec", "end"
  dev,         \* the register window
  svc,         \* renode_cosim_service_t
  main,        \* requests on the main socket, oldest first
  renode       \* Renode's side: waits for a tick, for an access; its
               \* end of the line; did a reset cross a level

clock == <<now, sim_ns>>
nodes == <<wakes, peers, running, stop>>
csim == <<clock, nodes, pc, dev, svc>>
vars == <<csim, main, renode>>

Slots == Peers \cup Motes

-----------------------------------------------------------------------------
(* Start: everything booted, one wakeup per slot, the master attached.     *)

Init ==
  /\ now = 0 /\ sim_ns = 0 /\ wakes = [n \in Slots |-> 0]
  /\ peers \in [Peers -> {ext_node_start(w) : w \in 0 .. MaxNap \cup {Never}}]
  /\ running = None /\ stop = FALSE /\ pc = "top"
  /\ \E n \in Consoles : dev = renode_dev_reset(n)
  /\ svc = [ticks |-> 0, base |-> sim_ns, owed |-> FALSE, irq |-> FALSE, logs |-> 0]
  /\ main = <<>>
  /\ renode = [ticked |-> FALSE, waits |-> FALSE, line |-> FALSE,
               crossed |-> FALSE]

-----------------------------------------------------------------------------
(* Renode.                                                                 *)

\* A request is its type; what it asks for is chosen when csim reads it.
\* Renode sends at any time.  csim reads nothing while it runs a quantum and
\* one request at a time between two, so a request sent any earlier is like
\* one sent at the end of the quantum, or once csim has read all others.
Send(m) ==
  /\ (pc = "top" /\ svc.owed) \/ (pc = "recv" /\ main = <<>>)
  /\ \A i \in 1 .. Len(main) : main[i] # "disconnect"
  /\ main' = Append(main, m)
  /\ UNCHANGED csim

MasterTicks ==
  /\ ~renode.ticked /\ Send("tick")
  /\ renode' = [renode EXCEPT !.ticked = TRUE]

MasterAccesses ==
  /\ ~renode.waits /\ Send("access")
  /\ renode' = [renode EXCEPT !.waits = TRUE]

\* A machine reset lowers Renode's end of the line; a level that csim reports
\* at the end of the quantum under way crosses it.
MasterResets ==
  /\ ~renode.waits /\ Len(main) < 2 /\ Send("reset")
  /\ renode' = [renode EXCEPT !.line = FALSE]

MasterDisconnects == ~renode.waits /\ Send("disconnect") /\ UNCHANGED renode

Master ==
  \/ MasterTicks \/ MasterAccesses
  \/ MasterResets \/ MasterDisconnects

-----------------------------------------------------------------------------
(* The air and the consoles.                                               *)

\* The peers in `heard` queue a frame that started at `at` ...
Delivered(heard, at) ==
  [p \in Peers |-> IF p \in heard THEN ext_node_deliver_frame(peers[p], at) ELSE peers[p]]

\* ... and their motes are woken for it.  Emulated motes take a frame byte by
\* byte, which RadioBus models.
Woken(pending, heard, when) ==
  [n \in Slots |-> IF n \in heard THEN Least(pending[n], when) ELSE pending[n]]

\* A console line of n, as the service observes it.
on_event(n) ==
  /\ svc' = [svc EXCEPT !.logs = Least(@ + 1, LogCap)]
  /\ dev' = IF n = dev.uart_node THEN renode_dev_uart_push(dev) ELSE dev

-----------------------------------------------------------------------------
(* The service between two quanta: renode_cosim_next_horizon.              *)

\* sync_irq: only a change of the level is sent.
Reported(s, d) == [s EXCEPT !.irq = renode_dev_irq_level(d)]
Noticed(r, s, d) ==
  IF renode_dev_irq_level(d) = s.irq
  THEN r
  ELSE [r EXCEPT !.line = renode_dev_irq_level(d), !.crossed = FALSE]

\* An emulated mote takes the bytes its ring has room for, an external one
\* swallows all.
Taken == IF dev.uart_node \in Peers THEN {dev.ui} ELSE 0 .. dev.ui

\* What is owed for the quantum that ended: console input handed over again,
\* lines, the level, and then the confirmation.
SettleQuantum ==
  \E n \in Taken :
    LET d == renode_dev_uart_retry(dev, n)
    IN  /\ dev' = d
        /\ wakes' = IF n = 0 THEN wakes
                    ELSE [wakes EXCEPT ![dev.uart_node] = Least(@, sim_ns + WakeDelay)]
        /\ svc' = [Reported(svc, d) EXCEPT !.logs = 0, !.owed = FALSE]
        /\ renode' = [Noticed(renode, svc, d) EXCEPT !.ticked = FALSE]

\* The clock is pinned to the boundary before the guest's accesses are served.
NextHorizon ==
  /\ pc = "top" /\ ~stop
  /\ now' = Latest(now, sim_ns)
  /\ IF svc.owed THEN SettleQuantum ELSE UNCHANGED <<dev, wakes, svc, renode>>
  /\ pc' = "recv"
  /\ UNCHANGED <<sim_ns, peers, running, stop, main>>

\* Mutation: the time of each tick is added up.
horizon_summed(ticks) == sim_ns + ((ticks - svc.ticks) * Second) \div FreqHz

horizon_for(ticks) ==
  svc.base + (ticks \div FreqHz) * Second + ((ticks % FreqHz) * Second) \div FreqHz

ticks_in_range(ticks) == ticks \div FreqHz < (MaxTime - svc.base) \div Second

\* The loop takes the horizon for its clock, then the pump runs to it.
HandleTick ==
  \E v \in Ticks :
    LET ticks == svc.ticks + v
        end == Latest(horizon_for(ticks), sim_ns)
    IN  /\ IF ticks_in_range(ticks)
           THEN /\ svc' = [svc EXCEPT !.ticks = ticks, !.owed = TRUE]
                /\ sim_ns' = end /\ now' = end /\ pc' = "pump"
           ELSE pc' = "end" /\ UNCHANGED <<svc, clock>>
        /\ UNCHANGED <<dev, nodes, renode>>

Answered(r) == [r EXCEPT !.waits = FALSE]

\* Mutation: a read does not look at the level again.
HandleReadSilent ==
  \E a \in GuestReads :
    /\ dev' = renode_dev_read(dev, a) /\ renode' = Answered(renode)
    /\ UNCHANGED <<clock, nodes, pc, svc>>

\* A read can drain a FIFO and lower the line.
HandleRead ==
  \E a \in GuestReads :
    LET d == renode_dev_read(dev, a)
    IN  /\ dev' = d /\ svc' = Reported(svc, d)
        /\ renode' = Answered(Noticed(renode, svc, d))
        /\ UNCHANGED <<clock, nodes, pc>>

\* A frame the guest fires goes on the air now.
HandleWrite ==
  \E a \in GuestWrites :
    LET d == renode_dev_write(dev, a)
    IN  /\ IF tx_fires(dev, a)
           THEN \E heard \in SUBSET Peers :
                  peers' = Delivered(heard, now) /\ wakes' = Woken(wakes, heard, now)
           ELSE UNCHANGED <<peers, wakes>>
        /\ dev' = d /\ svc' = Reported(svc, d)
        /\ renode' = Answered(Noticed(renode, svc, d))
        /\ UNCHANGED <<clock, running, stop, pc>>

\* No reply, and no message about the line: Renode lowered its end itself,
\* unless a level crossed its reset.
HandleReset ==
  /\ dev' = renode_dev_reset(dev.uart_node)
  /\ svc' = [svc EXCEPT !.irq = FALSE]
  /\ renode' = [renode EXCEPT !.crossed = renode.line]
  /\ UNCHANGED <<clock, nodes, pc>>

HandleDisconnect == pc' = "end" /\ UNCHANGED <<clock, nodes, dev, svc, renode>>

handle_request ==
  /\ pc = "recv" /\ main # <<>> /\ main' = Tail(main)
  /\ \/ Head(main) = "tick" /\ HandleTick
     \/ Head(main) = "access" /\ (HandleRead \/ HandleWrite)
     \/ Head(main) = "reset" /\ HandleReset
     \/ Head(main) = "disconnect" /\ HandleDisconnect

\* The master has died, at whatever moment: a read that finds nothing more, a
\* send that fails.  Or nothing came within wait_timeout_ms, if that is set.
MasterLost ==
  /\ pc = "recv" \/ (pc = "top" /\ svc.owed /\ ~stop)
  /\ pc' = "end"
  /\ UNCHANGED <<clock, nodes, dev, svc, main, renode>>

-----------------------------------------------------------------------------
(* The quantum: the event pump and the motes' execute().                   *)

\* The wakeups due in this quantum that come next; ties in any order
\* (SimKernel has the queue's own order).
NextWoken ==
  {n \in Slots : wakes[n] <= sim_ns /\ \A m \in Slots : wakes[n] <= wakes[m]}

\* An emulated mote runs, may print a line or end a frame that some hear, and
\* asks to run again.
MoteRuns(n) ==
  /\ n \in Motes
  /\ \E next \in now' + 1 .. now' + MaxNap, heard \in SUBSET Peers :
       /\ wakes' = Woken([wakes EXCEPT ![n] = next], heard, now')
       /\ peers' = Delivered(heard, now')
       /\ \/ heard = {} /\ on_event(n)
          \/ dev' \in {dev, renode_dev_rx_push(dev)} /\ UNCHANGED svc
  /\ UNCHANGED <<running, pc>>

\* ext_mote_execute begins.
PeerRuns(n) ==
  /\ n \in Peers
  /\ wakes' = [wakes EXCEPT ![n] = Never]
  /\ running' = n /\ pc' = "exec"
  /\ UNCHANGED <<peers, svc, dev>>

Dispatch ==
  /\ pc = "pump" /\ ~stop
  /\ \E n \in NextWoken : now' = wakes[n] /\ (MoteRuns(n) \/ PeerRuns(n))
  /\ UNCHANGED <<sim_ns, stop, main, renode>>

PumpReturns ==
  /\ pc = "pump" /\ (stop \/ \A n \in Slots : wakes[n] > sim_ns)
  /\ pc' = "top"
  /\ UNCHANGED <<clock, nodes, dev, svc, main, renode>>

\* The loop breaks on the stop request, with the quantum unconfirmed.
Stopped ==
  /\ pc = "top" /\ stop
  /\ pc' = "end"
  /\ UNCHANGED <<clock, nodes, dev, svc, main, renode>>

\* The replies of a peer that differ for csim: stamps up to the end of the
\* slice, and wakeups up to MaxNap from now.  Leaving t out of the reply is
\* like claiming the end of the slice, and with a t that is no time the
\* wakeup does not matter.
Stamps(p) == Latest(0, p.time - 1) .. NextEvent(p)
Outputs(p) ==
  [type : {"none"}, t : {Absent}] \cup [type : {"wake"}, t : {NextEvent(p)}]
  \cup [type : {"tx", "log"}, t : {Absent} \cup Stamps(p)]
Replies(p) ==
  {NoReply}
  \cup [wake : p.time .. now + MaxNap \cup {Never}, t : Stamps(p), out : Outputs(p)]
  \cup [wake : {Never}, t : {NoTime}, out : Outputs(p)]

\* sim_radio_bus_tx_frame_at: a frame starts at its stamp, never after now.
OnAirAt(stamp) == IF 0 < stamp /\ stamp < now THEN stamp ELSE now

\* What a reply does outside the peer: a frame some of the others hear, a
\* console line, nothing.
PeerTransmits(q, at) ==
  /\ \E heard \in SUBSET (Peers \ {running}) :
       /\ peers' = [Delivered(heard, at) EXCEPT ![running] = q]
       /\ wakes' = Woken(wakes, heard, Latest(at, now))
  /\ dev' \in {dev, renode_dev_rx_push(dev)}
  /\ UNCHANGED svc

PeerPrints(q) ==
  /\ peers' = [peers EXCEPT ![running] = q]
  /\ on_event(running)
  /\ UNCHANGED wakes

PeerIsQuiet(q) ==
  /\ peers' = [peers EXCEPT ![running] = q]
  /\ UNCHANGED <<wakes, dev, svc>>

\* One step of the running peer; an event stamped before its slice is refused.
Exchange ==
  /\ pc = "exec" /\ ~peers[running].failed /\ NextEvent(peers[running]) <= now
  /\ \E reply \in Replies(peers[running]) :
       LET q == Step(peers[running], reply)
           refused == reply.out.t # Absent /\ reply.out.t < peers[running].time
       IN  \/ reply.out.type = "tx" /\ ~refused /\ PeerTransmits(q, OnAirAt(reply.out.t))
           \/ reply.out.type = "log" /\ ~refused /\ PeerPrints(q)
           \/ (reply.out.type \in {"none", "wake"} \/ refused) /\ PeerIsQuiet(q)
  /\ UNCHANGED <<clock, running, stop, pc, main, renode>>

\* ext_mote_execute ends: a failed peer ends the run.
ExecuteReturns ==
  /\ pc = "exec"
  /\ LET p == peers[running]
     IN  /\ p.failed \/ NextEvent(p) > now
         /\ stop' = (stop \/ p.failed)
         /\ wakes' = [wakes EXCEPT ![running] = Least(@, ext_node_next_wakeup_ns(p))]
  /\ running' = None /\ pc' = "pump"
  /\ UNCHANGED <<clock, peers, dev, svc, main, renode>>

Ended == pc = "end" /\ UNCHANGED vars

Csim ==
  \/ NextHorizon \/ handle_request
  \/ Dispatch \/ PumpReturns \/ Stopped \/ Exchange \/ ExecuteReturns

Next == Csim \/ MasterLost \/ Master \/ Ended

Spec == Init /\ [][Next]_vars

\* csim's thread takes its next step whenever it has one: a peer that does not
\* answer runs into its timeout.  It waits only for the master's next request.
\* (Weak fairness of Csim, with its guard and its steps written out: the
\* master leaves csim alone and only adds requests.)
Ready == pc # "end" /\ (pc = "recv" => main # <<>>)
CsimSteps == csim' # csim \/ Len(main') < Len(main)
FairSpec == Spec /\ ([]<>~Ready \/ []<><<CsimSteps>>_vars)

-----------------------------------------------------------------------------
(* Properties.                                                             *)

\* When slot n is next to run: its wakeup, or what its peer waits for.
Due(n) ==
  IF n \in Peers THEN Least(wakes[n], ext_node_next_wakeup_ns(peers[n])) ELSE wakes[n]

\* The clocks are locked.  Whenever csim waits for Renode, its clock stands
\* at the time of the ticks confirmed so far, rounded down once and for all
\* (the elapsed time in ticks and the ticks agree to less than one
\* nanosecond, however FreqHz divides the second), and a quantum is confirmed
\* only when nothing of it is left to do: no wakeup or frame due in it waits
\* for a mote or a peer, no line is unsent, no peer had failed.  Under way,
\* no peer is ahead of the boundary.
Lockstep ==
  /\ pc = "recv" =>
       /\ now = sim_ns
       /\ (sim_ns - svc.base) * FreqHz <= svc.ticks * Second
       /\ svc.ticks * Second < (sim_ns - svc.base + 1) * FreqHz
       /\ \A n \in Slots : Due(n) >= sim_ns
       /\ svc.logs = 0 /\ ~svc.owed
       /\ \A p \in Peers : ~peers[p].failed
  /\ pc = "top" /\ svc.owed /\ ~stop => \A n \in Slots : Due(n) > sim_ns
  /\ \A p \in Peers : peers[p].time <= sim_ns

\* The interrupt line Renode sees is the level of the device whenever csim
\* waits with nothing to read, however frames, lines, accesses and resets
\* interleaved with the quanta (only changes are sent, and a reset changes
\* the level without a message).  A reset sent inside a quantum can cross a
\* level: until the next change the line may then stay high.
LineFollows ==
  pc = "recv" /\ main = <<>> /\ ~renode.crossed =>
    renode.line = renode_dev_irq_level(dev)

\* Every tick is confirmed and every access answered, or the run ends: no
\* peer can hold csim inside a quantum, whatever it answers (the step loop
\* does not return to the kernel while the peer asks for the same instant).
RequestsAnswered ==
  /\ renode.ticked ~> ~renode.ticked \/ pc = "end"
  /\ renode.waits ~> ~renode.waits \/ pc = "end"
=============================================================================
