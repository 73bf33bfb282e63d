------------------------------- MODULE ExtNode -------------------------------
(***************************************************************************)
(* The engine of an external mote (src/native/ext_node.c): a peer process  *)
(* that is stepped through simulated time, one line asked and one line     *)
(* answered.  A peer is a record                                           *)
(*   [time, wake, rx, failed, idle]                                        *)
(* where rx holds the arrival times of the frames waiting for it, oldest   *)
(* first.  A reply is NoReply (a dead or silent peer, a line that is no    *)
(* `done`, a wakeup that is no time) or a record                           *)
(*   [wake, t, out]  with at most one output event  [type, t],             *)
(* Absent standing for a field that is left out and NoTime for a number    *)
(* that is no time.  All frames fit a line.                                *)
(***************************************************************************)
EXTENDS Integers, Sequences

CONSTANTS
  Never,               \* INT64_MAX
  EXT_NODE_RX_QUEUE,
  EXT_NODE_MAX_IDLE_STEPS

Absent == -1
NoTime == -2
NoReply == [wake |-> Absent, t |-> Absent, out |-> [type |-> "none", t |-> Absent]]

Least(a, b) == IF a <= b THEN a ELSE b
Latest(a, b) == IF a >= b THEN a ELSE b

\* After the exchange of `hello`, which carries the first wakeup.
ext_node_start(w) ==
  [time |-> 0, wake |-> w, rx |-> <<>>, failed |-> FALSE, idle |-> 0]

ext_fail(p) == [p EXCEPT !.failed = TRUE, !.wake = Never]

\* A full queue drops the new frame.
ext_node_deliver_frame(p, arrival) ==
  IF p.failed \/ Len(p.rx) >= EXT_NODE_RX_QUEUE
  THEN p
  ELSE [p EXCEPT !.rx = Append(@, arrival)]

\* The next thing the peer is to be stepped for.
NextEvent(p) == IF p.rx = <<>> THEN p.wake ELSE Least(p.wake, Head(p.rx))

ext_node_next_wakeup_ns(p) == IF p.failed THEN Never ELSE NextEvent(p)

\* A stamp before the slice is a protocol error, as is one that is no time.
\* Frames and lines leave the
\* peer as it is; a wake can only pull its wakeup earlier.
apply_out_event(p, ev, slice_start) ==
  IF ev.t # Absent /\ ev.t < slice_start
  THEN ext_fail(p)
  ELSE IF ev.type = "wake" /\ ev.t # Absent
  THEN [p EXCEPT !.wake = Least(@, ev.t)]
  ELSE p

\* The reply's own t, looked at after its events took effect, is believed
\* inside the slice only.
consume_done(p, slice_start, step_t, reply) ==
  IF reply = NoReply
  THEN ext_fail(p)
  ELSE LET q == apply_out_event([p EXCEPT !.wake = reply.wake], reply.out, slice_start)
           reached == IF reply.t \in slice_start .. step_t THEN reply.t ELSE step_t
       IN  IF reply.t = NoTime
           THEN ext_fail(q)
           ELSE [q EXCEPT !.time = reached, !.wake = Latest(@, reached)]

\* How many frames at the head of the queue have arrived by `when`.
Arrived(rx, when) ==
  CHOOSE k \in 0 .. Len(rx) :
    /\ \A i \in 1 .. k : rx[i] <= when
    /\ k < Len(rx) => rx[k + 1] > when

Effect(ev) == ev.type \in {"tx", "log"}

\* Mutation: nobody counts the exchanges that lead nowhere.
StepUncounted(p, reply) ==
  LET when == NextEvent(p)
      n == Arrived(p.rx, when)
      asked == [p EXCEPT !.wake = Never, !.rx = SubSeq(@, n + 1, Len(@)),
                         !.time = Latest(@, when)]
      q == consume_done(asked, p.time, when, reply)
  IN  IF q.failed THEN q
      ELSE IF q.time > p.time THEN [q EXCEPT !.idle = 0]
      ELSE IF n = 0 /\ ~Effect(reply.out) /\ q.wake <= q.time THEN ext_fail(q)
      ELSE q

\* One turn of the loop of ext_node_step_until_ns.
Step(p, reply) ==
  LET when == NextEvent(p)
      n == Arrived(p.rx, when)
      asked == [p EXCEPT !.wake = Never, !.rx = SubSeq(@, n + 1, Len(@)),
                         !.time = Latest(@, when)]
      q == consume_done(asked, p.time, when, reply)
  IN  IF q.failed THEN q
      ELSE IF q.time > p.time THEN [q EXCEPT !.idle = 0]
      ELSE IF n = 0 /\ ~Effect(reply.out) /\ q.wake <= q.time THEN ext_fail(q)
      ELSE IF q.idle + 1 >= EXT_NODE_MAX_IDLE_STEPS THEN ext_fail(q)
      ELSE [q EXCEPT !.idle = @ + 1]
=============================================================================
