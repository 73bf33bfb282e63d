------------------------- MODULE CoSimulationProofs -------------------------
(***************************************************************************)
(* The clocks of Renode and csim, and the interrupt line between them, for *)
(* every number of motes and peers, every size of queue, every tick        *)
(* frequency and everything a peer may answer.                             *)
(***************************************************************************)
EXTENDS CoSimulation, SequenceTheorems, WellFoundedInduction, TLAPS

\* Leaves are first-order unless they cite SMT, for arithmetic and sequences.
USE Zenon

-----------------------------------------------------------------------------
(* The interrupt line.                                                     *)

Requests == {"tick", "access", "reset", "disconnect"}
Service == [ticks : Nat, base : Nat, owed : BOOLEAN, irq : BOOLEAN, logs : Int]
RenodeSide == [ticked : BOOLEAN, waits : BOOLEAN, line : BOOLEAN, crossed : BOOLEAN]

NoReset == \A i \in 1 .. Len(main) : main[i] # "reset"

\* The invariant behind LineFollows.  csim knows the level of the device
\* whenever no quantum is under way, and Renode's end of the line is what csim
\* sent last, but for a reset that is under way or crossed a level.
LInv ==
  /\ main \in Seq(Requests)
  /\ pc \in {"top", "recv", "pump", "exec", "end"}
  /\ svc \in Service /\ renode \in RenodeSide
  /\ pc \in {"pump", "exec"} => svc.owed
  /\ pc = "recv" => ~svc.owed
  /\ ~svc.owed => svc.irq = renode_dev_irq_level(dev)
  /\ ~renode.crossed /\ NoReset => renode.line = svc.irq

LEMMA LineInit == Init => LInv
  <1> SUFFICES ASSUME Init PROVE LInv
    OBVIOUS
  <1>1. PICK n \in Consoles : dev = renode_dev_reset(n)
    BY DEF Init
  <1>2. renode_dev_irq_level(dev) = FALSE
    BY <1>1 DEF renode_dev_irq_level, renode_dev_reset
  <1>3. main \in Seq(Requests) /\ pc = "top"
    BY SMT DEF Init
  <1>4. /\ svc = [ticks |-> 0, base |-> sim_ns, owed |-> FALSE, irq |-> FALSE, logs |-> 0]
        /\ sim_ns \in Nat
    BY DEF Init
  <1>5. renode = [ticked |-> FALSE, waits |-> FALSE, line |-> FALSE, crossed |-> FALSE]
    BY DEF Init
  <1>6. /\ svc \in Service
        /\ svc.irq = FALSE /\ svc.owed = FALSE
    BY SMT, <1>4 DEF Service
  <1>7. /\ renode \in RenodeSide
        /\ renode.line = FALSE
    BY <1>5 DEF RenodeSide
  <1> QED BY <1>2, <1>3, <1>6, <1>7 DEF LInv

\* What csim sends while it waits for Renode, or at the end of a quantum,
\* keeps its own record of the level and Renode's end of the line equal.
LEMMA Synced ==
  ASSUME NEW s \in Service,
         NEW r \in RenodeSide,
         NEW d
  PROVE  /\ Reported(s, d) \in Service
         /\ Reported(s, d).irq = renode_dev_irq_level(d)
         /\ Reported(s, d).owed = s.owed
         /\ Noticed(r, s, d) \in RenodeSide
         /\ \/ Noticed(r, s, d) = r /\ renode_dev_irq_level(d) = s.irq
            \/ Noticed(r, s, d).line = renode_dev_irq_level(d) /\ ~Noticed(r, s, d).crossed
  <1> DEFINE level == renode_dev_irq_level(d)
  <1>1. level \in BOOLEAN
    BY DEF renode_dev_irq_level
  <1> HIDE DEF level
  <1>2. Reported(s, d) = [s EXCEPT !.irq = level]
    BY DEF Reported, level
  <1>3. CASE level = s.irq
    <2>1. Noticed(r, s, d) = r
      BY <1>3 DEF Noticed, level
    <2> QED BY <1>1, <1>2, <1>3, <2>1 DEF level, Service
  <1>4. CASE level # s.irq
    <2>1. Noticed(r, s, d) = [r EXCEPT !.line = level, !.crossed = FALSE]
      BY <1>4 DEF Noticed, level
    <2> QED BY <1>1, <1>2, <2>1 DEF level, Service, RenodeSide
  <1> QED BY <1>3, <1>4

\* A console line moves neither the level csim sent nor the quantum it owes.
LEMMA LogKeeps ==
  ASSUME svc \in Service, NEW n, on_event(n)
  PROVE  /\ svc' \in Service /\ svc'.owed = svc.owed /\ svc'.irq = svc.irq
         /\ svc'.ticks = svc.ticks /\ svc'.base = svc.base
  <1>1. svc' = [svc EXCEPT !.logs = Least(svc.logs + 1, LogCap)]
    BY DEF on_event
  <1>2. Least(svc.logs + 1, LogCap) \in Int
    BY SMT, ClockAssumption DEF Least, Service
  <1> QED BY <1>1, <1>2 DEF Service

\* Requests that are sent and read.
LEMMA Sent ==
  ASSUME main \in Seq(Requests), NEW m \in Requests, main' = Append(main, m), NoReset'
  PROVE  NoReset /\ m # "reset"
  <1>1. /\ Len(main) \in Nat /\ Len(main') = Len(main) + 1 /\ main'[Len(main) + 1] = m
        /\ \A i \in 1 .. Len(main) : main'[i] = main[i]
    BY SMT
  <1> QED BY SMT, <1>1 DEF NoReset

LEMMA Read ==
  ASSUME main \in Seq(Requests), main # <<>>, main' = Tail(main)
  PROVE  /\ main' \in Seq(Requests)
         /\ NoReset' /\ Head(main) # "reset" => NoReset
  <1>1. /\ Len(main) \in Nat \ {0} /\ Len(main') = Len(main) - 1 /\ Head(main) = main[1]
        /\ \A i \in 1 .. Len(main) - 1 : main'[i] = main[i + 1]
        /\ main' \in Seq(Requests)
    BY SMT
  <1>2. SUFFICES ASSUME NoReset', Head(main) # "reset", NEW i \in 1 .. Len(main)
                 PROVE  main[i] # "reset"
    BY <1>1 DEF NoReset
  <1>3. CASE i = 1
    BY <1>1, <1>2, <1>3
  <1>4. CASE i # 1
    <2>1. i - 1 \in 1 .. Len(main) - 1 /\ main'[i - 1] = main[i]
      BY SMT, <1>1, <1>4
    <2> QED BY <1>1, <1>2, <2>1 DEF NoReset
  <1> QED BY <1>3, <1>4

\* Renode's own steps.
LEMMA MasterKeepsLine ==
  ASSUME LInv, Master
  PROVE  LInv'
  <1>1. UNCHANGED <<pc, svc, dev>> /\ renode_dev_irq_level(dev') = renode_dev_irq_level(dev)
    BY DEF Master, MasterTicks, MasterAccesses, MasterResets, MasterDisconnects, Send,
           csim
  <1>2. CASE MasterTicks
    <2>1. main' = Append(main, "tick") /\ renode' = [renode EXCEPT !.ticked = TRUE]
      BY <1>2 DEF MasterTicks, Send
    <2>2. main' \in Seq(Requests) /\ (NoReset' => NoReset)
      BY SMT, <2>1, Sent DEF LInv, Requests
    <2>3. renode' \in RenodeSide /\ renode'.line = renode.line /\ renode'.crossed = renode.crossed
      BY <2>1 DEF LInv, RenodeSide
    <2> QED BY <1>1, <2>2, <2>3 DEF LInv
  <1>3. CASE MasterAccesses
    <2>1. main' = Append(main, "access") /\ renode' = [renode EXCEPT !.waits = TRUE]
      BY <1>3 DEF MasterAccesses, Send
    <2>2. main' \in Seq(Requests) /\ (NoReset' => NoReset)
      BY SMT, <2>1, Sent DEF LInv, Requests
    <2>3. renode' \in RenodeSide /\ renode'.line = renode.line /\ renode'.crossed = renode.crossed
      BY <2>1 DEF LInv, RenodeSide
    <2> QED BY <1>1, <2>2, <2>3 DEF LInv
  <1>4. CASE MasterResets
    <2>1. main' = Append(main, "reset") /\ renode' = [renode EXCEPT !.line = FALSE]
      BY <1>4 DEF MasterResets, Send
    <2>2. main' \in Seq(Requests) /\ ~NoReset'
      BY SMT, <2>1, Sent DEF LInv, Requests
    <2>3. renode' \in RenodeSide
      BY <2>1 DEF LInv, RenodeSide
    <2> QED BY <1>1, <2>2, <2>3 DEF LInv
  <1>5. CASE MasterDisconnects
    <2>1. main' = Append(main, "disconnect") /\ renode' = renode
      BY <1>5 DEF MasterDisconnects, Send
    <2> QED BY SMT, <1>1, <2>1, Sent DEF LInv, Requests
  <1> QED BY <1>2, <1>3, <1>4, <1>5 DEF Master

\* The end of a quantum.
LEMMA HorizonKeepsLine ==
  ASSUME LInv, NextHorizon
  PROVE  LInv'
  <1>1. pc = "top" /\ pc' = "recv" /\ main' = main
    BY DEF NextHorizon
  <1>2. CASE ~svc.owed
    <2>1. UNCHANGED <<dev, svc, renode>>
      BY <1>2 DEF NextHorizon
    <2> QED BY <1>1, <1>2, <2>1 DEF LInv, NoReset
  <1>3. CASE svc.owed
    <2>1. PICK n \in Taken :
            LET d == renode_dev_uart_retry(dev, n)
            IN  /\ dev' = d
                /\ svc' = [Reported(svc, d) EXCEPT !.logs = 0, !.owed = FALSE]
                /\ renode' = [Noticed(renode, svc, d) EXCEPT !.ticked = FALSE]
      BY <1>3 DEF NextHorizon, SettleQuantum
    <2> DEFINE s == Reported(svc, dev')
               r == Noticed(renode, svc, dev')
    <2>2. svc' = [s EXCEPT !.logs = 0, !.owed = FALSE] /\ renode' = [r EXCEPT !.ticked = FALSE]
      BY <2>1
    <2>3. /\ s \in Service /\ s.irq = renode_dev_irq_level(dev') /\ r \in RenodeSide
          /\ \/ r = renode /\ renode_dev_irq_level(dev') = svc.irq
             \/ r.line = renode_dev_irq_level(dev') /\ ~r.crossed
      <3>1. svc \in Service /\ renode \in RenodeSide
        BY DEF LInv
      <3> QED BY <3>1, Synced
    <2> HIDE DEF s, r
    <2>4. svc' \in Service /\ svc'.irq = s.irq /\ svc'.owed = FALSE
      <3>1. svc' = [ticks |-> s.ticks, base |-> s.base, owed |-> FALSE, irq |-> s.irq, logs |-> 0]
        BY <2>2, <2>3 DEF Service
      <3> QED BY SMT, <2>3, <3>1 DEF Service
    <2>5. renode' \in RenodeSide /\ renode'.line = r.line /\ renode'.crossed = r.crossed
      BY <2>2, <2>3 DEF RenodeSide
    <2> QED BY <1>1, <2>3, <2>4, <2>5 DEF LInv, NoReset
  <1> QED BY <1>2, <1>3

\* An access, once the device has changed, is answered and the level synced.
LEMMA AccessKeepsLine ==
  ASSUME LInv, pc = "recv", pc' = pc, main # <<>>, main' = Tail(main), Head(main) = "access",
         svc' = Reported(svc, dev'), renode' = Answered(Noticed(renode, svc, dev'))
  PROVE  LInv'
  <1> DEFINE r == Noticed(renode, svc, dev')
  <1>1. /\ svc' \in Service /\ svc'.irq = renode_dev_irq_level(dev') /\ svc'.owed = svc.owed /\ r \in RenodeSide
        /\ \/ r = renode /\ renode_dev_irq_level(dev') = svc.irq
           \/ r.line = renode_dev_irq_level(dev') /\ ~r.crossed
    <2>1. svc \in Service /\ renode \in RenodeSide
      BY DEF LInv
    <2> QED BY <2>1, Synced
  <1>2. renode' = [r EXCEPT !.waits = FALSE]
    BY DEF Answered
  <1> HIDE DEF r
  <1>3. renode' \in RenodeSide /\ renode'.line = r.line /\ renode'.crossed = r.crossed
    BY <1>1, <1>2 DEF RenodeSide
  <1>4. main' \in Seq(Requests) /\ (NoReset' => NoReset)
    BY Read DEF LInv
  <1> QED BY <1>1, <1>3, <1>4 DEF LInv

\* Requests.
LEMMA RequestKeepsLine ==
  ASSUME LInv, handle_request
  PROVE  LInv'
  <1>1. pc = "recv" /\ main # <<>> /\ main' = Tail(main)
    BY DEF handle_request
  <1>2. main' \in Seq(Requests) /\ (NoReset' /\ Head(main) # "reset" => NoReset)
    BY <1>1, Read DEF LInv
  <1>3. CASE Head(main) = "tick" /\ HandleTick
    <2>1. UNCHANGED <<dev, renode>>
      BY <1>3 DEF HandleTick
    <2>2. CASE svc' = svc /\ pc' = "end"
      BY <1>2, <1>3, <2>1, <2>2 DEF LInv
    <2>3. ASSUME NEW v \in Ticks, svc' = [svc EXCEPT !.ticks = svc.ticks + v, !.owed = TRUE], pc' = "pump"
          PROVE  LInv'
      <3>1. svc' \in Service /\ svc'.owed /\ svc'.irq = svc.irq
        <4>1. svc' = [ticks |-> svc.ticks + v, base |-> svc.base, owed |-> TRUE,
                      irq |-> svc.irq, logs |-> svc.logs]
          BY <2>3 DEF LInv, Service
        <4>2. svc \in Service /\ v \in Nat
          BY ClockAssumption DEF LInv
        <4> QED BY SMT, <4>1, <4>2 DEF Service
      <3> QED BY <1>2, <1>3, <2>1, <2>3, <3>1 DEF LInv
    <2> QED BY <1>3, <2>2, <2>3 DEF HandleTick
  <1>4. CASE Head(main) = "access" /\ HandleRead
    <2>1. pc' = pc /\ svc' = Reported(svc, dev') /\ renode' = Answered(Noticed(renode, svc, dev'))
      BY <1>4 DEF HandleRead
    <2> QED BY <1>1, <1>4, <2>1, AccessKeepsLine
  <1>5. CASE Head(main) = "access" /\ HandleWrite
    <2>1. pc' = pc /\ svc' = Reported(svc, dev') /\ renode' = Answered(Noticed(renode, svc, dev'))
      BY <1>5 DEF HandleWrite
    <2> QED BY <1>1, <1>5, <2>1, AccessKeepsLine
  <1>6. CASE Head(main) = "reset" /\ HandleReset
    <2>1. /\ pc' = pc /\ svc' = [svc EXCEPT !.irq = FALSE]
          /\ renode' = [renode EXCEPT !.crossed = renode.line]
          /\ dev' = renode_dev_reset(dev.uart_node)
      BY <1>6 DEF HandleReset
    <2>2. renode_dev_irq_level(dev') = FALSE
      BY <2>1 DEF renode_dev_irq_level, renode_dev_reset
    <2>3. svc' \in Service /\ svc'.irq = FALSE /\ svc'.owed = svc.owed
      BY <2>1 DEF LInv, Service
    <2>4. /\ renode' \in RenodeSide /\ renode'.line = renode.line
          /\ renode'.crossed = renode.line /\ renode.line \in BOOLEAN
      BY <2>1 DEF LInv, RenodeSide
    <2> QED BY <1>2, <2>1, <2>2, <2>3, <2>4 DEF LInv
  <1>7. CASE Head(main) = "disconnect" /\ HandleDisconnect
    BY <1>2, <1>7 DEF LInv, HandleDisconnect
  <1> QED BY <1>3, <1>4, <1>5, <1>6, <1>7 DEF handle_request

\* The quantum.
LEMMA QuantumKeepsLine ==
  ASSUME LInv, Dispatch \/ Exchange
  PROVE  LInv'
  <1>1. svc.owed /\ UNCHANGED <<main, renode>> /\ pc' \in {"pump", "exec"}
    BY DEF LInv, Dispatch, MoteRuns, PeerRuns, Exchange
  <1>2. svc' = svc \/ \E n : on_event(n)
    BY DEF Dispatch, MoteRuns, PeerRuns, Exchange, PeerTransmits, PeerPrints, PeerIsQuiet
  <1>3. svc' \in Service /\ svc'.owed = svc.owed /\ svc'.irq = svc.irq
    BY <1>2, LogKeeps DEF LInv
  <1> QED BY <1>1, <1>3 DEF LInv, NoReset

LEMMA LineStep == LInv /\ [Next]_vars => LInv'
  <1> SUFFICES ASSUME LInv, [Next]_vars PROVE LInv'
    OBVIOUS
  <1>1. CASE UNCHANGED vars
    BY <1>1 DEF LInv, NoReset, vars, csim, clock, nodes
  <1>2. CASE PumpReturns \/ Stopped \/ ExecuteReturns \/ MasterLost
    BY <1>2 DEF LInv, NoReset, PumpReturns, Stopped, ExecuteReturns, MasterLost
  <1> QED BY <1>1, <1>2, MasterKeepsLine, HorizonKeepsLine, RequestKeepsLine, QuantumKeepsLine
          DEF Next, Csim, Ended

\* Whenever csim waits for Renode with nothing to read, Renode sees the level
\* of the device, unless a reset crossed it (sync_irq sends only changes, and
\* a reset changes the level without a message).
THEOREM LineIsFollowed == Spec => []LineFollows
  <1>1. LInv => LineFollows
    BY SMT DEF LInv, LineFollows, NoReset
  <1> QED BY <1>1, LineInit, LineStep, PTL DEF Spec

-----------------------------------------------------------------------------
(* The boundaries.                                                         *)

\* Division and remainder.
LEMMA Division ==
  ASSUME NEW a \in Nat, NEW b \in Nat \ {0}
  PROVE  /\ a \div b \in Nat /\ a % b \in Nat
         /\ a = (a \div b) * b + (a % b)
         /\ (a \div b) * b <= a /\ a < (a \div b) * b + b
  BY SMT

\* e nanoseconds are t ticks rounded down.
Rounded(e, t) == e * FreqHz <= t * Second /\ t * Second < (e + 1) * FreqHz

\* horizon_for rounds the ticks down once, however FreqHz divides the second.
LEMMA HorizonRounds ==
  ASSUME NEW t \in Nat, svc.base \in Int
  PROVE  /\ horizon_for(t) \in Int
         /\ Rounded(horizon_for(t) - svc.base, t)
  <1> DEFINE q == t \div FreqHz
             r == t % FreqHz
             rs == r * Second
             d == rs \div FreqHz
  <1>1. FreqHz \in Nat \ {0} /\ Second \in Nat \ {0}
    BY ClockAssumption
  <1>2. q \in Nat /\ r \in Nat /\ t = q * FreqHz + r
    BY <1>1, Division
  <1>3. rs \in Nat
    BY SMT, <1>1, <1>2
  <1> HIDE DEF rs
  <1>4. d \in Nat /\ d * FreqHz <= rs /\ rs < d * FreqHz + FreqHz
    BY <1>1, <1>3, Division
  <1>5. horizon_for(t) = svc.base + q * Second + d
    BY DEF horizon_for, rs
  <1> HIDE DEF q, r, d
  <1>6. t * Second = q * Second * FreqHz + rs
    BY SMT, <1>1, <1>2 DEF rs
  <1>7. (q * Second + d) * FreqHz = q * Second * FreqHz + d * FreqHz
    BY SMT, <1>1, <1>2, <1>4
  <1>8. (q * Second + d + 1) * FreqHz = q * Second * FreqHz + d * FreqHz + FreqHz
    BY SMT, <1>1, <1>2, <1>4
  <1>9. q * Second \in Nat /\ horizon_for(t) \in Int
        /\ horizon_for(t) - svc.base = q * Second + d
    BY SMT, <1>1, <1>2, <1>4, <1>5
  <1> QED
    BY SMT, <1>1, <1>2, <1>3, <1>4, <1>6, <1>7, <1>8, <1>9 DEF Rounded

\* A tick that is in range leads to a time that is.
LEMMA HorizonBounded ==
  ASSUME NEW t \in Nat, svc.base \in Int, ticks_in_range(t)
  PROVE  horizon_for(t) <= MaxTime
  <1> DEFINE q == t \div FreqHz
             r == t % FreqHz
             rs == r * Second
             d == rs \div FreqHz
             room == MaxTime - svc.base
             k == room \div Second
  <1>1. FreqHz \in Nat \ {0} /\ Second \in Nat \ {0} /\ MaxTime \in Nat
    BY ClockAssumption
  <1>2. q \in Nat /\ r \in Nat /\ r < FreqHz
    BY SMT, <1>1
  <1>3. rs \in Nat /\ rs < Second * FreqHz
    <2>1. FreqHz - r \in Nat \ {0}
      BY SMT, <1>1, <1>2
    <2> DEFINE c == FreqHz - r
    <2> HIDE DEF c, r
    <2>2. c * Second \in Nat \ {0}
      BY SMT, <1>1, <2>1 DEF c
    <2>3. r * Second \in Nat
      BY SMT, <1>1, <1>2
    <2>4. Second * FreqHz = r * Second + c * Second
      BY SMT, <1>1, <1>2 DEF c
    <2> QED BY SMT, <2>2, <2>3, <2>4
  <1> HIDE DEF rs, r
  <1>4. d \in Nat /\ d < Second
    <2>1. d \in Nat /\ d * FreqHz <= rs
      BY <1>1, <1>3, Division
    <2> HIDE DEF d
    <2>2. SUFFICES ASSUME d >= Second PROVE FALSE
      BY SMT, <1>1, <2>1
    <2>3. (d - Second) * FreqHz \in Nat
      BY SMT, <1>1, <2>1, <2>2
    <2>4. d * FreqHz = Second * FreqHz + (d - Second) * FreqHz /\ Second * FreqHz \in Nat
      BY SMT, <1>1, <2>1
    <2> QED BY SMT, <1>3, <2>1, <2>3, <2>4
  <1>5. room \in Int /\ k \in Int /\ k * Second <= room
    BY SMT, <1>1
  <1>6. q + 1 <= k
    BY SMT, <1>2, <1>5 DEF ticks_in_range
  <1> HIDE DEF d, q, k
  <1>7. (q + 1) * Second <= k * Second
    <2>1. (k - (q + 1)) * Second \in Nat
      BY SMT, <1>1, <1>2, <1>5, <1>6
    <2>2. k * Second = (q + 1) * Second + (k - (q + 1)) * Second /\ (q + 1) * Second \in Int
      BY SMT, <1>1, <1>2, <1>5
    <2> QED BY SMT, <2>1, <2>2
  <1>8. (q + 1) * Second = q * Second + Second /\ q * Second \in Nat /\ k * Second \in Int
    BY SMT, <1>1, <1>2, <1>5
  <1>9. horizon_for(t) = svc.base + q * Second + d
    BY DEF horizon_for, rs, r, d, q
  <1> QED BY SMT, <1>1, <1>4, <1>5, <1>7, <1>8, <1>9

\* The next boundary is right, and not before the present one.
LEMMA NextRounds ==
  ASSUME NEW e \in Int, NEW h \in Int, NEW t \in Nat, NEW v \in Nat,
         Rounded(e, t), Rounded(h, t + v)
  PROVE  Rounded(Latest(h, e), t + v)
  <1>1. FreqHz \in Nat \ {0} /\ Second \in Nat \ {0}
    BY ClockAssumption
  <1>2. CASE h >= e
    BY <1>2 DEF Latest
  <1>3. CASE ~(h >= e)
    <2>1. t * Second <= (t + v) * Second
      <3>1. (t + v) * Second = t * Second + v * Second /\ v * Second \in Nat /\ t * Second \in Nat
        BY SMT, <1>1
      <3> QED BY SMT, <3>1
    <2>2. (h + 1) * FreqHz <= (e + 1) * FreqHz
      <3>1. e - h \in Nat /\ (e - h) * FreqHz \in Nat
        BY SMT, <1>1, <1>3
      <3>2. (e + 1) * FreqHz = (h + 1) * FreqHz + (e - h) * FreqHz /\ (h + 1) * FreqHz \in Int
        BY SMT, <1>1
      <3> QED BY SMT, <3>1, <3>2
    <2>3. /\ e * FreqHz \in Int /\ t * Second \in Int /\ (t + v) * Second \in Int
          /\ (h + 1) * FreqHz \in Int /\ (e + 1) * FreqHz \in Int
      BY SMT, <1>1
    <2>4. e * FreqHz <= t * Second /\ (t + v) * Second < (h + 1) * FreqHz
      BY DEF Rounded
    <2>5. e * FreqHz <= (t + v) * Second /\ (t + v) * Second < (e + 1) * FreqHz
      BY SMT, <2>1, <2>2, <2>3, <2>4
    <2> QED BY <1>3, <2>5 DEF Rounded, Latest
  <1> QED BY <1>2, <1>3

-----------------------------------------------------------------------------
(* The peers.                                                              *)

Peer == [time : Int, wake : Int, rx : Seq(Int), failed : BOOLEAN, idle : Int]
Output == [type : {"none", "wake", "tx", "log"}, t : Int]
Reply == [wake : Int, t : Int, out : Output]

LEMMA Extremes ==
  \A a, b \in Int : /\ Least(a, b) \in Int /\ Least(a, b) <= a /\ Least(a, b) <= b
                    /\ Least(a, b) \in {a, b}
                    /\ Latest(a, b) \in Int /\ Latest(a, b) >= a /\ Latest(a, b) >= b
                    /\ Latest(a, b) \in {a, b}
  BY SMT DEF Least, Latest

LEMMA ReplyType ==
  ASSUME NEW reply \in Reply
  PROVE  reply.wake \in Int /\ reply.t \in Int /\ reply.out \in Output /\ reply.out.t \in Int
  <1>1. reply.wake \in Int /\ reply.t \in Int /\ reply.out \in Output
    BY DEF Reply
  <1>2. \A o \in Output : o.t \in Int
    BY DEF Output
  <1> QED BY <1>1, <1>2

LEMMA NextEventType ==
  ASSUME NEW p \in Peer
  PROVE  /\ NextEvent(p) \in Int /\ ext_node_next_wakeup_ns(p) \in Int
         /\ ~p.failed => ext_node_next_wakeup_ns(p) = NextEvent(p)
  <1>1. Never \in Int
    BY SMT, ClockAssumption
  <1>2. p.wake \in Int /\ p.rx \in Seq(Int)
    BY DEF Peer
  <1>3. CASE p.rx = <<>>
    BY <1>1, <1>2, <1>3 DEF NextEvent, ext_node_next_wakeup_ns
  <1>4. CASE p.rx # <<>>
    <2>1. Head(p.rx) \in Int
      BY SMT, <1>2, <1>4
    <2> QED BY <1>1, <1>2, <1>4, <2>1, Extremes DEF NextEvent, ext_node_next_wakeup_ns
  <1> QED BY <1>3, <1>4

\* A frame that is queued makes the peer's next event its arrival at the
\* earliest.
LEMMA DeliverKeeps ==
  ASSUME NEW p \in Peer, NEW at \in Int
  PROVE  LET q == ext_node_deliver_frame(p, at)
         IN  /\ q \in Peer /\ q.time = p.time /\ q.failed = p.failed
             /\ \/ ext_node_next_wakeup_ns(q) = ext_node_next_wakeup_ns(p)
                \/ ext_node_next_wakeup_ns(q) = Least(ext_node_next_wakeup_ns(p), at)
  <1> DEFINE q == ext_node_deliver_frame(p, at)
  <1>1. CASE p.failed \/ Len(p.rx) >= EXT_NODE_RX_QUEUE
    BY <1>1 DEF ext_node_deliver_frame
  <1>2. CASE ~(p.failed \/ Len(p.rx) >= EXT_NODE_RX_QUEUE)
    <2>1. q = [p EXCEPT !.rx = Append(p.rx, at)]
      BY <1>2 DEF ext_node_deliver_frame
    <2>2. p.rx \in Seq(Int) /\ p.wake \in Int /\ Append(p.rx, at) \in Seq(Int) /\ Append(p.rx, at) # <<>>
      BY SMT DEF Peer
    <2>3. /\ q \in Peer /\ q.time = p.time /\ q.failed = p.failed /\ q.wake = p.wake
          /\ q.rx = Append(p.rx, at)
      BY <2>1, <2>2 DEF Peer
    <2> HIDE DEF q
    <2>4. CASE p.rx = <<>>
      <3>1. Head(q.rx) = at /\ q.rx # <<>>
        BY SMT, <2>2, <2>3, <2>4
      <3> QED BY <1>2, <2>3, <2>4, <3>1 DEF ext_node_next_wakeup_ns, NextEvent, q
    <2>5. CASE p.rx # <<>>
      <3>1. Head(q.rx) = Head(p.rx) /\ q.rx # <<>>
        BY SMT, <2>2, <2>3, <2>5
      <3> QED BY <1>2, <2>3, <2>5, <3>1 DEF ext_node_next_wakeup_ns, NextEvent, q
    <2> QED BY <2>4, <2>5
  <1> QED BY <1>1, <1>2

\* The frames that have arrived are a prefix of the queue.
LEMMA ArrivedRange ==
  ASSUME NEW rx \in Seq(Int), NEW when \in Int
  PROVE  Arrived(rx, when) \in 0 .. Len(rx)
  <1> DEFINE Late == {k \in 1 .. Len(rx) : rx[k] > when}
  <1>1. Len(rx) \in Nat /\ \A i \in 1 .. Len(rx) : rx[i] \in Int
    BY SMT
  <1>2. \E k \in 0 .. Len(rx) :
          /\ \A i \in 1 .. k : rx[i] <= when
          /\ k < Len(rx) => rx[k + 1] > when
    <2>1. CASE Late = {}
      <3>1. \A i \in 1 .. Len(rx) : rx[i] <= when
        BY SMT, <1>1, <2>1
      <3> QED BY SMT, <1>1, <3>1
    <2>2. CASE Late # {}
      <3>1. Late \subseteq Nat
        BY SMT, <1>1
      <3>2. PICK m \in Late : \A y \in Late : <<y, m>> \notin OpToRel(<, Nat)
        <4> HIDE DEF Late
        <4> QED BY <2>2, <3>1, NatLessThanWellFounded, WFMin
      <3>3. \A y \in Late : ~(y < m)
        BY <3>1, <3>2 DEF OpToRel
      <3>4. /\ m - 1 \in 0 .. Len(rx) /\ m \in 1 .. Len(rx)
            /\ \A i \in 1 .. m - 1 : rx[i] <= when
            /\ rx[(m - 1) + 1] > when
        BY SMT, <1>1, <3>3
      <3> QED BY <3>4
    <2> QED BY <2>1, <2>2
  <1> QED BY <1>2 DEF Arrived

LEMMA FailKeeps ==
  ASSUME NEW p \in Peer
  PROVE  ext_fail(p) \in Peer /\ ext_fail(p).time = p.time
  <1>1. Never \in Int
    BY SMT, ClockAssumption
  <1> QED BY <1>1 DEF ext_fail, Peer

LEMMA CountKeeps ==
  ASSUME NEW p \in Peer
  PROVE  /\ [p EXCEPT !.idle = 0] \in Peer /\ [p EXCEPT !.idle = 0].time = p.time
         /\ [p EXCEPT !.idle = @ + 1] \in Peer /\ [p EXCEPT !.idle = @ + 1].time = p.time
  BY SMT DEF Peer

LEMMA OutputKeeps ==
  ASSUME NEW p \in Peer, NEW ev \in Output, NEW start \in Int
  PROVE  LET q == apply_out_event(p, ev, start) IN q \in Peer /\ q.time = p.time
  <1>1. CASE ev.t # Absent /\ ev.t < start
    BY <1>1, FailKeeps DEF apply_out_event
  <1>2. CASE ~(ev.t # Absent /\ ev.t < start) /\ ev.type = "wake" /\ ev.t # Absent
    <2>1. apply_out_event(p, ev, start) = [p EXCEPT !.wake = Least(p.wake, ev.t)]
      BY <1>2 DEF apply_out_event
    <2>2. Least(p.wake, ev.t) \in Int
      <3>1. p.wake \in Int /\ ev.t \in Int
        BY DEF Peer, Output
      <3> QED BY <3>1, Extremes
    <2> QED BY <2>1, <2>2 DEF Peer
  <1>3. CASE ~(ev.t # Absent /\ ev.t < start) /\ ~(ev.type = "wake" /\ ev.t # Absent)
    BY <1>3 DEF apply_out_event
  <1> QED BY <1>1, <1>2, <1>3

\* A reply takes the peer no further than it was asked to go.
LEMMA DoneKeeps ==
  ASSUME NEW p \in Peer, NEW start \in Int, NEW step \in Int, NEW end \in Int,
         NEW reply \in Reply, p.time <= end, step <= end
  PROVE  LET q == consume_done(p, start, step, reply) IN q \in Peer /\ q.time <= end
  <1>1. CASE reply = NoReply
    BY <1>1, FailKeeps DEF consume_done
  <1>2. CASE reply # NoReply
    <2> DEFINE a == [p EXCEPT !.wake = reply.wake]
               o == apply_out_event(a, reply.out, start)
               reached == IF reply.t \in start .. step THEN reply.t ELSE step
    <2>1. a \in Peer /\ a.time = p.time
      BY DEF Peer, Reply
    <2>2. o \in Peer /\ o.time = p.time
      <3>1. reply.out \in Output
        BY DEF Reply
      <3> HIDE DEF a
      <3> QED BY <2>1, <3>1, OutputKeeps
    <2>3. reached \in Int /\ reached <= end
      BY SMT DEF Reply
    <2>4. consume_done(p, start, step, reply)
            = IF reply.t = NoTime THEN ext_fail(o)
              ELSE [o EXCEPT !.time = reached, !.wake = Latest(@, reached)]
      BY <1>2 DEF consume_done
    <2> HIDE DEF a, o, reached
    <2>5. CASE reply.t = NoTime
      BY <2>2, <2>4, <2>5, FailKeeps
    <2>6. CASE reply.t # NoTime
      <3>1. o.wake \in Int /\ Latest(o.wake, reached) \in Int
        BY <2>2, <2>3, Extremes DEF Peer
      <3>2. consume_done(p, start, step, reply)
              = [time |-> reached, wake |-> Latest(o.wake, reached), rx |-> o.rx,
                 failed |-> o.failed, idle |-> o.idle]
        BY <2>2, <2>4, <2>6 DEF Peer
      <3> QED BY SMT, <2>2, <2>3, <3>1, <3>2 DEF Peer
    <2> QED BY <2>5, <2>6
  <1> QED BY <1>1, <1>2

LEMMA StepKeeps ==
  ASSUME NEW p \in Peer, NEW end \in Int, NEW reply \in Reply,
         p.time <= end, NextEvent(p) <= end
  PROVE  Step(p, reply) \in Peer /\ Step(p, reply).time <= end
  <1> DEFINE when == NextEvent(p)
             n == Arrived(p.rx, when)
             rest == SubSeq(p.rx, n + 1, Len(p.rx))
             asked == [p EXCEPT !.wake = Never, !.rx = rest, !.time = Latest(@, when)]
             q == consume_done(asked, p.time, when, reply)
  <1>1. when \in Int /\ when <= end
    BY NextEventType
  <1>2. p.rx \in Seq(Int) /\ p.time \in Int /\ Never \in Int
    BY SMT, ClockAssumption DEF Peer
  <1>3. rest \in Seq(Int)
    <2>1. n \in 0 .. Len(p.rx) /\ Len(p.rx) \in Nat
      <3>1. Len(p.rx) \in Nat
        BY SMT, <1>2
      <3> HIDE DEF when
      <3> QED BY <1>1, <1>2, <3>1, ArrivedRange DEF n
    <2> HIDE DEF n
    <2> QED BY SMT, <1>2, <2>1, SubSeqProperties
  <1>4. asked \in Peer /\ asked.time <= end
    <2> HIDE DEF rest, when
    <2>1. Latest(p.time, when) \in Int /\ Latest(p.time, when) <= end
      BY <1>1, <1>2, Extremes
    <2> QED BY <1>2, <1>3, <2>1 DEF Peer
  <1>5. q \in Peer /\ q.time <= end
    <2> HIDE DEF asked, when
    <2> QED BY <1>1, <1>2, <1>4, DoneKeeps
  <1>6. Step(p, reply) \in {q, ext_fail(q), [q EXCEPT !.idle = 0], [q EXCEPT !.idle = @ + 1]}
    BY DEF Step
  <1> HIDE DEF q
  <1>7. ext_fail(q) \in Peer /\ ext_fail(q).time = q.time
    BY <1>5, FailKeeps
  <1>8. /\ [q EXCEPT !.idle = 0] \in Peer /\ [q EXCEPT !.idle = 0].time = q.time
        /\ [q EXCEPT !.idle = @ + 1] \in Peer /\ [q EXCEPT !.idle = @ + 1].time = q.time
    BY <1>5, CountKeeps
  <1> QED BY <1>5, <1>6, <1>7, <1>8

-----------------------------------------------------------------------------
(* The clocks.                                                             *)

\* csim waits for Renode, or is about to for the first time.
Idle == pc = "recv" \/ (pc = "top" /\ ~svc.owed)

Shape ==
  /\ now \in Int /\ sim_ns \in Int /\ stop \in BOOLEAN
  /\ wakes \in [Slots -> Int] /\ peers \in [Peers -> Peer]
  /\ running \in Peers \cup {None} /\ (pc = "exec" <=> running # None)

\* csim's clock is not ahead of the boundary, and the boundary is the time of
\* the ticks.
Clock ==
  /\ now <= sim_ns /\ sim_ns <= MaxTime /\ (pc = "recv" => now = sim_ns)
  /\ Rounded(sim_ns - svc.base, svc.ticks)

\* Only the peer that runs can have failed unnoticed.
Failures ==
  /\ pc = "recv" => ~stop
  /\ Idle => svc.logs = 0
  /\ \A p \in Peers : peers[p].time <= sim_ns /\ (peers[p].failed => stop \/ running = p)

\* The wakeups lie where the loop stands, ...
Wakeups ==
  /\ Idle => \A n \in Slots : wakes[n] >= sim_ns
  /\ pc = "top" /\ svc.owed /\ ~stop => \A n \in Slots : wakes[n] > sim_ns
  /\ pc = "exec" => \A n \in Slots : wakes[n] >= now

\* ... and every peer that does not run will be woken in time: not after the
\* next thing it waits for, or else (a frame reached it that began before its
\* sender's slice ended) at this very instant, before the clock moves on.
InTime(p) ==
  \/ wakes[p] <= ext_node_next_wakeup_ns(peers[p])
  \/ svc.owed /\ wakes[p] <= now /\ \A m \in Slots : wakes[p] <= wakes[m]

Punctual == \A p \in Peers : running # p => InTime(p)

\* The invariant behind Lockstep.
KInv == Shape /\ Clock /\ Failures /\ Wakeups /\ Punctual

LEMMA ClockInit == Init => KInv
  <1> SUFFICES ASSUME Init PROVE KInv
    OBVIOUS
  <1>1. /\ now = 0 /\ sim_ns = 0 /\ wakes = [n \in Slots |-> 0]
        /\ running = None /\ stop = FALSE /\ pc = "top"
        /\ svc = [ticks |-> 0, base |-> 0, owed |-> FALSE, irq |-> FALSE, logs |-> 0]
    BY DEF Init
  <1>2. svc.ticks = 0 /\ svc.base = 0 /\ svc.owed = FALSE /\ svc.logs = 0
    BY <1>1
  <1>3. \A p \in Peers : \E w \in Nat : peers[p] = ext_node_start(w)
    <2>1. 0 .. MaxNap \cup {Never} \subseteq Nat
      BY SMT, ClockAssumption
    <2> QED BY <2>1 DEF Init
  <1>4. \A w \in Nat : LET p == ext_node_start(w)
                      IN  /\ p \in Peer /\ ~p.failed /\ p.time = 0
                          /\ ext_node_next_wakeup_ns(p) = w
    <2> SUFFICES ASSUME NEW w \in Nat, NEW p, p = ext_node_start(w)
                 PROVE  /\ p \in Peer /\ ~p.failed /\ p.time = 0
                        /\ ext_node_next_wakeup_ns(p) = w
      OBVIOUS
    <2>1. /\ p \in Peer /\ p.failed = FALSE /\ p.time = 0 /\ p.wake = w /\ p.rx = <<>>
      BY SMT DEF ext_node_start, Peer
    <2> QED BY <2>1 DEF ext_node_next_wakeup_ns, NextEvent
  <1>5. peers \in [Peers -> Peer]
    <2>1. DOMAIN peers = Peers /\ peers = [p \in Peers |-> peers[p]]
      BY DEF Init
    <2> QED BY <1>3, <1>4, <2>1
  <1>6. Shape
    <2>1. wakes \in [Slots -> Int] /\ now \in Int /\ sim_ns \in Int
      BY SMT, <1>1
    <2>2. stop \in BOOLEAN /\ running \in Peers \cup {None} /\ pc # "exec" /\ running = None
      BY <1>1
    <2> QED BY <1>5, <2>1, <2>2 DEF Shape
  <1>7. Clock
    BY SMT, <1>1, <1>2, ClockAssumption DEF Clock, Rounded
  <1>8. Failures
    BY SMT, <1>1, <1>2, <1>3, <1>4 DEF Failures
  <1>9. Wakeups
    BY SMT, <1>1, <1>2 DEF Wakeups, Idle
  <1>10. Punctual
    BY SMT, <1>1, <1>3, <1>4 DEF Punctual, InTime, Slots
  <1> QED BY <1>6, <1>7, <1>8, <1>9, <1>10 DEF KInv

\* What frames do to the peers that hear them, and to their wakeups.
LEMMA Hearing ==
  ASSUME peers \in [Peers -> Peer], NEW heard \in SUBSET Peers, NEW at \in Int
  PROVE  /\ Delivered(heard, at) \in [Peers -> Peer]
         /\ \A p \in Peers :
              LET q == Delivered(heard, at)[p]
              IN  /\ q.time = peers[p].time /\ q.failed = peers[p].failed
                  /\ \/ ext_node_next_wakeup_ns(q) = ext_node_next_wakeup_ns(peers[p])
                     \/ /\ p \in heard
                        /\ ext_node_next_wakeup_ns(q)
                             = Least(ext_node_next_wakeup_ns(peers[p]), at)
  <1>1. \A p \in Peers : peers[p] \in Peer
    OBVIOUS
  <1>2. \A p \in Peers : ext_node_deliver_frame(peers[p], at) \in Peer
    BY <1>1, DeliverKeeps
  <1>3. Delivered(heard, at) \in [Peers -> Peer]
    BY <1>1, <1>2 DEF Delivered
  <1>4. ASSUME NEW p \in Peers
        PROVE  LET q == Delivered(heard, at)[p]
               IN  /\ q.time = peers[p].time /\ q.failed = peers[p].failed
                   /\ \/ ext_node_next_wakeup_ns(q) = ext_node_next_wakeup_ns(peers[p])
                      \/ /\ p \in heard
                         /\ ext_node_next_wakeup_ns(q)
                              = Least(ext_node_next_wakeup_ns(peers[p]), at)
    <2>1. CASE p \in heard
      <3>1. Delivered(heard, at)[p] = ext_node_deliver_frame(peers[p], at)
        BY <2>1 DEF Delivered
      <3>2. peers[p] \in Peer
        BY <1>1
      <3> QED BY SMT, <2>1, <3>1, <3>2, DeliverKeeps
    <2>2. CASE p \notin heard
      BY <2>2 DEF Delivered
    <2> QED BY <2>1, <2>2
  <1> QED BY <1>3, <1>4

LEMMA Waking ==
  ASSUME NEW pending \in [Slots -> Int], NEW heard, NEW when \in Int
  PROVE  /\ Woken(pending, heard, when) \in [Slots -> Int]
         /\ \A n \in Slots :
              /\ n \in heard => Woken(pending, heard, when)[n] = Least(pending[n], when)
              /\ n \notin heard => Woken(pending, heard, when)[n] = pending[n]
  BY Extremes DEF Woken

\* Steps that move only the loop.
LEMMA LoopKeepsClock ==
  ASSUME LInv, KInv, UNCHANGED csim \/ Stopped \/ MasterLost \/ PumpReturns \/ (pc = "recv" /\ HandleDisconnect)
  PROVE  KInv'
  <1>1. UNCHANGED <<now, sim_ns, wakes, peers, running, stop, svc>>
    BY DEF csim, Stopped, MasterLost, PumpReturns, HandleDisconnect, clock, nodes
  <1>2. \/ pc' = pc
        \/ pc' = "end" /\ pc # "exec"
        \/ pc' = "top" /\ pc = "pump" /\ (stop \/ \A n \in Slots : wakes[n] > sim_ns)
    BY DEF csim, Stopped, MasterLost, PumpReturns, HandleDisconnect
  <1>3. pc = "pump" => svc.owed
    BY DEF LInv
  <1>4. Shape'
    BY <1>1, <1>2 DEF KInv, Shape
  <1>5. Clock'
    BY <1>1, <1>2 DEF KInv, Clock, Rounded
  <1>6. Failures'
    BY <1>1, <1>2, <1>3 DEF KInv, Failures, Idle
  <1>7. Wakeups'
    BY <1>1, <1>2, <1>3 DEF KInv, Wakeups, Idle
  <1>8. Punctual'
    BY <1>1 DEF KInv, Punctual, InTime
  <1> QED BY <1>4, <1>5, <1>6, <1>7, <1>8 DEF KInv

\* The end of a quantum: nothing was left to do in it, and console input that
\* is handed over is read after it.
LEMMA HorizonKeepsClock ==
  ASSUME LInv, KInv, NextHorizon
  PROVE  KInv'
  <1>1. /\ pc = "top" /\ ~stop /\ pc' = "recv" /\ now' = Latest(now, sim_ns)
        /\ UNCHANGED <<sim_ns, peers, running, stop>>
    BY DEF NextHorizon
  <1>2. now \in Int /\ sim_ns \in Int /\ now <= sim_ns /\ now' = sim_ns
    BY SMT, <1>1 DEF KInv, Shape, Clock, Latest
  <1>3. running = None /\ wakes \in [Slots -> Int] /\ peers \in [Peers -> Peer]
    BY <1>1 DEF KInv, Shape
  <1>4. \A n \in Slots : wakes[n] >= sim_ns /\ (svc.owed => wakes[n] > sim_ns)
    <2>1. CASE svc.owed
      BY SMT, <1>1, <1>2, <1>3, <2>1 DEF KInv, Wakeups
    <2>2. CASE ~svc.owed
      BY <1>1, <2>2 DEF KInv, Wakeups, Idle
    <2> QED BY <2>1, <2>2
  <1>5. \A p \in Peers : wakes[p] <= ext_node_next_wakeup_ns(peers[p])
    <2> SUFFICES ASSUME NEW p \in Peers PROVE wakes[p] <= ext_node_next_wakeup_ns(peers[p])
      OBVIOUS
    <2>1. p \in Slots /\ InTime(p)
      BY <1>3, SlotsAssumption DEF KInv, Punctual, Slots
    <2> QED BY SMT, <1>2, <1>3, <1>4, <2>1 DEF InTime
  <1>6. /\ svc'.base = svc.base /\ svc'.ticks = svc.ticks /\ svc'.logs = 0
        /\ wakes' \in [Slots -> Int]
        /\ \A n \in Slots : wakes'[n] >= sim_ns /\ wakes'[n] <= wakes[n]
    <2>1. CASE ~svc.owed
      <3>1. UNCHANGED <<svc, wakes>>
        BY <2>1 DEF NextHorizon
      <3>2. svc.logs = 0
        BY <1>1, <2>1 DEF KInv, Failures, Idle
      <3> QED BY SMT, <1>3, <1>4, <3>1, <3>2
    <2>2. CASE svc.owed
      <3>1. PICK n \in Taken :
              LET d == renode_dev_uart_retry(dev, n)
              IN  /\ wakes' = IF n = 0 THEN wakes
                              ELSE [wakes EXCEPT ![dev.uart_node] = Least(@, sim_ns + WakeDelay)]
                  /\ svc' = [Reported(svc, d) EXCEPT !.logs = 0, !.owed = FALSE]
        BY <2>2 DEF NextHorizon, SettleQuantum
      <3>2. svc' = [[svc EXCEPT !.irq = renode_dev_irq_level(renode_dev_uart_retry(dev, n))]
                      EXCEPT !.logs = 0, !.owed = FALSE]
        BY <3>1 DEF Reported
      <3>3. svc'.base = svc.base /\ svc'.ticks = svc.ticks /\ svc'.logs = 0
        BY <3>2 DEF LInv, Service
      <3>4. WakeDelay \in Nat
        BY ClockAssumption
      <3>5. CASE n = 0
        BY SMT, <1>3, <1>4, <3>1, <3>3, <3>5
      <3>6. CASE n # 0
        <4>1. wakes' = [wakes EXCEPT ![dev.uart_node] = Least(@, sim_ns + WakeDelay)]
          BY <3>1, <3>6
        <4>2. \A m \in Slots : wakes'[m] \in {wakes[m], Least(wakes[m], sim_ns + WakeDelay)}
          BY <1>3, <4>1
        <4>3. \A m \in Slots : /\ wakes'[m] \in Int /\ wakes'[m] >= sim_ns
                               /\ wakes'[m] <= wakes[m]
          BY SMT, <1>2, <1>3, <1>4, <3>4, <4>2 DEF Least
        <4>4. DOMAIN wakes' = Slots /\ wakes' = [m \in Slots |-> wakes'[m]]
          BY <1>3, <4>1
        <4>5. wakes' \in [Slots -> Int]
          BY <4>3, <4>4
        <4> QED BY <3>3, <4>3, <4>5
      <3> QED BY <3>5, <3>6
    <2> QED BY <2>1, <2>2
  <1>7. Shape'
    BY <1>1, <1>2, <1>3, <1>6 DEF KInv, Shape
  <1>8. Clock'
    BY SMT, <1>1, <1>2, <1>6 DEF KInv, Clock, Rounded
  <1>9. Failures'
    BY <1>1, <1>6 DEF KInv, Failures, Idle
  <1>10. Wakeups'
    BY <1>1, <1>6 DEF Wakeups, Idle
  <1>11. Punctual'
    <2> SUFFICES ASSUME NEW p \in Peers PROVE InTime(p)'
      BY DEF Punctual
    <2>1. p \in Slots /\ ext_node_next_wakeup_ns(peers[p]) \in Int
      BY <1>3, NextEventType DEF Slots
    <2>2. wakes'[p] <= ext_node_next_wakeup_ns(peers'[p])
      BY SMT, <1>1, <1>3, <1>5, <1>6, <2>1
    <2> QED BY <2>2 DEF InTime
  <1> QED BY <1>7, <1>8, <1>9, <1>10, <1>11 DEF KInv

\* A tick moves the boundary, or ends the run.
LEMMA TickKeepsClock ==
  ASSUME LInv, KInv, pc = "recv", HandleTick
  PROVE  KInv'
  <1>1. PICK v \in Ticks :
          LET ticks == svc.ticks + v
              end == Latest(horizon_for(ticks), sim_ns)
          IN  /\ IF ticks_in_range(ticks)
                 THEN /\ svc' = [svc EXCEPT !.ticks = ticks, !.owed = TRUE]
                      /\ sim_ns' = end /\ now' = end /\ pc' = "pump"
                 ELSE pc' = "end" /\ UNCHANGED <<svc, clock>>
              /\ UNCHANGED <<dev, nodes, renode>>
    BY DEF HandleTick
  <1>2. CASE ~ticks_in_range(svc.ticks + v)
    BY <1>1, <1>2, LoopKeepsClock DEF HandleDisconnect
  <1>3. CASE ticks_in_range(svc.ticks + v)
    <2> DEFINE t == svc.ticks + v
               h == horizon_for(t)
    <2>1. v \in Nat /\ svc.ticks \in Nat /\ svc.base \in Nat /\ t \in Nat /\ MaxTime \in Nat
      BY SMT, ClockAssumption DEF LInv, Service
    <2>2. /\ svc' = [svc EXCEPT !.ticks = t, !.owed = TRUE]
          /\ sim_ns' = Latest(h, sim_ns) /\ now' = sim_ns' /\ pc' = "pump"
          /\ UNCHANGED <<wakes, peers, running, stop>>
      BY <1>1, <1>3 DEF nodes
    <2>3. svc'.ticks = t /\ svc'.base = svc.base
      BY <2>2 DEF LInv, Service
    <2>4. h \in Int /\ Rounded(h - svc.base, t) /\ h <= MaxTime
      <3> HIDE DEF t
      <3> QED BY SMT, <1>3, <2>1, HorizonRounds, HorizonBounded DEF t
    <2> HIDE DEF h
    <2>5. sim_ns \in Int /\ sim_ns <= MaxTime /\ Rounded(sim_ns - svc.base, svc.ticks)
      BY DEF KInv, Shape, Clock
    <2>6. sim_ns' \in Int /\ sim_ns' >= sim_ns /\ sim_ns' <= MaxTime
      BY SMT, <2>1, <2>2, <2>4, <2>5 DEF Latest
    <2>7. Rounded(sim_ns' - svc'.base, svc'.ticks)
      <3>1. Rounded(Latest(h - svc.base, sim_ns - svc.base), t)
        BY SMT, <2>1, <2>4, <2>5, NextRounds
      <3>2. Latest(h - svc.base, sim_ns - svc.base) = sim_ns' - svc.base
        BY SMT, <2>1, <2>2, <2>4, <2>5 DEF Latest
      <3> QED BY <2>3, <3>1, <3>2
    <2>8. Shape'
      BY <2>2, <2>6 DEF KInv, Shape
    <2>9. Clock'
      BY SMT, <2>2, <2>6, <2>7 DEF Clock
    <2>10. Failures'
      <3>1. \A p \in Peers : /\ peers[p].time \in Int /\ peers[p].time <= sim_ns
                             /\ (peers[p].failed => stop \/ running = p)
        BY DEF KInv, Shape, Failures, Peer
      <3>2. \A p \in Peers : peers'[p].time <= sim_ns'
        BY SMT, <2>2, <2>5, <2>6, <3>1
      <3> QED BY <2>2, <3>1, <3>2 DEF Failures, Idle
    <2>11. Wakeups'
      BY <2>2 DEF Wakeups, Idle
    <2>12. Punctual'
      <3> SUFFICES ASSUME NEW p \in Peers PROVE InTime(p)'
        BY DEF Punctual
      <3>1. ~svc.owed /\ running # p
        BY SlotsAssumption DEF LInv, KInv, Shape
      <3>2. wakes[p] <= ext_node_next_wakeup_ns(peers[p])
        BY <3>1 DEF KInv, Punctual, InTime
      <3> QED BY <2>2, <3>2 DEF InTime
    <2> QED BY <2>8, <2>9, <2>10, <2>11, <2>12 DEF KInv
  <1> QED BY <1>2, <1>3

\* Between two quanta a frame the guest fires begins at the boundary.
LEMMA AccessKeepsClock ==
  ASSUME LInv, KInv, pc = "recv", HandleRead \/ HandleWrite \/ HandleReset
  PROVE  KInv'
  <1>1. UNCHANGED <<now, sim_ns, running, stop, pc>>
    BY DEF HandleRead, HandleWrite, HandleReset, clock, nodes
  <1>2. /\ svc'.owed = svc.owed /\ svc'.ticks = svc.ticks
        /\ svc'.base = svc.base /\ svc'.logs = svc.logs
    <2>1. \E level \in BOOLEAN : svc' = [svc EXCEPT !.irq = level]
      <3>1. \A d : renode_dev_irq_level(d) \in BOOLEAN
        BY DEF renode_dev_irq_level
      <3> QED BY <3>1 DEF HandleRead, HandleWrite, HandleReset, Reported
    <2> QED BY <2>1 DEF LInv, Service
  <1>3. /\ now \in Int /\ sim_ns = now /\ running = None /\ ~svc.owed /\ ~stop
        /\ wakes \in [Slots -> Int] /\ peers \in [Peers -> Peer]
        /\ \A n \in Slots : wakes[n] >= now
    BY DEF LInv, KInv, Shape, Clock, Wakeups, Failures, Idle
  <1>4. \A p \in Peers : /\ p \in Slots /\ ext_node_next_wakeup_ns(peers[p]) \in Int
                         /\ wakes[p] <= ext_node_next_wakeup_ns(peers[p])
    <2> SUFFICES ASSUME NEW p \in Peers
                 PROVE  /\ p \in Slots /\ ext_node_next_wakeup_ns(peers[p]) \in Int
                        /\ wakes[p] <= ext_node_next_wakeup_ns(peers[p])
      OBVIOUS
    <2>1. running # p
      BY <1>3, SlotsAssumption
    <2>2. InTime(p)
      BY <2>1 DEF KInv, Punctual
    <2> QED BY <1>3, <2>2, NextEventType DEF InTime, Slots
  <1>5. \/ UNCHANGED <<peers, wakes>>
        \/ \E heard \in SUBSET Peers :
             peers' = Delivered(heard, now) /\ wakes' = Woken(wakes, heard, now)
    BY DEF HandleRead, HandleWrite, HandleReset, nodes
  <1>6. /\ wakes' \in [Slots -> Int] /\ peers' \in [Peers -> Peer]
        /\ \A n \in Slots : wakes'[n] >= now
        /\ \A p \in Peers : /\ wakes'[p] <= ext_node_next_wakeup_ns(peers'[p])
                             /\ peers'[p].time = peers[p].time
                             /\ peers'[p].failed = peers[p].failed
    <2>1. CASE UNCHANGED <<peers, wakes>>
      BY <1>3, <1>4, <2>1
    <2>2. CASE \E heard \in SUBSET Peers :
                 peers' = Delivered(heard, now) /\ wakes' = Woken(wakes, heard, now)
      <3>0. PICK heard \in SUBSET Peers :
              peers' = Delivered(heard, now) /\ wakes' = Woken(wakes, heard, now)
        BY <2>2
      <3>1. /\ wakes' \in [Slots -> Int]
            /\ \A n \in Slots :
                 /\ n \in heard => wakes'[n] = Least(wakes[n], now)
                 /\ n \notin heard => wakes'[n] = wakes[n]
        BY SMT, <1>3, <3>0, Waking
      <3>2. ASSUME NEW n \in Slots
            PROVE  /\ wakes[n] \in Int /\ wakes'[n] \in Int
                   /\ wakes'[n] >= now /\ wakes'[n] <= wakes[n]
                   /\ n \in heard => wakes'[n] = now
        <4>1. wakes[n] \in Int /\ wakes[n] >= now
          BY <1>3
        <4>2. CASE n \in heard
          BY SMT, <1>3, <3>1, <4>1, <4>2 DEF Least
        <4>3. CASE n \notin heard
          BY SMT, <1>3, <3>1, <4>1, <4>3
        <4> QED BY <4>2, <4>3
      <3>3. /\ peers' \in [Peers -> Peer]
            /\ \A p \in Peers :
                 /\ peers'[p].time = peers[p].time /\ peers'[p].failed = peers[p].failed
                 /\ \/ ext_node_next_wakeup_ns(peers'[p]) = ext_node_next_wakeup_ns(peers[p])
                    \/ /\ p \in heard
                       /\ ext_node_next_wakeup_ns(peers'[p])
                            = Least(ext_node_next_wakeup_ns(peers[p]), now)
        BY <1>3, <3>0, Hearing
      <3>4. ASSUME NEW p \in Peers
            PROVE  wakes'[p] <= ext_node_next_wakeup_ns(peers'[p])
        <4> DEFINE w == ext_node_next_wakeup_ns(peers[p])
        <4>1. /\ p \in Slots /\ w \in Int /\ wakes[p] <= w /\ wakes[p] \in Int /\ wakes'[p] \in Int
              /\ wakes'[p] <= wakes[p] /\ (p \in heard => wakes'[p] = now)
          BY <1>4, <3>2
        <4>2. \/ ext_node_next_wakeup_ns(peers'[p]) = w
              \/ p \in heard /\ ext_node_next_wakeup_ns(peers'[p]) = Least(w, now)
          BY <3>3
        <4> HIDE DEF w
        <4>3. wakes'[p] <= w
          BY SMT, <4>1
        <4>4. p \in heard => wakes'[p] <= Least(w, now)
          BY SMT, <1>3, <4>1, <4>3 DEF Least
        <4> QED BY <4>2, <4>3, <4>4
      <3> QED BY <3>1, <3>2, <3>3, <3>4
    <2> QED BY <1>5, <2>1, <2>2
  <1>7. Shape'
    BY <1>1, <1>3, <1>6 DEF KInv, Shape
  <1>8. Clock'
    BY <1>1, <1>2 DEF KInv, Clock, Rounded
  <1>9. Failures'
    BY <1>1, <1>2, <1>6 DEF KInv, Failures, Idle
  <1>10. Wakeups'
    BY <1>1, <1>3, <1>6 DEF Wakeups, Idle
  <1>11. Punctual'
    BY <1>6 DEF Punctual, InTime
  <1> QED BY <1>7, <1>8, <1>9, <1>10, <1>11 DEF KInv

\* A slot that is to be woken now, when no other is earlier, is in time.
LEMMA AtOnce ==
  ASSUME NEW p \in Slots, svc'.owed, now' \in Int, wakes'[p] = now',
         \A m \in Slots : wakes'[m] >= now' /\ wakes'[m] \in Int
  PROVE  InTime(p)'
  <1>1. wakes'[p] <= now' /\ \A m \in Slots : wakes'[p] <= wakes'[m]
    OBVIOUS
  <1> QED BY <1>1 DEF InTime

\* The pump takes the clock back to the earliest wakeup.
LEMMA DispatchKeepsClock ==
  ASSUME LInv, KInv, Dispatch
  PROVE  KInv'
  <1>1. PICK n \in NextWoken : now' = wakes[n] /\ (MoteRuns(n) \/ PeerRuns(n))
    BY DEF Dispatch
  <1>2. /\ pc = "pump" /\ ~stop /\ UNCHANGED <<sim_ns, stop>> /\ svc.owed /\ running = None
        /\ wakes \in [Slots -> Int] /\ peers \in [Peers -> Peer] /\ sim_ns \in Int
        /\ sim_ns <= MaxTime /\ svc \in Service
    BY DEF Dispatch, LInv, KInv, Shape, Clock
  <1>3. /\ n \in Slots /\ now' \in Int /\ now' <= sim_ns
        /\ \A m \in Slots : wakes[m] \in Int /\ wakes[m] >= now'
    BY <1>1, <1>2 DEF NextWoken
  <1>4. /\ svc'.owed /\ svc'.ticks = svc.ticks /\ svc'.base = svc.base
    <2>1. svc' = svc \/ \E m : on_event(m)
      BY <1>1 DEF MoteRuns, PeerRuns
    <2> QED BY <1>2, <2>1, LogKeeps
  <1>5. \A p \in Peers :
          /\ p \in Slots /\ p # None
          /\ wakes[p] <= ext_node_next_wakeup_ns(peers[p]) \/ wakes[p] = now'
    <2> SUFFICES ASSUME NEW p \in Peers
                 PROVE  /\ p \in Slots /\ p # None
                        /\ wakes[p] <= ext_node_next_wakeup_ns(peers[p]) \/ wakes[p] = now'
      OBVIOUS
    <2>1. p \in Slots /\ p # None
      BY SlotsAssumption DEF Slots
    <2>2. InTime(p)
      BY <1>2, <2>1 DEF KInv, Punctual
    <2> QED BY SMT, <1>1, <1>3, <2>1, <2>2 DEF InTime
  <1>6. Clock'
    BY <1>1, <1>2, <1>3, <1>4 DEF KInv, Clock, Rounded, Dispatch, MoteRuns, PeerRuns
  <1>7. \A p \in Peers : peers[p].time <= sim_ns /\ ~peers[p].failed
    BY <1>2, <1>5 DEF KInv, Failures
  <1>8. CASE MoteRuns(n)
    <2>0. PICK heard \in SUBSET Peers :
            /\ peers' = Delivered(heard, now')
            /\ \E next \in now' + 1 .. now' + MaxNap :
                 wakes' = Woken([wakes EXCEPT ![n] = next], heard, now')
      BY <1>8 DEF MoteRuns
    <2>1. PICK next :
            next \in now' + 1 .. now' + MaxNap /\ wakes' = Woken([wakes EXCEPT ![n] = next], heard, now')
      BY <2>0
    <2>2. n \notin Peers /\ UNCHANGED <<running, pc>>
      BY <1>8, SlotsAssumption DEF MoteRuns
    <2> DEFINE pending == [wakes EXCEPT ![n] = next]
    <2>3. next \in Int /\ next >= now'
      <3>1. \A a, b \in Int : \A c \in a + 1 .. a + b : c \in Int /\ c >= a
        BY SMT
      <3>2. now' \in Int /\ MaxNap \in Int
        BY SMT, <1>3, ClockAssumption
      <3> QED BY <2>1, <3>1, <3>2, Zenon
    <2>4. /\ pending \in [Slots -> Int] /\ \A m \in Slots : pending[m] >= now'
          /\ \A p \in Peers : pending[p] = wakes[p]
      <3>1. pending \in [Slots -> Int] /\ pending[n] = next
        BY <1>2, <1>3, <2>3
      <3>2. \A m \in Slots \ {n} : pending[m] = wakes[m]
        BY <1>2
      <3> HIDE DEF pending
      <3>3. \A m \in Slots : pending[m] >= now'
        BY <1>3, <2>3, <3>1, <3>2
      <3>4. \A p \in Peers : p \in Slots \ {n}
        BY <1>5, <2>2
      <3> QED BY <3>1, <3>2, <3>3, <3>4
    <2>5. /\ wakes' \in [Slots -> Int]
          /\ \A m \in Slots :
               /\ m \in heard => wakes'[m] = Least(pending[m], now')
               /\ m \notin heard => wakes'[m] = pending[m]
      <3>1. wakes' = Woken(pending, heard, now')
        BY <2>1
      <3> HIDE DEF pending
      <3> QED BY SMT, <1>3, <2>4, <3>1, Waking
    <2> HIDE DEF pending
    <2>6. \A m \in Slots : /\ wakes'[m] \in Int /\ wakes'[m] >= now'
                           /\ (m \in heard => wakes'[m] = now')
      <3> SUFFICES ASSUME NEW m \in Slots
                   PROVE  /\ wakes'[m] \in Int /\ wakes'[m] >= now'
                          /\ (m \in heard => wakes'[m] = now')
        OBVIOUS
      <3>1. pending[m] \in Int /\ pending[m] >= now'
        BY <2>4
      <3> QED BY SMT, <1>3, <2>5, <3>1 DEF Least
    <2>7. /\ peers' \in [Peers -> Peer]
          /\ \A p \in Peers :
               /\ peers'[p].time = peers[p].time /\ peers'[p].failed = peers[p].failed
               /\ \/ p \in heard
                  \/ ext_node_next_wakeup_ns(peers'[p]) = ext_node_next_wakeup_ns(peers[p])
      BY <1>2, <1>3, <2>0, Hearing
    <2>8. Shape'
      BY <1>2, <1>3, <2>2, <2>5, <2>7 DEF KInv, Shape
    <2>9. Failures'
      BY <1>2, <1>7, <2>2, <2>7 DEF Failures, Idle
    <2>10. Wakeups'
      BY <1>2, <2>2 DEF Wakeups, Idle
    <2>11. Punctual'
      <3> SUFFICES ASSUME NEW p \in Peers PROVE InTime(p)'
        BY DEF Punctual
      <3>1. p \in Slots
        BY <1>5
      <3>2. CASE p \in heard
        BY <1>3, <1>4, <2>6, <3>1, <3>2, AtOnce
      <3>3. CASE p \notin heard
        <4>1. /\ wakes'[p] = wakes[p]
              /\ ext_node_next_wakeup_ns(peers'[p]) = ext_node_next_wakeup_ns(peers[p])
          BY <2>4, <2>5, <2>7, <3>1, <3>3
        <4>2. CASE wakes[p] = now'
          BY <1>3, <1>4, <2>6, <3>1, <4>1, <4>2, AtOnce
        <4>3. CASE wakes[p] <= ext_node_next_wakeup_ns(peers[p])
          BY <4>1, <4>3 DEF InTime
        <4> QED BY <1>5, <4>2, <4>3
      <3> QED BY <3>2, <3>3
    <2> QED BY <1>6, <2>8, <2>9, <2>10, <2>11 DEF KInv
  <1>9. CASE PeerRuns(n)
    <2>1. /\ n \in Peers /\ wakes' = [wakes EXCEPT ![n] = Never] /\ running' = n /\ pc' = "exec"
          /\ peers' = peers
      BY <1>9 DEF PeerRuns
    <2>2. Never \in Int /\ Never >= now'
      BY SMT, <1>2, <1>3, ClockAssumption
    <2>3. /\ wakes' \in [Slots -> Int] /\ \A m \in Slots : wakes'[m] \in Int /\ wakes'[m] >= now'
          /\ \A m \in Slots \ {n} : wakes'[m] = wakes[m]
      BY <1>2, <1>3, <2>1, <2>2
    <2>4. Shape'
      BY <1>2, <1>3, <1>5, <2>1, <2>3 DEF KInv, Shape
    <2>5. Failures'
      BY <1>2, <1>7, <2>1 DEF Failures, Idle
    <2>6. Wakeups'
      BY <2>1, <2>3 DEF Wakeups, Idle
    <2>7. Punctual'
      <3> SUFFICES ASSUME NEW p \in Peers, p # n PROVE InTime(p)'
        BY <2>1 DEF Punctual
      <3>1. p \in Slots /\ wakes'[p] = wakes[p] /\ peers'[p] = peers[p]
        BY <1>5, <2>1, <2>3
      <3>2. CASE wakes[p] = now'
        BY <1>3, <1>4, <2>3, <3>1, <3>2, AtOnce
      <3>3. CASE wakes[p] <= ext_node_next_wakeup_ns(peers[p])
        BY <3>1, <3>3 DEF InTime
      <3> QED BY <1>5, <3>2, <3>3
    <2> QED BY <1>6, <2>4, <2>5, <2>6, <2>7 DEF KInv
  <1> QED BY <1>1, <1>8, <1>9

\* Everything a peer may answer is a reply.
LEMMA RepliesAreReplies ==
  ASSUME NEW p \in Peer, now \in Int, NEW reply \in Replies(p)
  PROVE  reply \in Reply
  <1>1. /\ NextEvent(p) \in Int /\ p.time \in Int /\ Never \in Int /\ Absent \in Int /\ NoTime \in Int
        /\ MaxNap \in Int
    BY SMT, NextEventType, ClockAssumption DEF Peer, Absent, NoTime
  <1>2. Latest(0, p.time - 1) \in Int
    BY SMT, <1>1 DEF Latest
  <1>3. Stamps(p) \subseteq Int
    BY SMT, <1>1, <1>2 DEF Stamps
  <1>4. Outputs(p) \subseteq Output
    BY <1>1, <1>3 DEF Outputs, Output
  <1>5. p.time .. now + MaxNap \cup {Never} \subseteq Int
    BY SMT, <1>1
  <1>6. NoReply \in Reply
    <2>1. [type |-> "none", t |-> Absent] \in Output
      BY <1>1 DEF Output
    <2> QED BY <1>1, <2>1 DEF NoReply, Reply
  <1>7. [wake : p.time .. now + MaxNap \cup {Never}, t : Stamps(p), out : Outputs(p)] \subseteq Reply
    BY <1>3, <1>4, <1>5 DEF Reply
  <1>8. [wake : {Never}, t : {NoTime}, out : Outputs(p)] \subseteq Reply
    <2>1. {Never} \subseteq Int /\ {NoTime} \subseteq Int
      BY <1>1
    <2> QED BY <1>4, <2>1 DEF Reply
  <1> QED BY <1>6, <1>7, <1>8 DEF Replies

\* A peer answers: it goes no further than csim's clock, and whom its frame
\* reaches is woken at this instant.
LEMMA ExchangeKeepsClock ==
  ASSUME LInv, KInv, Exchange
  PROVE  KInv'
  <1>1. /\ pc = "exec" /\ ~peers[running].failed /\ NextEvent(peers[running]) <= now
        /\ UNCHANGED <<now, sim_ns, running, stop, pc>>
    BY DEF Exchange, clock
  <1>2. PICK reply \in Replies(peers[running]) :
          LET q == Step(peers[running], reply)
          IN  \/ PeerTransmits(q, OnAirAt(reply.out.t)) \/ PeerPrints(q) \/ PeerIsQuiet(q)
    BY DEF Exchange
  <1> DEFINE q == Step(peers[running], reply)
  <1>3. /\ running \in Peers /\ now \in Int /\ sim_ns \in Int /\ now <= sim_ns /\ svc.owed
        /\ wakes \in [Slots -> Int] /\ peers \in [Peers -> Peer] /\ svc \in Service
        /\ \A m \in Slots : wakes[m] \in Int /\ wakes[m] >= now
    BY <1>1 DEF LInv, KInv, Shape, Clock, Wakeups
  <1>4. q \in Peer /\ q.time <= sim_ns /\ reply \in Reply
    <2>1. peers[running] \in Peer /\ peers[running].time <= sim_ns
      BY <1>3 DEF KInv, Failures
    <2>2. reply \in Reply
      BY <1>2, <1>3, <2>1, RepliesAreReplies
    <2>3. NextEvent(peers[running]) <= sim_ns
      BY SMT, <1>1, <1>3, <2>1, NextEventType
    <2> QED BY <1>3, <2>1, <2>2, <2>3, StepKeeps
  <1> HIDE DEF q
  <1>5. svc'.owed /\ svc'.ticks = svc.ticks /\ svc'.base = svc.base
    <2>1. svc' = svc \/ \E m : on_event(m)
      BY <1>2 DEF PeerTransmits, PeerPrints, PeerIsQuiet
    <2> QED BY <1>3, <2>1, LogKeeps
  <1>6. /\ wakes' \in [Slots -> Int] /\ \A m \in Slots : wakes'[m] \in Int /\ wakes'[m] >= now
        /\ peers' \in [Peers -> Peer] /\ peers'[running] = q
        /\ \A p \in Peers \ {running} :
             /\ peers'[p].time = peers[p].time /\ peers'[p].failed = peers[p].failed
             /\ \/ /\ wakes'[p] = wakes[p]
                   /\ ext_node_next_wakeup_ns(peers'[p]) = ext_node_next_wakeup_ns(peers[p])
                \/ wakes'[p] = now
    <2>1. CASE PeerPrints(q) \/ PeerIsQuiet(q)
      <3>1. peers' = [peers EXCEPT ![running] = q] /\ wakes' = wakes
        BY <2>1 DEF PeerPrints, PeerIsQuiet
      <3> QED BY <1>3, <1>4, <3>1
    <2>2. CASE PeerTransmits(q, OnAirAt(reply.out.t))
      <3> DEFINE at == OnAirAt(reply.out.t)
      <3>1. at \in Int /\ Latest(at, now) = now
        <4>1. reply.out.t \in Int
          BY <1>4, ReplyType
        <4> QED BY SMT, <1>3, <4>1 DEF OnAirAt, Latest
      <3>2. PICK heard \in SUBSET (Peers \ {running}) :
              /\ peers' = [Delivered(heard, at) EXCEPT ![running] = q]
              /\ wakes' = Woken(wakes, heard, now)
        BY <2>2, <3>1 DEF PeerTransmits
      <3> HIDE DEF at
      <3>3. /\ Delivered(heard, at) \in [Peers -> Peer]
            /\ \A p \in Peers :
                 LET d == Delivered(heard, at)[p]
                 IN  /\ d.time = peers[p].time /\ d.failed = peers[p].failed
                     /\ \/ ext_node_next_wakeup_ns(d) = ext_node_next_wakeup_ns(peers[p])
                        \/ p \in heard
        BY SMT, <1>3, <3>1, Hearing
      <3>4. /\ peers' \in [Peers -> Peer] /\ peers'[running] = q
            /\ \A p \in Peers \ {running} : peers'[p] = Delivered(heard, at)[p]
        BY <1>3, <1>4, <3>2, <3>3
      <3>5. /\ wakes' \in [Slots -> Int]
            /\ \A m \in Slots :
                 /\ m \in heard => wakes'[m] = Least(wakes[m], now)
                 /\ m \notin heard => wakes'[m] = wakes[m]
        BY SMT, <1>3, <3>2, Waking
      <3>6. \A m \in Slots : /\ wakes'[m] \in Int /\ wakes'[m] >= now
                             /\ (m \in heard => wakes'[m] = now)
        <4> SUFFICES ASSUME NEW m \in Slots
                     PROVE  /\ wakes'[m] \in Int /\ wakes'[m] >= now
                            /\ (m \in heard => wakes'[m] = now)
          OBVIOUS
        <4>1. wakes[m] \in Int /\ wakes[m] >= now
          BY <1>3
        <4> QED BY SMT, <1>3, <3>5, <4>1 DEF Least
      <3>7. ASSUME NEW p \in Peers \ {running}
            PROVE  /\ peers'[p].time = peers[p].time /\ peers'[p].failed = peers[p].failed
                   /\ \/ /\ wakes'[p] = wakes[p]
                         /\ ext_node_next_wakeup_ns(peers'[p]) = ext_node_next_wakeup_ns(peers[p])
                      \/ wakes'[p] = now
        <4>1. p \in Peers /\ p \in Slots /\ peers'[p] = Delivered(heard, at)[p]
          BY <3>4 DEF Slots
        <4>2. CASE p \in heard
          BY <3>3, <3>6, <4>1, <4>2
        <4>3. CASE p \notin heard
          BY <3>3, <3>5, <4>1, <4>3
        <4> QED BY <4>2, <4>3
      <3> QED BY <3>4, <3>5, <3>6, <3>7
    <2> QED BY <1>2, <2>1, <2>2 DEF q
  <1>7. Shape'
    BY <1>1, <1>3, <1>6 DEF KInv, Shape
  <1>8. Clock'
    BY <1>1, <1>5 DEF KInv, Clock, Rounded
  <1>9. Failures'
    <2> SUFFICES ASSUME NEW p \in Peers
                 PROVE  peers'[p].time <= sim_ns /\ (peers'[p].failed => stop \/ running = p)
      BY <1>1 DEF Failures, Idle
    <2>1. CASE p = running
      BY <1>4, <1>6, <2>1
    <2>2. CASE p # running
      BY <1>6, <2>2 DEF KInv, Failures
    <2> QED BY <2>1, <2>2
  <1>10. Wakeups'
    BY <1>1, <1>6 DEF Wakeups, Idle
  <1>11. Punctual'
    <2> SUFFICES ASSUME NEW p \in Peers, running # p PROVE InTime(p)'
      BY <1>1 DEF Punctual
    <2>1. p \in Slots
      BY DEF Slots
    <2>2. CASE wakes'[p] = now
      BY <1>1, <1>3, <1>5, <1>6, <2>1, <2>2, AtOnce
    <2>3. CASE wakes'[p] # now
      <3>1. /\ wakes'[p] = wakes[p] /\ wakes[p] \in Int /\ wakes[p] >= now
            /\ ext_node_next_wakeup_ns(peers'[p]) = ext_node_next_wakeup_ns(peers[p])
        BY <1>3, <1>6, <2>1, <2>3
      <3>2. wakes[p] <= ext_node_next_wakeup_ns(peers[p])
        BY SMT, <1>3, <2>3, <3>1 DEF KInv, Punctual, InTime
      <3> QED BY <3>1, <3>2 DEF InTime
    <2> QED BY <2>2, <2>3
  <1> QED BY <1>7, <1>8, <1>9, <1>10, <1>11 DEF KInv

\* The peer returns with nothing left to do by now, or failed.
LEMMA ReturnKeepsClock ==
  ASSUME LInv, KInv, ExecuteReturns
  PROVE  KInv'
  <1> DEFINE w == ext_node_next_wakeup_ns(peers[running])
  <1>1. /\ pc = "exec" /\ (peers[running].failed \/ NextEvent(peers[running]) > now)
        /\ stop' = (stop \/ peers[running].failed) /\ wakes' = [wakes EXCEPT ![running] = Least(@, w)]
        /\ running' = None /\ pc' = "pump" /\ UNCHANGED <<now, sim_ns, peers, svc>>
    BY DEF ExecuteReturns, clock
  <1>2. /\ running \in Peers /\ now \in Int /\ sim_ns \in Int /\ now <= sim_ns /\ svc.owed
        /\ wakes \in [Slots -> Int] /\ peers \in [Peers -> Peer] /\ sim_ns <= MaxTime
        /\ \A m \in Slots : wakes[m] \in Int /\ wakes[m] >= now
    BY <1>1 DEF LInv, KInv, Shape, Clock, Wakeups
  <1>3. running \in Slots /\ peers[running] \in Peer /\ w \in Int /\ w >= now
    <2>1. running \in Slots /\ peers[running] \in Peer
      BY <1>2 DEF Slots
    <2>2. NextEvent(peers[running]) \in Int /\ w \in Int
      BY <2>1, NextEventType
    <2>3. Never \in Int /\ Never >= now
      BY SMT, <1>2, ClockAssumption
    <2> QED BY SMT, <1>1, <1>2, <2>1, <2>2, <2>3 DEF ext_node_next_wakeup_ns
  <1> HIDE DEF w
  <1>4. Least(wakes[running], w) \in Int /\ Least(wakes[running], w) >= now /\ Least(wakes[running], w) <= w
    BY SMT, <1>2, <1>3 DEF Least
  <1>5. /\ wakes' \in [Slots -> Int] /\ wakes'[running] <= w
        /\ \A m \in Slots : wakes'[m] \in Int /\ wakes'[m] >= now
        /\ \A m \in Slots \ {running} : wakes'[m] = wakes[m]
    BY <1>1, <1>2, <1>3, <1>4
  <1>6. Shape'
    <2>1. stop' \in BOOLEAN
      BY <1>1 DEF KInv, Shape
    <2> QED BY <1>1, <1>2, <1>5, <2>1 DEF Shape
  <1>7. Clock'
    BY <1>1 DEF KInv, Clock, Rounded
  <1>8. Failures'
    BY <1>1, <1>2 DEF KInv, Failures, Idle
  <1>9. Wakeups'
    BY <1>1 DEF Wakeups, Idle
  <1>10. Punctual'
    <2> SUFFICES ASSUME NEW p \in Peers PROVE InTime(p)'
      BY DEF Punctual
    <2>1. p \in Slots
      BY DEF Slots
    <2>2. CASE p = running
      BY <1>1, <1>5, <2>2 DEF InTime, w
    <2>3. CASE p # running
      <3>1. wakes'[p] = wakes[p] /\ peers'[p] = peers[p] /\ wakes[p] \in Int
        BY <1>1, <1>2, <1>5, <2>1, <2>3
      <3>2. InTime(p)
        BY <2>3 DEF KInv, Punctual
      <3>3. CASE wakes[p] <= ext_node_next_wakeup_ns(peers[p])
        BY <3>1, <3>3 DEF InTime
      <3>4. CASE wakes[p] <= now
        <4>1. wakes'[p] = now'
          BY SMT, <1>1, <1>2, <2>1, <3>1, <3>4
        <4> QED BY <1>1, <1>2, <1>5, <2>1, <4>1, AtOnce
      <3> QED BY <3>2, <3>3, <3>4 DEF InTime
    <2> QED BY <2>2, <2>3
  <1> QED BY <1>6, <1>7, <1>8, <1>9, <1>10 DEF KInv

LEMMA ClockStep == LInv /\ KInv /\ [Next]_vars => KInv'
  <1> SUFFICES ASSUME LInv, KInv, [Next]_vars PROVE KInv'
    OBVIOUS
  <1>1. CASE UNCHANGED csim \/ Stopped \/ MasterLost \/ PumpReturns
    BY <1>1, LoopKeepsClock
  <1>2. CASE UNCHANGED vars \/ Master \/ Ended
    <2>1. UNCHANGED csim
      BY <1>2 DEF vars, Master, MasterTicks, MasterAccesses, MasterResets, MasterDisconnects,
                  Send, Ended
    <2> QED BY <1>1, <2>1
  <1>3. CASE handle_request
    <2>1. /\ pc = "recv"
          /\ HandleTick \/ HandleRead \/ HandleWrite \/ HandleReset \/ HandleDisconnect
      BY <1>3 DEF handle_request
    <2> QED BY <2>1, TickKeepsClock, AccessKeepsClock, LoopKeepsClock
  <1> QED BY <1>1, <1>2, <1>3, HorizonKeepsClock, DispatchKeepsClock, ExchangeKeepsClock,
             ReturnKeepsClock DEF Next, Csim

LEMMA InvariantsLock == LInv /\ KInv => Lockstep
  <1> SUFFICES ASSUME LInv, KInv PROVE Lockstep
    OBVIOUS
  <1>1. /\ now \in Int /\ sim_ns \in Int /\ now <= sim_ns
        /\ wakes \in [Slots -> Int] /\ peers \in [Peers -> Peer]
    BY DEF KInv, Shape, Clock
  <1>2. \A p \in Peers : /\ p \in Slots /\ p # None /\ wakes[p] \in Int
                         /\ ext_node_next_wakeup_ns(peers[p]) \in Int
    BY <1>1, SlotsAssumption, NextEventType DEF Slots
  <1>3. ASSUME NEW n \in Slots, running = None, ~svc.owed \/ wakes[n] > sim_ns
        PROVE  Due(n) = wakes[n]
    <2>1. CASE n \in Peers
      <3>1. InTime(n)
        BY <1>2, <1>3, <2>1 DEF KInv, Punctual
      <3>2. wakes[n] <= ext_node_next_wakeup_ns(peers[n])
        BY SMT, <1>1, <1>2, <1>3, <2>1, <3>1 DEF InTime
      <3> QED BY <2>1, <3>2 DEF Due, Least
    <2>2. CASE n \notin Peers
      BY <2>2 DEF Due
    <2> QED BY <2>1, <2>2
  <1>4. CASE pc = "recv"
    <2>1. running = None /\ ~svc.owed /\ ~stop /\ svc.logs = 0 /\ now = sim_ns
      BY <1>4 DEF LInv, KInv, Shape, Clock, Failures, Idle
    <2>2. \A n \in Slots : Due(n) >= sim_ns
      BY <1>3, <1>4, <2>1 DEF KInv, Wakeups, Idle
    <2>3. \A p \in Peers : ~peers[p].failed /\ peers[p].time <= sim_ns
      BY <1>2, <2>1 DEF KInv, Failures
    <2> QED BY <1>4, <2>1, <2>2, <2>3 DEF KInv, Clock, Rounded, Lockstep
  <1>5. CASE pc # "recv"
    <2>1. ASSUME pc = "top" /\ svc.owed /\ ~stop, NEW n \in Slots
          PROVE  Due(n) > sim_ns
      <3>1. running = None /\ wakes[n] > sim_ns
        BY <2>1 DEF KInv, Shape, Wakeups
      <3> QED BY <1>3, <3>1
    <2> QED BY <1>5, <2>1 DEF KInv, Failures, Lockstep
  <1> QED BY <1>4, <1>5

\* Renode and csim keep step, for every number of motes and peers and every
\* tick frequency: when csim waits, its clock is the time of the ticks rounded
\* down once, and everything due in the confirmed quantum was done
\* (renode_cosim_next_horizon confirms a quantum after the pump ran dry).
THEOREM ClocksInLockstep == Spec => []Lockstep
  <1>1. Init => LInv /\ KInv
    BY LineInit, ClockInit
  <1>2. LInv /\ KInv /\ [Next]_vars => (LInv /\ KInv)'
    BY LineStep, ClockStep
  <1> QED BY <1>1, <1>2, InvariantsLock, PTL DEF Spec
=============================================================================
