------------------------------ MODULE ArmNvic ------------------------------
(***************************************************************************)
(* The Cortex-M interrupt controller of src/arm/arm_nvic.c and the parts   *)
(* of src/arm/arm_cpu.c that talk to it: exception entry and return, the   *)
(* mask registers, WFI, precise faults, debug halt, and the check between  *)
(* two instructions.  Firmware, peripherals and the debugger interleave.   *)
(*                                                                         *)
(* c is the arm_nvic_t together with the fields of the arm_cpu_t it reads. *)
(* An exception is its number: below 4 a fixed priority, below 16 a system *)
(* exception, from 16 an interrupt line.  The stack is the sequence of     *)
(* IPSR values in the stacked frames; registers are abstracted away.       *)
(***************************************************************************)
EXTENDS Integers, Sequences, FiniteSets

CONSTANTS
    Irqs,               \* exception numbers of the interrupt lines
    System,             \* system exceptions that are pended: PendSV, SysTick
    Prios,              \* priorities firmware uses
    Firmwares,          \* the firmwares considered, records as under Firmware
    MaxDepth            \* bound: nested exceptions

HardFault == 3
BusFault == 5
SecureFault == 7
NoExc == -1
NoPrio == 256

Configurable == Irqs \cup System \cup {BusFault, SecureFault}
Exceptions == Configurable \cup {HardFault}

\* What a firmware does, and what its hardware and its user do to it.
Firmware ==
    [basepris : SUBSET (0 .. 255),  \* values it writes to BASEPRI
     handlers_mask : BOOLEAN,       \* handlers too use the mask registers and WFI
     priority_writes : BOOLEAN,     \* it changes priorities at run time
     bus_faults : BOOLEAN,          \* bus accesses may be refused
     secure_faults : BOOLEAN,       \* attribution violations may occur
     debugger : BOOLEAN,            \* a shell debugger halts and releases the core
     max_pends : Nat]               \* bound: exceptions pended

ASSUME NvicAssumption ==
    /\ Irqs \subseteq Nat /\ \A i \in Irqs : i >= 16
    /\ System \subseteq {14, 15}
    /\ Prios \subseteq 0 .. 255 /\ Prios # {}
    /\ Firmwares \subseteq Firmware
    /\ MaxDepth \in Nat

VARIABLES
    fw,         \* the firmware at hand; never changes
    c,          \* arm_nvic_t and arm_cpu_t
    pends       \* exceptions pended so far

vars == <<fw, c, pends>>

Basepris == fw.basepris
HandlersMask == fw.handlers_mask
PriorityWrites == fw.priority_writes
BusFaults == fw.bus_faults
SecureFaults == fw.secure_faults
Debugger == fw.debugger
MaxPends == fw.max_pends

(***************************************************************************)
(* The controller                                                          *)
(***************************************************************************)

arm_nvic_get_priority(n, e) == IF e < 4 THEN -1 ELSE n.prio[e]

\* Pending system exceptions, and lines that are pending and enabled.
Ready(n) == {e \in n.pending : e < 16 \/ e \in n.iser}

\* The winner of a scan of R in ascending order that replaces its candidate
\* only by one of strictly higher priority.
first_of_best(R, prio) ==
    CHOOSE e \in R : \A f \in R : prio[e] < prio[f] \/ (prio[e] = prio[f] /\ e <= f)

Winner(n) == IF Ready(n) = {} THEN NoExc ELSE first_of_best(Ready(n), n.prio)
WinnerPrio(n) == IF Ready(n) = {} THEN NoPrio ELSE n.prio[Winner(n)]

scanned(n) ==
    IF n.scan_valid THEN n
    ELSE [n EXCEPT !.scan_exc = Winner(n), !.scan_prio = WinnerPrio(n),
                   !.scan_valid = TRUE]

arm_exception_entry(n, e) ==
    [n EXCEPT !.stack = <<n.ipsr>> \o @, !.ipsr = e, !.cpu_off = FALSE]

\* BASEPRI, FAULTMASK or the running handler hold the winner s back.
held_back_equal_runs(n, s) ==
    \/ n.faultmask
    \/ n.basepri # 0 /\ s.scan_prio >= n.basepri
    \/ n.active > 0 /\ s.scan_prio > arm_nvic_get_priority(n, n.active)
held_back(n, s) ==
    \/ n.faultmask
    \/ n.basepri # 0 /\ s.scan_prio >= n.basepri
    \/ n.active > 0 /\ s.scan_prio >= arm_nvic_get_priority(n, n.active)

taken_scan_kept(s) ==
    [s EXCEPT !.has_pending = FALSE, !.pending = @ \ {s.scan_exc}, !.active = s.scan_exc]
taken(s) ==
    [s EXCEPT !.has_pending = FALSE, !.scan_valid = FALSE,
              !.pending = @ \ {s.scan_exc}, !.active = s.scan_exc]

arm_nvic_check_pending(n) ==
    LET s == scanned(n)
    IN  IF n.primask \/ n.dbg_halted THEN n
        ELSE IF s.scan_exc = NoExc THEN [s EXCEPT !.has_pending = FALSE]
        ELSE IF held_back(n, s) THEN s
        ELSE arm_exception_entry(taken(s), s.scan_exc)

pended_without_flag(n, e) == [n EXCEPT !.pending = @ \cup {e}, !.scan_valid = FALSE]
arm_nvic_set_pending_deferred(n, e) ==
    [n EXCEPT !.pending = @ \cup {e}, !.has_pending = TRUE, !.scan_valid = FALSE]

arm_nvic_set_pending(n, e) == arm_nvic_check_pending(arm_nvic_set_pending_deferred(n, e))

arm_nvic_execution_priority(n) ==
    LET handler == IF n.active > 0 THEN arm_nvic_get_priority(n, n.active) ELSE NoPrio
        based == IF n.basepri # 0 /\ n.basepri < handler THEN n.basepri ELSE handler
        masked == IF n.primask /\ based > 0 THEN 0 ELSE based
    IN  IF n.faultmask THEN -1 ELSE masked

recheck_when_pending(n) ==
    IF n.has_pending THEN arm_nvic_check_pending(n) ELSE n

(***************************************************************************)
(* The core                                                                *)
(***************************************************************************)

\* The end of every instruction.
insn_done(n) ==
    IF n.has_pending /\ ~n.primask THEN arm_nvic_check_pending(n) ELSE n

returned_to(n) == Head(n.stack)

exception_return(n) ==
    arm_nvic_check_pending([n EXCEPT !.ipsr = Head(n.stack), !.stack = Tail(@),
                                     !.active = returned_to(n)])

fault_taken(n) ==
    LET escalates ==
            \/ ~n.busfault_enabled
            \/ n.prio[BusFault] >= arm_nvic_execution_priority(n)
        e == IF escalates THEN HardFault ELSE BusFault
    IN  [arm_exception_entry(n, e) EXCEPT !.active = e]

Reset(p, enabled) ==
    [pending |-> {}, iser |-> {}, prio |-> p, active |-> 0, ipsr |-> 0, stack |-> <<>>,
     primask |-> FALSE, faultmask |-> FALSE, basepri |-> 0, busfault_enabled |-> enabled,
     has_pending |-> FALSE, scan_valid |-> FALSE, scan_exc |-> NoExc, scan_prio |-> NoPrio,
     cpu_off |-> FALSE, dbg_halted |-> FALSE]

\* Firmware has programmed the priorities and SHCSR.
Init ==
    /\ fw \in Firmwares
    /\ \E p \in [Configurable -> Prios], b \in BOOLEAN :
           /\ b => BusFaults
           /\ \A e \in {BusFault, SecureFault} \ (IF BusFaults THEN {BusFault} ELSE {}) :
                  p[e] = CHOOSE q \in Prios : \A x \in Prios : q <= x
           /\ c = Reset(p, b)
    /\ pends = 0

(***************************************************************************)
(* Instructions                                                            *)
(***************************************************************************)

Running == ~c.cpu_off /\ ~c.dbg_halted
MayIdle == HandlersMask \/ c.ipsr = 0

Iser ==
    \E i \in Irqs :
        /\ Running
        /\ c' = insn_done(arm_nvic_check_pending(
                    [c EXCEPT !.iser = @ \cup {i}, !.scan_valid = FALSE, !.has_pending = TRUE]))
        /\ UNCHANGED pends

disabled(n, i) == [n EXCEPT !.iser = @ \ {i}, !.scan_valid = FALSE]

Icer ==
    \E i \in Irqs :
        /\ Running
        /\ c' = insn_done(disabled(c, i))
        /\ UNCHANGED pends

\* ISPR and the set bits of ICSR.
PendByWrite ==
    \E e \in Irqs \cup System :
        /\ Running
        /\ pends < MaxPends
        /\ c' = insn_done(arm_nvic_set_pending(c, e))
        /\ pends' = pends + 1

\* ICPR and the clear bits of ICSR.
UnpendByWrite ==
    \E e \in Irqs \cup System :
        /\ Running
        /\ c' = insn_done([c EXCEPT !.pending = @ \ {e}, !.scan_valid = FALSE])
        /\ UNCHANGED pends

\* IPR and SHPR; not of an exception that is active.
SetPriority ==
    \E e \in Irqs \cup System, p \in Prios :
        /\ Running
        /\ PriorityWrites
        /\ e # c.ipsr /\ \A k \in 1 .. Len(c.stack) : e # c.stack[k]
        /\ c' = insn_done([c EXCEPT !.prio[e] = p, !.scan_valid = FALSE])
        /\ UNCHANGED pends

\* CPSID i and CPSIE i, or MSR PRIMASK.
Mask ==
    /\ Running /\ MayIdle
    /\ c' = insn_done([c EXCEPT !.primask = TRUE])
    /\ UNCHANGED pends

Unmask ==
    /\ Running /\ MayIdle
    /\ c' = insn_done(recheck_when_pending([c EXCEPT !.primask = FALSE]))
    /\ UNCHANGED pends

Basepri ==
    \E v \in Basepris :
        /\ Running /\ MayIdle
        /\ c' = insn_done(recheck_when_pending([c EXCEPT !.basepri = v]))
        /\ UNCHANGED pends

BasepriMax ==
    \E v \in Basepris \ {0} :
        /\ Running /\ MayIdle
        /\ c.basepri = 0 \/ v < c.basepri
        /\ c' = insn_done([c EXCEPT !.basepri = v])
        /\ UNCHANGED pends

Faultmask ==
    \E on \in BOOLEAN :
        /\ Running /\ MayIdle /\ Basepris # {}
        /\ c' = insn_done(IF on THEN [c EXCEPT !.faultmask = TRUE]
                          ELSE recheck_when_pending([c EXCEPT !.faultmask = FALSE]))
        /\ UNCHANGED pends

Wfi ==
    /\ Running /\ MayIdle
    /\ c' = insn_done([c EXCEPT !.cpu_off = TRUE])
    /\ UNCHANGED pends

Return ==
    /\ Running
    /\ c.ipsr # 0
    /\ c' = insn_done(exception_return(c))
    /\ UNCHANGED pends

\* A refused access; the security unit may pend its interrupt with it.
RefusedAccess ==
    \E irq \in BOOLEAN :
        /\ Running
        /\ BusFaults
        /\ Len(c.stack) < MaxDepth
        /\ irq => pends < MaxPends /\ Irqs # {}
        /\ \E i \in Irqs :
              c' = insn_done(fault_taken(IF irq THEN arm_nvic_set_pending_deferred(c, i)
                                         ELSE c))
        /\ pends' = IF irq THEN pends + 1 ELSE pends

AttributionViolation ==
    /\ Running
    /\ SecureFaults
    /\ Len(c.stack) < MaxDepth
    /\ c' = insn_done(arm_exception_entry(c, SecureFault))
    /\ UNCHANGED pends

\* SYSRESETREQ or the watchdog: the platform's hook resets the controller.
SystemReset ==
    /\ Running
    /\ c' = Reset([e \in Configurable |-> 0], FALSE)
    /\ UNCHANGED pends

(***************************************************************************)
(* Peripherals and the debugger, between instructions                      *)
(***************************************************************************)

\* A peripheral's event callback or SysTick; also on a sleeping or halted core.
PeripheralIrq ==
    \E e \in Irqs \cup (System \cap {15}) :
        /\ pends < MaxPends
        /\ c' = arm_nvic_set_pending(c, e)
        /\ pends' = pends + 1

WakeUnmasked ==
    /\ c.cpu_off /\ ~c.dbg_halted
    /\ c.has_pending /\ ~c.primask
    /\ c' = arm_nvic_check_pending([c EXCEPT !.cpu_off = FALSE])
    /\ UNCHANGED pends
\* The interpreter's loop finds the core asleep and something pending.
Wake ==
    /\ c.cpu_off /\ ~c.dbg_halted
    /\ c.has_pending
    /\ c' = arm_nvic_check_pending([c EXCEPT !.cpu_off = FALSE])
    /\ UNCHANGED pends

DebugHalt ==
    /\ Debugger /\ ~c.dbg_halted
    /\ c' = [c EXCEPT !.dbg_halted = TRUE]
    /\ UNCHANGED pends

DebugRelease ==
    /\ c.dbg_halted
    /\ c' = [c EXCEPT !.dbg_halted = FALSE]
    /\ UNCHANGED pends

\* Any other instruction.
Step ==
    /\ Running
    /\ c' = insn_done(c)
    /\ UNCHANGED pends

Instruction ==
    \/ Iser \/ Icer \/ PendByWrite \/ UnpendByWrite \/ SetPriority
    \/ Mask \/ Unmask \/ Basepri \/ BasepriMax \/ Faultmask
    \/ Wfi \/ Return \/ RefusedAccess \/ AttributionViolation \/ SystemReset \/ Step

Next ==
    /\ UNCHANGED fw
    /\ \/ Instruction
       \/ PeripheralIrq
       \/ Wake
       \/ DebugHalt
       \/ DebugRelease

Spec == Init /\ [][Next]_vars

\* Firmware that masks and sleeps in thread mode only, leaves BASEPRI and
\* FAULTMASK alone and sets its priorities before it enables anything.
Plain == Basepris = {} /\ ~HandlersMask /\ ~PriorityWrites /\ ~SecureFaults

\* The same, with no debugger at work and no access refused.
Undisturbed == Plain /\ ~BusFaults /\ ~Debugger

\* The interpreter's loop runs on: handlers return, critical sections and
\* their idle loops come to their end, a sleeping core looks at the flag.
FairSpec ==
    /\ Spec
    /\ WF_vars(Undisturbed /\ UNCHANGED fw /\ (Return \/ Step \/ Wake))
    /\ SF_vars(Undisturbed /\ UNCHANGED fw /\ Unmask)

(***************************************************************************)
(* Properties                                                              *)
(***************************************************************************)

\* The controller's and the core's fields keep their ranges.
TypeOK ==
    /\ c.pending \subseteq Irqs \cup System
    /\ c.iser \subseteq Irqs
    /\ c.prio \in [Configurable -> 0 .. 255]
    /\ c.active \in {0} \cup Exceptions
    /\ c.ipsr \in {0} \cup Exceptions
    /\ c.stack \in Seq({0} \cup Exceptions)
    /\ c.basepri \in 0 .. 255
    /\ {c.primask, c.faultmask, c.has_pending, c.scan_valid, c.cpu_off, c.dbg_halted,
        c.busfault_enabled} \subseteq BOOLEAN
    /\ c.scan_exc \in {NoExc} \cup Irqs \cup System
    /\ c.scan_prio \in 0 .. NoPrio

\* The memo of the last scan that arm_nvic_check_pending reuses is what a
\* full scan would find now, whatever was pended, enabled, reprioritised or
\* taken since.
ScanFresh ==
    c.scan_valid => c.scan_exc = Winner(c) /\ c.scan_prio = WinnerPrio(c)

\* active_exception is the exception the core is running, the IPSR, through
\* nesting, tail-chaining, escalated faults and resets.  A SecureFault is
\* entered without it (AttributionViolation), so without those.
ActiveIsRunning == ~SecureFaults => c.active = c.ipsr

\* Of two nested handlers the inner one has the strictly higher priority: no
\* handler is preempted by its equal.  Only a HardFault may follow another.
\* (Without attribution violations, as above.)
NestingDescends ==
    ~SecureFaults =>
    \A k \in 1 .. Len(c.stack) :
        LET inner == IF k = 1 THEN c.ipsr ELSE c.stack[k - 1]
            outer == c.stack[k]
        IN  outer # 0 =>
                \/ arm_nvic_get_priority(c, inner) < arm_nvic_get_priority(c, outer)
                \/ inner = HardFault

\* Something is pending that a check would take now.
Takeable ==
    /\ ~c.primask /\ ~c.dbg_halted
    /\ Ready(c) # {}
    /\ ~held_back(c, [c EXCEPT !.scan_prio = WinnerPrio(c)])

\* No interrupt is lost: the flag that the check between two instructions is
\* gated on is set whenever that check would take something.
LosesNone == Takeable => c.has_pending

\* Plain firmware loses no interrupt (arm_nvic_check_pending clears the flag
\* at every dispatch, and the return of the handler has to set things right).
NoLostInterrupt == Plain => LosesNone

\* The same with BASEPRI: the masked exception "stays pending until
\* BASEPRI/FAULTMASK is lowered (an ISER/PRIMASK/BASEPRI write re-checks)".
BasepriLosesNone == ~HandlersMask /\ ~SecureFaults => LosesNone

\* WFI of plain firmware does not sleep through a pending interrupt, masked or
\* not: the flag that ends the sleep is set.
WfiWakes == Plain => (c.cpu_off /\ c.ipsr = 0 /\ Ready(c) # {} => c.has_pending)

\* Every pending interrupt of plain firmware is taken, unless the firmware
\* withdraws or disables it (no debugger at work, no access refused).
InterruptTaken ==
    \A e \in Irqs \cup System :
        Undisturbed /\ e \in Ready(c) ~> e \notin Ready(c)

=============================================================================
