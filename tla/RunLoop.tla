------------------------------ MODULE RunLoop ------------------------------
(***************************************************************************)
(* The machine's main loop (src/src/main.c) with the devices it ticks: the *)
(* generic timers, the UART and the RTC behind the GIC, WFI idling         *)
(* (machine_wait_for_event, src/src/platform.c), interrupt delivery        *)
(* (cpu_step, pd_step) and warm reboot (machine_reset).                    *)
(*                                                                         *)
(* One iteration of the loop passes through the phases                     *)
(*    "top"    machine_tick, every iteration in the predecoded engine and  *)
(*             every Slice iterations in the plain interpreter;            *)
(*    "step"   deliver an interrupt, return because the CPU is halted, or  *)
(*             retire instructions;                                        *)
(*    "after"  stop, reboot, wait for an event, or go round;               *)
(*    "exited" the loop has been left.                                     *)
(* The guest retires any instruction that touches this state, in any       *)
(* order; the host delivers input and (real-time clock only) time passes   *)
(* between any two steps.                                                  *)
(***************************************************************************)
EXTENDS PolledDevices

CONSTANTS Machines,   \* the emulator's start-up options and the guests run on it
          Slice,      \* tick_mask + 1
          IoInterval, \* AEIOTICK
          MaxInput    \* bound: bytes waiting at the host

ASSUME RunLoopAssumption ==
  /\ {Slice, IoInterval, MaxInput} \subseteq Nat \ {0}
  /\ 255 \in Prios
  /\ \A m \in Machines :
       /\ m.RtClock \in BOOLEAN /\ m.Tty \in BOOLEAN /\ m.Engine \in {"pd", "interp"}
       /\ m.Devices \subseteq {"gic", "uart", "rtc"}
       /\ m.Devices # {} => "gic" \in m.Devices
       /\ m.MaxInsn \in Nat \ {0} /\ m.Horizon \in U64 /\ m.Ids \subseteq Irqs
       /\ m.CtlVals \subseteq SUBSET {"ENABLE", "IMASK"}
       /\ m.CvalVals \subseteq U64 /\ m.TvalVals \subseteq Int /\ m.RtcVals \subseteq U32

VARIABLES mach,     \* the member of Machines that runs
          tmr,      \* generic timer registers and cached deadline
          uart, rtc,
          cpu,      \* PSTATE.I, halted, event, stop, reset
          icount,   \* retired instructions
          clock,    \* host count since cntpct_base, or timer_skip
          due,      \* io_poll_due
          hostin,   \* bytes waiting at stdin
          phase, left, deadlock

vars == <<mach, gic, tmr, uart, rtc, cpu, icount, clock, due, hostin, phase, left, deadlock>>
devs == <<gic, tmr, uart, rtc, due, hostin>>

\* Options of the command line and the environment.
RtClock == mach.RtClock    \* g_rtclock: counter driven by the host clock
Tty     == mach.Tty        \* stdin is a terminal
Engine  == mach.Engine     \* "pd" (default engine) or "interp" (--no-pd)
MaxInsn == mach.MaxInsn    \* --max-insn
Devices == mach.Devices    \* none in a raw --bin run

gt_count == IF RtClock THEN clock ELSE icount + clock

cpu_reset == [I |-> TRUE, halted |-> FALSE, event |-> FALSE, stop |-> FALSE, reset |-> FALSE]

\* An interrupt the CPU would take at the next check.
Deliverable(g, c) == g.irq_line /\ ~c.I

\* Firmware has switched the controller on.
Init ==
  /\ mach \in Machines
  /\ gic = [gic_create EXCEPT !.d_ctlr = TRUE, !.c_ctlr = TRUE, !.pmr = 255]
  /\ tmr = timer_reset /\ uart = uart_reset /\ rtc = rtc_reset(0)
  /\ cpu = cpu_reset /\ icount = 0 /\ clock = 0 /\ due = 0 /\ hostin = <<>>
  /\ phase = "top" /\ left = (IF Engine = "pd" THEN 0 ELSE Slice - 1)
  /\ deadlock = FALSE

-----------------------------------------------------------------------------
(* machine_tick *)

\* machine_tick at a given count and io_poll_due: timer, RTC, then the
\* host polls on their coarser cadence.
machine_tick(count, d) ==
  LET t   == "gic" \in Devices /\ timer_due(tmr, count)
      g1  == IF t THEN timer_update_gic(gic, tmr, count) ELSE gic
      r1  == IF "rtc" \in Devices THEN rtc_match(rtc) ELSE rtc
      g2  == IF "rtc" \in Devices THEN rtc_gic(g1, r1) ELSE g1
      io  == icount >= d
      in  == io /\ "uart" \in Devices
      u1  == IF in THEN rx_poll(uart, hostin) ELSE uart
  IN  [gic |-> IF in THEN uart_gic(g2, u1) ELSE g2,
       tmr |-> IF t THEN timer_update_tmr(tmr) ELSE tmr,
       rtc |-> IF "rtc" \in Devices THEN rtc_set_line(r1) ELSE rtc,
       uart |-> u1,
       hostin |-> IF in THEN SubSeq(hostin, rx_taken(uart, hostin) + 1, Len(hostin)) ELSE hostin,
       due |-> IF io THEN icount + IoInterval ELSE d]

Ticked(m) ==
  /\ gic' = m.gic /\ tmr' = m.tmr /\ rtc' = m.rtc
  /\ uart' = m.uart /\ hostin' = m.hostin /\ due' = m.due

\* The top of the loop.
TickOrNot ==
  /\ phase = "top"
  /\ phase' = "step"
  /\ \/ /\ Engine = "pd" \/ left = 0
        /\ Ticked(machine_tick(gt_count, due))
        /\ left' = IF Engine = "pd" THEN Min({Slice, MaxInsn - icount}) ELSE Slice - 1
     \/ /\ Engine = "interp" /\ left > 0
        /\ left' = left - 1
        /\ UNCHANGED devs
  /\ UNCHANGED <<cpu, icount, clock, deadlock>>

-----------------------------------------------------------------------------
(* cpu_step and pd_step *)

\* The part of exception_take this state sees.
exception_take(c) == [c EXCEPT !.I = TRUE, !.halted = FALSE]

TakeIrq ==
  /\ phase = "step" /\ Deliverable(gic, cpu)
  /\ cpu' = exception_take(cpu)
  /\ phase' = "after"
  /\ UNCHANGED <<devs, icount, clock, left, deadlock>>

ReturnHalted ==
  /\ phase = "step" /\ ~Deliverable(gic, cpu) /\ cpu.halted
  /\ phase' = "after"
  /\ UNCHANGED <<devs, cpu, icount, clock, left, deadlock>>

\* The CPU can retire an instruction of the group.
CanRetire(op) ==
  /\ op \in mach.GuestOps /\ phase = "step"
  /\ ~Deliverable(gic, cpu) /\ ~cpu.halted

\* After the instruction: the predecoded engine goes on within its slice
\* unless one of its rare-event checks ends it.
Retire ==
  /\ icount' = icount + 1
  /\ left' = IF Engine = "pd" THEN left - 1 ELSE left
  /\ phase' = IF \/ Engine = "interp" \/ cpu'.stop \/ cpu'.halted
                 \/ left = 1 \/ Deliverable(gic', cpu')
              THEN "after" ELSE "step"
  /\ UNCHANGED <<clock, due, deadlock>>

\* MSR to a CNT* register: the registers become tm, then timer_update.
WriteTimer(tm) ==
  /\ CanRetire("timer")
  /\ gic' = IF "gic" \in Devices THEN timer_update_gic(gic, tm, gt_count) ELSE gic
  /\ tmr' = IF "gic" \in Devices THEN timer_update_tmr(tm) ELSE tm
  /\ UNCHANGED <<uart, rtc, hostin, cpu>>
  /\ Retire

MsrTimer ==
  \E t \in Timers :
    \/ \E b \in mach.CtlVals : WriteTimer(CNT_CTL(tmr, t, b))
    \/ \E v \in mach.CvalVals : WriteTimer(CNT_CVAL(tmr, t, v))
    \/ \E v \in mach.TvalVals : WriteTimer(CNT_TVAL(tmr, t, v, gt_count))

\* Loads and stores to the interrupt controller.
AccessGic ==
  /\ CanRetire("gic") /\ "gic" \in Devices
  /\ \/ gic' = GICC_IAR(gic)
     \/ \E id \in mach.Ids : gic' = GICC_EOIR(gic, id)
     \/ \E id \in mach.Ids : gic' = GICD_ISENABLER(gic, {id})
     \/ \E id \in mach.Ids : gic' = GICD_ICENABLER(gic, {id})
     \/ gic' = GICD_CTLR(gic, TRUE) \/ gic' = GICC_CTLR(gic, TRUE)
     \/ gic' = GICC_PMR(gic, 255)
  /\ UNCHANGED <<tmr, uart, rtc, hostin, cpu>>
  /\ Retire

AccessUart ==
  /\ CanRetire("uart") /\ "uart" \in Devices
  /\ \/ uart' = uart_read_DR(uart)
     \/ uart' = uart                            \* DR and ICR writes: update_irq
     \/ \E b \in SUBSET {"RX", "TX"} : uart' = uart_write_IMSC(uart, b)
  /\ gic' = uart_gic(gic, uart')
  /\ UNCHANGED <<tmr, rtc, hostin, cpu>>
  /\ Retire

AccessRtc ==
  /\ CanRetire("rtc") /\ "rtc" \in Devices
  /\ \/ \E v \in mach.RtcVals : rtc' = rtc_write_MR(rtc, v) /\ UNCHANGED gic
     \/ \E v \in mach.RtcVals : rtc' = rtc_write_LR(rtc, v) /\ UNCHANGED gic
     \/ \E r \in {rtc_write_ICR(rtc)} \cup {rtc_write_IMSC(rtc, b) : b \in BOOLEAN} :
          rtc' = rtc_set_line(r) /\ gic' = rtc_gic(gic, r)
  /\ UNCHANGED <<tmr, uart, hostin, cpu>>
  /\ Retire

\* MSR DAIF, DAIFSet, DAIFClr, ERET: the guest chooses PSTATE.I.
SetMask ==
  /\ CanRetire("pstate")
  /\ \E b \in BOOLEAN : cpu' = [cpu EXCEPT !.I = b]
  /\ UNCHANGED <<gic, tmr, uart, rtc, hostin>>
  /\ Retire

\* WFI and PSCI CPU_SUSPEND halt; WFE halts unless it consumes an event.
Wait ==
  /\ CanRetire("wfi")
  /\ \/ cpu' = [cpu EXCEPT !.halted = TRUE]
     \/ cpu' = IF cpu.event THEN [cpu EXCEPT !.event = FALSE]
                            ELSE [cpu EXCEPT !.halted = TRUE]
     \/ cpu' = [cpu EXCEPT !.event = TRUE]                    \* SEV, SEVL
  /\ UNCHANGED <<gic, tmr, uart, rtc, hostin>>
  /\ Retire

\* PSCI SYSTEM_OFF, HLT and SYSTEM_RESET.
Psci ==
  /\ CanRetire("psci")
  /\ \E r \in BOOLEAN : cpu' = [cpu EXCEPT !.stop = TRUE, !.reset = r]
  /\ UNCHANGED <<gic, tmr, uart, rtc, hostin>>
  /\ Retire

\* Any instruction that touches none of this state.
Compute ==
  /\ CanRetire("compute")
  /\ UNCHANGED <<gic, tmr, uart, rtc, hostin, cpu>>
  /\ Retire

-----------------------------------------------------------------------------
(* The rest of the iteration *)

\* max_insn, or another round.
GoRound == IF icount >= MaxInsn THEN "exited" ELSE "top"

\* STEP_HALT: machine_reset on SYSTEM_RESET, else leave the loop.
Stop ==
  /\ phase = "after" /\ cpu.stop
  /\ \/ /\ cpu.reset
        /\ gic' = [gic_reset(gic) EXCEPT !.irq_line = FALSE]
        /\ tmr' = timer_reset
        /\ uart' = IF "uart" \in Devices THEN uart_reset ELSE uart
        /\ rtc' = IF "rtc" \in Devices THEN rtc_reset(rtc.host) ELSE rtc
        /\ cpu' = cpu_reset /\ icount' = 0 /\ clock' = 0 /\ due' = 0
        /\ phase' = "top"
        /\ UNCHANGED <<hostin, left, deadlock>>
     \/ /\ ~cpu.reset
        /\ phase' = "exited"
        /\ UNCHANGED <<devs, cpu, icount, clock, left, deadlock>>

\* The deterministic clock jumps only when nothing else wakes the CPU.
fast_forward(input, dl) == ~gic.irq_line /\ ~input /\ dl # MaxU64

\* Mutant: only input ends the wait.
wakes_InputOnly(g, input) == input

\* What clears halted at the end of the wait.
wakes(g, input) == g.irq_line \/ input

\* Mutant: the wait is given up only on a machine that has devices.
no_wake_source_Inverted(c, dl, input, g) ==
  c.halted /\ dl = MaxU64 /\ ~input /\ ~g.irq_line /\ Devices \cap {"uart", "rtc"} # {}

\* check_wake_source
no_wake_source(c, dl, input, g) ==
  c.halted /\ dl = MaxU64 /\ ~input /\ ~g.irq_line /\ Devices \cap {"uart", "rtc"} = {}

\* machine_wait_for_event: both clocks, io_poll_due zeroed, one tick.
WaitForEvent ==
  /\ phase = "after" /\ ~cpu.stop /\ cpu.halted
  /\ LET dl    == timer_next_deadline(tmr, gt_count)
         input == Tty /\ hostin # <<>>
         jump  == IF ~RtClock /\ fast_forward(input, dl) THEN dl ELSE 0
         m     == machine_tick(gt_count + jump, 0)
     IN  /\ clock' = clock + jump
         /\ Ticked(m)
         /\ cpu' = [cpu EXCEPT !.halted = ~wakes(m.gic, input)]
         /\ deadlock' = (deadlock \/ no_wake_source(cpu', dl, input, m.gic))
         /\ phase' = IF deadlock' THEN "exited" ELSE GoRound
  /\ UNCHANGED <<icount, left>>

NextRound ==
  /\ phase = "after" /\ ~cpu.stop /\ ~cpu.halted
  /\ phase' = GoRound
  /\ UNCHANGED <<devs, cpu, icount, clock, left, deadlock>>

-----------------------------------------------------------------------------
(* The host *)

HostTypes ==
  /\ phase # "exited" /\ Len(hostin) < MaxInput /\ "uart" \in Devices
  /\ \E b \in mach.HostBytes : hostin' = Append(hostin, b)
  /\ UNCHANGED <<gic, tmr, uart, rtc, cpu, icount, clock, due, phase, left, deadlock>>

HostClock ==
  /\ RtClock /\ phase # "exited" /\ clock < mach.Horizon
  /\ clock' = clock + 1
  /\ UNCHANGED <<devs, cpu, icount, phase, left, deadlock>>

\* One second of wall-clock time.
HostSecond ==
  /\ RtClock /\ phase # "exited" /\ "rtc" \in Devices
  /\ rtc' = [rtc EXCEPT !.host = (@ + 1) % (MaxU32 + 1)]
  /\ UNCHANGED <<gic, tmr, uart, due, hostin, cpu, icount, clock, phase, left, deadlock>>

Exited == phase = "exited" /\ UNCHANGED <<devs, cpu, icount, clock, phase, left, deadlock>>

Guest == MsrTimer \/ AccessGic \/ AccessUart \/ AccessRtc \/ SetMask \/ Wait \/ Psci \/ Compute
Loop == TickOrNot \/ TakeIrq \/ ReturnHalted \/ Stop \/ WaitForEvent \/ NextRound
Host == HostTypes \/ HostClock \/ HostSecond

Next == (Loop \/ Guest \/ Host \/ Exited) /\ mach' = mach

Spec == Init /\ [][Next]_vars

\* The loop never blocks (its polls have timeouts), and real time passes.
FairSpec == Spec /\ WF_vars(Loop /\ mach' = mach) /\ WF_vars(HostClock /\ mach' = mach)

-----------------------------------------------------------------------------
(* Properties *)

\* Types of the loop's state; in particular the counter stays below the
\* "no deadline" value.
TypeOK ==
  /\ gic \in GicState
  /\ tmr \in TimerState
  /\ Len(uart.rx) <= FifoCap /\ uart.imsc \subseteq {"RX", "TX"}
  /\ rtc \in [host : U32, offset : U32, mr : U32, armed : BOOLEAN, ris : BOOLEAN,
              imsc : BOOLEAN, irq_line : BOOLEAN]
  /\ cpu \in [I : BOOLEAN, halted : BOOLEAN, event : BOOLEAN, stop : BOOLEAN, reset : BOOLEAN]
  /\ icount \in 0..MaxInsn /\ gt_count \in 0..MaxU64 - 1
  /\ phase \in {"top", "step", "after", "exited"} /\ left \in 0..Slice

\* The cached timer deadline never hides a change: as long as the count is
\* below it, re-evaluating both timers would leave their lines as they are.
\* This is the claim of the comment on timer_check ("the cache cannot go
\* stale"), across register writes, ticks, idle jumps and reboots.
DeadlineSound ==
  "gic" \in Devices /\ gt_count < tmr.deadline =>
    \A t \in Timers : INTID(t) \in gic.line <=> fires(tmr, t, gt_count)

\* The raw interrupt lines agree with the UART's and the RTC's own masked
\* status, although the RTC only touches the controller on a change of the
\* level it remembers, and a reboot clears the three separately.
LinesFollowDevices ==
  /\ "uart" \in Devices => (INTID_UART \in gic.line <=> uart_line(uart))
  /\ "rtc" \in Devices => (INTID_RTC \in gic.line <=> rtc_level(rtc))

\* A fast-forward of the deterministic clock across WFI never jumps past the
\* deadline of an armed timer that was still to come.
NeverOvershoots ==
  [][(~RtClock /\ clock' > clock) =>
       \A t \in Timers :
         Armed(tmr, t) /\ tmr.cval[t] > gt_count => gt_count' <= tmr.cval[t]]_vars

\* Typed input is never lost or reordered between stdin, the receive FIFO and
\* the guest's reads of DR; only a reboot drops the type-ahead in the FIFO.
InputNeverLost ==
  [][LET q == uart.rx \o hostin
         r == (uart.rx \o hostin)'
     IN  \/ r = q
         \/ \E b \in mach.HostBytes : r = Append(q, b)
         \/ q # <<>> /\ r = Tail(q)
         \/ cpu.reset /\ uart' = uart_reset /\ r = hostin]_vars

\* A timer whose interrupt the controller would signal.
Signals(t) ==
  /\ Armed(tmr, t) /\ tmr.cval[t] <= mach.Horizon
  /\ gic.d_ctlr /\ gic.c_ctlr /\ INTID(t) \in gic.enabled \ gic.active
  /\ gic.priority[INTID(t)] < gic.pmr

\* A CPU halted with a timer armed whose interrupt the controller would
\* signal is woken by it, the counter being driven by the host clock.
WakesInRealTime ==
  (RtClock /\ cpu.halted /\ \E t \in Timers : Signals(t))
     ~> (~cpu.halted \/ phase = "exited")

\* A CPU halted on an interactive machine wakes up when a key is typed.
WakesOnInput == (Tty /\ cpu.halted /\ hostin # <<>>) ~> (~cpu.halted \/ phase = "exited")

\* A machine without devices that halts with no timer armed leaves the loop
\* instead of spinning in WFI forever.
DeadWaitEnds ==
  (Devices = {} /\ cpu.halted /\ \A t \in Timers : ~Armed(tmr, t))
     ~> (phase = "exited" \/ ~cpu.halted)

\* The loop's cached state is sound: its types, the timer deadline of
\* timer_check and the interrupt lines of the UART and the RTC.
CachesSound == TypeOK /\ DeadlineSound /\ LinesFollowDevices

\* A halted CPU wakes for what it waits for: a timer of the host clock, or a
\* key (wfi_wait, machine_tick).
Wakes == WakesInRealTime /\ WakesOnInput

=============================================================================
