---------------------------- MODULE RunLoopProofs ----------------------------
(***************************************************************************)
(* Proofs about the run loop, for every set of machines: any guest, any    *)
(* slice, any FIFO size and any width of the counters.                     *)
(*                                                                         *)
(* The inductive invariant LoopInv strengthens CachesSound in three        *)
(* places.  A timer's line may lag behind the count, but only in one       *)
(* direction: a raised line is one that fires (the count never goes back   *)
(* except on a reset), and the cached deadline is not later than any armed *)
(* compare value.  The level the RTC remembers is its own level and the    *)
(* controller's.  The budget of a slice stays within the instructions that *)
(* are left.                                                               *)
(***************************************************************************)
EXTENDS RunLoop, DeviceProofs

Cpus == [I : BOOLEAN, halted : BOOLEAN, event : BOOLEAN, stop : BOOLEAN, reset : BOOLEAN]

\* Instructions left in the slice and before --max-insn.
BudgetGood ==
  /\ icount \in 0..MaxInsn /\ left \in 0..Slice
  /\ phase \in {"top", "step", "after", "exited"}
  /\ phase \in {"top", "step"} => icount < MaxInsn
  /\ phase = "step" /\ Engine = "pd" => left \in 1..(MaxInsn - icount)

LoopInv ==
  /\ mach \in Machines /\ cpu \in Cpus /\ clock \in Nat
  /\ hostin \in Seq(mach.HostBytes)
  /\ DevicesGood(Devices, mach.HostBytes, gic, tmr, uart, rtc, gt_count)
  /\ BudgetGood

-----------------------------------------------------------------------------
(* The steps of the loop *)

\* The options of the machine that runs, and the count it sees.
LEMMA MachineTyped ==
  ASSUME LoopInv
  PROVE  /\ RtClock \in BOOLEAN /\ Tty \in BOOLEAN /\ Engine \in {"pd", "interp"}
         /\ MaxInsn \in Nat \ {0} /\ Slice \in Nat \ {0}
         /\ Devices # {} => "gic" \in Devices
         /\ icount \in Nat /\ clock \in Nat /\ gt_count \in Nat
BY RunLoopAssumption, SMTT(60) DEF LoopInv, BudgetGood, RtClock, Tty, Engine, MaxInsn, Devices, gt_count

\* machine_tick keeps the devices good at the count it is given, and only
\* moves input from the host to the FIFO.
LEMMA TickGood ==
  ASSUME LoopInv, NEW count \in Nat, gt_count <= count, NEW d
  PROVE  LET m == machine_tick(count, d)
         IN  /\ DevicesGood(Devices, mach.HostBytes, m.gic, m.tmr, m.uart, m.rtc, count)
             /\ m.hostin \in Seq(mach.HostBytes)
             /\ m.uart.rx \o m.hostin = uart.rx \o hostin
<1> DEFINE t  == "gic" \in Devices /\ timer_due(tmr, count)
           g1 == IF t THEN timer_update_gic(gic, tmr, count) ELSE gic
           n  == IF t THEN timer_update_tmr(tmr) ELSE tmr
           r1 == IF "rtc" \in Devices THEN rtc_match(rtc) ELSE rtc
           r2 == IF "rtc" \in Devices THEN rtc_set_line(r1) ELSE rtc
           g2 == IF "rtc" \in Devices THEN rtc_gic(g1, r1) ELSE g1
           in == icount >= d /\ "uart" \in Devices
           u1 == IF in THEN rx_poll(uart, hostin) ELSE uart
           g3 == IF in THEN uart_gic(g2, u1) ELSE g2
           h1 == IF in THEN SubSeq(hostin, rx_taken(uart, hostin) + 1, Len(hostin)) ELSE hostin
           m  == machine_tick(count, d)
<1>1. m.gic = g3 /\ m.tmr = n /\ m.rtc = r2 /\ m.uart = u1 /\ m.hostin = h1
  BY Zenon DEF machine_tick
<1>2. DevicesGood(Devices, mach.HostBytes, gic, tmr, uart, rtc, gt_count) /\ gt_count \in Nat
  BY MachineTyped, Zenon DEF LoopInv
<1>3. DevicesGood(Devices, mach.HostBytes, g1, n, uart, rtc, count)
  BY <1>2, TimerTick, Zenon
<1> HIDE DEF t, g1, n, m
<1>4. DevicesGood(Devices, mach.HostBytes, g2, n, uart, r2, count)
  <2>1. CASE "rtc" \in Devices
    <3>1. rtc \in Rtcs
      BY <1>2, Zenon DEF DevicesGood
    <3>2. rtc_match(rtc) \in Rtcs /\ rtc_match(rtc).irq_line = rtc.irq_line
      BY <3>1, Zenon DEF rtc_match, Rtcs
    <3>3. DevicesGood(Devices, mach.HostBytes, rtc_gic(g1, rtc_match(rtc)), n, uart, rtc_set_line(rtc_match(rtc)), count)
      BY <1>3, <2>1, <3>2, RtcDrives, Zenon
    <3> QED BY <2>1, <3>3, Zenon
  <2>2. CASE "rtc" \notin Devices
    BY <1>3, <2>2, Zenon
  <2> QED BY <2>1, <2>2, Zenon
<1> HIDE DEF r1, r2, g2
<1>5. CASE in
  <2> DEFINE u == rx_poll(uart, hostin)
             h == SubSeq(hostin, rx_taken(uart, hostin) + 1, Len(hostin))
  <2>1. uart \in Uarts(mach.HostBytes) /\ Len(uart.rx) <= FifoCap /\ hostin \in Seq(mach.HostBytes)
    BY <1>2, Zenon DEF DevicesGood, LoopInv
  <2>2. /\ u \in Uarts(mach.HostBytes) /\ Len(u.rx) <= FifoCap
        /\ h \in Seq(mach.HostBytes) /\ u.rx \o h = uart.rx \o hostin
    BY <2>1, PollKeepsInput, ZenonT(60)
  <2>3. u1 = u /\ h1 = h /\ g3 = uart_gic(g2, u)
    BY <1>5, Zenon
  <2> HIDE DEF u, h, u1, h1, g3
  <2>4. DevicesGood(Devices, mach.HostBytes, uart_gic(g2, u), n, u, r2, count)
    BY <1>4, <2>2, UartDrives, Zenon
  <2> QED BY <1>1, <2>2, <2>3, <2>4, Zenon DEF m
<1>6. CASE ~in
  <2>1. u1 = uart /\ h1 = hostin /\ g3 = g2 /\ hostin \in Seq(mach.HostBytes)
    BY <1>6, Zenon DEF LoopInv
  <2> HIDE DEF u1, h1, g3
  <2> QED BY <1>1, <1>4, <2>1, Zenon DEF m
<1> QED BY <1>5, <1>6, Zenon

\* Devices that are good at a count are good in the next state, at a count
\* that is not earlier.
LEMMA CarriedOver ==
  ASSUME mach' = mach, NEW c \in Nat, gt_count' \in Nat, c <= gt_count',
         DevicesGood(Devices, mach.HostBytes, gic', tmr', uart', rtc', c)
  PROVE  DevicesGood(Devices, mach.HostBytes, gic, tmr, uart, rtc, gt_count)'
<1>1. "gic" \in Devices => TimerGood(gic', tmr', gt_count')
  BY TimerLater, Zenon DEF DevicesGood
<1>2. Devices' = Devices
  BY Zenon DEF Devices
<1>3. TimerGood(gic, tmr, gt_count)' = TimerGood(gic', tmr', gt_count')
  BY Zenon DEF TimerGood
<1> QED BY <1>1, <1>2, <1>3, Zenon DEF DevicesGood, UartGood, RtcGood, Uarts

\* A retired instruction uses up one of the slice and of --max-insn.
LEMMA RetireGood ==
  ASSUME LoopInv, NEW op, CanRetire(op), Retire, mach' = mach
  PROVE  /\ BudgetGood' /\ clock' = clock
         /\ gt_count' \in Nat /\ gt_count <= gt_count'
<1>1. /\ MaxInsn' = MaxInsn /\ Engine' = Engine /\ RtClock' = RtClock
  BY Zenon DEF MaxInsn, Engine, RtClock
<1>2. phase = "step" /\ icount \in 0..MaxInsn /\ left \in 0..Slice /\ icount < MaxInsn
  BY Zenon DEF LoopInv, BudgetGood, CanRetire
<1>3. Engine = "pd" => left \in 1..(MaxInsn - icount)
  BY <1>2, Zenon DEF LoopInv, BudgetGood
<1>4. icount' = icount + 1 /\ clock' = clock
  BY Zenon DEF Retire
<1>5. gt_count' \in Nat /\ gt_count <= gt_count'
  BY <1>1, <1>4, MachineTyped DEF gt_count
<1>6. CASE Engine = "interp"
  <2>1. phase' = "after" /\ left' = left
    BY <1>6, Zenon DEF Retire
  <2> QED BY <1>1, <1>2, <1>4, <1>5, <2>1, MachineTyped DEF BudgetGood
<1>7. CASE Engine = "pd"
  <2>1. left' = left - 1 /\ phase' \in {"after", "step"} /\ (left = 1 => phase' = "after")
    BY <1>7, Zenon DEF Retire
  <2> QED BY <1>1, <1>2, <1>3, <1>4, <1>5, <1>7, <2>1, MachineTyped DEF BudgetGood
<1> QED BY <1>6, <1>7, MachineTyped, Zenon

\* A guest instruction that leaves the devices good at the current count
\* keeps the invariant.
LEMMA InstructionGood ==
  ASSUME LoopInv, NEW op, CanRetire(op), Retire, mach' = mach, cpu' \in Cpus, hostin' = hostin,
         DevicesGood(Devices, mach.HostBytes, gic', tmr', uart', rtc', gt_count)
  PROVE  LoopInv'
<1>1. BudgetGood' /\ clock' = clock /\ gt_count' \in Nat /\ gt_count <= gt_count'
  BY RetireGood, Zenon
<1>2. DevicesGood(Devices, mach.HostBytes, gic, tmr, uart, rtc, gt_count)'
  BY <1>1, MachineTyped, CarriedOver, Zenon
<1> QED BY <1>1, <1>2, Zenon DEF LoopInv

\* MSR to a timer register: the values written are in range, and
\* timer_update follows.
LEMMA MsrTimerGood == ASSUME LoopInv, MsrTimer, mach' = mach PROVE LoopInv'
<1> DEFINE Written(tm) == /\ CanRetire("timer") /\ Retire
                          /\ gic' = IF "gic" \in Devices THEN timer_update_gic(gic, tm, gt_count) ELSE gic
                          /\ tmr' = IF "gic" \in Devices THEN timer_update_tmr(tm) ELSE tm
                          /\ uart' = uart /\ rtc' = rtc /\ hostin' = hostin /\ cpu' = cpu
<1>1. DevicesGood(Devices, mach.HostBytes, gic, tmr, uart, rtc, gt_count) /\ cpu \in Cpus /\ tmr \in TimerState
  BY Zenon DEF LoopInv, DevicesGood
<1>2. ASSUME NEW tm \in TimerState, Written(tm) PROVE LoopInv'
  <2> DEFINE h == timer_update_gic(gic, tm, gt_count)
             n == timer_update_tmr(tm)
  <2>1. /\ GicGood(h) /\ n \in TimerState /\ TimerGood(h, n, gt_count)
        /\ \A j \in {INTID_UART, INTID_RTC} : j \in h.line <=> j \in gic.line
    <3>1. GicGood(gic) /\ gt_count \in Nat
      BY <1>1, MachineTyped, Zenon DEF DevicesGood
    <3> QED BY <3>1, TimerUpdateGood
  <2> HIDE DEF h, n
  <2>2. DevicesGood(Devices, mach.HostBytes, gic', tmr', uart', rtc', gt_count)
    <3>1. CASE "gic" \in Devices
      <4>1. gic' = h /\ tmr' = n /\ uart' = uart /\ rtc' = rtc
        BY <1>2, <3>1, Zenon DEF h, n
      <4> QED BY <1>1, <2>1, <4>1, Zenon DEF DevicesGood, UartGood, RtcGood
    <3>2. CASE "gic" \notin Devices
      <4>1. gic' = gic /\ tmr' = tm /\ uart' = uart /\ rtc' = rtc
        BY <1>2, <3>2, Zenon
      <4> QED BY <1>1, <1>2, <3>2, <4>1, Zenon DEF DevicesGood
    <3> QED BY <3>1, <3>2, Zenon
  <2> QED BY <1>1, <1>2, <2>2, InstructionGood, Zenon
<1>3. ASSUME NEW t \in Timers, NEW v \in U64 PROVE CNT_CVAL(tmr, t, v) \in TimerState
  BY <1>1, Zenon DEF CNT_CVAL, TimerState
<1>4. ASSUME NEW t \in Timers, NEW b \in SUBSET {"ENABLE", "IMASK"} PROVE CNT_CTL(tmr, t, b) \in TimerState
  BY <1>1, Zenon DEF CNT_CTL, TimerState
<1>5. ASSUME NEW t \in Timers, NEW v \in Int PROVE CNT_TVAL(tmr, t, v, gt_count) \in TimerState
  <2>1. (gt_count + v) % (MaxU64 + 1) \in U64
    BY MachineTyped, MaxU64Assumption DEF U64
  <2> QED BY <1>1, <2>1, Zenon DEF CNT_TVAL, TimerState
<1>6. ASSUME NEW tm, WriteTimer(tm) PROVE Written(tm)
  BY <1>6, Zenon DEF WriteTimer
<1> HIDE DEF Written
<1>7. /\ mach.CtlVals \subseteq SUBSET {"ENABLE", "IMASK"}
      /\ mach.CvalVals \subseteq U64 /\ mach.TvalVals \subseteq Int
  BY RunLoopAssumption, Zenon DEF LoopInv
<1> QED BY <1>2, <1>3, <1>4, <1>5, <1>6, <1>7, Zenon DEF MsrTimer

\* Loads and stores to the controller change no line.
LEMMA AccessGicGood == ASSUME LoopInv, AccessGic, mach' = mach PROVE LoopInv'
<1>1. /\ DevicesGood(Devices, mach.HostBytes, gic, tmr, uart, rtc, gt_count) /\ cpu \in Cpus
      /\ gic \in GicState /\ Raised(gic)
  BY Zenon DEF LoopInv, DevicesGood, GicGood
<1>2. mach.Ids \subseteq Irqs /\ 255 \in Prios
  BY RunLoopAssumption, Zenon DEF LoopInv
<1>3. gic' \in GicState /\ Raised(gic')
  <2>1. \A id \in mach.Ids : {id} \in Masks
    BY <1>2 DEF Masks, Bank32
  <2>2. GicNext
    BY <1>2, <2>1, ZenonT(60) DEF AccessGic, GicNext, GuestReadsIAR, GuestWritesGICC, GuestWritesGICD
  <2> QED BY <1>1, <2>2, StepRaises, Zenon
<1>4. gic'.line = gic.line
  BY <1>1, ZenonT(60) DEF AccessGic, GICC_IAR, GICC_EOIR, GICD_ISENABLER, GICD_ICENABLER, GICD_CTLR, GICC_CTLR,
              GICC_PMR, gic_update, GicState
<1>5. tmr' = tmr /\ uart' = uart /\ rtc' = rtc /\ hostin' = hostin /\ cpu' = cpu
  BY Zenon DEF AccessGic
<1>6. DevicesGood(Devices, mach.HostBytes, gic', tmr', uart', rtc', gt_count)
  BY <1>1, <1>3, <1>4, <1>5, Zenon DEF DevicesGood, GicGood, TimerGood, UartGood, RtcGood
<1>7. CanRetire("gic") /\ Retire
  BY Zenon DEF AccessGic
<1> QED BY <1>1, <1>5, <1>6, <1>7, InstructionGood, Zenon

\* Loads and stores to the UART end in update_irq.
LEMMA AccessUartGood == ASSUME LoopInv, AccessUart, mach' = mach PROVE LoopInv'
<1>1. /\ DevicesGood(Devices, mach.HostBytes, gic, tmr, uart, rtc, gt_count) /\ cpu \in Cpus
      /\ uart \in Uarts(mach.HostBytes) /\ Len(uart.rx) <= FifoCap
  BY Zenon DEF LoopInv, DevicesGood
<1>2. uart' \in Uarts(mach.HostBytes) /\ Len(uart'.rx) <= FifoCap
  <2>1. CASE uart' = uart_read_DR(uart)
    <3> DEFINE q == IF uart.rx = <<>> THEN uart.rx ELSE Tail(uart.rx)
    <3>1. uart.rx \in Seq(mach.HostBytes) /\ Len(uart.rx) <= FifoCap
      BY <1>1, Zenon DEF Uarts
    <3>2. q \in Seq(mach.HostBytes) /\ Len(q) <= FifoCap
      <4>1. uart.rx # <<>> => /\ Tail(uart.rx) \in Seq(mach.HostBytes)
                              /\ Len(Tail(uart.rx)) = Len(uart.rx) - 1
        BY <3>1, TailTyped, Zenon
      <4> QED BY <3>1, <4>1, FifoCapAssumption
    <3>3. uart' = [uart EXCEPT !.rx = q]
      BY <2>1, Zenon DEF uart_read_DR
    <3> HIDE DEF q
    <3> QED BY <1>1, <3>2, <3>3, Zenon DEF Uarts
  <2>2. CASE uart' = uart
    BY <1>1, <2>2, Zenon
  <2>3. CASE \E b \in SUBSET {"RX", "TX"} : uart' = uart_write_IMSC(uart, b)
    BY <1>1, <2>3, Zenon DEF uart_write_IMSC, Uarts
  <2> QED BY <2>1, <2>2, <2>3, Zenon DEF AccessUart
<1>3. /\ gic' = uart_gic(gic, uart') /\ tmr' = tmr /\ rtc' = rtc /\ hostin' = hostin /\ cpu' = cpu
      /\ CanRetire("uart") /\ Retire
  BY Zenon DEF AccessUart
<1>4. DevicesGood(Devices, mach.HostBytes, gic', tmr', uart', rtc', gt_count)
  BY <1>1, <1>2, <1>3, UartDrives, Zenon
<1> QED BY <1>1, <1>3, <1>4, InstructionGood, Zenon

\* Stores to the RTC: only the ones that can change its level tell the
\* controller.
LEMMA AccessRtcGood == ASSUME LoopInv, AccessRtc, mach' = mach PROVE LoopInv'
<1>1. /\ DevicesGood(Devices, mach.HostBytes, gic, tmr, uart, rtc, gt_count) /\ cpu \in Cpus
      /\ rtc \in Rtcs /\ "rtc" \in Devices
  BY Zenon DEF LoopInv, DevicesGood, AccessRtc
<1>2. /\ tmr' = tmr /\ uart' = uart /\ hostin' = hostin /\ cpu' = cpu
      /\ CanRetire("rtc") /\ Retire
  BY Zenon DEF AccessRtc
<1>3. mach.RtcVals \subseteq U32 /\ MaxU32 \in Nat
  BY RunLoopAssumption, MaxU32Assumption, Zenon DEF LoopInv
<1>4. ASSUME NEW v \in U32, rtc' \in {rtc_write_MR(rtc, v), rtc_write_LR(rtc, v)}, gic' = gic
      PROVE  DevicesGood(Devices, mach.HostBytes, gic', tmr', uart', rtc', gt_count)
  <2>1. (v - rtc.host) % (MaxU32 + 1) \in U32
    BY <1>1, <1>3 DEF Rtcs, U32
  <2>2. /\ rtc' \in Rtcs /\ rtc'.ris = rtc.ris /\ rtc'.imsc = rtc.imsc
        /\ rtc'.irq_line = rtc.irq_line
    BY <1>1, <1>4, <2>1, ZenonT(60) DEF rtc_write_MR, rtc_write_LR, Rtcs
  <2>3. rtc_level(rtc') = rtc_level(rtc)
    BY <2>2, Zenon DEF rtc_level
  <2> QED BY <1>1, <1>2, <1>4, <2>2, <2>3, Zenon DEF DevicesGood, RtcGood
<1>5. ASSUME NEW r, r \in {rtc_write_ICR(rtc)} \cup {rtc_write_IMSC(rtc, b) : b \in BOOLEAN},
             rtc' = rtc_set_line(r), gic' = rtc_gic(gic, r)
      PROVE  DevicesGood(Devices, mach.HostBytes, gic', tmr', uart', rtc', gt_count)
  <2>1. r \in Rtcs /\ r.irq_line = rtc.irq_line
    BY <1>1, <1>5, ZenonT(60) DEF rtc_write_ICR, rtc_write_IMSC, Rtcs
  <2> QED BY <1>1, <1>2, <1>5, <2>1, RtcDrives, Zenon
<1>6. DevicesGood(Devices, mach.HostBytes, gic', tmr', uart', rtc', gt_count)
  BY <1>3, <1>4, <1>5, Zenon DEF AccessRtc
<1> QED BY <1>1, <1>2, <1>6, InstructionGood, Zenon

\* The other instructions touch the CPU only.
LEMMA CpuOnlyGood == ASSUME LoopInv, SetMask \/ Wait \/ Psci \/ Compute, mach' = mach PROVE LoopInv'
<1>1. /\ gic' = gic /\ tmr' = tmr /\ uart' = uart /\ rtc' = rtc /\ hostin' = hostin
      /\ \E op : CanRetire(op)
      /\ Retire
  BY Zenon DEF SetMask, Wait, Psci, Compute
<1>2. cpu \in Cpus
  BY Zenon DEF LoopInv
<1>3. cpu' \in Cpus
  BY <1>2, ZenonT(60) DEF SetMask, Wait, Psci, Compute, Cpus
<1>4. DevicesGood(Devices, mach.HostBytes, gic', tmr', uart', rtc', gt_count)
  BY <1>1, Zenon DEF LoopInv
<1> QED BY <1>1, <1>3, <1>4, InstructionGood, Zenon

\* A step of the loop or of the host that retires nothing and leaves the
\* devices good at the next count.
LEMMA StepGood ==
  ASSUME LoopInv, mach' = mach, cpu' \in Cpus, clock' \in Nat, clock <= clock', icount' = icount,
         hostin' \in Seq(mach.HostBytes), BudgetGood',
         NEW c \in Nat, c <= gt_count', DevicesGood(Devices, mach.HostBytes, gic', tmr', uart', rtc', c)
  PROVE  LoopInv'
<1>1. gt_count' \in Nat
  BY MachineTyped, SMTT(60) DEF gt_count, RtClock
<1>2. DevicesGood(Devices, mach.HostBytes, gic, tmr, uart, rtc, gt_count)'
  BY <1>1, CarriedOver, Zenon
<1> QED BY <1>2, Zenon DEF LoopInv

\* The tick at the top of the loop, and the size of the next slice.
LEMMA TickOrNotGood == ASSUME LoopInv, TickOrNot, mach' = mach PROVE LoopInv'
<1>1. /\ cpu' = cpu /\ icount' = icount /\ clock' = clock /\ phase = "top" /\ phase' = "step"
      /\ cpu \in Cpus /\ DevicesGood(Devices, mach.HostBytes, gic, tmr, uart, rtc, gt_count) /\ hostin \in Seq(mach.HostBytes)
  BY Zenon DEF TickOrNot, LoopInv
<1>2. /\ MaxInsn' = MaxInsn /\ Engine' = Engine /\ gt_count' = gt_count
  BY <1>1, Zenon DEF MaxInsn, Engine, gt_count, RtClock
<1>3. icount \in 0..MaxInsn /\ left \in 0..Slice /\ icount < MaxInsn
  BY <1>1, Zenon DEF LoopInv, BudgetGood
<1>4. CASE (Engine = "pd" \/ left = 0) /\ Ticked(machine_tick(gt_count, due))
           /\ left' = IF Engine = "pd" THEN Min({Slice, MaxInsn - icount}) ELSE Slice - 1
  <2> DEFINE m == machine_tick(gt_count, due)
             S == {Slice, MaxInsn - icount}
  <2>1. /\ DevicesGood(Devices, mach.HostBytes, m.gic, m.tmr, m.uart, m.rtc, gt_count)
        /\ m.hostin \in Seq(mach.HostBytes)
    <3>1. gt_count \in Nat /\ gt_count <= gt_count
      BY MachineTyped
    <3> QED BY <3>1, TickGood, Zenon
  <2>2. gic' = m.gic /\ tmr' = m.tmr /\ uart' = m.uart /\ rtc' = m.rtc /\ hostin' = m.hostin
    BY <1>4, Zenon DEF Ticked
  <2> HIDE DEF m
  <2>3. Min(S) \in 1..Slice /\ Min(S) \in 1..(MaxInsn - icount)
    <3>1. S \subseteq Nat /\ S # {} /\ Slice \in S /\ MaxInsn - icount \in S /\ 0 \notin S
      BY <1>3, MachineTyped
    <3> HIDE DEF S
    <3>2. Min(S) \in S /\ Min(S) <= Slice /\ Min(S) <= MaxInsn - icount
      BY <3>1, MinIsLeast, Zenon
    <3>3. Min(S) \in Nat /\ Min(S) # 0
      BY <3>1, <3>2, Zenon
    <3>4. Slice \in Nat /\ MaxInsn \in Nat /\ icount \in Nat
      BY MachineTyped, Zenon
    <3> QED BY <3>2, <3>3, <3>4
  <2>4. BudgetGood'
    BY <1>1, <1>2, <1>3, <1>4, <2>3, MachineTyped, SMTT(60) DEF BudgetGood
  <2> QED BY <1>1, <1>2, <2>1, <2>2, <2>4, MachineTyped, StepGood
<1>5. CASE Engine = "interp" /\ left > 0 /\ left' = left - 1 /\ UNCHANGED devs
  <2>1. BudgetGood'
    BY <1>1, <1>2, <1>3, <1>5, MachineTyped DEF BudgetGood
  <2> QED BY <1>1, <1>2, <1>5, <2>1, MachineTyped, StepGood DEF devs
<1> QED BY <1>4, <1>5, Zenon DEF TickOrNot

\* Taking an interrupt, returning halted, going round, the host and the end.
LEMMA QuietGood ==
  ASSUME LoopInv, TakeIrq \/ ReturnHalted \/ NextRound \/ HostTypes \/ HostClock \/ Exited, mach' = mach
  PROVE  LoopInv'
<1>1. /\ cpu \in Cpus /\ DevicesGood(Devices, mach.HostBytes, gic, tmr, uart, rtc, gt_count) /\ hostin \in Seq(mach.HostBytes)
      /\ BudgetGood /\ clock \in Nat
  BY Zenon DEF LoopInv
<1>2. /\ gic' = gic /\ tmr' = tmr /\ uart' = uart /\ rtc' = rtc /\ icount' = icount /\ left' = left
      /\ clock' \in {clock, clock + 1} /\ cpu' \in {cpu, exception_take(cpu)}
  BY Zenon DEF TakeIrq, ReturnHalted, NextRound, HostTypes, HostClock, Exited, devs
<1>3. hostin' \in Seq(mach.HostBytes)
  BY <1>1, SMTT(60) DEF TakeIrq, ReturnHalted, NextRound, HostTypes, HostClock, Exited, devs
<1>4. cpu' \in Cpus
  BY <1>1, <1>2, Zenon DEF exception_take, Cpus
<1>5. clock' \in Nat /\ clock <= clock' /\ gt_count <= gt_count'
  BY <1>1, <1>2, MachineTyped DEF gt_count, RtClock
<1>6. BudgetGood'
  <2>1. MaxInsn' = MaxInsn /\ Engine' = Engine
    BY Zenon DEF MaxInsn, Engine
  <2>2. \/ phase' = phase
        \/ phase' = "after"
        \/ phase' = GoRound
    BY Zenon DEF TakeIrq, ReturnHalted, NextRound, HostTypes, HostClock, Exited
  <2> QED BY <1>1, <1>2, <2>1, <2>2, MachineTyped, SMTT(60) DEF BudgetGood, GoRound
<1> QED BY <1>1, <1>2, <1>3, <1>4, <1>5, <1>6, MachineTyped, StepGood, Zenon

\* A second of wall-clock time moves the RTC's count, not its level.
LEMMA HostSecondGood == ASSUME LoopInv, HostSecond, mach' = mach PROVE LoopInv'
<1>1. /\ cpu \in Cpus /\ DevicesGood(Devices, mach.HostBytes, gic, tmr, uart, rtc, gt_count) /\ hostin \in Seq(mach.HostBytes)
      /\ BudgetGood /\ clock \in Nat /\ rtc \in Rtcs
  BY Zenon DEF LoopInv, DevicesGood
<1>2. /\ gic' = gic /\ tmr' = tmr /\ uart' = uart /\ icount' = icount /\ left' = left
      /\ clock' = clock /\ cpu' = cpu /\ hostin' = hostin /\ phase' = phase
      /\ rtc' = [rtc EXCEPT !.host = (@ + 1) % (MaxU32 + 1)]
  BY Zenon DEF HostSecond
<1>3. (rtc.host + 1) % (MaxU32 + 1) \in U32
  BY <1>1, MaxU32Assumption, SMTT(60) DEF Rtcs, U32
<1>4. rtc' \in Rtcs /\ rtc'.ris = rtc.ris /\ rtc'.imsc = rtc.imsc /\ rtc'.irq_line = rtc.irq_line
  BY <1>1, <1>2, <1>3, Zenon DEF Rtcs
<1>5. DevicesGood(Devices, mach.HostBytes, gic', tmr', uart', rtc', gt_count)
  BY <1>1, <1>2, <1>4, Zenon DEF DevicesGood, RtcGood, rtc_level
<1>6. BudgetGood' /\ gt_count' = gt_count
  BY <1>1, <1>2, Zenon DEF BudgetGood, MaxInsn, Engine, gt_count, RtClock
<1> QED BY <1>1, <1>2, <1>5, <1>6, MachineTyped, StepGood

\* A warm reboot leaves every line down, and every device agrees; otherwise
\* the loop is left.
LEMMA StopGood == ASSUME LoopInv, Stop, mach' = mach PROVE LoopInv'
<1>1. /\ cpu \in Cpus /\ DevicesGood(Devices, mach.HostBytes, gic, tmr, uart, rtc, gt_count) /\ hostin \in Seq(mach.HostBytes)
      /\ BudgetGood /\ clock \in Nat /\ rtc \in Rtcs /\ gic \in GicState /\ Raised(gic)
      /\ uart \in Uarts(mach.HostBytes) /\ Len(uart.rx) <= FifoCap
  BY Zenon DEF LoopInv, DevicesGood, GicGood
<1>2. CASE cpu.reset
  <2>1. /\ gic' = [gic_reset(gic) EXCEPT !.irq_line = FALSE] /\ tmr' = timer_reset
        /\ uart' = (IF "uart" \in Devices THEN uart_reset ELSE uart)
        /\ rtc' = (IF "rtc" \in Devices THEN rtc_reset(rtc.host) ELSE rtc)
        /\ cpu' = cpu_reset /\ icount' = 0 /\ clock' = 0 /\ phase' = "top"
        /\ hostin' = hostin /\ left' = left
    BY <1>2, Zenon DEF Stop
  <2>2. GicGood(gic')
    <3>1. GicNext
      BY <2>1, Zenon DEF GicNext, SystemReset
    <3> QED BY <1>1, <3>1, StepRaises, Zenon DEF GicGood
  <2>3. gic'.line = {}
    BY <2>1, Zenon DEF gic_reset, gic_create
  <2>4. tmr' \in TimerState /\ TimerGood(gic', tmr', 0)
    BY <2>1, <2>3, MaxU64Assumption DEF timer_reset, TimerState, TimerGood, Armed, U64
  <2>5. /\ uart' \in Uarts(mach.HostBytes) /\ Len(uart'.rx) <= FifoCap
        /\ "uart" \in Devices => UartGood(gic', uart')
    BY <1>1, <2>1, <2>3, FifoCapAssumption DEF uart_reset, Uarts, UartGood, uart_line
  <2>6. /\ rtc' \in Rtcs
        /\ "rtc" \in Devices => RtcGood(gic', rtc')
    BY <1>1, <2>1, <2>3, MaxU32Assumption DEF rtc_reset, Rtcs, RtcGood, rtc_level, U32
  <2>7. DevicesGood(Devices, mach.HostBytes, gic', tmr', uart', rtc', 0)
    BY <2>2, <2>4, <2>5, <2>6, Zenon DEF DevicesGood
  <2>8. gt_count' = 0
    BY <2>1 DEF gt_count
  <2>9. DevicesGood(Devices, mach.HostBytes, gic, tmr, uart, rtc, gt_count)'
    BY <2>7, <2>8, CarriedOver
  <2>10. BudgetGood'
    BY <1>1, <2>1, MachineTyped DEF BudgetGood, MaxInsn
  <2>11. cpu' \in Cpus
    BY <2>1, Zenon DEF cpu_reset, Cpus
  <2> QED BY <1>1, <2>1, <2>9, <2>10, <2>11, Zenon DEF LoopInv
<1>3. CASE ~cpu.reset
  <2>1. /\ phase' = "exited" /\ cpu' = cpu /\ icount' = icount /\ clock' = clock /\ left' = left
        /\ gic' = gic /\ tmr' = tmr /\ uart' = uart /\ rtc' = rtc /\ hostin' = hostin
    BY <1>3, Zenon DEF Stop, devs
  <2>2. BudgetGood'
    BY <1>1, <2>1, Zenon DEF BudgetGood, MaxInsn
  <2>3. gt_count' = gt_count
    BY <2>1, Zenon DEF gt_count, RtClock
  <2> QED BY <1>1, <2>1, <2>2, <2>3, MachineTyped, StepGood
<1> QED BY <1>2, <1>3, Zenon

\* What machine_wait_for_event does to the clock and to the devices.
LEMMA WaitForEventSteps ==
  ASSUME LoopInv, WaitForEvent, mach' = mach
  PROVE  \E jump \in Nat :
           /\ clock' = clock + jump /\ gt_count' = gt_count + jump
           /\ DevicesGood(Devices, mach.HostBytes, gic', tmr', uart', rtc', gt_count + jump)
           /\ hostin' \in Seq(mach.HostBytes) /\ uart'.rx \o hostin' = uart.rx \o hostin
           /\ jump # 0 => jump = timer_next_deadline(tmr, gt_count)
<1> DEFINE dl    == timer_next_deadline(tmr, gt_count)
           input == Tty /\ hostin # <<>>
           jump  == IF ~RtClock /\ fast_forward(input, dl) THEN dl ELSE 0
           m     == machine_tick(gt_count + jump, 0)
<1>1. clock' = clock + jump /\ Ticked(m) /\ icount' = icount
  BY Zenon DEF WaitForEvent
<1>2. tmr \in TimerState /\ gt_count \in Nat
  BY MachineTyped, Zenon DEF LoopInv, DevicesGood
<1>3. jump \in Nat /\ (jump # 0 => jump = dl /\ ~RtClock)
  <2>1. dl \in Nat
    BY <1>2, DeadlineAhead, Zenon
  <2> HIDE DEF dl
  <2> QED BY <2>1, Zenon
<1>4. gic' = m.gic /\ tmr' = m.tmr /\ uart' = m.uart /\ rtc' = m.rtc /\ hostin' = m.hostin
  BY <1>1, Zenon DEF Ticked
<1> HIDE DEF jump, m
<1>5. gt_count' = gt_count + jump
  BY <1>1, <1>3, MachineTyped DEF gt_count, RtClock
<1>6. /\ DevicesGood(Devices, mach.HostBytes, m.gic, m.tmr, m.uart, m.rtc, gt_count + jump)
      /\ m.hostin \in Seq(mach.HostBytes) /\ m.uart.rx \o m.hostin = uart.rx \o hostin
  <2>1. gt_count + jump \in Nat /\ gt_count <= gt_count + jump
    BY <1>2, <1>3
  <2> QED BY <2>1, TickGood, Zenon DEF m
<1> QED BY <1>1, <1>3, <1>4, <1>5, <1>6, Zenon

\* Waiting for an event: the clock jumps, the devices tick at the new count.
LEMMA WaitForEventGood == ASSUME LoopInv, WaitForEvent, mach' = mach PROVE LoopInv'
<1>1. PICK jump \in Nat :
        /\ clock' = clock + jump /\ gt_count' = gt_count + jump
        /\ DevicesGood(Devices, mach.HostBytes, gic', tmr', uart', rtc', gt_count + jump)
        /\ hostin' \in Seq(mach.HostBytes)
  BY WaitForEventSteps, Zenon
<1>2. cpu' \in Cpus
  <2>1. PICK w : cpu' = [cpu EXCEPT !.halted = ~w]
    BY Zenon DEF WaitForEvent, wakes
  <2> QED BY <2>1, Zenon DEF LoopInv, Cpus
<1>3. icount' = icount /\ left' = left /\ phase' \in {"exited", GoRound}
  BY Zenon DEF WaitForEvent
<1>4. BudgetGood'
  BY <1>3, MachineTyped DEF LoopInv, BudgetGood, GoRound, MaxInsn
<1>5. clock \in Nat /\ clock' \in Nat /\ clock <= clock' /\ gt_count + jump \in Nat
  BY <1>1, MachineTyped, SMTT(60)
<1>6. gt_count + jump <= gt_count'
  BY <1>1, <1>5
<1> QED BY <1>1, <1>2, <1>3, <1>4, <1>5, <1>6, StepGood, Zenon

-----------------------------------------------------------------------------
(* Every reachable state *)

LEMMA InitGood == ASSUME Init PROVE LoopInv
<1>1. /\ gic = [gic_create EXCEPT !.d_ctlr = TRUE, !.c_ctlr = TRUE, !.pmr = 255]
      /\ tmr = timer_reset /\ uart = uart_reset /\ rtc = rtc_reset(0) /\ mach \in Machines
      /\ cpu = cpu_reset /\ icount = 0 /\ clock = 0 /\ hostin = <<>> /\ phase = "top"
      /\ left = (IF Engine = "pd" THEN 0 ELSE Slice - 1)
  BY Zenon DEF Init
<1>2. GicGood(gic)
  <2>1. gic \in GicState
    <3>1. gic_create \in GicState /\ 255 \in Prios
      BY RunLoopAssumption, PriosAssumption, TargetsAssumption, ZenonT(60) DEF gic_create, GicState
    <3> DEFINE d == [gic_create EXCEPT !.d_ctlr = TRUE]
               c == [d EXCEPT !.c_ctlr = TRUE]
    <3>2. d \in GicState
      BY <3>1, ZenonT(60) DEF GicState
    <3>3. gic = [c EXCEPT !.pmr = 255]
      BY <1>1, Zenon DEF gic_create
    <3> HIDE DEF d
    <3>4. c \in GicState
      BY <3>2, Zenon DEF GicState
    <3> HIDE DEF c
    <3> QED BY <3>1, <3>3, <3>4, SMTT(60) DEF GicState
  <2>2. Eligible(gic) = {}
    BY <1>1, ZenonT(60) DEF gic_create, Eligible
  <2> QED BY <2>1, <2>2, BestIsEligible, Zenon DEF GicGood, Raised
<1>3. gic.line = {}
  BY <1>1, Zenon DEF gic_create
<1>4. tmr \in TimerState /\ TimerGood(gic, tmr, gt_count)
  BY <1>1, <1>3, MaxU64Assumption DEF timer_reset, TimerState, TimerGood, Armed, U64
<1>5. /\ uart \in Uarts(mach.HostBytes) /\ Len(uart.rx) <= FifoCap /\ UartGood(gic, uart)
  BY <1>1, <1>3, FifoCapAssumption DEF uart_reset, Uarts, UartGood, uart_line
<1>6. rtc \in Rtcs /\ RtcGood(gic, rtc)
  BY <1>1, <1>3, MaxU32Assumption DEF rtc_reset, Rtcs, RtcGood, rtc_level, U32
<1>7. DevicesGood(Devices, mach.HostBytes, gic, tmr, uart, rtc, gt_count)
  BY <1>2, <1>4, <1>5, <1>6, Zenon DEF DevicesGood
<1>8. BudgetGood
  BY <1>1, RunLoopAssumption DEF BudgetGood, MaxInsn, Engine
<1> QED BY <1>1, <1>7, <1>8 DEF LoopInv, cpu_reset, Cpus

LEMMA NextGood == ASSUME LoopInv, [Next]_vars PROVE LoopInv'
<1>1. CASE Loop /\ mach' = mach
  BY <1>1, TickOrNotGood, QuietGood, StopGood, WaitForEventGood, Zenon DEF Loop
<1>2. CASE Guest /\ mach' = mach
  BY <1>2, MsrTimerGood, AccessGicGood, AccessUartGood, AccessRtcGood, CpuOnlyGood, Zenon DEF Guest
<1>3. CASE (Host \/ Exited) /\ mach' = mach
  BY <1>3, QuietGood, HostSecondGood, Zenon DEF Host
<1>4. CASE UNCHANGED vars
  BY <1>4, SMTT(60) DEF vars, LoopInv, DevicesGood, GicGood, TimerGood, UartGood, RtcGood, BudgetGood, Uarts,
              Devices, MaxInsn, Engine, gt_count, RtClock
<1> QED BY <1>1, <1>2, <1>3, <1>4, Zenon DEF Next

\* The invariant holds in every reachable state of the run loop.
THEOREM LoopInvariant == Spec => []LoopInv
<1>1. Init => LoopInv
  BY InitGood, Zenon
<1>2. LoopInv /\ [Next]_vars => LoopInv'
  BY NextGood, Zenon
<1> QED BY <1>1, <1>2, PTL DEF Spec

\* The loop's cached state is sound in every reachable state: the cached
\* deadline of timer_check hides no change of a timer's line, and the lines
\* of the UART and the RTC are their devices' own status, although only a
\* change of the RTC's remembered level reaches the controller.  The hypothesis
\* is that the 64-bit count has not reached its last value.
THEOREM LoopCachesSound == Spec => [](gt_count < MaxU64 => CachesSound)
<1>1. ASSUME LoopInv, gt_count < MaxU64 PROVE CachesSound
  <2>1. /\ DevicesGood(Devices, mach.HostBytes, gic, tmr, uart, rtc, gt_count) /\ BudgetGood /\ cpu \in Cpus
    BY <1>1, Zenon DEF LoopInv
  <2>2. gt_count \in 0..(MaxU64 - 1)
    BY <1>1, MachineTyped, MaxU64Assumption
  <2>3. TypeOK
    BY <2>1, <2>2, Zenon DEF TypeOK, DevicesGood, GicGood, BudgetGood, Uarts, Rtcs, Cpus
  <2>4. ASSUME "gic" \in Devices, gt_count < tmr.deadline, NEW t \in Timers
        PROVE  INTID(t) \in gic.line <=> fires(tmr, t, gt_count)
    <3>1. tmr.cval[t] \in Nat /\ tmr.deadline \in Nat /\ gt_count \in Nat
      BY <1>1, <2>1, MachineTyped DEF DevicesGood, TimerState, U64
    <3>2. /\ INTID(t) \in gic.line => fires(tmr, t, gt_count)
          /\ Armed(tmr, t) => tmr.deadline <= tmr.cval[t]
      BY <2>1, <2>4, Zenon DEF DevicesGood, TimerGood
    <3>3. ~fires(tmr, t, gt_count)
      BY <2>4, <3>1, <3>2 DEF fires
    <3> QED BY <3>2, <3>3, Zenon
  <2>5. LinesFollowDevices
    BY <2>1, Zenon DEF LinesFollowDevices, DevicesGood, UartGood, RtcGood
  <2> QED BY <2>3, <2>4, <2>5, Zenon DEF CachesSound, DeadlineSound
<1>2. LoopInv => (gt_count < MaxU64 => CachesSound)
  BY <1>1, Zenon
<1> QED BY <1>2, LoopInvariant, PTL

\* No interrupt is lost in the whole machine either: whatever timers, UART and
\* RTC do to their lines in one tick, an eligible interrupt has the CPU's
\* irq_line raised (gic_set_irq).
THEOREM LoopNeverLoses == Spec => []NoLostInterrupt
<1>1. LoopInv => NoLostInterrupt
  BY Zenon DEF LoopInv, DevicesGood, GicGood, Raised, NoLostInterrupt
<1> QED BY <1>1, LoopInvariant, PTL

\* The clock moves without real time only in machine_wait_for_event, and never
\* past the compare value of an armed timer that is still to come.
THEOREM LoopNeverOvershoots == Spec => NeverOvershoots
<1> DEFINE Kept == (~RtClock /\ clock' > clock) =>
                     \A t \in Timers :
                       Armed(tmr, t) /\ tmr.cval[t] > gt_count => gt_count' <= tmr.cval[t]
<1>1. ASSUME LoopInv, [Next]_vars PROVE Kept \/ UNCHANGED vars
  <2>1. SUFFICES ASSUME ~RtClock, clock' > clock, mach' = mach,
                        NEW t \in Timers, Armed(tmr, t), tmr.cval[t] > gt_count
                 PROVE  gt_count' <= tmr.cval[t]
    BY <1>1, Zenon DEF Next
  <2>2. clock \in Nat /\ gt_count \in Nat /\ tmr \in TimerState
    BY <1>1, MachineTyped, Zenon DEF LoopInv, DevicesGood
  <2>3. clock' # clock /\ clock' # 0
    BY <2>1, <2>2
  <2>4. WaitForEvent
    BY <1>1, <2>1, <2>3, ZenonT(60)
       DEF Next, Loop, Guest, Host, TickOrNot, TakeIrq, ReturnHalted, Stop, NextRound, MsrTimer, WriteTimer,
           AccessGic, AccessUart, AccessRtc, SetMask, Wait, Psci, Compute, Retire, HostTypes, HostClock,
           HostSecond, Exited, vars
  <2>5. PICK jump \in Nat : /\ clock' = clock + jump /\ gt_count' = gt_count + jump
                            /\ jump # 0 => jump = timer_next_deadline(tmr, gt_count)
    BY <1>1, <2>1, <2>4, WaitForEventSteps, Zenon
  <2>6. jump = timer_next_deadline(tmr, gt_count)
    BY <2>2, <2>3, <2>5
  <2>7. gt_count + timer_next_deadline(tmr, gt_count) <= tmr.cval[t]
    BY <2>1, <2>2, DeadlineAhead, Zenon
  <2> QED BY <2>5, <2>6, <2>7, Zenon
<1>2. LoopInv /\ [Next]_vars => [Kept]_vars
  BY <1>1, Zenon
<1> QED BY <1>2, LoopInvariant, PTL DEF Spec, NeverOvershoots

\* What one step may do to the input q that the guest has yet to read.
InputKept(q, r) ==
  \/ r = q
  \/ \E b \in mach.HostBytes : r = Append(q, b)
  \/ q # <<>> /\ r = Tail(q)
  \/ cpu.reset /\ uart' = uart_reset /\ r = hostin

\* Only DR reads shorten the FIFO of the UART.
LEMMA ReadKeepsInput ==
  ASSUME LoopInv, AccessUart
  PROVE  InputKept(uart.rx \o hostin, uart'.rx \o hostin')
<1> DEFINE B == mach.HostBytes
           q == uart.rx \o hostin
<1>1. uart \in Uarts(mach.HostBytes) /\ uart.rx \in Seq(B) /\ hostin \in Seq(B) /\ hostin' = hostin
  BY Zenon DEF LoopInv, DevicesGood, Uarts, AccessUart
<1>2. uart'.rx = uart.rx \/ (uart.rx # <<>> /\ uart'.rx = Tail(uart.rx))
  BY <1>1, Zenon DEF AccessUart, uart_read_DR, uart_write_IMSC, Uarts
<1>3. ASSUME uart.rx # <<>> PROVE q # <<>> /\ Tail(uart.rx) \o hostin = Tail(q)
  <2>1. Cat(uart.rx, hostin) # <<>> /\ Cat(Tail(uart.rx), hostin) = Tail(Cat(uart.rx, hostin))
    BY <1>1, <1>3, TailCat, Zenon
  <2> QED BY <2>1, Zenon DEF Cat
<1> QED BY <1>1, <1>2, <1>3, Zenon DEF InputKept

\* Typed input is never lost or reordered on its way from stdin through the
\* FIFO to the guest, whatever the FIFO's size: pl011_rx_poll takes no more
\* than there is room for, and only a reboot drops what is in the FIFO.
THEOREM LoopKeepsInput == Spec => InputNeverLost
<1> DEFINE q == uart.rx \o hostin
           r == uart'.rx \o hostin'
<1>1. ASSUME LoopInv, [Next]_vars PROVE InputKept(q, r)
  <2>1. uart.rx \in Seq(mach.HostBytes) /\ hostin \in Seq(mach.HostBytes)
    BY <1>1, Zenon DEF LoopInv, DevicesGood, Uarts
  <2>2. CASE TickOrNot /\ mach' = mach
    <3>1. CASE Ticked(machine_tick(gt_count, due))
      <4> DEFINE m == machine_tick(gt_count, due)
      <4>1. gt_count \in Nat /\ gt_count <= gt_count
        BY <1>1, MachineTyped
      <4>2. m.uart.rx \o m.hostin = uart.rx \o hostin
        BY <1>1, <4>1, TickGood, Zenon
      <4>3. uart' = m.uart /\ hostin' = m.hostin
        BY <3>1, Zenon DEF Ticked
      <4> QED BY <4>2, <4>3, Zenon DEF InputKept
    <3>2. CASE UNCHANGED devs
      BY <3>2, Zenon DEF devs, InputKept
    <3> QED BY <2>2, <3>1, <3>2, Zenon DEF TickOrNot
  <2>3. CASE WaitForEvent /\ mach' = mach
    <3>1. r = q
      BY <1>1, <2>3, WaitForEventSteps, Zenon
    <3> QED BY <3>1, Zenon DEF InputKept
  <2>4. CASE Stop
    <3>1. CASE uart' = uart /\ hostin' = hostin
      BY <3>1, Zenon DEF InputKept
    <3>2. CASE uart' = uart_reset /\ hostin' = hostin /\ cpu.reset
      <4>1. uart'.rx = <<>>
        BY <3>2, Zenon DEF uart_reset
      <4>2. r = hostin
        BY <2>1, <3>2, <4>1
      <4> QED BY <3>2, <4>2, Zenon DEF InputKept
    <3> QED BY <2>4, <3>1, <3>2, Zenon DEF Stop, devs
  <2>5. CASE AccessUart
    BY <1>1, <2>5, ReadKeepsInput, Zenon
  <2>6. CASE HostTypes
    <3>1. PICK b \in mach.HostBytes : hostin' = Append(hostin, b) /\ uart' = uart
      BY <2>6, Zenon DEF HostTypes
    <3>2. Cat(uart.rx, Put1(hostin, b)) = Put1(Cat(uart.rx, hostin), b)
      BY <2>1, AppendLast
    <3>3. r = Append(q, b)
      BY <3>1, <3>2, Zenon DEF Cat, Put1
    <3> QED BY <3>3, Zenon DEF InputKept
  <2>7. CASE uart' = uart /\ hostin' = hostin
    BY <2>7, Zenon DEF InputKept
  <2>8. CASE (Loop \/ Guest \/ Host \/ Exited) /\ mach' = mach
    <3>1. ASSUME TakeIrq \/ ReturnHalted \/ NextRound \/ HostClock \/ HostSecond \/ Exited
          PROVE  uart' = uart /\ hostin' = hostin
      BY <3>1, Zenon DEF TakeIrq, ReturnHalted, NextRound, HostClock, HostSecond, Exited, devs
    <3>2. ASSUME MsrTimer \/ AccessGic \/ AccessRtc \/ SetMask \/ Wait \/ Psci \/ Compute
          PROVE  uart' = uart /\ hostin' = hostin
      BY <3>2, Zenon DEF MsrTimer, WriteTimer, AccessGic, AccessRtc, SetMask, Wait, Psci, Compute
    <3> HIDE DEF q, r
    <3> QED BY <2>2, <2>3, <2>4, <2>5, <2>6, <2>7, <2>8, <3>1, <3>2, Zenon DEF Loop, Guest, Host
  <2> HIDE DEF q, r
  <2> QED BY <1>1, <2>7, <2>8, Zenon DEF Next, vars
<1>2. LoopInv /\ [Next]_vars => [LET p == uart.rx \o hostin
                                     s == (uart.rx \o hostin)'
                                 IN  \/ s = p
                                     \/ \E b \in mach.HostBytes : s = Append(p, b)
                                     \/ p # <<>> /\ s = Tail(p)
                                     \/ cpu.reset /\ uart' = uart_reset /\ s = hostin]_vars
  BY <1>1, Zenon DEF InputKept
<1> QED BY <1>2, LoopInvariant, PTL DEF Spec, InputNeverLost

=============================================================================
