--------------------------- MODULE PolledDevices ---------------------------
(***************************************************************************)
(* The devices the run loop polls in machine_tick.                         *)
(*                                                                         *)
(* The architected timers of src/src/devices/timer.c: the physical ("P")   *)
(* and the virtual ("V") EL1 timer, compared with one counter.  CNTVOFF is *)
(* never written without EL2, so both timers see the same count.  A timer  *)
(* is armed when ENABLE is set and IMASK is clear, and asserts its level   *)
(* interrupt while the count has reached its compare value.  The module    *)
(* caches the next count at which that can change (deadline), so that the  *)
(* per-tick path is one comparison.                                        *)
(*                                                                         *)
(* The UART of src/src/devices/pl011.c: bytes are values, the 64-slot ring *)
(* (which holds 63) is the sequence of its contents.  Line-control and     *)
(* baud-rate registers, which only read back, are left out.                *)
(*                                                                         *)
(* The real-time clock of src/src/devices/pl031.c: host seconds plus the   *)
(* offset set by a write to LR, in 32-bit arithmetic.                      *)
(***************************************************************************)
EXTENDS GICv2, Sequences, FiniteSetsExt

CONSTANT MaxU64      \* the largest 64-bit value, ~0ULL: "no deadline"

ASSUME MaxU64Assumption == MaxU64 \in Nat \ {0}

Timers == {"P", "V"}
INTID(t) == IF t = "P" THEN 30 ELSE 27
U64 == 0..MaxU64

TimerState == [ctl : [Timers -> SUBSET {"ENABLE", "IMASK"}],
               cval : [Timers -> U64],
               deadline : U64]

Armed(tm, t) == "ENABLE" \in tm.ctl[t] /\ "IMASK" \notin tm.ctl[t]

fires(tm, t, count) == Armed(tm, t) /\ count >= tm.cval[t]

\* Mutant: the cached deadline follows the physical timer only.
deadline_count_PhysOnly(tm) ==
  IF Armed(tm, "P") THEN tm.cval["P"] ELSE MaxU64

deadline_count(tm) == Min({MaxU64} \cup {tm.cval[t] : t \in {u \in Timers : Armed(tm, u)}})

\* timer_update: both lines, physical first, then the cached deadline.
timer_update_gic(g, tm, count) ==
  gic_set_irq(gic_set_irq(g, INTID("P"), fires(tm, "P", count)), INTID("V"), fires(tm, "V", count))

timer_update_tmr(tm) == [tm EXCEPT !.deadline = deadline_count(tm)]

\* timer_check: a full update once the count has reached the cached deadline.
timer_due(tm, count) == count >= tm.deadline

\* Mutant: the idle jump looks at the virtual timer only.
timer_next_deadline_VirtOnly(tm, count) ==
  Min({MaxU64} \cup
      {IF tm.cval[t] <= count THEN 0 ELSE tm.cval[t] - count :
         t \in {u \in {"V"} : Armed(tm, u)}})

\* timer_next_deadline_ticks, and the class (due, later, none) that the caller
\* of timer_next_deadline_ns distinguishes: counts until the next armed timer
\* fires, 0 when one is already due, MaxU64 when none is armed.
timer_next_deadline(tm, count) ==
  Min({MaxU64} \cup
      {IF tm.cval[t] <= count THEN 0 ELSE tm.cval[t] - count :
         t \in {u \in Timers : Armed(tm, u)}})

\* The registers after cpu_reset, with the deadline machine_reset forces to 0.
timer_reset == [ctl |-> [t \in Timers |-> {}], cval |-> [t \in Timers |-> 0],
                deadline |-> 0]

-----------------------------------------------------------------------------
(* MSR to a CNT* register; do_msr runs timer_update after each of them. *)

CNT_CTL(tm, t, bits) == [tm EXCEPT !.ctl[t] = bits]
CNT_CVAL(tm, t, v)   == [tm EXCEPT !.cval[t] = v]

\* A signed 32-bit offset from the count, added modulo 2^64.
CNT_TVAL(tm, t, v, count) == [tm EXCEPT !.cval[t] = (count + v) % (MaxU64 + 1)]

-----------------------------------------------------------------------------
CONSTANT FifoCap     \* bytes the receive FIFO holds

ASSUME FifoCapAssumption == FifoCap \in Nat \ {0}

INTID_UART == 33

\* RXRIS follows the FIFO; TXRIS is always set.
uart_ris(u) == {"TX"} \cup (IF u.rx = <<>> THEN {} ELSE {"RX"})

uart_line(u) == uart_ris(u) \cap u.imsc # {}

\* update_irq
uart_gic(g, u) == gic_set_irq(g, INTID_UART, uart_line(u))

\* Mutant: the poll reads the host even when the FIFO is full.
rx_taken_Overrun(u, in) == Len(in)

\* Bytes the poll reads from the host: it stops when the FIFO is full.
rx_taken(u, in) == Min({Len(in), FifoCap - Len(u.rx)})

\* pl011_rx_poll: rx_push each byte read; a full FIFO drops the byte.
rx_poll(u, in) ==
  LET q == u.rx \o SubSeq(in, 1, rx_taken(u, in))
  IN  [u EXCEPT !.rx = SubSeq(q, 1, Min({Len(q), FifoCap}))]

\* DR read: pop one byte if there is one.
uart_read_DR(u) == [u EXCEPT !.rx = IF @ = <<>> THEN @ ELSE Tail(@)]

uart_write_IMSC(u, bits) == [u EXCEPT !.imsc = bits]

uart_reset == [rx |-> <<>>, imsc |-> {}]

-----------------------------------------------------------------------------
CONSTANT MaxU32      \* the largest 32-bit value

ASSUME MaxU32Assumption == MaxU32 \in Nat \ {0}

INTID_RTC == 34
U32 == 0..MaxU32

ASSUME IntidsAssumption == {INTID("P"), INTID("V"), INTID_UART, INTID_RTC} \subseteq Irqs

rtc_count(r) == (r.host + r.offset) % (MaxU32 + 1)

rtc_level(r) == r.ris /\ r.imsc

\* pl031_set_line: touches the controller only when the level changed.
rtc_set_line(r) == [r EXCEPT !.irq_line = rtc_level(r)]

rtc_gic(g, r) ==
  IF rtc_level(r) # r.irq_line THEN gic_set_irq(g, INTID_RTC, rtc_level(r)) ELSE g

rtc_write_MR(r, v)   == [r EXCEPT !.mr = v, !.armed = TRUE]
rtc_write_LR(r, v)   == [r EXCEPT !.offset = (v - r.host) % (MaxU32 + 1)]
rtc_write_IMSC(r, b) == [r EXCEPT !.imsc = b]
rtc_write_ICR(r)     == [r EXCEPT !.ris = FALSE]

\* pl031_update's one-shot match; a poll may overshoot the exact second.
rtc_match(r) ==
  IF r.armed /\ rtc_count(r) >= r.mr THEN [r EXCEPT !.ris = TRUE, !.armed = FALSE] ELSE r

\* pl031_reset; the host clock h goes on.
rtc_reset(h) == [host |-> h, offset |-> 0, mr |-> 0, armed |-> FALSE,
                 ris |-> FALSE, imsc |-> FALSE, irq_line |-> FALSE]

=============================================================================
