----------------------------- MODULE DeviceProofs -----------------------------
(***************************************************************************)
(* Proofs about the devices the run loop polls: the interrupt controller   *)
(* for any set of interrupts, priorities and targets, then what the        *)
(* generic timer, the UART and the real-time clock keep true of            *)
(* themselves and of their interrupt lines.                                *)
(*                                                                         *)
(* For the interrupt controller the inductive invariant is                 *)
(* GicTypeOK /\ NoLostInterrupt.  Typing is needed because what the CPU    *)
(* interface offers (gic_best) has to be one of the interrupts before it   *)
(* can be marked active.  The one fact about data is that the scan of      *)
(* gic_best finds an interrupt whenever one is eligible (BestExists):      *)
(* priorities and INTIDs are well ordered.                                 *)
(*                                                                         *)
(* DevicesGood says of the devices at one count that the timer's cached    *)
(* deadline is no later than any comparator that can still fire, that a    *)
(* line the timer raised belongs to a comparator that fires, and that the  *)
(* level the clock remembers is the one it drives.  RunLoopProofs shows    *)
(* that every step of the machine keeps it.                                *)
(***************************************************************************)
EXTENDS PolledDevices, TLAPS, WellFoundedInduction

\* A non-empty set of natural numbers has a least element.
LEMMA LeastElement ==
  ASSUME NEW T, T \subseteq Nat, T # {}
  PROVE  \E x \in T : \A y \in T : x <= y
<1> DEFINE R == OpToRel(<, Nat)
<1>1. \A x, y \in Nat : y < x => <<y, x>> \in R
  BY Zenon DEF OpToRel
<1>2. IsWellFoundedOn(R, Nat)
  BY NatLessThanWellFounded, Zenon
<1> HIDE DEF R
<1>3. PICK x \in T : \A y \in T : ~(<<y, x>> \in R)
  BY <1>2, WFMin, Zenon
<1>4. ASSUME NEW y \in T PROVE x <= y
  <2>1. x \in Nat /\ y \in Nat
    BY Zenon
  <2>2. ~(y < x)
    BY <1>1, <1>3, <2>1, Zenon
  <2> QED
    BY <2>1, <2>2
<1> QED
  BY <1>4, Zenon

\* The scan of gic_best finds an interrupt that outranks every other eligible
\* one.
LEMMA BestExists ==
  ASSUME NEW g \in GicState, Eligible(g) # {}
  PROVE  \E i \in Eligible(g) : \A j \in Eligible(g) : Outranks(g, i, j)
<1> DEFINE Key(i) == 256 * g.priority[i] + i
           Keys == {Key(i) : i \in Eligible(g)}
<1>1. \A i \in Eligible(g) : i \in 0..255 /\ g.priority[i] \in 0..255
  BY IrqsAssumption, PriosAssumption, ZenonT(60) DEF Eligible, GicState
<1>2. ASSUME NEW i \in Eligible(g), NEW j \in Eligible(g)
      PROVE  Key(i) \in Nat /\ (Key(i) <= Key(j) => Outranks(g, i, j))
  <2> DEFINE p == g.priority[i]
             q == g.priority[j]
  <2>1. (p \in 0..255 /\ i \in 0..255) /\ (q \in 0..255 /\ j \in 0..255)
    BY <1>1, ZenonT(60)
  <2>2. Key(i) = 256 * p + i /\ Key(j) = 256 * q + j
    BY Zenon
  <2>3. Outranks(g, i, j) <=> p < q \/ (p = q /\ i <= j)
    BY Zenon DEF Outranks
  <2> HIDE DEF p, q, Key
  <2>4. 256 * p + i \in Nat /\ (256 * p + i <= 256 * q + j => p < q \/ (p = q /\ i <= j))
    BY <2>1
  <2> QED
    BY <2>2, <2>3, <2>4, ZenonT(60)
<1> HIDE DEF Key
<1>3. Keys \subseteq Nat /\ Keys # {}
  BY <1>2, Zenon
<1>4. PICK k \in Keys : \A l \in Keys : k <= l
  BY <1>3, LeastElement, Zenon
<1>5. PICK i \in Eligible(g) : k = Key(i)
  BY Zenon
<1>6. \A j \in Eligible(g) : Outranks(g, i, j)
  BY <1>2, <1>4, <1>5, Zenon
<1> QED
  BY <1>6, Zenon

\* gic_best returns SPURIOUS exactly when it returns no eligible interrupt,
\* and an eligible interrupt otherwise.
LEMMA BestIsEligible ==
  ASSUME NEW g \in GicState
  PROVE  /\ gic_best(g) # SPURIOUS <=> g.d_ctlr /\ g.c_ctlr /\ Eligible(g) # {}
         /\ gic_best(g) # SPURIOUS => gic_best(g) \in Eligible(g)
         /\ gic_best(g) # SPURIOUS => gic_best(g) \in Irqs
<1>1. Eligible(g) \subseteq Irqs /\ SPURIOUS \notin Irqs
  BY IrqsAssumption DEF Eligible, GicState, SPURIOUS
<1>2. Eligible(g) # {} => (CHOOSE i \in Eligible(g) : \A j \in Eligible(g) : Outranks(g, i, j)) \in Eligible(g)
  BY BestExists, Zenon
<1> QED
  BY <1>1, <1>2, Zenon DEF gic_best, GicState

\* No lost interrupt, as a predicate of any controller state.
Raised(g) == gic_best(g) # SPURIOUS => g.irq_line

\* Handlers that end in gic_update keep the types and raise the line when an
\* interrupt is eligible.
LEMMA UpdateRaises ==
  ASSUME NEW g \in GicState
  PROVE  gic_update(g) \in GicState /\ Raised(gic_update(g))
<1> DEFINE h == gic_update(g)
<1>1. h \in GicState
  BY Zenon DEF gic_update, GicState
<1>2. Eligible(h) = Eligible(g) /\ h.d_ctlr = g.d_ctlr /\ h.c_ctlr = g.c_ctlr
  BY Zenon DEF gic_update, Eligible, GicState
<1>3. h.irq_line = (gic_best(g) # SPURIOUS)
  BY Zenon DEF gic_update, GicState
<1> QED
  BY <1>1, <1>2, <1>3, BestIsEligible, Zenon DEF Raised

\* A step that only takes eligible interrupts away needs no gic_update.
LEMMA FewerEligible ==
  ASSUME NEW g \in GicState, NEW h \in GicState, Raised(g),
         Eligible(h) \subseteq Eligible(g),
         h.d_ctlr = g.d_ctlr, h.c_ctlr = g.c_ctlr, h.irq_line = g.irq_line
  PROVE  Raised(h)
BY BestIsEligible, Zenon DEF Raised

\* gic_set_irq, with its early return when pending does not move.
LEMMA SetIrqRaises ==
  ASSUME NEW g \in GicState, Raised(g), NEW i, NEW lv \in BOOLEAN
  PROVE  gic_set_irq(g, i, lv) \in GicState /\ Raised(gic_set_irq(g, i, lv))
<1> DEFINE pend == IF i \in g.cfg_edge THEN i \in g.pending \/ (lv /\ i \notin g.line) ELSE lv
           h == [g EXCEPT !.line = Put(@, i, lv)]
           k == [h EXCEPT !.pending = Put(@, i, pend)]
<1>1. CASE i \notin Irqs
  BY <1>1, Zenon DEF gic_set_irq
<1>2. CASE i \in Irqs
  <2>1. h \in GicState /\ k \in GicState
    BY <1>2, ZenonT(60) DEF GicState, Put
  <2>2. Raised(h)
    <3>1. Eligible(h) = Eligible(g)
      BY Zenon DEF Eligible, GicState
    <3> QED
      BY <2>1, <3>1, FewerEligible, SMTT(60) DEF GicState
  <2>3. gic_set_irq(g, i, lv) = IF pend = (i \in g.pending) THEN h ELSE gic_update(k)
    BY <1>2, Zenon DEF gic_set_irq
  <2> HIDE DEF pend, h, k
  <2> QED
    BY <2>1, <2>2, <2>3, UpdateRaises, Zenon
<1> QED
  BY <1>1, <1>2, Zenon

-----------------------------------------------------------------------------
\* One step of the controller keeps the types and the no-lost-interrupt
\* property, register by register.
LEMMA StepRaises ==
  ASSUME gic \in GicState, Raised(gic), GicNext
  PROVE  gic' \in GicState /\ Raised(gic')
<1>m. \A S \in Masks : S \subseteq Irqs
  BY Zenon DEF Masks, Bank32
<1>1. CASE GuestWritesGICD
  <2>1. ASSUME NEW b \in BOOLEAN, gic' = GICD_CTLR(gic, b)
        PROVE  gic' \in GicState /\ Raised(gic')
    <3>1. [gic EXCEPT !.d_ctlr = b] \in GicState
      BY Zenon DEF GicState
    <3> QED
      BY <2>1, <3>1, UpdateRaises, Zenon DEF GICD_CTLR
  <2>2. ASSUME NEW S \in Masks, gic' = GICD_ISENABLER(gic, S)
        PROVE  gic' \in GicState /\ Raised(gic')
    <3>1. [gic EXCEPT !.enabled = @ \cup S] \in GicState
      BY <1>m, Zenon DEF GicState
    <3> QED
      BY <2>2, <3>1, UpdateRaises, Zenon DEF GICD_ISENABLER
  <2>3. ASSUME NEW S \in Masks, gic' = GICD_ICENABLER(gic, S)
        PROVE  gic' \in GicState /\ Raised(gic')
    <3>1. [gic EXCEPT !.enabled = @ \ S] \in GicState
      BY Zenon DEF GicState
    <3> QED
      BY <2>3, <3>1, UpdateRaises, Zenon DEF GICD_ICENABLER
  <2>4. ASSUME NEW S \in Masks, gic' = GICD_ISPENDR(gic, S)
        PROVE  gic' \in GicState /\ Raised(gic')
    <3>1. [gic EXCEPT !.pending = @ \cup S] \in GicState
      BY <1>m, Zenon DEF GicState
    <3> QED
      BY <2>4, <3>1, UpdateRaises, Zenon DEF GICD_ISPENDR
  <2>5. ASSUME NEW S \in Masks, gic' = GICD_ICPENDR(gic, S)
        PROVE  gic' \in GicState /\ Raised(gic')
    <3>1. [gic EXCEPT !.pending = @ \ S] \in GicState
      BY Zenon DEF GicState
    <3> QED
      BY <2>5, <3>1, UpdateRaises, Zenon DEF GICD_ICPENDR
  <2>6. ASSUME NEW S \in Masks, gic' = GICD_ISACTIVER(gic, S)
        PROVE  gic' \in GicState /\ Raised(gic')
    <3>1. gic' \in GicState
      BY <2>6, <1>m, Zenon DEF GicState, GICD_ISACTIVER
    <3>2. Eligible(gic') \subseteq Eligible(gic)
      BY <2>6, Zenon DEF GicState, GICD_ISACTIVER, Eligible
    <3>3. gic'.d_ctlr = gic.d_ctlr /\ gic'.c_ctlr = gic.c_ctlr /\ gic'.irq_line = gic.irq_line
      BY <2>6, Zenon DEF GicState, GICD_ISACTIVER
    <3> QED
      BY <3>1, <3>2, <3>3, FewerEligible, Zenon
  <2>7. ASSUME NEW S \in Masks, gic' = GICD_ICACTIVER(gic, S)
        PROVE  gic' \in GicState /\ Raised(gic')
    <3>1. [gic EXCEPT !.active = @ \ S] \in GicState
      BY Zenon DEF GicState
    <3> QED
      BY <2>7, <3>1, UpdateRaises, Zenon DEF GICD_ICACTIVER
  <2>8. ASSUME NEW f \in Bytes(Prios), gic' = GICD_IPRIORITYR(gic, f)
        PROVE  gic' \in GicState /\ Raised(gic')
    <3>1. \A i \in DOMAIN f : f[i] \in Prios
      <4>1. PICK i \in Irqs : f \in [{i} -> Prios]
        BY Zenon DEF Bytes
      <4> QED
        BY <4>1, Zenon
    <3>2. [gic EXCEPT !.priority = [i \in Irqs |-> IF i \in DOMAIN f THEN f[i] ELSE gic.priority[i]]] \in GicState
      BY <3>1, Zenon DEF GicState
    <3> QED
      BY <2>8, <3>2, UpdateRaises, Zenon DEF GICD_IPRIORITYR
  <2>9. ASSUME NEW f \in Bytes(Targets), gic' = GICD_ITARGETSR(gic, f)
        PROVE  gic' \in GicState /\ Raised(gic')
    <3>1. \A i \in DOMAIN f : f[i] \in Targets
      <4>1. PICK i \in Irqs : f \in [{i} -> Targets]
        BY Zenon DEF Bytes
      <4> QED
        BY <4>1, Zenon
    <3>2. gic' \in GicState
      BY <2>9, <3>1, Zenon DEF GicState, GICD_ITARGETSR
    <3>3. /\ Eligible(gic') = Eligible(gic)
          /\ gic'.d_ctlr = gic.d_ctlr /\ gic'.c_ctlr = gic.c_ctlr /\ gic'.irq_line = gic.irq_line
      BY <2>9, Zenon DEF GicState, GICD_ITARGETSR, Eligible
    <3> QED
      BY <3>2, <3>3, FewerEligible, Zenon
  <2>10. ASSUME NEW i \in Irqs, NEW S \in SUBSET Bank16(i), gic' = GICD_ICFGR(gic, Bank16(i), S)
         PROVE  gic' \in GicState /\ Raised(gic')
    <3>1. gic' \in GicState
      BY <2>10, Zenon DEF GicState, GICD_ICFGR, Bank16
    <3>2. /\ Eligible(gic') = Eligible(gic)
          /\ gic'.d_ctlr = gic.d_ctlr /\ gic'.c_ctlr = gic.c_ctlr /\ gic'.irq_line = gic.irq_line
      BY <2>10, Zenon DEF GicState, GICD_ICFGR, Eligible
    <3> QED
      BY <3>1, <3>2, FewerEligible, Zenon
  <2> QED
    BY <1>1, <2>1, <2>2, <2>3, <2>4, <2>5, <2>6, <2>7, <2>8, <2>9, <2>10, Zenon DEF GuestWritesGICD
<1>2. CASE GuestReadsIAR
  <2> DEFINE best == gic_best(gic)
             h == [gic EXCEPT !.active = @ \cup {best},
                              !.pending = IF best \in gic.cfg_edge THEN @ \ {best} ELSE @]
  <2>1. CASE best = SPURIOUS
    BY <1>2, <2>1, Zenon DEF GuestReadsIAR, GICC_IAR
  <2>2. CASE best # SPURIOUS
    <3>1. best \in Irqs
      BY <2>2, BestIsEligible, Zenon
    <3>2. gic' = gic_update(h)
      BY <1>2, <2>2, Zenon DEF GuestReadsIAR, GICC_IAR
    <3> HIDE DEF best
    <3>3. h \in GicState
      BY <3>1, ZenonT(60) DEF GicState
    <3> QED
      BY <3>2, <3>3, UpdateRaises, Zenon
  <2> QED
    BY <2>1, <2>2, Zenon
<1>3. CASE GuestWritesGICC
  <2>1. ASSUME NEW b \in BOOLEAN, gic' = GICC_CTLR(gic, b)
        PROVE  gic' \in GicState /\ Raised(gic')
    <3>1. [gic EXCEPT !.c_ctlr = b] \in GicState
      BY Zenon DEF GicState
    <3> QED
      BY <2>1, <3>1, UpdateRaises, Zenon DEF GICC_CTLR
  <2>2. ASSUME NEW v \in Prios, gic' = GICC_PMR(gic, v)
        PROVE  gic' \in GicState /\ Raised(gic')
    <3>1. [gic EXCEPT !.pmr = v] \in GicState
      BY Zenon DEF GicState
    <3> QED
      BY <2>2, <3>1, UpdateRaises, Zenon DEF GICC_PMR
  <2>3. ASSUME NEW id, gic' = GICC_EOIR(gic, id)
        PROVE  gic' \in GicState /\ Raised(gic')
    <3>1. [gic EXCEPT !.active = @ \ {id}] \in GicState
      BY Zenon DEF GicState
    <3> QED
      BY <2>3, <3>1, UpdateRaises, Zenon DEF GICC_EOIR
  <2> QED
    BY <1>3, <2>1, <2>2, <2>3, Zenon DEF GuestWritesGICC
<1>4. CASE DeviceDrivesLine
  BY <1>4, SetIrqRaises, Zenon DEF DeviceDrivesLine
<1>5. CASE SystemReset
  <2>1. gic' = gic_create
    BY <1>5, Zenon DEF SystemReset, gic_reset, gic_create
  <2>2. gic_create \in GicState /\ ~gic_create.d_ctlr
    BY PriosAssumption, TargetsAssumption, ZenonT(60) DEF gic_create, GicState
  <2> QED
    BY <2>1, <2>2, BestIsEligible, Zenon DEF Raised
<1> QED
  BY <1>1, <1>2, <1>3, <1>4, <1>5, Zenon DEF GicNext

\* The inductive invariant holds.
LEMMA GicInvariant == GicSpec => [](gic \in GicState /\ Raised(gic))
<1>1. GicInit => gic \in GicState /\ Raised(gic)
  <2>1. gic_create \in GicState /\ ~gic_create.d_ctlr
    BY PriosAssumption, TargetsAssumption, ZenonT(60) DEF gic_create, GicState
  <2> QED
    BY <2>1, BestIsEligible, Zenon DEF GicInit, Raised
<1>2. gic \in GicState /\ Raised(gic) /\ [GicNext]_gic => (gic \in GicState /\ Raised(gic))'
  BY StepRaises, Zenon DEF Raised
<1> QED
  BY <1>1, <1>2, PTL DEF GicSpec

\* The controller record keeps its types.
THEOREM GicTypeSafe == GicSpec => []GicTypeOK
<1>1. gic \in GicState /\ Raised(gic) => GicTypeOK
  BY Zenon DEF GicTypeOK
<1> QED
  BY <1>1, GicInvariant, PTL

\* No interrupt is lost: whatever the order of register writes, line changes,
\* acknowledges, ends of interrupt and resets, an eligible interrupt has the
\* CPU's irq_line raised.
THEOREM GicNeverLoses == GicSpec => []NoLostInterrupt
<1>1. gic \in GicState /\ Raised(gic) => NoLostInterrupt
  BY Zenon DEF NoLostInterrupt, Raised
<1> QED
  BY <1>1, GicInvariant, PTL

-----------------------------------------------------------------------------
\* Of all steps only an acknowledge, a write to ICPENDR and a reset clear the
\* pending bit of an edge-configured interrupt.
LEMMA StepLatches ==
  ASSUME gic \in GicState, GicNext
  PROVE  LatchKept
<1>u. \A g \in GicState : gic_update(g).pending = g.pending
  BY Zenon DEF gic_update, GicState
<1>1. CASE GuestWritesGICD
  <2>1. ASSUME NEW S \in Masks, gic' = GICD_ICPENDR(gic, S)
        PROVE  LatchKept
    <3>1. [gic EXCEPT !.pending = @ \ S] \in GicState
      BY Zenon DEF GicState
    <3>2. gic'.pending = gic.pending \ S
      BY <1>u, <2>1, <3>1, Zenon DEF GICD_ICPENDR, GicState
    <3> QED
      BY <2>1, <3>2, Zenon DEF LatchKept
  <2>2. ASSUME gic.pending \subseteq gic'.pending
        PROVE  LatchKept
    BY <2>2, Zenon DEF LatchKept
  <2>3. ASSUME NEW b \in BOOLEAN, gic' = GICD_CTLR(gic, b)
        PROVE  gic.pending \subseteq gic'.pending
    BY <2>3, Zenon DEF GICD_CTLR, gic_update, GicState
  <2>4. ASSUME NEW S \in Masks,
               \/ gic' = GICD_ISENABLER(gic, S) \/ gic' = GICD_ICENABLER(gic, S)
               \/ gic' = GICD_ISPENDR(gic, S)
               \/ gic' = GICD_ISACTIVER(gic, S) \/ gic' = GICD_ICACTIVER(gic, S)
        PROVE  gic.pending \subseteq gic'.pending
    BY <2>4, ZenonT(60) DEF GICD_ISENABLER, GICD_ICENABLER, GICD_ISPENDR, GICD_ISACTIVER,
                GICD_ICACTIVER, gic_update, GicState
  <2>5. ASSUME NEW f, gic' = GICD_IPRIORITYR(gic, f) \/ gic' = GICD_ITARGETSR(gic, f)
        PROVE  gic.pending \subseteq gic'.pending
    BY <2>5, Zenon DEF GICD_IPRIORITYR, GICD_ITARGETSR, gic_update, GicState
  <2>6. ASSUME NEW B, NEW S, gic' = GICD_ICFGR(gic, B, S)
        PROVE  gic.pending \subseteq gic'.pending
    BY <2>6, Zenon DEF GICD_ICFGR, GicState
  <2> QED
    BY <1>1, <2>1, <2>2, <2>3, <2>4, <2>5, <2>6, Zenon DEF GuestWritesGICD
<1>2. CASE GuestReadsIAR
  <2> DEFINE best == gic_best(gic)
             h == [gic EXCEPT !.active = @ \cup {best},
                              !.pending = IF best \in gic.cfg_edge THEN @ \ {best} ELSE @]
  <2>1. gic' = IF best = SPURIOUS THEN gic ELSE gic_update(h)
    BY <1>2, Zenon DEF GuestReadsIAR, GICC_IAR
  <2> HIDE DEF best
  <2>2. gic.pending \ {best} \subseteq gic'.pending
    BY <2>1, Zenon DEF gic_update, GicState
  <2> QED
    BY <1>2, <2>2, Zenon DEF LatchKept, GuestReadsIAR, best
<1>3. CASE GuestWritesGICC
  <2>1. gic'.pending = gic.pending
    BY <1>3, ZenonT(60) DEF GuestWritesGICC, GICC_CTLR, GICC_PMR, GICC_EOIR, gic_update, GicState
  <2> QED
    BY <2>1, Zenon DEF LatchKept
<1>4. CASE DeviceDrivesLine
  <2>1. PICK i \in Irqs, lv \in BOOLEAN : gic' = gic_set_irq(gic, i, lv)
    BY <1>4, Zenon DEF DeviceDrivesLine
  <2> DEFINE pend == IF i \in gic.cfg_edge THEN i \in gic.pending \/ (lv /\ i \notin gic.line) ELSE lv
             h == [gic EXCEPT !.line = Put(@, i, lv)]
             k == [h EXCEPT !.pending = Put(@, i, pend)]
  <2>2. gic' = IF pend = (i \in gic.pending) THEN h ELSE gic_update(k)
    BY <2>1, Zenon DEF gic_set_irq
  <2>3. h \in GicState /\ h.pending = gic.pending
    BY Zenon DEF GicState, Put
  <2>4. k \in GicState /\ k.pending = Put(gic.pending, i, pend)
    <3>1. Put(gic.pending, i, pend) \subseteq Irqs /\ h.pending = gic.pending
      BY <2>3, Zenon DEF GicState, Put
    <3> HIDE DEF h, pend
    <3> QED BY <2>3, <3>1, Zenon DEF GicState
  <2>5. \A j \in gic.cfg_edge \cap gic.pending : j \in Put(gic.pending, i, pend)
    BY Zenon DEF Put
  <2> HIDE DEF h, k, pend
  <2>6. \A j \in gic.cfg_edge \cap gic.pending : j \in gic'.pending
    BY <1>u, <2>2, <2>3, <2>4, <2>5, Zenon
  <2> QED
    BY <2>6, Zenon DEF LatchKept
<1>5. CASE SystemReset
  BY <1>5, Zenon DEF SystemReset, gic_reset, gic_create, LatchKept
<1> QED
  BY <1>1, <1>2, <1>3, <1>4, <1>5, Zenon DEF GicNext

\* A latched edge interrupt is only cleared by the acknowledge that returns
\* it, by ICPENDR or by a reset: gic_set_irq never drops it, whatever its line
\* does.
THEOREM GicLatchesEdges == GicSpec => EdgeStaysLatched
<1>1. GicTypeOK /\ [GicNext]_gic => [LatchKept]_gic
  BY StepLatches, Zenon DEF GicTypeOK
<1> QED
  BY <1>1, GicTypeSafe, PTL DEF GicSpec, EdgeStaysLatched

-----------------------------------------------------------------------------
(* The devices behind the controller *)

GicGood(g) == g \in GicState /\ Raised(g)

\* gic_set_irq drives one line and leaves the others, whatever it does to
\* pending and to the CPU's line.
LEMMA SetIrqLine ==
  ASSUME NEW g, GicGood(g), NEW i \in Irqs, NEW lv \in BOOLEAN
  PROVE  LET h == gic_set_irq(g, i, lv)
         IN  /\ GicGood(h)
             /\ i \in h.line <=> lv
             /\ \A j : j # i => (j \in h.line <=> j \in g.line)
<1> DEFINE h == gic_set_irq(g, i, lv)
<1>1. GicGood(h)
  BY SetIrqRaises, Zenon DEF GicGood
<1>2. h.line = Put(g.line, i, lv)
  BY Zenon DEF gic_set_irq, gic_update, GicGood, GicState
<1> HIDE DEF h
<1>3. (i \in h.line <=> lv) /\ \A j : j # i => (j \in h.line <=> j \in g.line)
  BY <1>2, Zenon DEF Put
<1> QED BY <1>1, <1>3, Zenon DEF h

\* The four interrupts of the loop's devices are distinct and modelled.
LEMMA Intids ==
  /\ INTID("P") \in Irqs /\ INTID("V") \in Irqs /\ INTID_UART \in Irqs /\ INTID_RTC \in Irqs
  /\ INTID("P") # INTID("V") /\ INTID_UART # INTID_RTC
  /\ \A t \in Timers : INTID(t) # INTID_UART /\ INTID(t) # INTID_RTC
BY IntidsAssumption DEF INTID, INTID_UART, INTID_RTC, Timers

\* The least of a non-empty set of naturals.
LEMMA MinIsLeast ==
  ASSUME NEW S, S \subseteq Nat, S # {}
  PROVE  Min(S) \in S /\ \A y \in S : Min(S) <= y
BY LeastElement, Zenon DEF Min

\* The smaller of two numbers.
LEMMA MinOfTwo ==
  ASSUME NEW a \in Nat, NEW b \in Nat, a <= b
  PROVE  Min({a, b}) = a
<1> DEFINE m == Min({a, b})
<1>1. m \in {a, b} /\ m <= a /\ m <= b
  BY MinIsLeast, Zenon
<1> HIDE DEF m
<1> QED BY <1>1 DEF m

\* The timer lines and the cached deadline at a count.
TimerGood(g, tm, count) ==
  \A t \in Timers : /\ INTID(t) \in g.line => fires(tm, t, count)
                    /\ Armed(tm, t) => tm.deadline <= tm.cval[t]

\* deadline_count is not later than any armed compare value.
LEMMA DeadlineEarly ==
  ASSUME NEW tm \in TimerState
  PROVE  /\ deadline_count(tm) \in U64
         /\ \A t \in Timers : Armed(tm, t) => deadline_count(tm) <= tm.cval[t]
<1> DEFINE S == {MaxU64} \cup {tm.cval[t] : t \in {u \in Timers : Armed(tm, u)}}
<1>1. S \subseteq U64 /\ S # {} /\ MaxU64 \in Nat
  BY MaxU64Assumption DEF TimerState, U64
<1>2. S \subseteq Nat
  BY <1>1 DEF U64
<1>3. \A t \in Timers : Armed(tm, t) => tm.cval[t] \in S
  BY Zenon
<1>4. deadline_count(tm) = Min(S)
  BY Zenon DEF deadline_count
<1> HIDE DEF S
<1> QED BY <1>1, <1>2, <1>3, <1>4, MinIsLeast, Zenon

\* timer_update makes both lines right at the count, and the cached deadline.
LEMMA TimerUpdateGood ==
  ASSUME NEW g, GicGood(g), NEW tm \in TimerState, NEW count \in Nat
  PROVE  LET h == timer_update_gic(g, tm, count)
             n == timer_update_tmr(tm)
         IN  /\ GicGood(h) /\ n \in TimerState /\ TimerGood(h, n, count)
             /\ \A j \in {INTID_UART, INTID_RTC} : j \in h.line <=> j \in g.line
<1> DEFINE p == fires(tm, "P", count)
           v == fires(tm, "V", count)
           k == gic_set_irq(g, INTID("P"), p)
           h == gic_set_irq(k, INTID("V"), v)
           n == timer_update_tmr(tm)
<1>1. p \in BOOLEAN /\ v \in BOOLEAN
  BY Zenon DEF fires, Armed
<1>2. GicGood(k) /\ (INTID("P") \in k.line <=> p) /\ \A j : j # INTID("P") => (j \in k.line <=> j \in g.line)
  BY <1>1, SetIrqLine, Intids, Zenon
<1>3. GicGood(h) /\ (INTID("V") \in h.line <=> v) /\ \A j : j # INTID("V") => (j \in h.line <=> j \in k.line)
  <2> HIDE DEF k, p, v
  <2> QED BY <1>1, <1>2, SetIrqLine, Intids, Zenon
<1>4. /\ n \in TimerState /\ n.deadline = deadline_count(tm)
      /\ n.cval = tm.cval /\ n.ctl = tm.ctl
  BY DeadlineEarly, Zenon DEF timer_update_tmr, TimerState
<1>5. \A t \in Timers : /\ Armed(n, t) <=> Armed(tm, t)
                        /\ fires(n, t, count) <=> fires(tm, t, count)
  BY <1>4, Zenon DEF Armed, fires
<1>6. h = timer_update_gic(g, tm, count)
  BY Zenon DEF timer_update_gic
<1> HIDE DEF k, h, n
<1>7. TimerGood(h, n, count)
  <2>1. \A t \in Timers : INTID(t) \in h.line <=> fires(tm, t, count)
    BY <1>2, <1>3, Intids, Zenon DEF Timers
  <2>2. \A t \in Timers : Armed(tm, t) => n.deadline <= n.cval[t]
    BY <1>4, DeadlineEarly, Zenon
  <2> QED BY <1>5, <2>1, <2>2, Zenon DEF TimerGood
<1>8. \A j \in {INTID_UART, INTID_RTC} : j \in h.line <=> j \in g.line
  BY <1>2, <1>3, Intids, Zenon DEF Timers
<1> QED BY <1>3, <1>4, <1>6, <1>7, <1>8, Zenon DEF n

\* A later count leaves the timers good: a line that fires goes on firing.
LEMMA TimerLater ==
  ASSUME NEW g, NEW tm \in TimerState, NEW c \in Nat, NEW d \in Nat, c <= d, TimerGood(g, tm, c)
  PROVE  TimerGood(g, tm, d)
BY DEF TimerGood, fires, TimerState, U64

\* The idle jump does not reach past an armed timer that is still to come.
LEMMA DeadlineAhead ==
  ASSUME NEW tm \in TimerState, NEW count \in Nat
  PROVE  /\ timer_next_deadline(tm, count) \in Nat
         /\ \A t \in Timers : Armed(tm, t) /\ tm.cval[t] > count
                                => count + timer_next_deadline(tm, count) <= tm.cval[t]
<1> DEFINE Ahead(t) == IF tm.cval[t] <= count THEN 0 ELSE tm.cval[t] - count
           S == {MaxU64} \cup {Ahead(t) : t \in {u \in Timers : Armed(tm, u)}}
<1>1. \A t \in Timers : /\ tm.cval[t] \in Nat
                        /\ Ahead(t) \in Nat
                        /\ tm.cval[t] > count => Ahead(t) = tm.cval[t] - count
  BY DEF TimerState, U64
<1>2. timer_next_deadline(tm, count) = Min(S)
  BY Zenon DEF timer_next_deadline
<1> HIDE DEF Ahead
<1>3. S \subseteq Nat /\ S # {} /\ \A t \in Timers : Armed(tm, t) => Ahead(t) \in S
  BY <1>1, MaxU64Assumption, Zenon
<1> HIDE DEF S
<1>4. Min(S) \in Nat /\ \A t \in Timers : Armed(tm, t) => Min(S) <= Ahead(t)
  BY <1>3, MinIsLeast, Zenon
<1>5. ASSUME NEW t \in Timers, Armed(tm, t), tm.cval[t] > count
      PROVE  count + Min(S) <= tm.cval[t]
  <2>1. Min(S) <= tm.cval[t] - count /\ tm.cval[t] \in Nat
    BY <1>1, <1>4, <1>5, Zenon
  <2> QED BY <1>4, <2>1
<1> QED BY <1>2, <1>4, <1>5, Zenon


-----------------------------------------------------------------------------
(* One device at a time *)

\* The devices are good when the controller's lines agree with them, for the
\* devices D of the machine and the bytes B that its host may send.
Uarts(B) == [rx : Seq(B), imsc : SUBSET {"RX", "TX"}]

Rtcs == [host : U32, offset : U32, mr : U32, armed : BOOLEAN, ris : BOOLEAN,
         imsc : BOOLEAN, irq_line : BOOLEAN]

UartGood(g, u) == INTID_UART \in g.line <=> uart_line(u)
RtcGood(g, r) == /\ INTID_RTC \in g.line <=> rtc_level(r)
                 /\ r.irq_line <=> rtc_level(r)

DevicesGood(D, B, g, tm, u, r, count) ==
  /\ GicGood(g) /\ tm \in TimerState
  /\ u \in Uarts(B) /\ Len(u.rx) <= FifoCap /\ r \in Rtcs
  /\ "gic" \in D => TimerGood(g, tm, count)
  /\ "uart" \in D => UartGood(g, u)
  /\ "rtc" \in D => RtcGood(g, r)

\* timer_check: skipping the update before the deadline changes nothing.
LEMMA TimerTick ==
  ASSUME NEW D, NEW B, NEW g, NEW tm, NEW u, NEW r, NEW c \in Nat, NEW d \in Nat, c <= d,
         DevicesGood(D, B, g, tm, u, r, c)
  PROVE  LET t == "gic" \in D /\ timer_due(tm, d)
         IN  DevicesGood(D, B, IF t THEN timer_update_gic(g, tm, d) ELSE g,
                         IF t THEN timer_update_tmr(tm) ELSE tm, u, r, d)
<1>1. CASE "gic" \in D /\ timer_due(tm, d)
  <2> DEFINE h == timer_update_gic(g, tm, d)
             n == timer_update_tmr(tm)
  <2>1. GicGood(g) /\ tm \in TimerState
    BY Zenon DEF DevicesGood
  <2>2. /\ GicGood(h) /\ n \in TimerState /\ TimerGood(h, n, d)
        /\ \A j \in {INTID_UART, INTID_RTC} : j \in h.line <=> j \in g.line
    BY <2>1, TimerUpdateGood
  <2> HIDE DEF h, n
  <2>3. DevicesGood(D, B, h, n, u, r, d)
    BY <2>2, Zenon DEF DevicesGood, UartGood, RtcGood
  <2> QED BY <1>1, <2>3, Zenon DEF h, n
<1>2. CASE ~("gic" \in D /\ timer_due(tm, d))
  <2>1. "gic" \in D => TimerGood(g, tm, d)
    BY TimerLater, Zenon DEF DevicesGood
  <2>2. DevicesGood(D, B, g, tm, u, r, d)
    BY <2>1, Zenon DEF DevicesGood
  <2> QED BY <1>2, <2>2, Zenon
<1> QED BY <1>1, <1>2, Zenon

\* update_irq of the UART: its line follows its registers.
LEMMA UartDrives ==
  ASSUME NEW D, NEW B, NEW g, NEW tm, NEW u, NEW r, NEW c, DevicesGood(D, B, g, tm, u, r, c),
         NEW n \in Uarts(B), Len(n.rx) <= FifoCap
  PROVE  DevicesGood(D, B, uart_gic(g, n), tm, n, r, c)
<1> DEFINE h == gic_set_irq(g, INTID_UART, uart_line(n))
<1>1. GicGood(g) /\ uart_line(n) \in BOOLEAN
  BY Zenon DEF DevicesGood, uart_line
<1>2. /\ GicGood(h) /\ (INTID_UART \in h.line <=> uart_line(n))
      /\ \A j : j # INTID_UART => (j \in h.line <=> j \in g.line)
  BY <1>1, SetIrqLine, Intids, Zenon
<1> HIDE DEF h
<1>3. \A t \in Timers : INTID(t) \in h.line <=> INTID(t) \in g.line
  BY <1>2, Intids, Zenon
<1>4. INTID_RTC \in h.line <=> INTID_RTC \in g.line
  BY <1>2, Intids, Zenon
<1>5. TimerGood(g, tm, c) => TimerGood(h, tm, c)
  BY <1>3, Zenon DEF TimerGood
<1>6. RtcGood(g, r) => RtcGood(h, r)
  BY <1>4, Zenon DEF RtcGood
<1>7. UartGood(h, n)
  BY <1>2, Zenon DEF UartGood
<1>8. DevicesGood(D, B, h, tm, n, r, c)
  BY <1>2, <1>5, <1>6, <1>7, Zenon DEF DevicesGood
<1> QED BY <1>8, Zenon DEF h, uart_gic

\* pl031_set_line: the controller is told of every change of the level,
\* because the remembered level is the controller's.
LEMMA RtcDrives ==
  ASSUME NEW D, NEW B, NEW g, NEW tm, NEW u, NEW r, NEW c, DevicesGood(D, B, g, tm, u, r, c), "rtc" \in D,
         NEW n \in Rtcs, n.irq_line = r.irq_line
  PROVE  DevicesGood(D, B, rtc_gic(g, n), tm, u, rtc_set_line(n), c)
<1> DEFINE k == gic_set_irq(g, INTID_RTC, rtc_level(n))
           h == rtc_gic(g, n)
           s == rtc_set_line(n)
<1>1. GicGood(g) /\ RtcGood(g, r) /\ rtc_level(n) \in BOOLEAN /\ n.irq_line \in BOOLEAN
  BY Zenon DEF DevicesGood, rtc_level, Rtcs
<1>2. /\ GicGood(k) /\ (INTID_RTC \in k.line <=> rtc_level(n))
      /\ \A j : j # INTID_RTC => (j \in k.line <=> j \in g.line)
  BY <1>1, SetIrqLine, Intids, Zenon
<1>3. h = IF rtc_level(n) # n.irq_line THEN k ELSE g
  BY Zenon DEF rtc_gic
<1>4. /\ s \in Rtcs /\ (s.irq_line <=> rtc_level(n)) /\ (rtc_level(s) <=> rtc_level(n))
  BY <1>1, Zenon DEF rtc_set_line, rtc_level, Rtcs
<1> HIDE DEF h, k, s
<1>5. INTID_RTC \in g.line <=> n.irq_line
  BY <1>1, Zenon DEF RtcGood
<1>6. /\ GicGood(h) /\ (INTID_RTC \in h.line <=> rtc_level(n))
      /\ \A j : j # INTID_RTC => (j \in h.line <=> j \in g.line)
  <2>1. CASE rtc_level(n) # n.irq_line
    BY <1>2, <1>3, <2>1, Zenon
  <2>2. CASE rtc_level(n) = n.irq_line
    <3>1. h = g
      BY <1>3, <2>2, Zenon
    <3> QED BY <1>1, <1>5, <2>2, <3>1, Zenon
  <2> QED BY <2>1, <2>2, Zenon
<1>7. /\ \A t \in Timers : INTID(t) \in h.line <=> INTID(t) \in g.line
      /\ INTID_UART \in h.line <=> INTID_UART \in g.line
  BY <1>6, Intids, Zenon
<1>8. TimerGood(g, tm, c) => TimerGood(h, tm, c)
  BY <1>7, Zenon DEF TimerGood
<1>9. (UartGood(g, u) => UartGood(h, u)) /\ RtcGood(h, s)
  BY <1>4, <1>6, <1>7, Zenon DEF UartGood, RtcGood
<1>10. DevicesGood(D, B, h, tm, u, s, c)
  BY <1>4, <1>6, <1>8, <1>9, Zenon DEF DevicesGood
<1> QED BY <1>10, Zenon DEF h, s

-----------------------------------------------------------------------------
(* Input on its way through the UART *)

\* Sequences with the same elements are equal.
LEMMA SeqEqual ==
  ASSUME NEW B, NEW s \in Seq(B), NEW t \in Seq(B), Len(s) = Len(t),
         \A i \in 1..Len(s) : s[i] = t[i]
  PROVE  s = t
OBVIOUS

\* What is left of a sequence without its first element.
LEMMA TailTyped ==
  ASSUME NEW B, NEW s \in Seq(B), s # <<>>
  PROVE  Tail(s) \in Seq(B) /\ Len(Tail(s)) = Len(s) - 1
OBVIOUS

\* Concatenation and Append under names that the provers take as they are.
Cat(s, t) == s \o t
Put1(s, b) == Append(s, b)

\* Concatenation is associative.
LEMMA CatAssoc ==
  ASSUME NEW B, NEW s \in Seq(B), NEW t \in Seq(B), NEW u \in Seq(B)
  PROVE  Cat(Cat(s, t), u) = Cat(s, Cat(t, u))
<1> DEFINE x == (s \o t) \o u
           y == s \o (t \o u)
<1>1. x \in Seq(B) /\ y \in Seq(B) /\ Len(x) = Len(y)
  OBVIOUS
<1>2. ASSUME NEW i \in 1..Len(x) PROVE x[i] = y[i]
  OBVIOUS
<1> HIDE DEF x, y
<1>3. x = y
  BY <1>1, <1>2, SeqEqual, Zenon
<1> QED BY <1>3, Zenon DEF Cat, x, y

\* A sequence is its first k elements and the rest.
LEMMA Rejoin ==
  ASSUME NEW B, NEW s \in Seq(B), NEW k \in 0..Len(s)
  PROVE  SubSeq(s, 1, k) \o SubSeq(s, k + 1, Len(s)) = s
<1> DEFINE a == SubSeq(s, 1, k)
           b == SubSeq(s, k + 1, Len(s))
           x == a \o b
<1>1. a \in Seq(B) /\ Len(a) = k /\ \A i \in 1..k : a[i] = s[i]
  OBVIOUS
<1>2. b \in Seq(B) /\ Len(b) = Len(s) - k /\ \A i \in 1..(Len(s) - k) : b[i] = s[k + i]
  OBVIOUS
<1> HIDE DEF a, b
<1>3. x \in Seq(B) /\ Len(x) = Len(s)
  BY <1>1, <1>2
<1>4. ASSUME NEW i \in 1..Len(s) PROVE x[i] = s[i]
  <2>1. CASE i <= k
    <3>1. x[i] = a[i] /\ i \in 1..k
      BY <1>1, <1>2, <2>1
    <3> QED BY <1>1, <3>1, Zenon
  <2>2. CASE i > k
    <3>1. x[i] = b[i - k] /\ i - k \in 1..(Len(s) - k)
      BY <1>1, <1>2, <2>2, SMTT(60)
    <3>2. b[i - k] = s[k + (i - k)] /\ k + (i - k) = i
      BY <1>2, <3>1
    <3> QED BY <3>1, <3>2, Zenon
  <2>3. i <= k \/ i > k
    OBVIOUS
  <2> QED BY <2>1, <2>2, <2>3, Zenon
<1> HIDE DEF x
<1>5. x = s
  BY <1>3, <1>4, SeqEqual, Zenon
<1> QED BY <1>5, Zenon DEF a, b, x

\* Appending to the second part appends to the whole.
LEMMA AppendLast ==
  ASSUME NEW B, NEW s \in Seq(B), NEW t \in Seq(B), NEW b \in B
  PROVE  Cat(s, Put1(t, b)) = Put1(Cat(s, t), b)
<1> DEFINE x == s \o Append(t, b)
           y == Append(s \o t, b)
<1>1. x \in Seq(B) /\ y \in Seq(B) /\ Len(x) = Len(y)
  OBVIOUS
<1>2. ASSUME NEW i \in 1..Len(x) PROVE x[i] = y[i]
  BY SMTT(60)
<1> HIDE DEF x, y
<1>3. x = y
  BY <1>1, <1>2, SeqEqual, Zenon
<1> QED BY <1>3, Zenon DEF Cat, Put1, x, y

\* The first element of a concatenation comes from the first part.
LEMMA TailCat ==
  ASSUME NEW B, NEW s \in Seq(B), NEW t \in Seq(B), s # <<>>
  PROVE  Cat(s, t) # <<>> /\ Cat(Tail(s), t) = Tail(Cat(s, t))
<1> DEFINE x == Tail(s) \o t
           y == Tail(s \o t)
<1>1. s \o t # <<>> /\ s \o t \in Seq(B)
  OBVIOUS
<1>2. x \in Seq(B) /\ y \in Seq(B) /\ Len(x) = Len(y)
  BY <1>1
<1>3. ASSUME NEW i \in 1..Len(x) PROVE x[i] = y[i]
  BY <1>1
<1> HIDE DEF x, y
<1>4. x = y
  BY <1>2, <1>3, SeqEqual, Zenon
<1> QED BY <1>1, <1>4, Zenon DEF Cat, x, y

\* Moving the first k elements of one sequence to the end of another.
LEMMA Moved ==
  ASSUME NEW B, NEW a \in Seq(B), NEW in \in Seq(B), NEW k \in 0..Len(in)
  PROVE  LET q    == Cat(a, SubSeq(in, 1, k))
             rest == SubSeq(in, k + 1, Len(in))
         IN  /\ q \in Seq(B) /\ Len(q) = Len(a) + k /\ rest \in Seq(B)
             /\ Cat(q, rest) = Cat(a, in)
<1> DEFINE t    == SubSeq(in, 1, k)
           rest == SubSeq(in, k + 1, Len(in))
<1>1. t \in Seq(B) /\ Len(t) = k /\ rest \in Seq(B)
  OBVIOUS
<1>2. t \o rest = in
  BY Rejoin, Zenon
<1> HIDE DEF t, rest
<1>3. a \o t \in Seq(B) /\ Len(a \o t) = Len(a) + k
  BY <1>1, SMTT(60)
<1>4. Cat(Cat(a, t), rest) = Cat(a, Cat(t, rest))
  BY <1>1, CatAssoc
<1>5. Cat(Cat(a, t), rest) = Cat(a, in)
  BY <1>2, <1>4, Zenon DEF Cat
<1>6. Cat(a, t) \in Seq(B) /\ Len(Cat(a, t)) = Len(a) + k
  BY <1>3, Zenon DEF Cat
<1> QED BY <1>1, <1>5, <1>6, Zenon DEF t, rest

\* A poll of the host moves bytes from stdin into the FIFO and loses none: it
\* never takes more than the FIFO has room for.
LEMMA PollKeepsInput ==
  ASSUME NEW B, NEW u \in Uarts(B), Len(u.rx) <= FifoCap, NEW in \in Seq(B)
  PROVE  LET n    == rx_poll(u, in)
             rest == SubSeq(in, rx_taken(u, in) + 1, Len(in))
         IN  /\ n \in Uarts(B) /\ Len(n.rx) <= FifoCap
             /\ rest \in Seq(B) /\ n.rx \o rest = u.rx \o in
<1> DEFINE k    == rx_taken(u, in)
           q    == Cat(u.rx, SubSeq(in, 1, k))
           rest == SubSeq(in, k + 1, Len(in))
           n    == rx_poll(u, in)
<1>1. u.rx \in Seq(B) /\ Len(u.rx) \in Nat /\ Len(in) \in Nat /\ FifoCap \in Nat
  BY FifoCapAssumption DEF Uarts
<1>2. k \in 0..Len(in) /\ Len(u.rx) + k <= FifoCap
  <2> DEFINE S == {Len(in), FifoCap - Len(u.rx)}
  <2>1. S \subseteq Nat /\ S # {}
    BY <1>1
  <2>2. k = Min(S)
    BY Zenon DEF rx_taken
  <2>3. k \in S /\ \A y \in S : k <= y
    BY <2>1, <2>2, MinIsLeast, Zenon
  <2> QED BY <1>1, <2>1, <2>3
<1> HIDE DEF k
<1>3. q \in Seq(B) /\ Len(q) = Len(u.rx) + k /\ rest \in Seq(B) /\ Cat(q, rest) = Cat(u.rx, in)
  <2> DEFINE a == u.rx
  <2> HIDE DEF a
  <2>1. a \in Seq(B)
    BY <1>1, Zenon DEF a
  <2>2. LET m == Cat(a, SubSeq(in, 1, k))
            l == SubSeq(in, k + 1, Len(in))
        IN  /\ m \in Seq(B) /\ Len(m) = Len(a) + k /\ l \in Seq(B)
            /\ Cat(m, l) = Cat(a, in)
    BY <1>2, <2>1, Moved
  <2> QED BY <2>2, Zenon DEF a
<1> HIDE DEF q, rest
<1>4. Len(q) \in Nat /\ Len(q) <= FifoCap
  BY <1>1, <1>2, <1>3
<1>5. SubSeq(q, 1, Min({Len(q), FifoCap})) = q
  <2>1. SubSeq(q, 1, Len(q)) = q
    BY <1>3
  <2>2. Min({Len(q), FifoCap}) = Len(q)
    BY <1>1, <1>4, MinOfTwo, Zenon
  <2> QED BY <2>1, <2>2, Zenon
<1>6. n = [u EXCEPT !.rx = q]
  BY <1>5, Zenon DEF rx_poll, k, q, Cat
<1>7. n \in Uarts(B) /\ n.rx = q
  BY <1>3, <1>6, Zenon DEF Uarts
<1> HIDE DEF n
<1>8. n.rx \o rest = u.rx \o in
  BY <1>3, <1>7, Zenon DEF Cat
<1> QED BY <1>3, <1>4, <1>7, <1>8, Zenon DEF k, rest, n

=============================================================================
