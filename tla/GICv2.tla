------------------------------- MODULE GICv2 -------------------------------
(***************************************************************************)
(* The interrupt controller of src/src/devices/gicv2.c: distributor (GICD) *)
(* and CPU interface (GICC) of a single-CPU GICv2.                         *)
(*                                                                         *)
(* The controller is one record.  Every C function that mutates it is an   *)
(* operator from record to record, so that a handler which calls           *)
(* gic_set_irq several times (timer_update, machine_tick) composes them in *)
(* the order of the code.  The boolean arrays enabled[], pending[],        *)
(* active[], line[] and cfg_edge[] are sets of INTIDs.  Only bit 0 of the  *)
(* two CTLR registers is kept: no other bit is ever tested.                *)
(***************************************************************************)
EXTENDS Integers, FiniteSets

CONSTANTS Irqs,      \* the INTIDs in use, a subset of 0..GIC_NUM_IRQS-1
          Prios,     \* values the guest writes to IPRIORITYR bytes and PMR
          Targets    \* values the guest writes to ITARGETSR bytes

ASSUME IrqsAssumption == Irqs \subseteq 0..255
ASSUME PriosAssumption == Prios \subseteq 0..255 /\ 0 \in Prios
ASSUME TargetsAssumption == Targets \subseteq 0..255 /\ 0 \in Targets

VARIABLE gic

SPURIOUS == 1023

GicState == [d_ctlr : BOOLEAN, c_ctlr : BOOLEAN,
             enabled : SUBSET Irqs, pending : SUBSET Irqs,
             active : SUBSET Irqs, line : SUBSET Irqs, cfg_edge : SUBSET Irqs,
             priority : [Irqs -> Prios], target : [Irqs -> Targets],
             pmr : Prios, irq_line : BOOLEAN]

-----------------------------------------------------------------------------
(* Selection of the interrupt to signal. *)

Eligible(g) ==
  {i \in (g.enabled \cap g.pending) \ g.active : g.priority[i] < g.pmr}

\* The scan runs upwards and replaces the candidate only by a strictly lower
\* priority value: the lowest INTID wins among equals.
Outranks(g, i, j) ==
  \/ g.priority[i] < g.priority[j]
  \/ g.priority[i] = g.priority[j] /\ i <= j

gic_best(g) ==
  IF ~g.d_ctlr \/ ~g.c_ctlr \/ Eligible(g) = {}
  THEN SPURIOUS
  ELSE CHOOSE i \in Eligible(g) : \A j \in Eligible(g) : Outranks(g, i, j)

gic_update(g) == [g EXCEPT !.irq_line = (gic_best(g) # SPURIOUS)]

\* S with the membership of i set to b.
Put(S, i, b) == IF b THEN S \cup {i} ELSE S \ {i}

-----------------------------------------------------------------------------
(* A device drives its line. *)

\* Mutant: the line sets and clears pending whatever its configuration.
gic_set_irq_AllLevel(g, i, lv) ==
  LET h == [g EXCEPT !.line = Put(@, i, lv)]
  IN  IF i \notin Irqs THEN g
      ELSE IF lv = (i \in g.pending) THEN h
      ELSE gic_update([h EXCEPT !.pending = Put(@, i, lv)])

gic_set_irq(g, i, lv) ==
  LET pend == IF i \in g.cfg_edge
              THEN i \in g.pending \/ (lv /\ i \notin g.line)
              ELSE lv
      h == [g EXCEPT !.line = Put(@, i, lv)]
  IN  IF i \notin Irqs THEN g
      ELSE IF pend = (i \in g.pending) THEN h
      ELSE gic_update([h EXCEPT !.pending = Put(@, i, pend)])

-----------------------------------------------------------------------------
(* Distributor writes.  S is the set of INTIDs whose bit is set in the     *)
(* value written, f the bytes of the value by INTID.                       *)

GICD_CTLR(g, b)      == gic_update([g EXCEPT !.d_ctlr = b])
GICD_ISENABLER(g, S) == gic_update([g EXCEPT !.enabled = @ \cup S])
GICD_ICENABLER(g, S) == gic_update([g EXCEPT !.enabled = @ \ S])
GICD_ISPENDR(g, S)   == gic_update([g EXCEPT !.pending = @ \cup S])
GICD_ICPENDR(g, S)   == gic_update([g EXCEPT !.pending = @ \ S])
GICD_ISACTIVER(g, S) == [g EXCEPT !.active = @ \cup S]        \* no gic_update
GICD_ICACTIVER(g, S) == gic_update([g EXCEPT !.active = @ \ S])

GICD_IPRIORITYR(g, f) ==
  gic_update([g EXCEPT !.priority =
                [i \in Irqs |-> IF i \in DOMAIN f THEN f[i] ELSE g.priority[i]]])

\* INTIDs 0-31 are banked and read-only.
GICD_ITARGETSR(g, f) ==
  [g EXCEPT !.target =
     [i \in Irqs |-> IF i \in DOMAIN f /\ i >= 32 THEN f[i] ELSE g.target[i]]]

\* The register rewrites the configuration of every INTID it covers (bank).
GICD_ICFGR(g, bank, S) == [g EXCEPT !.cfg_edge = (@ \ bank) \cup (S \cap bank)]

-----------------------------------------------------------------------------
(* CPU interface. *)

\* Mutant: the value of a spurious acknowledge is used as an index.
GICC_IAR_Spurious(g) ==
  LET best == gic_best(g)
  IN  gic_update([g EXCEPT
        !.active = @ \cup {best},
        !.pending = IF best \in g.cfg_edge THEN @ \ {best} ELSE @])

\* Reading IAR acknowledges: the state after the read.  The value read is
\* gic_best(g).
GICC_IAR(g) ==
  LET best == gic_best(g)
  IN  IF best = SPURIOUS THEN g
      ELSE gic_update([g EXCEPT
             !.active = @ \cup {best},
             !.pending = IF best \in g.cfg_edge THEN @ \ {best} ELSE @])

GICC_CTLR(g, b) == gic_update([g EXCEPT !.c_ctlr = b])
GICC_PMR(g, v)  == gic_update([g EXCEPT !.pmr = v])

\* Mutant: end-of-interrupt forgets the eligibility rescan.
GICC_EOIR_NoRescan(g, id) == [g EXCEPT !.active = @ \ {id}]

GICC_EOIR(g, id) == gic_update([g EXCEPT !.active = @ \ {id}])

-----------------------------------------------------------------------------
(* Power-on and reset. *)

gic_create ==
  [d_ctlr |-> FALSE, c_ctlr |-> FALSE, enabled |-> {}, pending |-> {},
   active |-> {}, line |-> {}, cfg_edge |-> {},
   priority |-> [i \in Irqs |-> 0], target |-> [i \in Irqs |-> 0],
   pmr |-> 0, irq_line |-> FALSE]

\* memset of the controller; cpu->irq_line lives in the CPU and is kept.
gic_reset(g) == [gic_create EXCEPT !.irq_line = g.irq_line]

-----------------------------------------------------------------------------
(* The controller on its own: a guest that writes any register, devices    *)
(* that drive any line, and warm reboots.                                  *)

\* INTIDs covered by one 32-bit register with a bit, and with two bits, each.
Bank32(i) == {j \in Irqs : j \div 32 = i \div 32}
Bank16(i) == {j \in Irqs : j \div 16 = i \div 16}
Masks == UNION {SUBSET Bank32(i) : i \in Irqs}

\* One byte of a byte-per-interrupt register.
Bytes(vals) == UNION {[{i} -> vals] : i \in Irqs}

GicInit == gic = gic_create

\* gicd_write, one disjunct per register.
GuestWritesGICD ==
  \/ \E b \in BOOLEAN : gic' = GICD_CTLR(gic, b)
  \/ \E S \in Masks : gic' = GICD_ISENABLER(gic, S)
  \/ \E S \in Masks : gic' = GICD_ICENABLER(gic, S)
  \/ \E S \in Masks : gic' = GICD_ISPENDR(gic, S)
  \/ \E S \in Masks : gic' = GICD_ICPENDR(gic, S)
  \/ \E S \in Masks : gic' = GICD_ISACTIVER(gic, S)
  \/ \E S \in Masks : gic' = GICD_ICACTIVER(gic, S)
  \/ \E f \in Bytes(Prios) : gic' = GICD_IPRIORITYR(gic, f)
  \/ \E f \in Bytes(Targets) : gic' = GICD_ITARGETSR(gic, f)
  \/ \E i \in Irqs : \E S \in SUBSET Bank16(i) :
       gic' = GICD_ICFGR(gic, Bank16(i), S)

GuestReadsIAR == gic' = GICC_IAR(gic)

\* gicc_write.  EOIR takes any identifier, SPURIOUS included.
GuestWritesGICC ==
  \/ \E b \in BOOLEAN : gic' = GICC_CTLR(gic, b)
  \/ \E v \in Prios : gic' = GICC_PMR(gic, v)
  \/ \E id \in Irqs \cup {SPURIOUS} : gic' = GICC_EOIR(gic, id)

DeviceDrivesLine ==
  \E i \in Irqs, lv \in BOOLEAN : gic' = gic_set_irq(gic, i, lv)

\* machine_reset: gic_reset, device resets that lower their lines on the
\* cleared controller (no change), and cpu_reset, which clears irq_line.
SystemReset == gic' = [gic_reset(gic) EXCEPT !.irq_line = FALSE]

GicNext ==
  \/ GuestWritesGICD
  \/ GuestReadsIAR
  \/ GuestWritesGICC
  \/ DeviceDrivesLine
  \/ SystemReset

GicSpec == GicInit /\ [][GicNext]_gic

-----------------------------------------------------------------------------
(* Properties. *)

\* The controller record keeps its types: the sets hold modelled INTIDs, the
\* priorities and PMR values the guest wrote.
GicTypeOK == gic \in GicState

\* No lost interrupt: whenever gic_best would return an interrupt, the CPU's
\* irq_line is already raised, although gic_update runs only at the end of
\* the handlers that call it and gic_set_irq skips it when pending does not
\* move.
NoLostInterrupt == gic_best(gic) # SPURIOUS => gic.irq_line

\* An edge on an edge-configured interrupt stays latched, also while the
\* previous one is being handled: only the acknowledge that returns it, a
\* write to ICPENDR or a reset clears it; a falling line never does.
LatchKept ==
  \A i \in gic.cfg_edge \cap gic.pending :
    i \notin gic'.pending =>
      \/ i = gic_best(gic) /\ gic' = GICC_IAR(gic)
      \/ \E S \in Masks : i \in S /\ gic' = GICD_ICPENDR(gic, S)
      \/ gic' = gic_create

EdgeStaysLatched == [][LatchKept]_gic

=============================================================================
