---------------------------------- MODULE A64 ---------------------------------
(***************************************************************************)
(* The interpreter (decode.c, sysreg.c): loads and stores, vector          *)
(* structures, branches, the system group, PSCI (psci.c), one floating-    *)
(* point or vector instruction of each kind (exec_fpsimd.c), and the       *)
(* dispatch of exec_a64 and cpu_step.  The engines compared with it call   *)
(* exec_a64 for whatever they do not treat themselves.                     *)
(***************************************************************************)
EXTENDS A64Dp

(* ---- Loads and stores. ---- *)
sp_align_ok(c, rn) ==
    rn # SP \/ reg_xsp(c, SP) % 16 = 0 \/ (IF c.el = 0 THEN c.sctlr.sa0 ELSE c.sctlr.sa) = 0
sp_align_fault(c) == cpu_raise_sync(c, [ec |-> "sp_align", iss |-> 0], 0)

\* A load's value: sign-extended for opc 2 and 3, to 64 bits for opc 2.
LoadValue(raw, size, opc) ==
    LET v == IF opc >= 2 THEN sign_extend(raw, 2^size) ELSE raw
    IN  IF opc = 3 \/ (opc = 1 /\ size < 3) THEN u32(v) ELSE v

\* PRFM (opc 2 of the doubleword size) loads nothing.
do_load(c, rt, va, size, opc, Then(_)) ==
    IF opc = 2 /\ size = 3 THEN Then(c)
    ELSE OnRead(c, va, 2^size, LAMBDA raw : Then(set_x(c, rt, LoadValue(raw, size, opc))))

vreg_load(c, vt, va, bytes, Then(_)) ==
    IF bytes = 16 THEN OnRead128(c, va, LAMBDA r : Then([c EXCEPT !.v[vt] = r]))
    ELSE OnRead(c, va, bytes, LAMBDA r : Then([c EXCEPT !.v[vt] = r]))
vreg_store(c, vt, va, bytes, Then(_)) ==
    IF bytes = 16 THEN OnWrite128(c, va, c.v[vt], Then) ELSE OnWrite(c, va, bytes, c.v[vt] % 2^bytes, Then)

\* SWP (o3) and LDADD .. LDUMIN.
AtomicResult(i, old, operand) ==
    LET w == 2^i.size  so == Signed(old, w)  sn == Signed(operand, w)
    IN  CASE i.o3 = 1  -> operand
          [] i.aop = 0 -> (old + operand) % 2^w
          [] i.aop = 1 -> old - And(old, operand)
          [] i.aop = 2 -> Xor(old, operand)
          [] i.aop = 3 -> Or(old, operand)
          [] i.aop = 4 -> IF so > sn THEN old ELSE operand
          [] i.aop = 5 -> IF so < sn THEN old ELSE operand
          [] i.aop = 6 -> IF old > operand THEN old ELSE operand
          [] OTHER     -> IF old < operand THEN old ELSE operand

ldst_atomic(c, i) ==
    LET va == reg_xsp(c, i.rn)  bytes == 2^i.size
    IN  CASE i.o3 = 1 /\ i.aop = 4 -> OnRead(c, va, bytes, LAMBDA v : set_x(c, i.rt, v))
          [] i.o3 = 1 /\ i.aop \notin {0, 4} -> undefined(c)
          [] OTHER -> OnRead(c, va, bytes, LAMBDA old :
                 OnWrite(c, va, bytes, AtomicResult(i, old, reg_x(c, i.rm) % 2^bytes),
                         LAMBDA d : set_x(d, i.rt, old)))

ldst_cas(c, i) ==
    LET va == reg_xsp(c, i.rn)  bytes == 2^i.size
    IN  OnRead(c, va, bytes, LAMBDA old :
            IF old = reg_x(c, i.rs) % 2^bytes
            THEN OnWrite(c, va, bytes, reg_x(c, i.rt) % 2^bytes, LAMBDA d : set_x(d, i.rs, old))
            ELSE set_x(c, i.rs, old))

ldst_casp(c, i) ==
    LET va == reg_xsp(c, i.rn)
        b == IF i.size = 1 THEN 8 ELSE 4
        Old(d, lo, hi) == set_x(set_x(d, i.rs, lo), i.rs + 1, hi)
    IN  OnRead(c, va, b, LAMBDA lo : OnRead(c, va + b, b, LAMBDA hi :
            IF lo = reg_x(c, i.rs) % 2^b /\ hi = reg_x(c, i.rs + 1) % 2^b
            THEN OnWrite(c, va, b, reg_x(c, i.rt) % 2^b, LAMBDA d :
                     OnWrite(d, va + b, b, reg_x(c, i.rt + 1) % 2^b, LAMBDA e : Old(e, lo, hi)))
            ELSE Old(c, lo, hi)))

ldst_rcpc_unscaled(c, i) ==
    LET va == reg_xsp(c, i.rn) + i.imm
    IN  IF (i.opc = 2 /\ i.size = 3) \/ (i.opc = 3 /\ i.size >= 2) THEN undefined(c)
        ELSE IF ~ sp_align_ok(c, i.rn) THEN sp_align_fault(c)
        ELSE IF i.opc = 0 THEN OnWrite(c, va, 2^i.size, reg_x(c, i.rt), LAMBDA d : d)
        ELSE do_load(c, i.rt, va, i.size, i.opc, LAMBDA d : d)

\* The base takes its new value once the access has succeeded.
written_back(c, i, value) == IF i.mode \in {"pre", "post"} THEN set_xsp(c, i.rn, value) ELSE c

\* The single-register forms: mode is uimm (scaled offset), ro (register
\* offset), ur (unscaled), tr (unprivileged), pre, post or atomic.
RegisterAccess(c, i, va, bytes, Then(_)) ==
    LET u == View(c, Bool(i.mode = "tr" /\ c.el = 1))
        Back(d) == Then(View(d, 0))
        r == CASE i.V = 1 /\ i.opc % 2 = 1 -> vreg_load(u, i.rt, va, bytes, Back)
               [] i.V = 1 /\ i.opc % 2 = 0 -> vreg_store(u, i.rt, va, bytes, Back)
               [] i.V = 0 /\ i.opc = 0     -> OnWrite(u, va, bytes, reg_x(c, i.rt), Back)
               [] OTHER                    -> do_load(u, i.rt, va, i.size, i.opc, Back)
    IN  View(r, 0)
ldst_register(c, i) ==
    LET quad == i.V = 1 /\ i.opc >= 2
        scale == IF quad THEN 4 ELSE i.size
        base == reg_xsp(c, i.rn)
        va == base + (CASE i.mode = "uimm" -> i.imm * 2^scale
                        [] i.mode = "ro"   -> extend_reg(reg_x(c, i.rm), i.option, IF i.S = 1 THEN scale ELSE 0)
                        [] i.mode = "post" -> 0
                        [] OTHER           -> i.imm)
        Back(d) == written_back(d, i, base + i.imm)
    IN  CASE quad /\ i.size # 0 -> undefined(c)
          [] i.V = 1 /\ ~ (quad /\ i.size # 0) /\ c.fp_trapped -> cpu_fp_trap(c)
          [] OTHER ->
             IF ~ sp_align_ok(c, i.rn) THEN sp_align_fault(c)
             ELSE IF i.mode = "atomic" /\ i.V = 0 THEN ldst_atomic(c, i)
             ELSE IF (i.V = 1 /\ i.mode \in {"tr", "atomic"}) \/ (i.V = 0 /\ i.opc = 3 /\ i.size >= 2) THEN undefined(c)
             ELSE RegisterAccess(c, i, u64(va), 2^scale, Back)

\* One part of a pair's loads and stores.
PairAccess(c, i, va, esz, Then(_)) ==
    LET Ext(v) == IF i.opc = 1 THEN sign_extend(v, WLEN) ELSE v
        t == reg_x(c, i.rt)
        t2 == reg_x(c, i.rt2)
    IN  CASE i.V = 1 /\ i.L = 1 -> vreg_load(c, i.rt, va, esz, LAMBDA d : vreg_load(d, i.rt2, u64(va + esz), esz, Then))
          [] i.V = 1 /\ i.L = 0 -> vreg_store(c, i.rt, va, esz, LAMBDA d : vreg_store(d, i.rt2, u64(va + esz), esz, Then))
          [] i.V = 0 /\ i.L = 1 /\ esz = 8 ->
                 OnRead128(c, va, LAMBDA q : Then(set_x(set_x(c, i.rt, q % 256), i.rt2, q \div 256)))
          [] i.V = 0 /\ i.L = 1 /\ esz # 8 ->
                 OnRead(c, va, esz, LAMBDA a : OnRead(c, va + esz, esz, LAMBDA b :
                     Then(set_x(set_x(c, i.rt, Ext(a)), i.rt2, Ext(b)))))
          [] i.V = 0 /\ i.L = 0 /\ esz = 8 -> OnWrite128(c, va, t + 256 * t2, Then)
          [] OTHER -> OnWrite(c, va, esz, t, LAMBDA d : OnWrite(d, va + esz, esz, t2, Then))
ldst_pair(c, i) ==
    LET esz == IF i.V = 1 THEN 2^(i.opc + 2) ELSE IF i.opc = 2 THEN 8 ELSE 4
        base == reg_xsp(c, i.rn)
        offset == i.imm * esz
        va == u64(IF i.mode = "post" THEN base ELSE base + offset)
        Back(d) == written_back(d, i, base + offset)
    IN  IF i.opc = 3 THEN undefined(c)
        ELSE IF ~ sp_align_ok(c, i.rn) THEN sp_align_fault(c)
        ELSE IF i.mode = "none" THEN undefined(c)
        ELSE IF i.V = 1 /\ c.fp_trapped THEN cpu_fp_trap(c)
        ELSE PairAccess(c, i, va, esz, Back)

ldst_literal(c, i) ==
    LET va == u64(c.cur + i.imm)
    IN  CASE i.V = 1 /\ i.opc = 3 -> undefined(c)
          [] i.V = 1 /\ i.opc < 3 -> IF c.fp_trapped THEN cpu_fp_trap(c) ELSE vreg_load(c, i.rt, va, 4 * 2^i.opc, LAMBDA d : d)
          [] i.V = 0 /\ i.opc = 0 -> OnRead(c, va, 4, LAMBDA r : set_x(c, i.rt, r))
          [] i.V = 0 /\ i.opc = 1 -> OnRead(c, va, 8, LAMBDA r : set_x(c, i.rt, r))
          [] i.V = 0 /\ i.opc = 2 -> OnRead(c, va, 4, LAMBDA r : set_x(c, i.rt, sign_extend(r, WLEN)))
          [] OTHER -> c

Monitor(c, va) == [c EXCEPT !.excl_valid = 1, !.excl_addr = va]
ldst_exclusive(c, i) ==
    LET va == reg_xsp(c, i.rn)
        b == 2^i.size
        mine == c.excl_valid = 1 /\ c.excl_addr = va
        Done(d) == [set_x(d, i.rs, 0) EXCEPT !.excl_valid = 0]
        Failed == [set_x(c, i.rs, 1) EXCEPT !.excl_valid = 0]
    IN  IF ~ sp_align_ok(c, i.rn) THEN sp_align_fault(c)
        ELSE CASE i.k = "cas"  -> ldst_cas(c, i)
               [] i.k = "casp" -> ldst_casp(c, i)
               [] i.k = "ord"  -> IF i.L = 1 THEN OnRead(c, va, b, LAMBDA v : set_x(c, i.rt, v))
                                  ELSE OnWrite(c, va, b, reg_x(c, i.rt), LAMBDA d : d)
               [] i.k = "ex" /\ i.L = 1 -> OnRead(c, va, b, LAMBDA v : Monitor(set_x(c, i.rt, v), va))
               [] i.k = "ex" /\ i.L = 0 -> IF mine THEN OnWrite(c, va, b, reg_x(c, i.rt), Done) ELSE Failed
               [] i.k = "exp" /\ i.L = 1 ->
                      OnRead(c, va, b, LAMBDA v : OnRead(c, va + b, b, LAMBDA w :
                          Monitor(set_x(set_x(c, i.rt, v), i.rt2, w), va)))
               [] OTHER -> IF mine THEN OnWrite(c, va, b, reg_x(c, i.rt), LAMBDA d :
                                            OnWrite(d, va + b, b, reg_x(c, i.rt2), Done))
                           ELSE Failed

(* ---- Vector structures: a sequence of parts [vt, off, n] at rising      *)
(* addresses, off and n in bytes (bits, here) of the register.        ---- *)
Lane(v, off, n) == (v \div 2^off) % 2^n
SetLane(v, off, n, e) == v + (e - Lane(v, off, n)) * 2^off

RECURSIVE transfer(_, _, _, _)
\* [ok, c]: the parts done in order, up to the first fault.
transfer(c, L, parts, addr) ==
    IF parts = <<>> THEN [ok |-> TRUE, c |-> c]
    ELSE LET p == Head(parts)
             Rest(r) == IF ~ r.ok THEN [ok |-> FALSE, c |-> r.c]
                        ELSE transfer(IF L = 1 THEN [c EXCEPT !.v[p.vt] = SetLane(@, p.off, p.n, r.v)] ELSE r.c,
                                      L, Tail(parts), u64(addr + p.n))
         IN  Rest(IF L = 1 THEN mem_read(c, addr, p.n) ELSE mem_write(c, addr, p.n, Lane(c.v[p.vt], p.off, p.n)))

VReg(rt, r) == (rt + r) % 32
PostIndexed(c, i, total) ==
    IF i.post = 1 THEN set_xsp(c, i.rn, reg_xsp(c, i.rn) + (IF i.rm = 31 THEN total ELSE reg_x(c, i.rm))) ELSE c

\* Contiguous registers, a doubleword at a time.  A quadword lands in its
\* register only when both halves are read.
RECURSIVE whole_registers(_, _, _, _)
whole_registers(c, i, r, addr) ==
    IF r = i.nregs THEN [ok |-> TRUE, c |-> c]
    ELSE LET vt == VReg(i.rt, r)
             parts == [h \in 1 .. 1 + i.Q |-> [vt |-> vt, off |-> 8 * (h - 1), n |-> 8]]
             Rest(t) == IF t.ok THEN whole_registers(t.c, i, r + 1, u64(addr + 8 * (1 + i.Q)))
                        ELSE [t EXCEPT !.c.v[vt] = c.v[vt]]
         IN  Rest(transfer(IF i.L = 1 THEN [c EXCEPT !.v[vt] = 0] ELSE c, i.L, parts, addr))

\* Interleaved elements; a load clears the registers first.
interleaved(c, i, addr) ==
    LET elems == (8 * (1 + i.Q)) \div 2^i.size
        parts == [k \in 1 .. elems * i.nregs |->
                     [vt |-> VReg(i.rt, (k - 1) % i.nregs), off |-> ((k - 1) \div i.nregs) * 2^i.size, n |-> 2^i.size]]
        zeroed == [c EXCEPT !.v = [t \in DOMAIN @ |-> IF \E r \in 0 .. i.nregs - 1 : t = VReg(i.rt, r) THEN 0 ELSE @[t]]]
    IN  transfer(IF i.L = 1 THEN zeroed ELSE c, i.L, parts, addr)

ldst_vector_multi(c, i) ==
    LET Done(d) == PostIndexed(d, i, i.nregs * 8 * (1 + i.Q))
    IN  IF c.fp_trapped THEN cpu_fp_trap(c)
        ELSE IF i.nregs = 0 THEN undefined(c)
        ELSE IF ~ sp_align_ok(c, i.rn) THEN sp_align_fault(c)
        ELSE WithState(IF i.sel = 1 THEN whole_registers(c, i, 0, reg_xsp(c, i.rn))
                       ELSE interleaved(c, i, reg_xsp(c, i.rn)), Done)

\* One lane of each of selem registers, or one element replicated.
RECURSIVE replicated(_, _, _, _)
replicated(c, i, r, addr) ==
    IF r = i.selem THEN [ok |-> TRUE, c |-> c]
    ELSE LET lanes == (8 * (1 + i.Q)) \div 2^i.size
             Rest(e) == IF ~ e.ok THEN [ok |-> FALSE, c |-> e.c]
                        ELSE replicated([c EXCEPT !.v[VReg(i.rt, r)] =
                                             MapThenSumSet(LAMBDA k : e.v * 2^(k * 2^i.size), 0 .. lanes - 1)],
                                        i, r + 1, u64(addr + 2^i.size))
         IN  Rest(mem_read(c, addr, 2^i.size))
\* Mutant: the base is written back after a fault too.
ldst_vector_single_Always(c, i) ==
    LET parts == [k \in 1 .. i.selem |-> [vt |-> VReg(i.rt, k - 1), off |-> i.index * 2^i.size, n |-> 2^i.size]]
        t == IF i.rep = 1 THEN replicated(c, i, 0, reg_xsp(c, i.rn)) ELSE transfer(c, i.L, parts, reg_xsp(c, i.rn))
    IN  IF c.fp_trapped THEN cpu_fp_trap(c)
        ELSE IF i.rep = 1 /\ i.L = 0 THEN undefined(c)
        ELSE IF ~ sp_align_ok(c, i.rn) THEN sp_align_fault(c)
        ELSE PostIndexed(t.c, i, i.selem * 2^i.size)
ldst_vector_single(c, i) ==
    LET parts == [k \in 1 .. i.selem |-> [vt |-> VReg(i.rt, k - 1), off |-> i.index * 2^i.size, n |-> 2^i.size]]
        Done(d) == PostIndexed(d, i, i.selem * 2^i.size)
    IN  IF c.fp_trapped THEN cpu_fp_trap(c)
        ELSE IF i.rep = 1 /\ i.L = 0 THEN undefined(c)
        ELSE IF ~ sp_align_ok(c, i.rn) THEN sp_align_fault(c)
        ELSE WithState(IF i.rep = 1 THEN replicated(c, i, 0, reg_xsp(c, i.rn))
                       ELSE transfer(c, i.L, parts, reg_xsp(c, i.rn)), Done)

(* ---- PSCI: x0 selects the function. ---- *)
PSCI_FN == << "version", "features", "suspend", "affinity", "migrate", "off", "reset", "cpu_on", "cpu_off" >>
smccc_conduit(c) ==
    LET fn == IF c.x[0] + 1 \in DOMAIN PSCI_FN THEN PSCI_FN[c.x[0] + 1] ELSE "unknown"
        q == IF c.x[1] + 1 \in DOMAIN PSCI_FN THEN PSCI_FN[c.x[1] + 1] ELSE "unknown"
        NotSupported == u64(-1)
    IN  CASE fn = "version"  -> set_x(c, 0, 1)
          [] fn = "features" ->
                 set_x(c, 0, IF q \in {"cpu_on", "off", "reset", "version", "suspend", "affinity"} THEN 0 ELSE NotSupported)
          [] fn = "suspend"  -> set_x([c EXCEPT !.halted = TRUE], 0, 0)
          [] fn = "affinity" -> set_x(c, 0, Bool(c.x[1] # 0))
          [] fn = "migrate"  -> set_x(c, 0, 2)
          [] fn = "off"      -> [c EXCEPT !.stop = TRUE]
          [] fn = "reset"    -> [c EXCEPT !.stop = TRUE, !.reset = TRUE]
          [] OTHER           -> set_x(c, 0, NotSupported)

(* ---- System registers. ---- *)
\* The registers that only hold what was written; c.sys maps them.
PlainRegs == { "TPIDR_EL0", "TPIDRRO_EL0", "TPIDR_EL1", "PAR_EL1", "CNTFRQ" }

msr_immediate(c, i) ==
    LET z == Bit(c.nzcv, 2)  cy == Bit(c.nzcv, 1)  v == Bit(c.nzcv, 0)
    IN  CASE i.f = "SPSel"   -> [c EXCEPT !.sp_sel = i.crm % 2]
          [] i.f = "CFINV"   -> [c EXCEPT !.nzcv = Xor(@, PS_C)]
          [] i.f = "XAFLAG"  -> [c EXCEPT !.nzcv = Flags(cy = 0 /\ z = 0, z = 1 /\ cy = 1, cy = 1 \/ z = 1, cy = 0 /\ z = 1)]
          [] i.f = "AXFLAG"  -> [c EXCEPT !.nzcv = Flags(FALSE, z = 1 \/ v = 1, cy = 1 /\ v = 0, FALSE)]
          [] i.f = "DAIFSet" -> [c EXCEPT !.daif = Or(@, i.crm)]
          [] i.f = "DAIFClr" -> [c EXCEPT !.daif = And(@, 15 - i.crm)]
          [] OTHER           -> c

timer_count(c, virt) == c.icount + c.skip - (IF virt THEN c.voff ELSE 0)

mmu_at_s1(c, va, write, user) == IF AllowsAs(c, user, va, write) THEN va - (va % PAGE) ELSE 1

RECURSIVE zero_line(_, _, _)
zero_line(c, base, k) ==
    IF k = DCZVA_STORES THEN c ELSE OnWrite(c, base + 8 * k, 8, 0, LAMBDA d : zero_line(d, base, k + 1))

sys_op(c, i) ==
    LET t == reg_x(c, i.rt)
        base == t - (t % (8 * DCZVA_STORES))
    IN  CASE i.f = "TLBI_VA"  -> [c EXCEPT !.warm = @ \ {t % (2^XLEN \div PAGE)}]
          [] i.f = "TLBI_ALL" -> [c EXCEPT !.warm = {}]
          [] i.f = "AT"       -> [c EXCEPT !.sys["PAR_EL1"] = mmu_at_s1(c, t, i.crm % 2 = 1, i.crm >= 2)]
          [] i.f = "DC_ZVA"   -> IF Hits(c, base, TRUE) THEN Stored(c, base, 8 * DCZVA_STORES, 0) ELSE zero_line(c, base, 0)
          [] OTHER            -> c

do_mrs(c, i) ==
    LET v == CASE i.f \in PlainRegs -> c.sys[i.f]
               [] i.f = "SP_EL0"    -> c.sp_el[0]
               [] i.f = "SPSel"     -> c.sp_sel
               [] i.f = "CurrentEL" -> c.el * 4
               [] i.f = "NZCV"      -> c.nzcv
               [] i.f = "DAIF"      -> c.daif * 4
               [] i.f = "ELR"       -> c.elr
               [] i.f = "FAR"       -> c.far
               [] i.f = "CPACR"     -> c.cpacr
               [] i.f = "FPCR"      -> c.fpcr
               [] i.f = "CNTPCT"    -> timer_count(c, FALSE)
               [] i.f = "CNTVCT"    -> timer_count(c, TRUE)
               [] i.f = "DCZID"     -> 4
               [] OTHER             -> 0
    IN  IF i.f = "FPCR" /\ c.fp_trapped THEN cpu_fp_trap(c) ELSE set_x(c, i.rt, v)

do_msr(c, i) ==
    LET v == reg_x(c, i.rt)
    IN  CASE i.f \in PlainRegs -> [c EXCEPT !.sys[i.f] = v]
          [] i.f = "SP_EL0"    -> [c EXCEPT !.sp_el[0] = v]
          [] i.f = "SPSel"     -> [c EXCEPT !.sp_sel = v % 2]
          [] i.f = "NZCV"      -> [c EXCEPT !.nzcv = u32(v)]
          [] i.f = "DAIF"      -> [c EXCEPT !.daif = (v \div 4) % 16]
          [] i.f = "ELR"       -> [c EXCEPT !.elr = v]
          [] i.f = "FAR"       -> [c EXCEPT !.far = v]
          [] i.f = "CPACR"     -> cpu_refresh_fp_trap([c EXCEPT !.cpacr = v % 4])
          [] i.f = "FPCR"      -> IF c.fp_trapped THEN cpu_fp_trap(c) ELSE [c EXCEPT !.fpcr = u32(v)]
          [] i.f = "TTBR"      -> [c EXCEPT !.warm = {}]
          [] OTHER             -> c

sysreg_exec(c, i) ==
    CASE i.op0 = 0 -> msr_immediate(c, i)
      [] i.op0 = 1 -> (IF i.L = 0 THEN sys_op(c, i) ELSE set_x(c, i.rt, 0))
      [] OTHER     -> IF i.L = 1 THEN do_mrs(c, i) ELSE do_msr(c, i)

(* ---- Branches, exceptions, hints. ---- *)
eret(c) == [cpu_unpack_spsr(c, c.spsr) EXCEPT !.pc = c.elr]

exception_gen(c, i) ==
    CASE i.k = "svc" -> exception_take(c, EXC_SYNC, [ec |-> "svc", iss |-> i.imm], 0, c.pc)
      [] i.k \in {"hvc", "smc"} -> (IF c.el = 0 THEN undefined(c) ELSE smccc_conduit(c))
      [] i.k = "brk" -> cpu_raise_sync(c, [ec |-> "brk", iss |-> i.imm], 0)
      [] i.k = "hlt" -> [c EXCEPT !.stop = TRUE]
      [] OTHER       -> undefined(c)

\* A pending event completes WFE at once.
hint(c, i) ==
    CASE i.f = "WFE" -> (IF c.event THEN [c EXCEPT !.event = FALSE] ELSE [c EXCEPT !.halted = TRUE])
      [] i.f = "WFI" -> [c EXCEPT !.halted = TRUE]
      [] i.f \in {"SEV", "SEVL"} -> [c EXCEPT !.event = TRUE]
      [] OTHER -> c

branch_system(c, i) ==
    LET tgt == u64(c.cur + i.imm)
        Take(p) == IF p THEN [c EXCEPT !.pc = tgt] ELSE c
        link == u64(c.cur + 4)
    IN  CASE i.g = "b"     -> Take(TRUE)
          [] i.g = "bl"    -> [set_x(c, 30, link) EXCEPT !.pc = tgt]
          [] i.g = "bcond" -> Take(cond_holds(c.nzcv, i.cond))
          [] i.g = "cbz"   -> Take((Trunc(reg_x(c, i.rt), i.sf) # 0) = (i.op = 1))
          [] i.g = "tbz"   -> Take(Bit(reg_x(c, i.rt), i.bit) = i.op)
          [] i.g = "exc"   -> exception_gen(c, i)
          [] i.g = "breg" /\ i.opc \in {0, 2} -> [c EXCEPT !.pc = reg_x(c, i.rn)]
          [] i.g = "breg" /\ i.opc = 1 -> [set_x(c, 30, link) EXCEPT !.pc = reg_x(c, i.rn)]
          [] i.g = "breg" /\ i.opc = 4 -> eret(c)
          [] i.g = "hint"  -> hint(c, i)
          [] i.g = "barrier" -> (IF i.f = "CLREX" THEN [c EXCEPT !.excl_valid = 0] ELSE c)
          [] i.g = "sys"   -> sysreg_exec(c, i)
          [] OTHER         -> undefined(c)

BranchGroups == { "b", "bl", "bcond", "cbz", "tbz", "exc", "breg", "hint", "barrier", "sys" }
(* ---- Floating point and vectors: one instruction of each way the JIT   *)
(* has of translating them.  A lane is a byte of the register; NAN stands  *)
(* for the values with rules of their own.                            ---- *)
NAN == 2^XLEN - 1
IsNan(x) == x = NAN
\* Addition and maximum of the host's FPU, on stand-in values.
FpAdd(a, b) == IF IsNan(a) \/ IsNan(b) THEN NAN ELSE (a + b) % NAN
FpMax(a, b) == IF IsNan(a) \/ IsNan(b) THEN NAN ELSE Max({a, b})
Lo(v) == v % 2^XLEN
Hi(v) == v \div 2^XLEN
fp_set_flags(a, b) == CASE IsNan(a) \/ IsNan(b) -> PS_C + PS_V [] a = b -> PS_Z + PS_C [] a < b -> PS_N [] OTHER -> PS_C
\* A scalar result clears the rest of the register.
FpResult(c, i) ==
    LET n == c.v[i.rn]  m == c.v[i.rm]
    IN  CASE i.k = "orr"   -> n
          [] i.k = "fmov"  -> Lo(n)
          [] i.k = "fadd"  -> FpAdd(Lo(n), Lo(m))
          [] i.k = "fmax"  -> FpMax(Lo(n), Lo(m))
          [] i.k = "faddv" -> FpAdd(Lo(n), Lo(m)) + 2^XLEN * FpAdd(Hi(n), Hi(m))
          [] i.k = "fcsel" -> Lo(IF cond_holds(c.nzcv, i.cond) THEN n ELSE m)
exec_fpsimd(c, i) ==
    IF c.fp_trapped THEN cpu_fp_trap(c)
    ELSE IF i.k = "fcmp" THEN [c EXCEPT !.nzcv = fp_set_flags(Lo(c.v[i.rn]), Lo(c.v[i.rm]))]
    ELSE [c EXCEPT !.v[i.rd] = FpResult(c, i)]

exec_a64(c, i) ==
    CASE i.g = "adr" -> adr(c, i) [] i.g = "addsub_imm" -> addsub_imm(c, i)
      [] i.g = "logical_imm" -> logical_imm(c, i) [] i.g = "move_wide" -> move_wide(c, i)
      [] i.g = "bitfield" -> bitfield(c, i) [] i.g = "extr" -> extr(c, i)
      [] i.g = "logical_reg" -> logical_reg(c, i) [] i.g = "addsub_ext" -> addsub_ext(c, i)
      [] i.g = "addsub_reg" -> addsub_reg(c, i) [] i.g = "dp_3src" -> dp_3src(c, i)
      [] i.g = "addsub_carry" -> addsub_carry(c, i) [] i.g = "rmif" -> rmif(c, i)
      [] i.g = "setf" -> setf(c, i) [] i.g = "ccmp" -> ccmp(c, i) [] i.g = "csel" -> csel(c, i)
      [] i.g = "dp_1src" -> dp_1src(c, i) [] i.g = "dp_2src" -> dp_2src(c, i)
      [] i.g = "ldst" -> ldst_register(c, i) [] i.g = "pair" -> ldst_pair(c, i)
      [] i.g = "literal" -> ldst_literal(c, i) [] i.g = "exclusive" -> ldst_exclusive(c, i)
      [] i.g = "rcpc" -> ldst_rcpc_unscaled(c, i) [] i.g = "mops" -> mops(c, i)
      [] i.g = "vmulti" -> ldst_vector_multi(c, i) [] i.g = "vsingle" -> ldst_vector_single(c, i)
      [] i.g = "fp" -> exec_fpsimd(c, i)
      [] i.g \in BranchGroups -> branch_system(c, i)
      [] OTHER -> undefined(c)

\* code maps the addresses of the program to its instructions; a fetch
\* elsewhere aborts.  The interrupt lines, which every engine tests at the
\* same point, are low here; RunLoop models them.
fetch_abort(c) ==
    cpu_raise_sync(c, [ec |-> IF c.el = 0 THEN "iabort_lower" ELSE "iabort_same", iss |-> 0], c.pc)
cpu_step(c, code) ==
    LET d == [c EXCEPT !.cur = c.pc]
    IN  IF c.stop \/ c.halted THEN c
        ELSE IF c.pc \notin DOMAIN code THEN fetch_abort(d)
        ELSE [exec_a64([d EXCEPT !.pc = u64(c.pc + 4)], code[c.pc]) EXCEPT !.icount = @ + 1]
===============================================================================
