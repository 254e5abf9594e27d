------------------------------ MODULE BackendX86 ------------------------------
(***************************************************************************)
(* The x86-64 backend (backend_x86_64.c) and the helpers the generated     *)
(* code calls (jit.c).  The backend keeps guest registers in host          *)
(* registers, spills the least recently used one, and leaves the guest's   *)
(* flags in EFLAGS while it can.  Emission and execution are modelled      *)
(* together, operation by operation: the allocator's state never depends   *)
(* on the way the code took, so one record holds both.                     *)
(*                                                                         *)
(*   c      the CPU in memory: the homes of the registers                  *)
(*   ops,k  the block, and the operation to come                           *)
(*   map    virtual register -> [r, x]: the host register, and its value   *)
(*   dirty  the mapped registers newer than their homes                    *)
(*   order  the mapped registers, least recently used first                *)
(*   vmap, vdirty, vorder   the same for the vector registers              *)
(*   fl,ef  where the guest's flags are, and EFLAGS as a nibble N Z C V    *)
(*          of SF, ZF, CF, OF                                              *)
(*   tmp    the spill slots of the temporaries; the last is FUSE_VA_SLOT   *)
(*   failed the last ATOMIC's comparison failed                            *)
(*   on     the block is being executed                                    *)
(***************************************************************************)
EXTENDS Frontend

CONSTANTS
    HostPool,       \* the host registers, in order of preference
    CallerSaved,    \* those a call of a helper destroys
    VPool           \* the number of vector registers of the host

Temps == TMP0 .. VREG_ZERO
Without(f, v) == [u \in DOMAIN f \ {v} |-> f[u]]
With(f, v, x) == [u \in DOMAIN f \cup {v} |-> IF u = v THEN x ELSE f[u]]
ToBack(s, v) == SelectSeq(s, LAMBDA u : u # v) \o << v >>
Dropped(s, v) == SelectSeq(s, LAMBDA u : u # v)

be_start(c, code) ==
    [c |-> c, ops |-> jit_fe_block(c, code, c.pc), k |-> 1, map |-> <<>>, dirty |-> {}, order |-> <<>>,
     vmap |-> <<>>, vdirty |-> {}, vorder |-> <<>>, fl |-> "MEM", ef |-> 0, tmp |-> [v \in Temps |-> 0],
     spx |-> cpu_cur_sp(c), failed |-> FALSE, on |-> TRUE]

(* ---- Homes. ---- *)
Home(j, v) == CASE v = VREG_ZERO -> 0 [] v \in TMP0 .. TMP2 -> j.tmp[v] [] v = SP -> j.c.sp_el[j.spx] [] OTHER -> j.c.x[v]
SetHome(j, v, x) ==
    CASE v \in Temps -> [j EXCEPT !.tmp[v] = x]
      [] v = SP -> [j EXCEPT !.c.sp_el[j.spx] = x]
      [] OTHER -> [j EXCEPT !.c.x[v] = x]
IsMapped(j, v) == v \in DOMAIN j.map
Val(j, v) == j.map[v].x
v_store(j, v) == SetHome(j, v, Val(j, v))

(* ---- The allocator. ---- *)
ra_unmap(j, v) == [j EXCEPT !.map = Without(@, v), !.dirty = @ \ {v}, !.order = Dropped(@, v)]
Free(j) == SelectSeq(HostPool, LAMBDA h : \A v \in DOMAIN j.map : j.map[v].r # h)
ra_alloc(j) ==
    LET v == Head(j.order)
    IN  IF Free(j) # <<>> THEN [j |-> j, r |-> Head(Free(j))]
        ELSE [j |-> ra_unmap(IF v \in j.dirty THEN v_store(j, v) ELSE j, v), r |-> j.map[v].r]
Touch(j, v) == [j EXCEPT !.order = ToBack(@, v)]
\* v mapped, with value x if it was not.
Placed(a, v, x) == [a.j EXCEPT !.map = With(@, v, [r |-> a.r, x |-> x])]
Bind(j, v, x) == Touch(IF IsMapped(j, v) THEN j ELSE Placed(ra_alloc(j), v, x), v)
SetVal(j, v, x) == [j EXCEPT !.map[v].x = x]
Redefine(j, v, x) == [SetVal(j, v, x) EXCEPT !.dirty = @ \cup {v}]
ra_use(j, v) == Bind(j, v, Home(j, v))
ra_def(j, v, x) == IF v = VREG_ZERO THEN j ELSE Redefine(Bind(j, v, 0), v, x)
\* Mapped but not yet written: the register holds anything.
ra_map_clean(j, v) == Bind(j, v, Not(Home(j, v)))
\* d = f(a), computed in d's register; x is the result.
def_alias(j, d, a, x) ==
    IF d # a THEN ra_def(ra_use(j, a), d, x)
    ELSE [SetVal(ra_use(j, a), a, x) EXCEPT !.dirty = @ \cup ({d} \ {VREG_ZERO})]

StoreHomes(j, S) ==
    LET In(v) == v \in S /\ IsMapped(j, v)
    IN  [j EXCEPT !.c.x = [v \in Gprs |-> IF In(v) THEN Val(j, v) ELSE @[v]],
                  !.c.sp_el[j.spx] = IF In(SP) THEN Val(j, SP) ELSE @,
                  !.tmp = [v \in Temps |-> IF In(v) THEN Val(j, v) ELSE @[v]]]
StoreV(j) == [j EXCEPT !.c.v = [t \in VRegs |-> IF t \in j.vdirty THEN j.vmap[t] ELSE @[t]]]
sync_all(j) == [StoreV(StoreHomes(j, j.dirty)) EXCEPT !.dirty = {}, !.vdirty = {}]
invalidate_all(j) == [j EXCEPT !.map = <<>>, !.dirty = {}, !.order = <<>>, !.vmap = <<>>, !.vdirty = {}, !.vorder = <<>>]
\* Around a slow way: homes are made current, the dirty marks kept, and what
\* the call destroyed is loaded again, so that both ways agree.
slow_store_dirty(j) == StoreV(StoreHomes(j, j.dirty))
slow_reload_clobbered(j) ==
    [j EXCEPT !.map = [v \in DOMAIN @ |-> IF @[v].r \in CallerSaved THEN [@[v] EXCEPT !.x = Home(j, v)] ELSE @[v]],
              !.vmap = [t \in DOMAIN @ |-> j.c.v[t]]]

(* ---- The vector registers' cache. ---- *)
vra_flush(j, t) == IF t \in j.vdirty THEN [j EXCEPT !.c.v[t] = j.vmap[t], !.vdirty = @ \ {t}] ELSE j
vra_drop(j, t) == [j EXCEPT !.vmap = Without(@, t), !.vdirty = @ \ {t}, !.vorder = Dropped(@, t)]
vra_spill(j, t) == vra_drop(vra_flush(j, t), t)
vra_bind(j, t, x) ==
    LET full == t \notin DOMAIN j.vmap /\ Cardinality(DOMAIN j.vmap) = VPool
    IN  [(IF full THEN vra_spill(j, Head(j.vorder)) ELSE j) EXCEPT
             !.vmap = IF t \in DOMAIN @ THEN @ ELSE With(@, t, x), !.vorder = ToBack(@, t)]
vop_src(j, t) == vra_bind(j, t, j.c.v[t])
vop_dst(j, t, x) == [vra_bind(j, t, 0) EXCEPT !.vmap[t] = x, !.vdirty = @ \cup {t}]

(* ---- Flags.  A nibble holds SF ZF CF OF as N Z C V. ---- *)
\* What recompose_from_rax makes of EFLAGS: after a subtraction CF is the
\* borrow, after a logical operation C and V are clear.
\* Mutant: the borrow is taken for the carry.
recompose_NoInvert(fl, ef) == IF fl = "LOGIC" THEN And(ef, PS_N + PS_Z) ELSE ef
recompose(fl, ef) == CASE fl = "ADD" -> ef [] fl = "SUB" -> Xor(ef, PS_C) [] OTHER -> And(ef, PS_N + PS_Z)
materialize_flags(j) == IF j.fl = "MEM" THEN j ELSE [j EXCEPT !.c.nzcv = recompose(j.fl, j.ef), !.fl = "MEM"]
Clobbered(j) == [j EXCEPT !.ef = 15 - @]

Transparent == { "MOVI", "MOV", "CPULD", "CPUST", "ADD", "SUB", "ADDI", "SUBI" }
\* What happens to the flags after operation k, seen through transparent ones.
flags_next_use(ops, k) ==
    LET opaque == { u \in k + 1 .. Len(ops) : ops[u].op \notin Transparent }
        o == ops[Min(opaque)]
    IN  IF opaque = {} THEN "CONSUMED"
        ELSE IF op_reads_flags(o) \/ o.op \in {"JMP", "JMPIND"} THEN "CONSUMED"
        ELSE IF op_writes_flags(o) THEN "DEAD"
        ELSE "UNKNOWN"
NextUse(j) == flags_next_use(j.ops, j.k)
Materialized(j, when) == IF when THEN materialize_flags(j) ELSE j
set_flags_state(j, kind) == Materialized([j EXCEPT !.fl = kind], NextUse(j) = "UNKNOWN")

\* x86's condition codes over EFLAGS; "" where only c->nzcv can tell.
CcHolds(cc, ef) ==
    LET s == Bit(ef, 3) = 1  z == Bit(ef, 2) = 1  cf == Bit(ef, 1) = 1  o == Bit(ef, 0) = 1
    IN  CASE cc = "E" -> z [] cc = "NE" -> ~ z [] cc = "B" -> cf [] cc = "AE" -> ~ cf [] cc = "S" -> s [] cc = "NS" -> ~ s
          [] cc = "O" -> o [] cc = "NO" -> ~ o [] cc = "A" -> ~ cf /\ ~ z [] cc = "BE" -> cf \/ z
          [] cc = "GE" -> s = o [] cc = "L" -> s # o [] cc = "G" -> ~ z /\ s = o [] cc = "LE" -> z \/ s # o
          [] cc = "ALWAYS" -> TRUE [] OTHER -> FALSE
sub_cc == << "E", "NE", "AE", "B", "S", "NS", "O", "NO", "A", "BE", "GE", "L", "G", "LE", "ALWAYS", "ALWAYS" >>
add_cc == << "E", "NE", "B", "AE", "S", "NS", "O", "NO", "", "", "GE", "L", "G", "LE", "ALWAYS", "ALWAYS" >>
logic_cc == << "E", "NE", "NEVER", "ALWAYS", "S", "NS", "NEVER", "ALWAYS", "NEVER", "ALWAYS", "NS", "S", "G", "LE", "ALWAYS", "ALWAYS" >>
\* [j, holds, never]: the condition, decided from wherever the flags are.
cond_setup(j, cond) ==
    LET cc == CASE j.fl = "SUB" -> sub_cc[cond + 1] [] j.fl = "LOGIC" -> logic_cc[cond + 1]
                [] j.fl = "ADD" -> add_cc[cond + 1] [] OTHER -> ""
        InMemory(m) == [j |-> Clobbered(m), holds |-> cond_holds(m.c.nzcv, cond)]
    IN  IF cc # "" THEN [j |-> j, holds |-> CcHolds(cc, j.ef)] ELSE InMemory(materialize_flags(j))

\* CF for adc or, inverted, for sbb.
carry_to_host(j, inverted) ==
    LET cf == Bit(j.ef, 1)
        carry == CASE j.fl = "ADD" -> cf [] j.fl = "SUB" -> 1 - cf [] j.fl = "LOGIC" -> 0 [] OTHER -> FlagC(j.c.nzcv)
    IN  IF inverted THEN 1 - carry ELSE carry

(* ---- Arithmetic. ---- *)
\* [v, f]: the host's result and EFLAGS.
Alu(f, w, x, y, cf) ==
    LET minus == add_with_carry(x, Not(y), 1 - cf, w)
        bits == Trunc(CASE f = "AND" -> And(x, y) [] f = "ORR" -> Or(x, y) [] OTHER -> Xor(x, y), w)
    IN  CASE f = "ADD" -> add_with_carry(x, y, cf, w)
          [] f = "SUB" -> [minus EXCEPT !.f = Xor(@, PS_C)]
          [] OTHER     -> [v |-> bits, f |-> Flags(Bit(bits, Width(w) - 1) = 1, bits = 0, FALSE, FALSE)]
AluOf(op) ==
    CASE op \in {"ADD", "ADDS", "ADDI", "ADDIS", "ADC", "ADCS"} -> "ADD"
      [] op \in {"SUB", "SUBS", "SUBI", "SUBIS", "SBC", "SBCS"} -> "SUB"
      [] op \in {"AND", "ANDS", "ANDI", "ANDIS", "BIC", "BICS"} -> "AND"
      [] op \in {"ORR", "ORRI", "ORN"} -> "ORR"
      [] OTHER -> "EOR"
KindOf(f) == IF f \in {"ADD", "SUB"} THEN f ELSE "LOGIC"

\* Both operands mapped, and the host's instruction executed on them.
Operands(j, o) == ra_use(ra_use(j, o.a), o.b)
AluOn(u, o, f, cf) == Alu(f, o.w, Val(u, o.a), Val(u, o.b), cf)
WithEflags(u, r) == [u EXCEPT !.ef = r.f]
\* d = a op b, flags clobbered.
alu_rrr(j, o, f, cf) ==
    LET Into(e, v) == CASE o.dst = o.b /\ o.dst # o.a /\ f = "SUB" -> ra_def(e, o.dst, v)
                        [] o.dst = o.b /\ o.dst # o.a /\ f # "SUB" -> Redefine(Touch(e, o.b), o.b, v)
                        [] OTHER -> ra_use(def_alias(e, o.dst, o.a, v), o.b)
        On(u) == Into(WithEflags(u, AluOn(u, o, f, cf)), Trunc(AluOn(u, o, f, cf).v, o.w))
    IN  On(Operands(j, o))
\* d = a op b for the flags.
alu_rrr_S(j, o, f, cf) ==
    LET Into(e, v) == CASE o.dst = VREG_ZERO -> e
                        [] o.dst # VREG_ZERO /\ o.dst = o.b /\ o.dst # o.a -> ra_def(e, o.dst, v)
                        [] OTHER -> ra_use(def_alias(e, o.dst, o.a, v), o.b)
        On(u) == Into(WithEflags(u, AluOn(u, o, f, cf)), AluOn(u, o, f, cf).v)
    IN  On(Operands(j, o))

\* ADD SUB AND ORR EOR and their immediate forms.  While the flags wait in
\* EFLAGS for a consumer, an addition is done by lea.
KeepsFlags(j, f) == f \in {"ADD", "SUB"} /\ j.fl # "MEM" /\ NextUse(j) = "CONSUMED"
emit_alu(j, o) ==
    LET f == AluOf(o.op)
        Lea(u) == ra_def(u, o.dst, Trunc(AluOn(u, o, f, 0).v, o.w))
    IN  IF KeepsFlags(j, f) THEN Lea(Operands(j, o)) ELSE alu_rrr(j, o, f, 0)
AluWithImm(u, o) == Alu(AluOf(o.op), o.w, Val(u, o.a), Trunc(o.imm, o.w), 0)
emit_alui(j, o) ==
    LET On(u, r) == IF KeepsFlags(j, AluOf(o.op)) THEN ra_def(u, o.dst, Trunc(r.v, o.w))
                    ELSE def_alias(WithEflags(u, r), o.dst, o.a, Trunc(r.v, o.w))
    IN  On(ra_use(j, o.a), AluWithImm(ra_use(j, o.a), o))
\* BIC ORN EON, through a scratch copy of b.
AluInverted(u, o) == Alu(AluOf(o.op), o.w, Val(u, o.a), Not(Val(u, o.b)), 0)
emit_inverted(j, o) ==
    LET On(u, r) == def_alias(WithEflags(u, r), o.dst, o.a, r.v)
    IN  On(ra_use(j, o.b), AluInverted(ra_use(ra_use(j, o.b), o.a), o))
emit_carry(j, o) ==
    LET f == AluOf(o.op)
        plain == o.op \in {"ADC", "SBC"}
        Adc(m) == alu_rrr(m, o, f, carry_to_host(m, f = "SUB"))
    IN  CASE plain \/ (o.dead /\ o.dst # VREG_ZERO) -> Adc(Materialized(j, plain))
          [] ~ plain /\ o.dead /\ o.dst = VREG_ZERO -> j
          [] OTHER -> set_flags_state(alu_rrr_S(j, o, f, carry_to_host(j, f = "SUB")), f)
emit_alus(j, o) ==
    LET f == AluOf(o.op) IN IF o.dead THEN alu_rrr(j, o, f, 0) ELSE set_flags_state(alu_rrr_S(j, o, f, 0), KindOf(f))
FlagsIfLive(d, o) == IF o.dead THEN d ELSE set_flags_state(d, KindOf(AluOf(o.op)))
emit_bics(j, o) ==
    LET On(u, r) == IF o.dst = VREG_ZERO THEN WithEflags(u, r) ELSE def_alias(WithEflags(u, r), o.dst, o.a, r.v)
        Both(u) == On(u, AluInverted(u, o))
    IN  FlagsIfLive(Both(ra_use(ra_use(j, o.b), o.a)), o)
emit_alusi(j, o) ==
    LET On(u, r) == IF o.dst = VREG_ZERO /\ ~ o.dead THEN WithEflags(u, r) ELSE def_alias(WithEflags(u, r), o.dst, o.a, r.v)
        Both(u) == On(u, AluWithImm(u, o))
    IN  FlagsIfLive(Both(ra_use(j, o.a)), o)

\* Results that leave no flags behind: the operands are used, the result
\* defined, and EFLAGS clobbered on the way.
SdivGuarded(x, y, w) ==
    LET n == Width(w)  a == Signed(x, n)  b == Signed(y, n)
    IN  CASE b = 0 -> 0 [] b = -1 /\ a = -(2^(n - 1)) -> Trunc(x, w) [] OTHER -> Trunc(Quot(a, b), w)
Shifted(op, x, n, w) ==
    CASE op \in {"LSLI", "LSLV"} -> Lsl(x, n, w) [] op \in {"LSRI", "LSRV"} -> Lsr(x, n, w)
      [] op \in {"ASRI", "ASRV"} -> Asr(x, n, w) [] OTHER -> Ror(x, n, w)
MulAdd(op, a, x, y, w) ==
    LET sp == Signed(x, WLEN) * Signed(y, WLEN)  up == u32(x) * u32(y)
    IN  CASE op = "MADD" -> Trunc(a + x * y, w) [] op = "MSUB" -> Trunc(a - x * y, w)
          [] op = "SMADDL" -> u64(a + sp) [] op = "SMSUBL" -> u64(a - sp)
          [] op = "UMADDL" -> u64(a + up) [] OTHER -> u64(a - up)
Computed(o, x, y, a) ==
    LET w == o.w  n == Width(w)
    IN  CASE o.op \in {"LSLI", "LSRI", "ASRI", "RORI"} -> Shifted(o.op, x, o.imm, w)
          [] o.op \in {"LSLV", "LSRV", "ASRV", "RORV"} -> Shifted(o.op, x, y % n, w)
          [] o.op = "MOVK" -> Trunc(And(x, Not(u64(ones(2) * 2^o.cc))) + o.imm, w)
          [] o.op = "EXTR" -> ((Trunc(x, w) * 2^n + Trunc(y, w)) \div 2^o.imm) % 2^n
          [] o.op \in Mul3 -> MulAdd(o.op, a, x, y, w)
          [] o.op = "SMULH" -> smulh64(x, y) [] o.op = "UMULH" -> umulh64(x, y)
          [] o.op = "UDIV" -> Udiv(x, y, w) [] o.op = "SDIV" -> SdivGuarded(x, y, w)
          [] o.op = "CLZ" -> Clz(x, n)
          [] o.op = "REV64" -> RevIn(x, 1, XLEN) [] o.op = "REV32" -> RevIn(u32(x), 1, WLEN)
          [] OTHER -> RevIn(Trunc(x, w), 1, n)
\* Computed in the destination's own register.
InPlace == { "LSLI", "LSRI", "ASRI", "RORI", "LSLV", "LSRV", "ASRV", "RORV", "MOVK", "REV64", "REV32" }
\* Computed in rax: two operands, or one.
Scratch2 == { "EXTR", "SMULH", "UMULH", "UDIV", "SDIV" } \cup Mul3
Scratch1 == { "CLZ", "RBIT" }
emit_in_place(j, o) ==
    LET two == o.op \in {"LSLV", "LSRV", "ASRV", "RORV"}
        On(u) == def_alias(u, o.dst, o.a, Computed(o, Val(ra_use(u, o.a), o.a), IF two THEN Val(u, o.b) ELSE 0, 0))
    IN  Clobbered(On(IF two THEN ra_use(j, o.b) ELSE j))
emit_scratch(j, o) ==
    LET two == o.op \in Scratch2
        add == o.op \in Mul3 /\ o.cc # VREG_ZERO
        On(u, t) == ra_def(t, o.dst, Computed(o, Val(u, o.a), IF two THEN Val(u, o.b) ELSE 0, IF add THEN Val(t, o.cc) ELSE 0))
        Both(u) == On(u, IF add THEN ra_use(u, o.cc) ELSE u)
    IN  Clobbered(Both(IF two THEN Operands(j, o) ELSE ra_use(j, o.a)))

\* The zero register needs no host register.
UseNz(k, v) == IF v = VREG_ZERO THEN k ELSE ra_use(k, v)
ValNz(k, v) == IF v = VREG_ZERO THEN 0 ELSE Val(k, v)
SelectElse(op, y) == CASE op = "CSEL" -> y [] op = "CSINC" -> y + 1 [] op = "CSINV" -> Not(y) [] OTHER -> Not(y) + 1
emit_csel(j, o) ==
    LET On(u, holds) ==
            ra_def(u, o.dst, Trunc(IF holds THEN ValNz(u, o.a) ELSE SelectElse(o.op, ValNz(u, o.b)), o.w))
        By(s) == On(UseNz(UseNz(s.j, o.a), o.b), s.holds)
    IN  Materialized(By(cond_setup(j, o.cc)), NextUse(j) = "UNKNOWN")
emit_ccmp(j, o) ==
    LET imm == o.op \in {"CCMPI", "CCMNI"}
        f == IF o.op \in {"CCMNR", "CCMNI"} THEN "ADD" ELSE "SUB"
        By(s, ef) == [s.j EXCEPT !.c.nzcv = IF s.holds THEN recompose(f, ef) ELSE o.aux, !.fl = "MEM"]
        On(u) == By(cond_setup(u, o.cc), Alu(f, o.w, Val(u, o.a), IF imm THEN o.imm ELSE Val(u, o.b), 0).f)
    IN  On(IF imm THEN ra_use(j, o.a) ELSE Operands(j, o))

(* ---- Leaving the block. ---- *)
exit_plain(j, icnt) == [j EXCEPT !.c.icount = @ + icnt, !.on = FALSE]
exit_stub(j, o) == exit_plain([materialize_flags(j) EXCEPT !.c.pc = o.imm], o.icnt)
emit_branch(j, o) ==
    LET Tested(v) == CASE o.op = "CBZ" -> Trunc(v, o.w) = 0 [] o.op = "CBNZ" -> Trunc(v, o.w) # 0
                       [] o.op = "TBZ" -> Bit(v, o.cc) = 0 [] OTHER -> Bit(v, o.cc) = 1
        By(b) == exit_stub(b.j, IF b.holds THEN o ELSE j.ops[j.k + 1])
        On(u) == [j |-> u, holds |-> Tested(Val(u, o.a))]
    IN  By(IF o.op = "BCOND" THEN cond_setup(sync_all(j), o.cc) ELSE On(ra_use(materialize_flags(sync_all(j)), o.a)))
emit_jmpind(j, o) ==
    LET To(u) == exit_plain([u EXCEPT !.c.pc = Val(u, o.a)], o.icnt) IN To(ra_use(materialize_flags(sync_all(j)), o.a))

\* exec_a64 on the CPU in memory; nonzero leaves the block.
jit_exec1(c, i, pc) == [exec_a64([c EXCEPT !.cur = pc, !.pc = u64(pc + 4)], i) EXCEPT !.icount = @ + 1]
Diverts(c, pc) == c.stop \/ c.halted \/ c.pc # u64(pc + 4)
emit_call1(j, o) ==
    LET Back(d) == IF o.w = 1 \/ Diverts(d.c, o.pc) THEN exit_plain(d, o.icnt) ELSE d
    IN  Back([invalidate_all(materialize_flags(sync_all(j))) EXCEPT !.c = jit_exec1(@, o.aux, o.pc)])

(* ---- Memory. ---- *)
\* SP as a base: the helper faults when the check is on for this level.
emit_spchk(j, o) ==
    LET on == IF j.c.el = 0 THEN j.c.sctlr.sa0 ELSE j.c.sctlr.sa
        Fault(c) == [sp_align_fault([c EXCEPT !.cur = o.pc]) EXCEPT !.icount = @ + 1]
        Checked(s) == IF on = 1 THEN exit_plain([s EXCEPT !.c = Fault(@)], o.icnt) ELSE slow_reload_clobbered(s)
    IN  IF o.a # SP \/ Val(j, SP) % 16 = 0 THEN j ELSE Checked(slow_store_dirty(materialize_flags(j)))

\* The inline probe: the whole span lies in one page that allows the access.
probe(c, va, n, write) == Page(u64(va)) = Page(u64(va + n - 1)) /\ Allows(c, u64(va), write)
Size(o) == 2^o.cc
Faulted(s, r, o) == exit_plain([s EXCEPT !.c = [r.c EXCEPT !.icount = @ + 1]], o.icnt)
Loaded(o, raw) == Trunc(IF o.aux = 1 THEN sign_extend(raw, Size(o)) ELSE raw, o.w)
Target(j, o) == u64(Val(j, o.a) + o.imm)

\* slow: the way through the helper was taken.
emit_ld(j, o, va, slow) ==
    LET Back(s, r) ==
            IF ~ r.ok THEN Faulted(s, r, o)
            ELSE ra_def(slow_reload_clobbered(IF o.dst = VREG_ZERO THEN s ELSE SetHome(s, o.dst, Loaded(o, r.v))),
                        o.dst, Loaded(o, r.v))
        Slow(s) == Back(s, mem_read([s.c EXCEPT !.cur = o.pc], va, Size(o)))
    IN  IF slow THEN Slow(slow_store_dirty(j)) ELSE ra_def(j, o.dst, Loaded(o, Bytes(j.c, va, Size(o))))
StoredBack(s, r, o) == IF r.ok THEN slow_reload_clobbered([s EXCEPT !.c = r.c]) ELSE Faulted(s, r, o)
emit_st(j, o, va, slow) ==
    LET Slow(s) == StoredBack(s, mem_write([s.c EXCEPT !.cur = o.pc], va, Size(o), Home(s, o.b)), o)
    IN  IF slow THEN Slow(slow_store_dirty(j)) ELSE [j EXCEPT !.c = Stored(@, va, Size(o), Val(j, o.b))]
\* Vector accesses work on c->v.
Half(o) == Size(o) < 16
emit_ldv(j, o, va, slow) ==
    LET Read(c) == IF Half(o) THEN mem_read(c, va, Size(o)) ELSE mem_read128(c, va)
        Back(s, r) == IF r.ok THEN slow_reload_clobbered([s EXCEPT !.c.v[o.aux] = r.v]) ELSE Faulted(s, r, o)
        Slow(s) == Back(s, Read([s.c EXCEPT !.cur = o.pc]))
    IN  IF slow THEN Slow(slow_store_dirty(j)) ELSE [j EXCEPT !.c.v[o.aux] = Bytes(j.c, va, Size(o))]
emit_stv(j, o, va, slow) ==
    LET Write(c, v) == IF Half(o) THEN mem_write(c, va, Size(o), v % 2^XLEN) ELSE mem_write128(c, va, v)
        Slow(s) == StoredBack(s, Write([s.c EXCEPT !.cur = o.pc], s.c.v[o.aux]), o)
    IN  IF slow THEN Slow(slow_store_dirty(j)) ELSE [j EXCEPT !.c = Stored(@, va, Size(o), j.c.v[o.aux])]
\* An LDV's old value is spilled first, for a fault; an STV's is flushed.
vector_home(j, o) == CASE o.op = "LDV" -> vra_spill(j, o.aux) [] o.op = "STV" -> vra_flush(j, o.aux) [] OTHER -> j
emit_mem(j, o, take_slow) ==
    LET Access(s, va, slow) ==
            CASE o.op = "LD" -> emit_ld(s, o, va, slow) [] o.op = "ST" -> emit_st(s, o, va, slow)
              [] o.op = "LDV" -> emit_ldv(s, o, va, slow) [] OTHER -> emit_stv(s, o, va, slow)
        At(s, va) == Access(s, va, take_slow \/ ~ probe(s.c, va, Size(o), o.op \in {"ST", "STV"}))
        Checked(s) == IF s.on THEN Clobbered(At(s, Target(s, o))) ELSE s
        Used(h) == ra_use(IF o.op = "ST" THEN ra_use(h, o.b) ELSE h, o.a)
    IN  Checked(emit_spchk(Used(materialize_flags(vector_home(j, o))), o))

(* ---- A run of accesses behind one probe. ---- *)
FUSE_VA_SLOT == VREG_ZERO
RECURSIVE RunRegs(_, _, _)
RunRegs(j, first, n) ==
    LET o == j.ops[first]
        m == IF o.op = "ST" THEN ra_use(j, o.b) ELSE IF o.dst = VREG_ZERO THEN j ELSE ra_map_clean(j, o.dst)
    IN  IF n = 0 THEN j ELSE RunRegs(m, first + 1, n - 1)
RECURSIVE RunFast(_, _, _, _)
RunFast(j, base, first, n) ==
    LET o == j.ops[first]
        va == u64(base + o.imm)
        d == CASE o.op = "ST" -> [j EXCEPT !.c = Stored(@, va, Size(o), Val(j, o.b))]
               [] o.op = "LD" /\ o.dst = VREG_ZERO -> j
               [] OTHER -> SetVal(j, o.dst, Loaded(o, Bytes(j.c, va, Size(o))))
    IN  IF n = 0 THEN j ELSE RunFast(d, base, first + 1, n - 1)
RECURSIVE RunBail(_, _, _, _)
\* The helpers in program order, each with its own fault exit; lo is the
\* offset of the address parked in FUSE_VA_SLOT.
RunBail(j, lo, first, n) ==
    LET o == j.ops[first]
        va == u64(j.tmp[FUSE_VA_SLOT] + o.imm - lo)
        Access(c) == IF o.op = "ST" THEN mem_write(c, va, Size(o), Home(j, o.b)) ELSE mem_read(c, va, Size(o))
        Done(d, r) == IF o.op = "ST" \/ o.dst = VREG_ZERO THEN d ELSE SetHome(d, o.dst, Loaded(o, r.v))
        Back(r) == IF r.ok THEN RunBail(Done([j EXCEPT !.c = r.c], r), lo, first + 1, n - 1) ELSE Faulted(j, r, o)
    IN  IF n = 0 THEN j ELSE Back(Access([j.c EXCEPT !.cur = o.pc]))
\* Mutant: the loaded registers are not marked newer than their homes.
RunDefs_None(j, n) == {}
RunDefs(j, n) == { j.ops[j.k + t].dst : t \in 0 .. n - 1 } \ {VREG_ZERO}
emit_mem_run(j, o, n, take_slow) ==
    LET run == { j.ops[j.k + t] : t \in 0 .. n - 1 }
        lo == Min({ Signed(p.imm, XLEN) : p \in run })
        hi == Max({ Signed(p.imm, XLEN) + Size(p) : p \in run })
        Defined(d) == Clobbered(IF o.op = "ST" THEN d ELSE [d EXCEPT !.dirty = @ \cup RunDefs(j, n)])
        Reloaded(r) ==
            [r EXCEPT !.map = [v \in DOMAIN @ |-> IF v \in RunDefs(j, n) THEN [@[v] EXCEPT !.x = Home(r, v)] ELSE @[v]]]
        Bailed(b) == IF b.on THEN Defined(Reloaded(slow_reload_clobbered(b))) ELSE b
        Run(u, base) ==
            IF take_slow \/ ~ probe(u.c, base + lo, hi - lo, o.op = "ST")
            THEN Bailed(RunBail([slow_store_dirty(u) EXCEPT !.tmp[FUSE_VA_SLOT] = u64(base + lo)], lo, j.k, n))
            ELSE Defined(RunFast(u, base, j.k, n))
        Checked(s) == IF s.on THEN Run(RunRegs(s, j.k, n), Val(s, o.a)) ELSE s
    IN  Checked(emit_spchk(ra_use(materialize_flags(j), o.a), o))

(* ---- Atomics: ATOMIC may jump to ATOMIC_END over the stores. ---- *)
emit_atomic(j, o) ==
    LET cas == o.imm = 1
        Fails(s) == IF cas THEN Trunc(Val(s, o.a), o.w) # Trunc(Val(s, o.b), o.w)
                    ELSE s.c.excl_valid = 0 \/ s.c.excl_addr # Val(s, o.a)
        last == Min({ k \in j.k .. Len(j.ops) : j.ops[k].op = "ATOMIC_END" })
        Checked(s) == IF ~ s.on THEN s
                      ELSE IF Fails(s) THEN [invalidate_all(s) EXCEPT !.k = last - 1, !.failed = TRUE]
                      ELSE Clobbered([s EXCEPT !.failed = FALSE])
        Used(m) == IF cas THEN Operands(m, o) ELSE emit_spchk(ra_use(m, o.a), o)
    IN  Checked(Used(sync_all(materialize_flags(j))))
emit_atomic_end(j, o) ==
    LET cas == o.imm = 1
        Done(s) == IF o.dst = VREG_ZERO THEN s ELSE SetHome(s, o.dst, IF cas THEN s.tmp[o.a] ELSE Bool(j.failed))
    IN  [Done(invalidate_all(sync_all(j))) EXCEPT !.c.excl_valid = IF cas THEN @ ELSE 0]

(* ---- Vector operations. ---- *)
\* The classes that keep their operands in the host's vector registers.
vop_cached(k) == k \in {"orr", "faddv"}
NanResult(i, x) == IsNan(Lo(x)) \/ (i.k = "faddv" /\ IsNan(Hi(x)))
vop_cond(j, i) == cond_setup(j, i.cond)
vop_operands(j, i) ==
    LET Two(Op(_, _), k) == IF i.k \in {"orr", "fmov"} THEN Op(k, i.rn) ELSE Op(Op(k, i.rn), i.rm)
    IN  IF vop_cached(i.k) THEN Two(vop_src, j) ELSE vra_spill(Two(vra_spill, j), i.rd)
\* The registers as the host sees them.
Cached(u) == [u.c EXCEPT !.v = [t \in VRegs |-> IF t \in DOMAIN u.vmap THEN u.vmap[t] ELSE @[t]]]
\* The interpreter's answer, when the host's may differ.
vop_slowpath2(g, i, o) ==
    LET Back(e) == IF Diverts(e.c, o.pc) THEN exit_plain(e, o.icnt)
                   ELSE IF i.k = "fadd" THEN slow_reload_clobbered(e)
                   ELSE vop_dst(slow_reload_clobbered(e), i.rd, e.c.v[i.rd])
    IN  Back([slow_store_dirty(g) EXCEPT !.c = jit_exec1(@, i, o.pc)])
vop_arith(g, i, o, x) ==
    CASE NanResult(i, x) -> vop_slowpath2(g, i, o)
      [] i.k = "fadd" /\ ~ NanResult(i, x) -> [g EXCEPT !.c.v[i.rd] = x, !.c.icount = @ + 1]
      [] OTHER -> vop_dst([g EXCEPT !.c.icount = @ + 1], i.rd, x)
emit_vop(j, o) ==
    LET i == o.aux
        Select(b) == [b.j EXCEPT !.c.v[i.rd] = Lo(b.j.c.v[IF b.holds THEN i.rn ELSE i.rm])]
        On(u, x) ==
            CASE i.k = "orr"   -> vop_dst(u, i.rd, x)
              [] i.k = "fmov"  -> [u EXCEPT !.c.v[i.rd] = x]
              [] i.k = "fcmp"  -> [materialize_flags(u) EXCEPT !.c.nzcv = fp_set_flags(Lo(u.c.v[i.rn]), Lo(u.c.v[i.rm])), !.fl = "MEM"]
              [] i.k = "fcsel" -> Materialized(Select(vop_cond(u, i)), NextUse(j) = "UNKNOWN")
              [] OTHER -> vop_arith(materialize_flags(u), i, o, x)
        Both(u) == On(u, FpResult(Cached(u), i))
    IN  Both(vop_operands(j, i))

(* ---- Fields of the CPU. ---- *)
CpuField(c, f) ==
    CASE f = "daif" -> c.daif * 4 [] f = "sp_el0" -> c.sp_el[0] [] f = "icount" -> u64(c.icount)
      [] f = "skip" -> u64(c.skip) [] f = "voff" -> u64(c.voff) [] OTHER -> c.sys[f]
SetCpuField(c, f, x) ==
    CASE f = "daif" -> [c EXCEPT !.daif = (x \div 4) % 16] [] f = "sp_el0" -> [c EXCEPT !.sp_el[0] = x]
      [] f = "excl_valid" -> [c EXCEPT !.excl_valid = x] [] f = "excl_addr" -> [c EXCEPT !.excl_addr = x]
      [] f = "excl_size" -> c
      [] OTHER -> [c EXCEPT !.sys[f] = x]

(* ---- One operation. ---- *)
emit_mov(u, o) == ra_def(u, o.dst, Trunc(Val(u, o.a), o.w))
emit_cpust(u, o) == [u EXCEPT !.c = SetCpuField(@, o.aux, Val(u, o.a))]
emit_op(j, slow) ==
    LET o == j.ops[j.k]
    IN  CASE o.op = "MOVI" -> ra_def(j, o.dst, Trunc(o.imm, o.w))
          [] o.op = "MOV" -> emit_mov(ra_use(j, o.a), o)
          [] o.op \in {"ADD", "SUB", "AND", "ORR", "EOR"} -> emit_alu(j, o)
          [] o.op \in {"BIC", "ORN", "EON"} -> emit_inverted(j, o)
          [] o.op \in {"ADC", "SBC", "ADCS", "SBCS"} -> emit_carry(j, o)
          [] o.op \in {"ADDS", "SUBS", "ANDS"} -> emit_alus(j, o)
          [] o.op = "BICS" -> emit_bics(j, o)
          [] o.op \in {"ADDI", "SUBI", "ANDI", "ORRI", "EORI"} -> emit_alui(j, o)
          [] o.op \in {"ADDIS", "SUBIS", "ANDIS"} -> emit_alusi(j, o)
          [] o.op \in InPlace -> emit_in_place(j, o)
          [] o.op \in Scratch1 \cup Scratch2 -> emit_scratch(j, o)
          [] o.op \in Selects -> emit_csel(j, o)
          [] o.op \in Ccmps -> emit_ccmp(j, o)
          [] o.op = "JMP" -> exit_stub(sync_all(j), o)
          [] o.op \in {"BCOND", "CBZ", "CBNZ", "TBZ", "TBNZ"} -> emit_branch(j, o)
          [] o.op = "JMPIND" -> emit_jmpind(j, o)
          [] o.op \in {"LDV", "STV"} -> emit_mem(j, o, slow)
          [] o.op \in {"LD", "ST"} ->
                 LET n == jit_mem_run_len(j.ops, j.k) IN IF n >= 2 THEN emit_mem_run(j, o, n, slow) ELSE emit_mem(j, o, slow)
          [] o.op = "ATOMIC" -> emit_atomic(j, o)
          [] o.op = "ATOMIC_END" -> emit_atomic_end(j, o)
          [] o.op = "VOP" -> emit_vop(j, o)
          [] o.op = "CALL1" -> emit_call1(j, o)
          [] o.op = "CPULD" -> ra_def(j, o.dst, CpuField(j.c, o.aux))
          [] o.op = "CPUST" -> emit_cpust(ra_use(j, o.a), o)
          [] o.op = "FENCE" -> j
\* The operation, and the place of the next.
Accesses == {"LD", "ST", "LDV", "STV"}
jit_op(j, slow) ==
    LET n == IF j.ops[j.k].op \in {"LD", "ST"} THEN jit_mem_run_len(j.ops, j.k) ELSE 1
    IN  [emit_op(j, slow) EXCEPT !.k = @ + n]
===============================================================================
