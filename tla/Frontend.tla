------------------------------- MODULE Frontend -------------------------------
(***************************************************************************)
(* The JIT's frontend (frontend.c): a block of guest instructions becomes  *)
(* a list of IR operations over virtual registers, and backward liveness   *)
(* marks the flag definitions nobody reads.  The frontend reads the        *)
(* entries of pd_fill; an instruction it does not lower becomes a call of  *)
(* exec_a64 (CALL1).                                                       *)
(*                                                                         *)
(* An IR operation is a record of ir.h's fields: op, width w, registers    *)
(* dst, a and b, cc (condition, bit, size, Ra), imm, aux; pc is the guest  *)
(* address, icnt the instructions retired natively if the block leaves     *)
(* here, dead the liveness mark.                                           *)
(***************************************************************************)
EXTENDS Predecode

CONSTANTS
    JIT_MAX_BLOCK_INSNS,    \* instructions of a block
    IR_MAX_OPS_PER_INSN,    \* the headroom a block keeps for one instruction
    IR_MAX_OPS,             \* the operations a block's array holds
    RUN_REGS                \* registers a run of accesses may use

\* The assertion beside the array's size: several instructions fit a block.
ASSUME IrBudget == IR_MAX_OPS > 2 * (IR_MAX_OPS_PER_INSN + 1)

TMP0 == 32
TMP1 == 33
TMP2 == 34
VREG_ZERO == 35

ir_put(op, w, dst, a, b, cc, imm, aux) ==
    [op |-> op, w |-> w, dst |-> dst, a |-> a, b |-> b, cc |-> cc, imm |-> imm, aux |-> aux, pc |-> 0, icnt |-> 0, dead |-> FALSE]
Movi(dst, imm) == ir_put("MOVI", 1, dst, VREG_ZERO, VREG_ZERO, 0, u64(imm), 0)
Mov(w, dst, a) == ir_put("MOV", w, dst, a, VREG_ZERO, 0, 0, 0)
OpI(op, w, dst, a, imm) == ir_put(op, w, dst, a, VREG_ZERO, 0, imm, 0)
OpR(op, w, dst, a, b) == ir_put(op, w, dst, a, b, 0, 0, 0)
Jmp(target) == ir_put("JMP", 1, VREG_ZERO, VREG_ZERO, VREG_ZERO, 0, u64(target), 0)

rx(r) == IF r = 31 THEN VREG_ZERO ELSE r
rsp(r) == r
\* A definition of the zero register is dropped.
Def(rd, ops) == IF rd = 31 THEN <<>> ELSE ops

FlagDefs == { "ADDS", "SUBS", "ANDS", "BICS", "ADCS", "SBCS", "ADDIS", "SUBIS", "ANDIS" }
put_alu(op, w, dst, a, b) == IF dst = VREG_ZERO /\ op \notin FlagDefs THEN <<>> ELSE << OpR(op, w, dst, a, b) >>
put_alui(op, w, dst, a, imm) == IF dst = VREG_ZERO /\ op \notin FlagDefs THEN <<>> ELSE << OpI(op, w, dst, a, imm) >>

\* [ops, r]: the operand, computed into TMP0 when it is not a register.
Plain(r) == [ops |-> <<>>, r |-> r]
fe_shifted(rm, type, amount, w) ==
    IF rm = 31 THEN [ops |-> << Movi(TMP0, 0) >>, r |-> TMP0]
    ELSE IF amount = 0 THEN Plain(rm)
    ELSE [ops |-> << OpI(<< "LSLI", "LSRI", "ASRI", "RORI" >>[type + 1], w, TMP0, rm, amount) >>, r |-> TMP0]

fe_extended(rm, option, shift) ==
    LET bits == 2^(option % 4)
        m == rx(rm)
        first == CASE bits = XLEN -> << Mov(1, TMP0, m) >>
                   [] bits < XLEN /\ option >= 4 -> << OpI("LSLI", 1, TMP0, m, XLEN - bits), OpI("ASRI", 1, TMP0, TMP0, XLEN - bits) >>
                   [] bits = WLEN /\ option < 4 -> << Mov(0, TMP0, m) >>
                   [] OTHER -> << OpI("ANDI", 1, TMP0, m, ones(bits)) >>
    IN  IF m = VREG_ZERO THEN [ops |-> << Movi(TMP0, 0) >>, r |-> TMP0]
        ELSE IF bits = XLEN /\ shift = 0 THEN Plain(m)
        ELSE [ops |-> first \o (IF shift = 0 THEN <<>> ELSE << OpI("LSLI", 1, TMP0, TMP0, shift) >>), r |-> TMP0]

(* ---- Loads and stores: cc is the log of the size, aux the sign of a     *)
(* load or the register of a vector access.                           ---- *)
put_call1(i) == << ir_put("CALL1", 0, VREG_ZERO, VREG_ZERO, VREG_ZERO, 0, 0, i) >>
put_ld(base, off, rt, szl, sign, is64) == << ir_put("LD", is64, rx(rt), base, VREG_ZERO, szl, u64(off), sign) >>
put_ld_tmp(base, off, k, szl, sign, is64) == << ir_put("LD", is64, TMP0 + k, base, VREG_ZERO, szl, u64(off), sign) >>
put_st(base, off, val, szl) == << ir_put("ST", 0, VREG_ZERO, base, val, szl, u64(off), 0) >>
put_ldv(base, off, vt, vszl) == << ir_put("LDV", 1, VREG_ZERO, base, VREG_ZERO, vszl, u64(off), vt) >>
put_stv(base, off, vt, vszl) == << ir_put("STV", 1, VREG_ZERO, base, VREG_ZERO, vszl, u64(off), vt) >>
put_wb(rn, imm) == << OpI("ADDI", 1, rsp(rn), rsp(rn), u64(imm)) >>

\* The base, copied aside unless it is SP, whose alignment is tested at use.
base_stage(rn) == IF rn = 31 THEN Plain(rsp(rn)) ELSE [ops |-> << Mov(1, TMP2, rn) >>, r |-> TMP2]

\* A load into its own base writes the base from the saved copy.
put_ld_wb(rn, imm, rt, szl, sign, is64, pre) ==
    LET off == IF pre THEN imm ELSE 0
    IN  IF rt = rn /\ rt # 31
        THEN << Mov(1, TMP2, rn) >> \o put_ld(TMP2, off, rt, szl, sign, is64) \o << OpI("ADDI", 1, rn, TMP2, u64(imm)) >>
        ELSE put_ld(rsp(rn), off, rt, szl, sign, is64) \o put_wb(rn, imm)

\* What a lowering attempt returns: whether it lowered the instruction, and
\* what it put in the block either way.
Inline(ops) == [ok |-> TRUE, ops |-> ops]
NotInline == [ok |-> FALSE, ops |-> <<>>]

(* ---- Atomic operations. ---- *)
\* LDAPR, SWP and LDADD .. LDUMIN; the narrow maxima and minima are left to
\* the helper after the old value has been loaded.
fe_lse_memop(i) ==
    LET w == Bool(i.size = 3)
        b == base_stage(i.rn)
        old == b.ops \o put_ld_tmp(b.r, 0, 1, i.size, 0, w)
        Result(ops, r) == Inline(old \o ops \o put_st(b.r, 0, r, i.size) \o Def(i.rt, << Mov(1, i.rt, TMP1) >>))
        s == rx(i.rm)
    IN  CASE i.o3 = 1 /\ i.aop = 4 -> Inline(put_ld(rsp(i.rn), 0, i.rt, i.size, 0, w))
          [] i.o3 = 1 /\ i.aop \notin {0, 4} -> NotInline
          [] i.o3 = 1 /\ i.aop = 0 -> Result(<<>>, s)
          [] i.o3 = 0 /\ i.aop <= 3 -> Result(put_alu(<< "ADD", "BIC", "EOR", "ORR" >>[i.aop + 1], w, TMP0, TMP1, s), TMP0)
          [] i.o3 = 0 /\ i.aop > 3 /\ i.size < 2 -> [ok |-> FALSE, ops |-> old]
          [] OTHER -> Result(put_alu("SUBS", w, VREG_ZERO, TMP1, s)
                             \o << ir_put("CSEL", w, TMP0, TMP1, s, << 12, 11, 8, 3 >>[i.aop - 3], 0, 0) >>, TMP0)

\* ATOMIC with imm 1 compares and jumps to ATOMIC_END, which writes the old
\* value on both ways.
fe_lse_cas(i) ==
    LET w == Bool(i.size = 3)
        b == base_stage(i.rn)
        narrow == i.size < 2
    IN  Inline(b.ops \o put_ld_tmp(b.r, 0, 1, i.size, 0, w)
               \o (IF narrow THEN << OpI("ANDI", 1, TMP0, rx(i.rs), ones(2^i.size)) >> ELSE <<>>)
               \o << ir_put("ATOMIC", w, VREG_ZERO, TMP1, IF narrow THEN TMP0 ELSE rx(i.rs), 0, 1, 0) >>
               \o put_st(b.r, 0, rx(i.rt), i.size)
               \o << ir_put("ATOMIC_END", 1, rx(i.rs), TMP1, VREG_ZERO, 0, 1, 0) >>)

CpuSt(w, a, f) == ir_put("CPUST", w, VREG_ZERO, a, VREG_ZERO, 0, 0, f)
CpuLd(w, dst, f) == ir_put("CPULD", w, dst, VREG_ZERO, VREG_ZERO, 0, 0, f)
\* A pair reaches its registers when both loads have succeeded.
load_exclusive(i, base) ==
    LET w == Bool(i.size = 3)
    IN  IF i.k = "ex" THEN put_ld(base, 0, i.rt, i.size, 0, w)
        ELSE put_ld_tmp(base, 0, 0, i.size, 0, w) \o put_ld_tmp(base, 2^i.size, 1, i.size, 0, w)
             \o Def(i.rt, << Mov(1, i.rt, TMP0) >>) \o Def(i.rt2, << Mov(1, i.rt2, TMP1) >>)
fe_exclusive(i) ==
    LET b == base_stage(i.rn)
        pair == i.k = "exp"
    IN  IF i.L = 1
        THEN Inline(b.ops \o load_exclusive(i, b.r)
                    \o << Movi(TMP0, 1), CpuSt(0, TMP0, "excl_valid"), CpuSt(1, b.r, "excl_addr"),
                          Movi(TMP0, IF pair THEN 2^(i.size + 1) ELSE 2^i.size), CpuSt(1, TMP0, "excl_size") >>)
        ELSE Inline(<< ir_put("ATOMIC", 0, VREG_ZERO, rsp(i.rn), VREG_ZERO, 0, 0, 0) >>
                    \o put_st(rsp(i.rn), 0, rx(i.rt), i.size)
                    \o (IF pair THEN put_st(rsp(i.rn), 2^i.size, rx(i.rt2), i.size) ELSE <<>>)
                    \o << ir_put("ATOMIC_END", 1, rx(i.rs), VREG_ZERO, VREG_ZERO, 0, 0, 0) >>)

fe_atomic(i) ==
    CASE i.g = "ldst" -> fe_lse_memop(i)
      [] i.g = "exclusive" /\ i.k = "cas" -> fe_lse_cas(i)
      [] i.g = "exclusive" /\ i.k \in {"ex", "exp"} -> fe_exclusive(i)
      [] OTHER -> NotInline

(* ---- Loads and stores the predecoder leaves GENERIC. ---- *)
extra_literal(i, pc) ==
    CASE i.V = 0 /\ i.opc = 2 -> Inline(<< Movi(TMP0, pc + i.imm) >> \o put_ld(TMP0, 0, i.rt, 2, 1, 1))
      [] i.V = 0 /\ i.opc = 3 -> Inline(<<>>)
      [] OTHER -> NotInline

VecAt(load, base, off, vt, vszl) == IF load THEN put_ldv(base, off, vt, vszl) ELSE put_stv(base, off, vt, vszl)
extra_pair_vector(i) ==
    LET vszl == i.opc + 2
        imm == i.imm * 2^vszl
        a0 == IF i.mode = "post" THEN 0 ELSE imm
        Part(off, vt) == VecAt(i.L = 1, rsp(i.rn), off, vt, vszl)
    IN  Inline(Part(a0, i.rt) \o Part(a0 + 2^vszl, i.rt2) \o (IF i.mode \in {"pre", "post"} THEN put_wb(i.rn, imm) ELSE <<>>))
\* LDPSW: both loads land in temporaries before a register is written.
extra_pair_load(i) ==
    LET imm == i.imm * 4
        wb == i.mode \in {"pre", "post"}
        stage == wb /\ i.rn # 31
        a0 == IF i.mode = "post" THEN 0 ELSE imm
        base == IF stage THEN TMP2 ELSE rsp(i.rn)
        off == IF stage THEN 0 ELSE a0
    IN  Inline((IF ~ stage THEN <<>> ELSE IF a0 # 0 THEN << OpI("ADDI", 1, TMP2, i.rn, u64(a0)) >> ELSE << Mov(1, TMP2, i.rn) >>)
               \o put_ld_tmp(base, off, 0, 2, 1, 1) \o put_ld_tmp(base, off + 4, 1, 2, 1, 1)
               \o Def(i.rt, << Mov(1, i.rt, TMP0) >>) \o Def(i.rt2, << Mov(1, i.rt2, TMP1) >>)
               \o (IF ~ wb THEN <<>>
                   ELSE IF stage THEN << OpI("ADDI", 1, i.rn, TMP2, u64(IF i.mode = "post" THEN imm ELSE 0)) >>
                   ELSE put_wb(i.rn, imm)))
extra_pair(i) ==
    CASE i.mode = "none" \/ i.opc = 3 -> NotInline
      [] i.mode # "none" /\ i.opc < 3 /\ i.V = 1 -> extra_pair_vector(i)
      [] OTHER -> IF i.L = 1 THEN extra_pair_load(i) ELSE NotInline

extra_register_offset(i) ==
    LET quad == i.V = 1 /\ i.opc >= 2
        scale == IF quad THEN 4 ELSE i.size
        Sum(x) == x.ops \o << OpR("ADD", 1, TMP1, rsp(i.rn), x.r) >>
        va == Sum(fe_extended(i.rm, i.option, IF i.S = 1 THEN scale ELSE 0))
    IN  CASE quad /\ i.size # 0 -> NotInline
          [] i.V = 1 /\ ~ (quad /\ i.size # 0) -> Inline(va \o VecAt(i.opc % 2 = 1, TMP1, 0, i.rt, scale))
          [] i.V = 0 /\ i.opc = 2 /\ i.size = 3 -> Inline(<<>>)
          [] i.V = 0 /\ i.opc = 3 /\ i.size >= 2 -> NotInline
          [] OTHER -> Inline(va \o (IF i.opc = 0 THEN put_st(TMP1, 0, rx(i.rt), i.size)
                                    ELSE put_ld(TMP1, 0, i.rt, i.size, Bool(i.opc >= 2), Bool(i.opc # 3))))

extra_indexed(i) ==
    LET pre == i.mode = "pre"
        off == IF pre THEN i.imm ELSE 0
    IN  CASE i.V = 1 -> (IF i.opc >= 2 THEN NotInline
                         ELSE Inline(VecAt(i.opc = 1, rsp(i.rn), off, i.rt, i.size) \o put_wb(i.rn, i.imm)))
          [] i.V = 0 /\ i.opc = 0 -> Inline(put_st(rsp(i.rn), off, rx(i.rt), i.size) \o put_wb(i.rn, i.imm))
          [] i.V = 0 /\ i.opc >= 2 /\ i.size >= (IF i.opc = 2 THEN 3 ELSE 2) -> NotInline
          [] OTHER -> Inline(put_ld_wb(i.rn, i.imm, i.rt, i.size, Bool(i.opc >= 2), Bool(i.opc # 3), pre))

fe_ldst_extra(i, pc) ==
    CASE i.g = "literal" -> extra_literal(i, pc)
      [] i.g = "pair" -> extra_pair(i)
      [] i.g = "ldst" /\ i.mode = "ro" -> extra_register_offset(i)
      [] i.g = "ldst" /\ i.mode \in {"pre", "post"} -> extra_indexed(i)
      [] OTHER -> NotInline

\* LD1 and ST1 of whole registers, each a separate access.
fe_ld1(i) ==
    LET bytes == 8 * (1 + i.Q)
        parts == [r \in 1 .. i.nregs |-> VecAt(i.L = 1, rsp(i.rn), (r - 1) * bytes, VReg(i.rt, r - 1), 3 + i.Q)[1]]
    IN  IF i.sel # 1 \/ i.nregs = 0 THEN NotInline
        ELSE Inline(parts \o (IF i.post = 0 THEN <<>>
                              ELSE IF i.rm = 31 THEN put_wb(i.rn, i.nregs * bytes)
                              ELSE << OpR("ADD", 1, rsp(i.rn), rsp(i.rn), i.rm) >>))

\* SBFIZ, BFXIL and BFI.
fe_bitfield(i) ==
    LET w == Width(i.sf)
        xil == ones(i.imms - i.immr + 1)
        bfi == ones(i.imms + 1)
        lsb == w - i.immr
        Insert(ops, keep) == ops \o << OpI("ANDI", 1, TMP1, rx(i.rd), Not(keep)), OpR("ORR", i.sf, i.rd, TMP0, TMP1) >>
        low == IF i.immr # 0 THEN OpI("LSRI", i.sf, TMP0, rx(i.rn), i.immr) ELSE IF i.rn = 31 THEN Movi(TMP0, 0) ELSE Mov(1, TMP0, i.rn)
    IN  CASE IF i.sf = 1 THEN i.N # 1 ELSE i.N # 0 \/ i.immr >= WLEN \/ i.imms >= WLEN -> NotInline
          [] i.opc = 0 /\ i.imms < i.immr ->
                 Inline(Def(i.rd, << OpI("LSLI", i.sf, TMP0, rx(i.rn), w - 1 - i.imms), OpI("ASRI", i.sf, i.rd, TMP0, i.immr - i.imms - 1) >>))
          [] i.opc = 1 /\ i.imms >= i.immr -> Inline(Def(i.rd, Insert(<< low, OpI("ANDI", 1, TMP0, TMP0, xil) >>, xil)))
          [] i.opc = 1 /\ i.imms < i.immr ->
                 Inline(Def(i.rd, Insert(<< OpI("ANDI", 1, TMP0, rx(i.rn), bfi), OpI("LSLI", 1, TMP0, TMP0, lsb) >>, u64(bfi * 2^lsb))))
          [] OTHER -> NotInline

(* ---- Floating point and vectors. ---- *)
\* True of what CPACR_EL1.FPEN traps.
fe_fp_insn(e, i) ==
    \/ e.op \in VecOps
    \/ e.op = "GENERIC" /\ (i.g \in {"fp", "vmulti", "vsingle"} \/ (i.g \in {"ldst", "pair", "literal"} /\ i.V = 1))

\* The NaN-gated classes count themselves, as their slow way does.
vop_self_counted(k) == k \in {"fadd", "faddv"}
fe_fpsimd(i) == IF i.k = "fmax" THEN NotInline ELSE Inline(<< ir_put("VOP", 0, VREG_ZERO, VREG_ZERO, VREG_ZERO, 0, 0, i) >>)

(* ---- One instruction: [ops, n, end], n the instructions it adds to the  *)
(* block's own count, end that the block stops after it.              ---- *)
Cont(ops) == [ops |-> ops, n |-> 1, end |-> FALSE]
Ends(ops) == [ops |-> ops, n |-> 1, end |-> TRUE]
Helper(ops, i) == [ops |-> ops \o put_call1(i), n |-> 0, end |-> FALSE]
HelperEnds(i, pc) == [ops |-> put_call1(i) \o << Jmp(pc + 4) >>, n |-> 0, end |-> TRUE]

fe_branch(e, pc) ==
    LET next == Jmp(pc + 4)
        taken == Jmp(pc + e.imm)
        t == rx(e.rd)
        Branch(op, w, a, cc) == << ir_put(op, w, VREG_ZERO, a, VREG_ZERO, cc, u64(pc + e.imm), 0), next >>
        To(r) == ir_put("JMPIND", 1, VREG_ZERO, r, VREG_ZERO, 0, 0, 0)
        link == Movi(30, pc + 4)
        ToTmp == IF e.rn = 31 THEN Movi(TMP0, 0) ELSE Mov(1, TMP0, e.rn)
    IN  CASE e.op = "B"  -> << taken >>
          [] e.op = "BL" -> << link, taken >>
          [] e.op = "BCOND" -> (IF e.rd >= 14 THEN << taken >> ELSE Branch("BCOND", 0, VREG_ZERO, e.rd))
          [] e.op \in {"CBZ", "CBNZ", "TBZ", "TBNZ"} /\ t = VREG_ZERO -> << IF e.op \in {"CBZ", "TBZ"} THEN taken ELSE next >>
          [] e.op \in {"CBZ", "CBNZ", "TBZ", "TBNZ"} /\ t # VREG_ZERO -> Branch(e.op, e.w, t, e.rm)
          [] e.op = "BR" -> (IF e.rn = 31 THEN << Movi(TMP0, 0), To(TMP0) >> ELSE << To(e.rn) >>)
          [] OTHER -> << ToTmp, link, To(TMP0) >>

fe_alu_imm(e) ==
    CASE e.op = "ADD_I"  -> put_alui("ADDI", e.w, rsp(e.rd), rsp(e.rn), e.imm)
      [] e.op = "SUB_I"  -> put_alui("SUBI", e.w, rsp(e.rd), rsp(e.rn), e.imm)
      [] e.op = "ADDS_I" -> put_alui("ADDIS", e.w, rx(e.rd), rsp(e.rn), e.imm)
      [] e.op = "SUBS_I" -> put_alui("SUBIS", e.w, rx(e.rd), rsp(e.rn), Not(e.imm))
      [] e.op = "AND_I"  -> put_alui("ANDI", e.w, rsp(e.rd), rx(e.rn), e.imm)
      [] e.op = "ORR_I"  -> put_alui("ORRI", e.w, rsp(e.rd), rx(e.rn), e.imm)
      [] e.op = "EOR_I"  -> put_alui("EORI", e.w, rsp(e.rd), rx(e.rn), e.imm)
      [] OTHER           -> put_alui("ANDIS", e.w, rx(e.rd), rx(e.rn), e.imm)

fe_move(e, pc) ==
    Def(e.rd, CASE e.op = "MOVI" -> << Movi(e.rd, e.imm) >>
                [] e.op = "MOVK" -> << ir_put("MOVK", e.w, e.rd, e.rd, VREG_ZERO, e.rm, e.imm, 0) >>
                [] e.op = "ADR"  -> << Movi(e.rd, pc + e.imm) >>
                [] OTHER         -> << Movi(e.rd, pc - (pc % PAGE) + e.imm) >>)

fe_field(e) ==
    LET n == rx(e.rn)
    IN  Def(e.rd,
        CASE e.op = "LSL_I" -> << OpI("LSLI", e.w, e.rd, n, e.rm) >>
          [] e.op = "LSR_I" -> << OpI("LSRI", e.w, e.rd, n, e.rm) >>
          [] e.op = "ASR_I" -> << OpI("ASRI", e.w, e.rd, n, e.rm) >>
          [] e.op = "UBFX"  -> << OpI("LSRI", 1, TMP0, n, e.rm), OpI("ANDI", 1, e.rd, TMP0, e.imm) >>
          [] e.op = "UBFIZ" -> << OpI("ANDI", 1, TMP0, n, e.imm), OpI("LSLI", e.w, e.rd, TMP0, e.rm) >>
          [] e.op = "SBFX"  -> << OpI("LSLI", e.w, TMP0, n, e.rm), OpI("ASRI", e.w, e.rd, TMP0, e.imm) >>
          [] OTHER -> IF e.imm = 0 THEN << Mov(e.w, e.rd, rx(e.rm)) >>
                      ELSE << ir_put("EXTR", e.w, e.rd, n, rx(e.rm), 0, e.imm, 0) >>)

Inverted(op) == CASE op = "AND" -> "BIC" [] op = "ORR" -> "ORN" [] op = "EOR" -> "EON" [] OTHER -> "BICS"
fe_logical(e) ==
    LET s == fe_shifted(e.rm, (e.imm \div 64) % 4, e.imm % 64, e.w)
        base == CASE e.op = "AND_S" -> "AND" [] e.op = "ORR_S" -> "ORR" [] e.op = "EOR_S" -> "EOR" [] OTHER -> "ANDS"
    IN  IF e.op \in {"AND_S", "ORR_S", "EOR_S", "ANDS_S"}
        THEN s.ops \o put_alu(IF e.imm >= 256 THEN Inverted(base) ELSE base, e.w, rx(e.rd), rx(e.rn), s.r)
        ELSE put_alu(e.op, e.w, rx(e.rd), rx(e.rn), rx(e.rm))

fe_addsub(e) ==
    LET ext == e.op \in {"ADDX", "SUBX", "ADDSX", "SUBSX"}
        op == CASE e.op \in {"ADD_R", "ADD_RS", "ADDX"} -> "ADD" [] e.op \in {"SUB_R", "SUB_RS", "SUBX"} -> "SUB"
                [] e.op \in {"ADDS_R", "ADDS_RS", "ADDSX"} -> "ADDS" [] OTHER -> "SUBS"
        From(m) == m.ops \o put_alu(op, e.w, IF ext /\ op \in {"ADD", "SUB"} THEN rsp(e.rd) ELSE rx(e.rd),
                                    IF ext THEN rsp(e.rn) ELSE rx(e.rn), m.r)
        m == CASE ext -> fe_extended(e.rm, (e.imm \div 8) % 8, e.imm % 8)
               [] e.op \in {"ADD_R", "SUB_R", "ADDS_R", "SUBS_R"} -> Plain(rx(e.rm))
               [] OTHER -> fe_shifted(e.rm, (e.imm \div 64) % 4, e.imm % 64, e.w)
    IN  From(m)

Mul3 == {"MADD", "MSUB", "SMADDL", "SMSUBL", "UMADDL", "UMSUBL"}
Selects == {"CSEL", "CSINC", "CSINV", "CSNEG"}
fe_dp(e) ==
    LET cc == IF e.op \in Mul3 THEN rx(e.imm) ELSE IF e.op \in Selects THEN e.imm ELSE 0
        op == IF e.op = "REVW" THEN "REV32" ELSE e.op
        unary == e.op \in {"REV64", "REVW", "CLZ"}
    IN  Def(e.rd, << ir_put(op, e.w, e.rd, rx(e.rn), IF unary THEN VREG_ZERO ELSE rx(e.rm), cc, 0, 0) >>)

Ccmps == {"CCMPI", "CCMNI", "CCMPR", "CCMNR"}
fe_ccmp(e) ==
    LET op == CASE e.op = "CCMP_I" -> "CCMPI" [] e.op = "CCMN_I" -> "CCMNI" [] e.op = "CCMP_R" -> "CCMPR" [] OTHER -> "CCMNR"
    IN  << ir_put(op, e.w, VREG_ZERO, rx(e.rn), IF op \in {"CCMPR", "CCMNR"} THEN rx(e.rm) ELSE VREG_ZERO,
                  e.imm % 16, (e.imm \div 256) % 32, e.imm \div 65536) >>

Log2(n) == CHOOSE k \in 0..4 : 2^k = n
fe_ldst(e) ==
    LET size == e.rm \div 4
        opc == e.rm % 4
        is64 == Bool(opc # 3 /\ ~ (opc = 1 /\ size = 2))
        pre == e.op \in {"LDR_PRE", "STR_PRE"}
        off == IF e.op \in {"LDR_POST", "STR_POST"} THEN 0 ELSE e.imm
    IN  CASE e.op = "LDR" -> put_ld(rsp(e.rn), e.imm, e.rd, size, Bool(opc >= 2), is64)
          [] e.op \in {"LDR_PRE", "LDR_POST"} -> put_ld_wb(e.rn, e.imm, e.rd, size, 0, is64, pre)
          [] e.op = "STR" -> put_st(rsp(e.rn), off, rx(e.rd), size)
          [] OTHER -> put_st(rsp(e.rn), off, rx(e.rd), size) \o put_wb(e.rn, e.imm)
fe_register_offset(e) ==
    LET x == fe_extended(e.rm, (e.imm \div 8) % 8, e.imm % 8)
    IN  x.ops \o << OpR("ADD", 1, TMP1, rsp(e.rn), x.r) >>
        \o (IF e.op = "LDR_RO" THEN put_ld(TMP1, 0, e.rd, e.w, 0, Bool(e.w # 2)) ELSE put_st(TMP1, 0, rx(e.rd), e.w))
fe_literal(e, pc) ==
    << Movi(TMP0, pc + e.imm) >> \o
    (IF e.op = "LDRLIT" THEN put_ld(TMP0, 0, e.rd, 2 + e.w, 0, e.w) ELSE put_ldv(TMP0, 0, e.rd, Log2(e.rm)))

ldp_aliases(e) == e.rn # 31 /\ (e.rd = e.rn \/ e.rm = e.rn)
\* LDP reads both words before it writes a register or the base.
fe_ldp(e) ==
    LET is64 == Bool(e.w = 8)
        szl == Log2(e.w)
        a0 == IF e.kind = "POST" THEN 0 ELSE e.imm
        alias == ldp_aliases(e)
        base == IF alias THEN TMP2 ELSE rsp(e.rn)
        off == IF alias THEN 0 ELSE a0
    IN  (IF ~ alias THEN <<>> ELSE IF a0 # 0 THEN << OpI("ADDI", 1, TMP2, e.rn, a0) >> ELSE << Mov(1, TMP2, e.rn) >>)
        \o put_ld_tmp(base, off, 0, szl, 0, is64) \o put_ld_tmp(base, off + e.w, 1, szl, 0, is64)
        \o Def(e.rd, << Mov(is64, e.rd, TMP0) >>) \o Def(e.rm, << Mov(is64, e.rm, TMP1) >>)
        \o (IF e.kind = "OFF" THEN <<>>
            ELSE IF alias THEN << OpI("ADDI", 1, e.rn, TMP2, IF e.kind = "POST" THEN e.imm ELSE 0) >>
            ELSE put_wb(e.rn, e.imm))
fe_stp(e) ==
    LET a0 == IF e.kind = "POST" THEN 0 ELSE e.imm
    IN  put_st(rsp(e.rn), a0, rx(e.rd), Log2(e.w)) \o put_st(rsp(e.rn), a0 + e.w, rx(e.rm), Log2(e.w))
        \o (IF e.kind = "OFF" THEN <<>> ELSE put_wb(e.rn, e.imm))
fe_vector(e) ==
    LET load == e.op \in {"LDRV", "LDRV_PRE", "LDRV_POST"}
        off == IF e.op \in {"LDRV_POST", "STRV_POST"} THEN 0 ELSE e.imm
    IN  VecAt(load, rsp(e.rn), off, e.rd, Log2(e.rm)) \o (IF e.op \in {"LDRV", "STRV"} THEN <<>> ELSE put_wb(e.rn, e.imm))
fe_pair_vector(e) ==
    LET a0 == IF e.kind = "POST" THEN 0 ELSE e.imm
        Part(off, vt) == VecAt(e.op = "LDPV", rsp(e.rn), off, vt, Log2(e.w))
    IN  Part(a0, e.rd) \o Part(a0 + e.w, e.rm) \o (IF e.kind = "OFF" THEN <<>> ELSE put_wb(e.rn, e.imm))

\* The system group: TLS, the interrupt masks, SP_EL0, the counters, barriers
\* and DC ZVA are inline; the rest calls the interpreter and ends the block.
\* n counts the instructions retired natively so far, spx is the live SP.
DaifMask == 60
fe_mrs(i, n, spx, pc) ==
    LET rt == i.rt
        count == << CpuLd(1, rt, "icount") >> \o (IF n > 0 THEN put_alui("ADDI", 1, rt, rt, n) ELSE <<>>)
                 \o << CpuLd(1, TMP0, "skip"), OpR("ADD", 1, rt, rt, TMP0) >>
        Read(ops) == Cont(Def(rt, ops))
    IN  CASE i.f \in {"TPIDR_EL0", "TPIDRRO_EL0", "TPIDR_EL1", "CNTFRQ"} -> Read(<< CpuLd(1, rt, i.f) >>)
          [] i.f = "SP_EL0" /\ spx # 0 -> Read(<< CpuLd(1, rt, "sp_el0") >>)
          [] i.f = "DAIF" -> Read(<< CpuLd(0, rt, "daif"), OpI("ANDI", 1, rt, rt, DaifMask) >>)
          [] i.f = "CNTPCT" -> Read(count)
          [] i.f = "CNTVCT" -> Read(count \o << CpuLd(1, TMP0, "voff"), OpR("SUB", 1, rt, rt, TMP0) >>)
          [] i.f = "DCZID" -> Read(<< Movi(rt, 4) >>)
          [] OTHER -> HelperEnds(i, pc)
fe_msr(i, spx, pc) ==
    CASE i.f \in {"TPIDR_EL0", "TPIDR_EL1"} -> Cont(<< CpuSt(1, rx(i.rt), i.f) >>)
      [] i.f = "SP_EL0" /\ spx # 0 -> Cont(<< CpuSt(1, rx(i.rt), "sp_el0") >>)
      [] i.f = "DAIF" -> Ends(<< OpI("ANDI", 1, TMP0, rx(i.rt), DaifMask), CpuSt(0, TMP0, "daif"), Jmp(pc + 4) >>)
      [] OTHER -> HelperEnds(i, pc)
fe_system(i, n, spx, pc) ==
    CASE i.g = "barrier" /\ i.f = "CLREX" -> Cont(<< Movi(TMP0, 0), CpuSt(0, TMP0, "excl_valid") >>)
      [] i.g = "barrier" /\ i.f = "ISB" -> Ends(<< Jmp(pc + 4) >>)
      [] i.g = "barrier" /\ i.f \notin {"CLREX", "ISB"} -> Cont(<< ir_put("FENCE", 0, VREG_ZERO, VREG_ZERO, VREG_ZERO, 0, 0, 0) >>)
      [] i.g = "sys" /\ i.op0 = 0 /\ i.f = "DAIFSet" ->
             Cont(<< CpuLd(0, TMP0, "daif"), OpI("ORRI", 1, TMP0, TMP0, i.crm * 4), CpuSt(0, TMP0, "daif") >>)
      [] i.g = "sys" /\ i.op0 = 0 /\ i.f = "DAIFClr" ->
             Ends(<< CpuLd(0, TMP0, "daif"), OpI("ANDI", 1, TMP0, TMP0, Not(i.crm * 4)), CpuSt(0, TMP0, "daif"), Jmp(pc + 4) >>)
      [] i.g = "sys" /\ i.op0 = 1 /\ i.f = "DC_CVAU" -> Cont(<<>>)
      [] i.g = "sys" /\ i.op0 = 1 /\ i.f = "DC_ZVA" ->
             Cont(<< OpI("ANDI", 1, TMP2, rx(i.rt), Not(8 * DCZVA_STORES - 1)) >>
                  \o [k \in 1 .. DCZVA_STORES |-> put_st(TMP2, 8 * (k - 1), VREG_ZERO, 3)[1]])
      [] i.g = "sys" /\ i.op0 = 3 -> (IF i.L = 1 THEN fe_mrs(i, n, spx, pc) ELSE fe_msr(i, spx, pc))
      [] OTHER -> HelperEnds(i, pc)

fe_generic(i, n, spx, pc) ==
    LET Tried(r) == IF r.ok THEN Cont(r.ops) ELSE Helper(r.ops, i)
    IN  CASE (i.g = "ldst" /\ i.V = 0 /\ i.mode = "atomic") \/ (i.g = "exclusive" /\ i.k # "ord") -> Tried(fe_atomic(i))
          [] i.g = "fp" -> [Tried(fe_fpsimd(i)) EXCEPT !.n = IF vop_self_counted(i.k) THEN 0 ELSE @]
          [] i.g \in {"literal", "pair"} \/ (i.g = "ldst" /\ (i.V = 1 \/ i.mode # "atomic")) -> Tried(fe_ldst_extra(i, pc))
          [] i.g = "bitfield" -> Tried(fe_bitfield(i))
          [] i.g = "vmulti" -> Tried(fe_ld1(i))
          [] i.g = "dp_1src" /\ i.opcode = 0 -> Cont(Def(i.rd, << OpR("RBIT", i.sf, i.rd, rx(i.rn), VREG_ZERO) >>))
          [] i.g = "addsub_carry" -> Cont(put_alu(<< "ADC", "ADCS", "SBC", "SBCS" >>[2 * i.op + i.S + 1], i.sf, rx(i.rd), rx(i.rn), rx(i.rm)))
          [] i.g = "exclusive" /\ i.k = "ord" ->
                 Cont(IF i.L = 1 THEN put_ld(rsp(i.rn), 0, i.rt, i.size, 0, Bool(i.size = 3)) ELSE put_st(rsp(i.rn), 0, rx(i.rt), i.size))
          [] i.g \in {"sys", "barrier", "hint"} -> fe_system(i, n, spx, pc)
          [] i.g \in {"exc", "breg"} -> HelperEnds(i, pc)
          [] OTHER -> Helper(<<>>, i)

fe_insn(e, i, n, spx, trapped, pc) ==
    CASE trapped /\ fe_fp_insn(e, i) -> HelperEnds(i, pc)
      [] ~ (trapped /\ fe_fp_insn(e, i)) ->
         CASE e.op = "GENERIC" -> fe_generic(i, n, spx, pc)
           [] e.op = "NOP" -> Cont(<<>>)
           [] e.op \in {"B", "BL", "BCOND", "CBZ", "CBNZ", "TBZ", "TBNZ", "BR", "BLR"} -> Ends(fe_branch(e, pc))
           [] e.op \in AluImm -> Cont(fe_alu_imm(e))
           [] e.op \in MoveOps -> Cont(fe_move(e, pc))
           [] e.op \in FieldOps -> Cont(fe_field(e))
           [] e.op \in LogicalReg -> Cont(fe_logical(e))
           [] e.op \in AddReg -> Cont(fe_addsub(e))
           [] e.op \in DpOps -> Cont(fe_dp(e))
           [] e.op \in CcmpOps -> Cont(fe_ccmp(e))
           [] e.op \in IntOps -> Cont(fe_ldst(e))
           [] e.op \in {"LDR_RO", "STR_RO"} -> Cont(fe_register_offset(e))
           [] e.op \in {"LDRLIT", "LDRLITV"} -> Cont(fe_literal(e, pc))
           [] e.op = "LDP" -> Cont(fe_ldp(e))
           [] e.op = "STP" -> Cont(fe_stp(e))
           [] e.op \in {"LDPV", "STPV"} -> Cont(fe_pair_vector(e))
           [] OTHER -> Cont(fe_vector(e))

(* ---- Liveness of the flags. ---- *)
op_reads_flags(o) == o.op \in Selects \cup Ccmps \cup {"BCOND", "ADC", "ADCS", "SBC", "SBCS"} \/ (o.op = "VOP" /\ o.aux.k = "fcsel")
op_writes_flags(o) == o.op \in FlagDefs \cup Ccmps \/ (o.op = "VOP" /\ o.aux.k = "fcmp")
flags_needed(o) == o.op = "CALL1" \/ op_reads_flags(o)
\* A definition is dead when another comes before any use; the flags are
\* live at the end of the block.
flags_dead(ops, k) ==
    /\ op_writes_flags(ops[k]) /\ ops[k].op \notin Ccmps
    /\ \E d \in k + 1 .. Len(ops) :
          /\ op_writes_flags(ops[d]) /\ ~ flags_needed(ops[d])
          /\ \A u \in k + 1 .. d - 1 : ~ flags_needed(ops[u])
fe_liveness(ops) == [k \in DOMAIN ops |-> [ops[k] EXCEPT !.dead = flags_dead(ops, k)]]

\* Accesses that may share one probe: same kind and base, within a page.
jit_mem_run_len(ops, i) ==
    LET Reg(o) == IF o.op = "ST" THEN o.b ELSE o.dst
        Off(o) == Signed(o.imm, XLEN)
        Fits(k) ==
            LET run == { ops[i + t] : t \in 0 .. k - 1 }
            IN  /\ \A t \in 1 .. k - 1 : /\ ops[i + t].op = ops[i].op /\ ops[i + t].a = ops[i].a
                                         /\ ops[i].op = "LD" => ops[i + t - 1].dst # ops[i].a
                /\ Max({ Off(o) + 2^o.cc : o \in run }) - Min({ Off(o) : o \in run }) <= PAGE
                /\ Cardinality({ Reg(o) : o \in run }) <= RUN_REGS
        len == Min({8, Len(ops) - i + 1})
    IN  IF ops[i].op \notin {"LD", "ST"} THEN 1
        ELSE Max({ k \in 1 .. len : k = 1 \/ \A m \in 2 .. k : Fits(m) })

(* ---- A block. ---- *)
Terminals == { "JMP", "BCOND", "CBZ", "CBNZ", "TBZ", "TBNZ", "JMPIND" }
Stamped(ops, pc, before, after) ==
    [k \in DOMAIN ops |-> [ops[k] EXCEPT !.pc = pc, !.icnt = IF ops[k].op \in Terminals THEN after ELSE before]]

RECURSIVE fe_from(_, _, _, _, _, _)
\* The operations from address p on: n instructions are counted, g translated.
fe_from(c, code, p, n, g, ops) ==
    LET i == code[p]
        Close(o, q, m) == o \o Stamped(<< Jmp(q) >>, p, m, m)
        After(r, all) ==
            IF r.end THEN all
            ELSE IF g + 1 >= JIT_MAX_BLOCK_INSNS \/ (p + 4) % PAGE = 0 \/ Len(all) + IR_MAX_OPS_PER_INSN + 1 > IR_MAX_OPS
            THEN Close(all, p + 4, n + r.n)
            ELSE fe_from(c, code, p + 4, n + r.n, g + 1, all)
        Translated(r) == After(r, ops \o Stamped(r.ops, p, n, n + r.n))
    IN  IF p \notin DOMAIN code THEN Close(ops, p, n)
        ELSE IF i.g = "sys" /\ i.f = "IC_IVAU"
        THEN Close(ops \o Stamped(<< [put_call1(i)[1] EXCEPT !.w = 1] >>, p, n, n), p + 4, n)
        ELSE Translated(fe_insn(pd_fill(i), i, n, cpu_cur_sp(c), c.fp_trapped, p))
jit_fe_block(c, code, pc) == fe_liveness(fe_from(c, code, pc, 0, 0, <<>>))
===============================================================================
