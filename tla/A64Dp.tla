-------------------------------- MODULE A64Dp ---------------------------------
(***************************************************************************)
(* The data-processing half of the interpreter (decode.c).  An instruction *)
(* is a record of the fields of its encoding, g naming the decode group;   *)
(* immediates keep their meaning at the reduced scale of Words.  CRC32,    *)
(* which no engine treats apart from decode.c, is left out.                *)
(***************************************************************************)
EXTENDS Cpu

\* [v, f]: the sum and its flags.
add_with_carry(x, y, cin, is64) ==
    LET w == Width(is64)
        u == Trunc(x, is64) + Trunc(y, is64) + cin
        r == Trunc(u, is64)
    IN  [v |-> r, f |-> Flags(Bit(r, w - 1) = 1, r = 0, u >= 2^w,
                              Signed(r, w) # Signed(x, w) + Signed(y, w) + cin)]
AddSub(n, m, op, is64) == IF op = 1 THEN add_with_carry(n, Not(m), 1, is64) ELSE add_with_carry(n, m, 0, is64)

set_logical_flags(c, r, is64) == [c EXCEPT !.nzcv = Flags(Bit(r, Width(is64) - 1) = 1, Trunc(r, is64) = 0, FALSE, FALSE)]

shift_reg(v, type, amount, is64) ==
    LET a == amount % Width(is64)
    IN  CASE type = 0 -> u64(Trunc(v, is64) * 2^a)
          [] type = 1 -> Lsr(v, a, is64)
          [] type = 2 -> Asr(v, a, is64)
          [] OTHER    -> Ror(v, a, is64)

extend_reg(v, option, shift) ==
    LET w == 2^(option % 4)
        out == IF option >= 4 THEN sign_extend(v, w) ELSE v % 2^w
    IN  u64(out * 2^shift)

\* imms and immr have three bits here, six in the code.
decode_bitmasks(immN, imms, immr, is64) ==
    LET nimms == immN * 8 + (7 - imms)
        len == IF nimms = 0 THEN 0 ELSE 3 - Clz(nimms, 4)
        Replicate(e, esize) == Trunc(MapThenSumSet(LAMBDA k : e * 2^(k * esize), 0 .. (XLEN \div esize) - 1), is64)
        Masks(esize, S, R) ==
            [ok |-> TRUE,
             w |-> Replicate(RorIn(ones(S + 1) % 2^esize, R, esize), esize),
             t |-> Replicate(ones(((S - R) % esize) + 1) % 2^esize, esize)]
    IN  IF len < 1 \/ (is64 = 0 /\ immN = 1) THEN [ok |-> FALSE, w |-> 0, t |-> 0]
        ELSE Masks(2^len, imms % 2^len, immr % 2^len)

Logical(opc, n, m) == CASE opc = 1 -> Or(n, m) [] opc = 2 -> Xor(n, m) [] OTHER -> And(n, m)

(* ---- dp_immediate. ---- *)
adr(c, i) ==
    set_x(c, i.rd, IF i.page = 1 THEN c.cur - (c.cur % PAGE) + i.imm * PAGE ELSE c.cur + i.imm)

ImmShift == 3      \* stands for the 12 of the shifted immediate
addsub_imm(c, i) ==
    LET imm == i.imm * (IF i.sh = 1 THEN 2^ImmShift ELSE 1)
        r == AddSub(reg_xsp(c, i.rn), imm, i.op, i.sf)
    IN  IF i.S = 1 THEN set_x_sz([c EXCEPT !.nzcv = r.f], i.rd, i.sf, r.v) ELSE set_xsp(c, i.rd, r.v)

logical_imm(c, i) ==
    LET Result(r) == IF i.opc = 3 THEN set_x(set_logical_flags(c, r, i.sf), i.rd, r) ELSE set_xsp(c, i.rd, r)
        By(m) == IF m.ok THEN Result(Trunc(Logical(i.opc, reg_x(c, i.rn), m.w), i.sf)) ELSE undefined(c)
    IN  By(decode_bitmasks(i.N, i.imms, i.immr, i.sf))

\* A 16-bit immediate has two bits here.
move_wide(c, i) ==
    LET s == 2^(2 * i.hw)
        k == reg_x(c, i.rd)
    IN  CASE (i.sf = 0 /\ i.hw >= 2) \/ i.opc = 1 -> undefined(c)
          [] i.opc = 0 -> set_x_sz(c, i.rd, i.sf, Not(u64(i.imm * s)))
          [] i.opc = 2 -> set_x_sz(c, i.rd, i.sf, i.imm * s)
          [] OTHER     -> set_x_sz(c, i.rd, i.sf, And(k, Not(u64(3 * s))) + u64(i.imm * s))

bitfield(c, i) ==
    LET src == reg_x(c, i.rn)
        d == reg_x(c, i.rd)
        ror == RorIn(src, i.immr, Width(i.sf))
        bot(w) == (IF i.opc = 1 THEN And(d, Not(w)) ELSE 0) + And(ror, w)
        top == CASE i.opc = 0 -> (IF Bit(src, i.imms) = 1 THEN ones(XLEN) ELSE 0) [] i.opc = 2 -> 0 [] OTHER -> d
        By(m) == IF i.opc = 3 \/ i.N # i.sf \/ ~ m.ok THEN undefined(c)
                 ELSE set_x_sz(c, i.rd, i.sf, And(top, Not(m.t)) + And(bot(m.w), m.t))
    IN  By(decode_bitmasks(i.N, i.imms, i.immr, i.sf))

extr(c, i) ==
    LET hi == Trunc(reg_x(c, i.rn), i.sf)  lo == Trunc(reg_x(c, i.rm), i.sf)
    IN  IF i.op21 # 0 \/ i.N # i.sf \/ (i.sf = 0 /\ i.imms >= WLEN) THEN undefined(c)
        ELSE set_x_sz(c, i.rd, i.sf, (hi * 2^Width(i.sf) + lo) \div 2^i.imms)

(* ---- dp_register. ---- *)
logical_reg(c, i) ==
    LET m == shift_reg(reg_x(c, i.rm), i.shift, i.imm, i.sf)
        r == Trunc(Logical(i.opc, reg_x(c, i.rn), IF i.N = 1 THEN Not(m) ELSE m), i.sf)
    IN  IF i.sf = 0 /\ i.imm >= WLEN THEN undefined(c)
        ELSE set_x(IF i.opc = 3 THEN set_logical_flags(c, r, i.sf) ELSE c, i.rd, r)

addsub_ext(c, i) ==
    LET r == AddSub(reg_xsp(c, i.rn), extend_reg(reg_x(c, i.rm), i.option, i.imm), i.op, i.sf)
    IN  IF i.imm > 4 \/ i.opt # 0 THEN undefined(c)
        ELSE IF i.S = 1 THEN set_x_sz([c EXCEPT !.nzcv = r.f], i.rd, i.sf, r.v) ELSE set_xsp(c, i.rd, r.v)

addsub_reg(c, i) ==
    LET r == AddSub(reg_x(c, i.rn), shift_reg(reg_x(c, i.rm), i.shift, i.imm, i.sf), i.op, i.sf)
    IN  IF i.shift = 3 \/ (i.sf = 0 /\ i.imm >= WLEN) THEN undefined(c)
        ELSE set_x_sz(IF i.S = 1 THEN [c EXCEPT !.nzcv = r.f] ELSE c, i.rd, i.sf, r.v)

\* The products of MADD .. UMULH, by op31 and o0.
ThreeSource(op, a, n, m) ==
    LET sn == Signed(n, WLEN)  sm == Signed(m, WLEN)
    IN  CASE op = 0 -> a + n * m [] op = 1 -> a - n * m
          [] op = 2 -> a + sn * sm [] op = 3 -> a - sn * sm
          [] op = 4 -> smulh64(n, m)
          [] op = 10 -> a + u32(n) * u32(m) [] op = 11 -> a - u32(n) * u32(m)
          [] OTHER -> umulh64(n, m)
dp_3src(c, i) ==
    LET op == i.op31 * 2 + i.o0
    IN  IF i.op54 # 0 \/ (i.sf = 0 /\ i.op31 # 0) \/ op \notin {0, 1, 2, 3, 4, 10, 11, 12} THEN undefined(c)
        ELSE set_x_sz(c, i.rd, i.sf, ThreeSource(op, reg_x(c, i.ra), reg_x(c, i.rn), reg_x(c, i.rm)))

addsub_carry(c, i) ==
    LET m == reg_x(c, i.rm)
        r == add_with_carry(reg_x(c, i.rn), IF i.op = 1 THEN Not(m) ELSE m, FlagC(c.nzcv), i.sf)
    IN  set_x_sz(IF i.S = 1 THEN [c EXCEPT !.nzcv = r.f] ELSE c, i.rd, i.sf, r.v)

rmif(c, i) ==
    [c EXCEPT !.nzcv = And(@, 15 - i.mask) + And(Ror(reg_x(c, i.rn), i.imm, 1) % 16, i.mask)]

\* Byte (one bit) or halfword (two).
setf(c, i) ==
    LET msb == i.half  w == reg_x(c, i.rn)
    IN  [c EXCEPT !.nzcv = Flags(Bit(w, msb) = 1, w % 2^(msb + 1) = 0, FlagC(@) = 1, Bit(w, msb + 1) # Bit(w, msb))]

ccmp(c, i) ==
    LET m == IF i.is_imm = 1 THEN i.rm ELSE reg_x(c, i.rm)
    IN  IF i.S = 0 \/ i.o # 0 THEN undefined(c)
        ELSE [c EXCEPT !.nzcv = IF cond_holds(@, i.cond) THEN AddSub(reg_x(c, i.rn), m, i.op, i.sf).f ELSE i.nzcv]

CselElse(op, o2, m) == CASE op = 0 -> u64(m + o2) [] o2 = 0 -> Not(m) [] OTHER -> u64(-m)
csel(c, i) ==
    IF i.S = 1 \/ i.b11 = 1 THEN undefined(c)
    ELSE set_x_sz(c, i.rd, i.sf, IF cond_holds(c.nzcv, i.cond) THEN reg_x(c, i.rn)
                                 ELSE CselElse(i.op, i.o2, reg_x(c, i.rm)))

Cls(v, w) == LET s == Bit(v, w - 1) IN Clz((IF s = 1 THEN ones(w) - (v % 2^w) ELSE v) % 2^(w - 1), w - 1)
OneSource(op, n, w) ==
    CASE op = 0 -> RevIn(n % 2^w, 1, w)
      [] op = 1 -> MapThenSumSet(LAMBDA g : RevIn((n \div 2^(2 * g)) % 4, 1, 2) * 2^(2 * g), 0 .. (w \div 2) - 1)
      [] op = 2 -> MapThenSumSet(LAMBDA g : RevIn((n \div 2^(4 * g)) % 16, 1, 4) * 2^(4 * g), 0 .. (w \div 4) - 1)
      [] op = 3 -> RevIn(n, 1, XLEN)
      [] op = 4 -> Clz(n, w)
      [] OTHER  -> Cls(n, w)
dp_1src(c, i) ==
    IF i.opcode > 5 THEN undefined(c)
    ELSE set_x_sz(c, i.rd, i.sf, OneSource(i.opcode, reg_x(c, i.rn), Width(i.sf)))

Quot(a, b) == IF (a < 0) = (b < 0) THEN Abs(a) \div Abs(b) ELSE -(Abs(a) \div Abs(b))
Udiv(n, m, is64) == LET b == Trunc(m, is64) IN IF b = 0 THEN 0 ELSE Trunc(n, is64) \div b
Sdiv(n, m, is64) ==
    LET w == Width(is64) IN IF Trunc(m, is64) = 0 THEN 0 ELSE Trunc(Quot(Signed(n, w), Signed(m, w)), is64)
TwoSource(op, n, m, is64) ==
    CASE op = 2 -> Udiv(n, m, is64) [] op = 3 -> Sdiv(n, m, is64) [] OTHER -> shift_reg(n, op - 8, m, is64)
dp_2src(c, i) ==
    IF i.opcode \notin {2, 3} \cup 8..11 THEN undefined(c)
    ELSE set_x_sz(c, i.rd, i.sf, TwoSource(i.opcode, reg_x(c, i.rn), reg_x(c, i.rm), i.sf))

-------------------------------------------------------------------------------
(***************************************************************************)
(* FEAT_MOPS (decode.c): memory set and memory copy in prologue, main and  *)
(* epilogue instructions.  A step never crosses a page on either address.  *)
(* It covers its whole run where the D-TLB hits and one byte where it does *)
(* not; c.warm holds the pages that hit, c.cold the pages that are never   *)
(* cached (device pages, and pages with translated code).                  *)
(***************************************************************************)
MOPS_CLAMP == 2^(XLEN - 1) - 1     \* largest size of SET and CPYF
MOVE_CLAMP == 2^(XLEN - 2) - 1     \* largest size of CPY
MOVE_MASK == 2^(XLEN - 1)          \* the address bits the overlap test looks at

MinOf(a, b) == IF a < b THEN a ELSE b
mops_page_limit(addr) == PAGE - (addr % PAGE)
mops_page_limit_rev(addr) == (addr % PAGE) + 1

mops_mismatch(c, i, wrong) ==
    cpu_raise_sync(c, [ec |-> "mop", iss |-> wrong * 4 + Bool(i.stage = 2) * 2 + Bool(i.set = 1)], 0)

View(c, unpriv) == [c EXCEPT !.ldst_unpriv = unpriv]
Hits(c, va, write) == Page(va) \in c.warm /\ Allows(c, va, write)
Filled(c, va) == [c EXCEPT !.warm = @ \cup ({Page(va)} \ c.cold)]

\* [n, c]: the bytes done, 0 after a fault.
OneByte(w, to) == [n |-> Bool(w.ok), c |-> View(IF w.ok THEN Filled(w.c, to) ELSE w.c, 0)]
mops_set_step(c, to0, setsize, data, unpriv) ==
    LET to == u64(to0)
        n == MinOf(mops_page_limit(to), setsize)
    IN  IF Hits(View(c, unpriv), to, TRUE) THEN [n |-> n, c |-> Stored(c, to, n, IF data = 1 THEN ones(n) ELSE 0)]
        ELSE OneByte(mem_write(View(c, unpriv), to, 1, data), to)

\* The lowest byte of a step's run.
CopyLow(addr, n, rev) == IF rev = 1 THEN addr - (n - 1) ELSE addr

mops_copy_step(c, to0, from0, copysize, wunpriv, runpriv, rev) ==
    LET to == u64(to0)
        from == u64(from0)
        Limit(a) == IF rev = 1 THEN mops_page_limit_rev(a) ELSE mops_page_limit(a)
        n == MinOf(MinOf(Limit(to), Limit(from)), copysize)
        hit == Hits(View(c, wunpriv), to, TRUE) /\ Hits(View(c, runpriv), from, FALSE)
        Slow(r) == IF ~ r.ok THEN [n |-> 0, c |-> View(r.c, 0)]
                   ELSE OneByte(mem_write(View(Filled(c, from), wunpriv), to, 1, r.v), to)
    IN  IF hit THEN [n |-> n, c |-> Stored(c, CopyLow(to, n, rev), n, Bytes(c, CopyLow(from, n, rev), n))]
        ELSE Slow(mem_read(View(c, runpriv), from, 1))

RECURSIVE setp_loop(_, _, _, _, _)
RECURSIVE setm_loop(_, _, _, _, _)
RECURSIVE cpyp_forward(_, _, _, _, _, _)
RECURSIVE cpyp_backward(_, _, _, _, _, _)
RECURSIVE cpym_loop(_, _, _, _, _, _)

Unpriv(c, bit) == Bool(bit = 1 /\ c.el = 1)

\* The prologue keeps the registers in input format until it completes.
setp_loop(c, i, to, size, left) ==
    IF left = 0
    THEN [set_x(set_x(c, i.rd, to + size), i.rn, -size) EXCEPT !.nzcv = 0]
    ELSE LET Goes(s) == IF s.n = 0 THEN s.c ELSE setp_loop(s.c, i, to + s.n, size - s.n, left - s.n)
         IN  Goes(mops_set_step(set_x(set_x(c, i.rd, to), i.rn, size), to, left,
                                 reg_x(c, i.rs) % 2, Unpriv(c, i.wt)))

setm_loop(c, i, to, size, left) ==
    IF left = 0 THEN c
    ELSE LET Goes(s) == IF s.n = 0 THEN s.c
                         ELSE setm_loop(set_x(s.c, i.rn, -(size - s.n)), i, to + s.n, size - s.n,
                                        IF s.n >= left THEN 0 ELSE left - s.n)
         IN  Goes(mops_set_step(c, to, size, reg_x(c, i.rs) % 2, Unpriv(c, i.wt)))

mops_set(c, i) ==
    LET to == reg_x(c, i.rd)
        size == MinOf(reg_x(c, i.rn), MOPS_CLAMP)
        xn == reg_x(c, i.rn)
        rest == u64(-xn)
    IN  CASE i.stage = 0 -> setp_loop(c, i, to, size, MinOf(mops_page_limit(to), size))
          [] xn = 0 -> c
          [] FlagC(c.nzcv) = 1 -> mops_mismatch(c, i, 1)
          [] i.stage = 2 /\ rest >= PAGE -> mops_mismatch(c, i, 0)
          [] OTHER -> setm_loop(c, i, to + xn, rest, IF i.stage = 1 THEN rest - (rest % PAGE) ELSE rest)

cpyp_forward(c, i, to, from, size, left) ==
    IF left = 0
    THEN [set_x(set_x(set_x(c, i.rd, to + size), i.rs, from + size), i.rn, -size) EXCEPT !.nzcv = 0]
    ELSE LET Goes(s) == IF s.n = 0 THEN s.c
                         ELSE cpyp_forward(s.c, i, to + s.n, from + s.n, size - s.n, left - s.n)
         IN  Goes(mops_copy_step(set_x(set_x(set_x(c, i.rd, to), i.rs, from), i.rn, size), to, from, left,
                                  Unpriv(c, i.wt), Unpriv(c, i.rt), 0))

\* Backward: t and f are the last bytes, and Xn stays positive.
cpyp_backward(c, i, t, f, size, left) ==
    IF left = 0 THEN [set_x(c, i.rn, size) EXCEPT !.nzcv = 0]
    ELSE LET Goes(s) == IF s.n = 0 THEN s.c
                         ELSE cpyp_backward(s.c, i, t - s.n, f - s.n, size - s.n, left - s.n)
         IN  Goes(mops_copy_step(set_x(c, i.rn, size), t, f, left, Unpriv(c, i.wt), Unpriv(c, i.rt), 1))

cpym_loop(c, i, to, from, size, fwd) ==
    IF size < (IF i.stage = 1 THEN PAGE ELSE 1) THEN c
    ELSE LET by(n) == IF fwd THEN n ELSE -n
             Goes(s) == IF s.n = 0 THEN s.c
                         ELSE cpym_loop(set_x(s.c, i.rn, by(s.n - size)), i,
                                        to + by(s.n), from + by(s.n), size - s.n, fwd)
         IN  Goes(mops_copy_step(c, to, from, size, Unpriv(c, i.wt), Unpriv(c, i.rt), Bool(~ fwd)))

\* Mutant: an overlapping copy upwards runs forward too.
copies_forward_Always(i, to, from, size) == TRUE
\* Backward only when the source starts below an overlapping destination.
copies_forward(i, to, from, size) ==
    i.move = 0 \/ ~ (from % MOVE_MASK < to % MOVE_MASK /\ (from + size) % MOVE_MASK > to % MOVE_MASK)

mops_cpy(c, i) ==
    LET xd == reg_x(c, i.rd)  xs == reg_x(c, i.rs)  xn == reg_x(c, i.rn)
        size == MinOf(xn, IF i.move = 1 THEN MOVE_CLAMP ELSE MOPS_CLAMP)
        t == u64(xd + size - 1)
        f == u64(xs + size - 1)
        fwd == i.move = 0 \/ Signed(xn, XLEN) < 0
        rest == IF fwd THEN u64(-xn) ELSE xn
        start == IF fwd THEN xn ELSE rest - 1
    IN  CASE i.stage = 0 /\ copies_forward(i, xd, xs, size) ->
                 cpyp_forward(c, i, xd, xs, size, MinOf(MinOf(mops_page_limit(xd), mops_page_limit(xs)), size))
          [] i.stage = 0 /\ ~ copies_forward(i, xd, xs, size) ->
                 cpyp_backward(c, i, t, f, size, MinOf(MinOf(mops_page_limit_rev(t), mops_page_limit_rev(f)), size))
          [] i.stage > 0 /\ xn = 0 -> c
          [] i.stage > 0 /\ xn # 0 /\ FlagC(c.nzcv) = 1 -> mops_mismatch(c, i, 1)
          [] i.stage = 2 /\ xn # 0 /\ FlagC(c.nzcv) = 0 /\ rest >= PAGE -> mops_mismatch(c, i, 0)
          [] OTHER -> cpym_loop(c, i, xd + start, xs + start, rest, fwd)

\* SETG and the encodings with equal or zero registers are undefined, and so
\* is the family at EL0 when SCTLR_EL1.MSCEn is clear.
mops(c, i) ==
    IF \/ i.stage = 3 \/ i.rs = i.rn \/ i.rs = i.rd \/ i.rn = i.rd \/ i.rd = 31 \/ i.rn = 31
       \/ (i.set = 0 /\ i.rs = 31)
       \/ (c.el = 0 /\ c.sctlr.mscen = 0)
    THEN undefined(c)
    ELSE IF i.set = 1 THEN mops_set(c, i) ELSE mops_cpy(c, i)
===============================================================================
