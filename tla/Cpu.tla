--------------------------------- MODULE Cpu ----------------------------------
(***************************************************************************)
(* The CPU state of cpu.h as a record, the exceptions of exception.c, the  *)
(* typed accesses of mmu.c and the system registers of sysreg.c, all as    *)
(* operators from a record to a record.                                    *)
(*                                                                         *)
(* Guest memory is part of the record: mem maps each byte of a mapped page *)
(* to its one bit, and perm gives each page the accesses it allows ("r"    *)
(* and "w" for either level, "kr" and "kw" for EL1 only).  The code page   *)
(* is not in mem.  A vector table entry takes one unit of the address      *)
(* space.                                                                  *)
(*                                                                         *)
(* The machine words of types.h are at a reduced scale: a byte has one     *)
(* bit, so a halfword has 2, a word 4 and a doubleword 8.  Every width of  *)
(* the code keeps its ratio to the others, and truncation, sign extension, *)
(* carries and rotations behave as they do at full width.                  *)
(***************************************************************************)
EXTENDS Integers, Sequences, FiniteSets, FiniteSetsExt

CONSTANTS
    Gprs,           \* the general registers the programs use, 30 among them
    VRegs,          \* the vector registers the programs use
    PAGE,           \* bytes of a page
    MEM_FIRST,      \* the bytes of the mapped pages
    MEM_LAST,
    VBAR,           \* the vector base
    DCZVA_STORES    \* doublewords of a DC ZVA block

(* ---- Words. ---- *)
XLEN == 8
WLEN == 4
Width(is64) == IF is64 = 1 THEN XLEN ELSE WLEN
Word == 0 .. 2^XLEN - 1

Abs(v) == IF v < 0 THEN -v ELSE v
Bool(p) == IF p THEN 1 ELSE 0
Bit(v, i) == (v \div 2^i) % 2

u64(v) == v % 2^XLEN
u32(v) == v % 2^WLEN
Trunc(v, is64) == v % 2^Width(is64)

\* Nibble table, so that a conjunction costs two lookups.
AndNibble ==
    [a, b \in 0..15 |-> MapThenSumSet(LAMBDA i : Bit(a, i) * Bit(b, i) * 2^i, 0..3)]
AndBy(nibble, a, b) == nibble[a % 16, b % 16] + 16 * nibble[(a \div 16) % 16, (b \div 16) % 16]
And(a, b) == AndBy(AndNibble, a, b)
Or(a, b) == a + b - And(a, b)
Xor(a, b) == a + b - 2 * And(a, b)
Not(a) == 2^XLEN - 1 - a

Signed(v, w) == LET u == v % 2^w IN IF u >= 2^(w - 1) THEN u - 2^w ELSE u
sign_extend(v, w) == u64(Signed(v, w))
ones(n) == 2^n - 1

Lsl(v, n, is64) == Trunc(v * 2^n, is64)
Lsr(v, n, is64) == Trunc(v, is64) \div 2^n
Asr(v, n, is64) == Trunc(Signed(v, Width(is64)) \div 2^n, is64)
RorIn(v, n, w) == LET r == n % w  u == v % 2^w IN (u \div 2^r) + ((u * 2^(w - r)) % 2^w)
Ror(v, n, is64) == RorIn(v, n, Width(is64))

\* The high half of a product.
umulh64(a, b) == (a * b) \div 2^XLEN
smulh64(a, b) == u64((Signed(a, XLEN) * Signed(b, XLEN)) \div 2^XLEN)

\* Reversal of the order of the n-bit groups of a w-bit word.
RevIn(v, n, w) ==
    MapThenSumSet(LAMBDA g : ((v \div 2^(g * n)) % 2^n) * 2^(w - (g + 1) * n), 0 .. (w \div n) - 1)

\* Leading zeros of a w-bit word.
Clz(v, w) == CHOOSE n \in 0..w : (v % 2^w) \div 2^(w - n) = 0 /\ (n < w => Bit(v, w - 1 - n) = 1)

(* ---- The CPU. ---- *)
SP == 31
MemBytes == MEM_FIRST .. MEM_LAST
Page(va) == va \div PAGE

NoEsr == [ec |-> "none", iss |-> 0]
EXC_SYNC == 0

(* ---- Flags: NZCV is a nibble, N the highest bit. ---- *)
PS_N == 8
PS_Z == 4
PS_C == 2
PS_V == 1
Flags(n, z, cy, v) == Bool(n) * PS_N + Bool(z) * PS_Z + Bool(cy) * PS_C + Bool(v) * PS_V
FlagC(nzcv) == Bit(nzcv, 1)

cond_holds(nzcv, cond) ==
    LET N == Bit(nzcv, 3)  Z == Bit(nzcv, 2)  C == Bit(nzcv, 1)  V == Bit(nzcv, 0)
        r == << Z = 1, C = 1, N = 1, V = 1, C = 1 /\ Z = 0, N = V, N = V /\ Z = 0, TRUE >>[(cond \div 2) + 1]
    IN  IF cond % 2 = 1 /\ cond # 15 THEN ~ r ELSE r

(* ---- Registers: 31 is the zero register or the stack pointer. ---- *)
cpu_cur_sp(c) == IF c.sp_sel = 1 THEN c.el ELSE 0
reg_x(c, n) == IF n = 31 THEN 0 ELSE c.x[n]
set_x(c, n, v) == IF n = 31 THEN c ELSE [c EXCEPT !.x[n] = u64(v)]
reg_xsp(c, n) == IF n = SP THEN c.sp_el[cpu_cur_sp(c)] ELSE c.x[n]
set_xsp(c, n, v) == IF n = SP THEN [c EXCEPT !.sp_el[cpu_cur_sp(c)] = u64(v)] ELSE [c EXCEPT !.x[n] = u64(v)]
set_x_sz(c, n, is64, v) == set_x(c, n, Trunc(v, is64))

\* FPEN traps EL0 unless it is 3, and EL1 when it is 0 or 2.
FpTraps(cpacr, el) == IF el = 0 THEN cpacr # 3 ELSE cpacr \in {0, 2}

cpu_refresh_fp_trap(c) == [c EXCEPT !.fp_trapped = FpTraps(c.cpacr, c.el)]

(* ---- Exceptions: all go to EL1. ---- *)
cpu_pack_spsr(c) == [nzcv |-> c.nzcv, daif |-> c.daif, el |-> c.el, sp_sel |-> c.sp_sel]
cpu_unpack_spsr(c, s) ==
    cpu_refresh_fp_trap([c EXCEPT !.nzcv = s.nzcv, !.daif = s.daif, !.el = s.el, !.sp_sel = s.sp_sel])

VectorOffset(c, kind) == kind + (IF c.el < 1 THEN 8 ELSE IF c.sp_sel = 1 THEN 4 ELSE 0)

exception_take(c, kind, esr, far, ret) ==
    cpu_refresh_fp_trap([c EXCEPT !.spsr = cpu_pack_spsr(c), !.elr = ret, !.esr = esr, !.far = far,
        !.el = 1, !.sp_sel = 1, !.daif = 15, !.pc = VBAR + VectorOffset(c, kind), !.halted = FALSE,
        !.excl_valid = 0])

cpu_raise_sync(c, esr, far) == exception_take(c, EXC_SYNC, esr, far, c.cur)
cpu_fp_trap(c) == cpu_raise_sync(c, [ec |-> "fp", iss |-> 0], 0)
undefined(c) == cpu_raise_sync(c, [ec |-> "unknown", iss |-> 0], 0)

(* ---- Typed accesses. ---- *)
AllowsAs(c, user, va, write) ==
    LET p == IF Page(va) \in DOMAIN c.perm THEN c.perm[Page(va)] ELSE {}
    IN  (IF write THEN "w" ELSE "r") \in p \/ (~ user /\ (IF write THEN "kw" ELSE "kr") \in p)
Allows(c, va, write) == AllowsAs(c, c.el = 0 \/ c.ldst_unpriv = 1, va, write)

raise_abort(c, va, write) ==
    cpu_raise_sync(c, [ec |-> IF c.el = 0 THEN "dabort_lower" ELSE "dabort_same", iss |-> Bool(write)], va)

\* How much of an access lies in its first page.
FirstPart(va, n) == IF (va % PAGE) + n > PAGE THEN PAGE - (va % PAGE) ELSE n

Bytes(c, va, n) == MapThenSumSet(LAMBDA i : c.mem[va + i] * 2^i, 0 .. n - 1)
Stored(c, va, n, val) ==
    [c EXCEPT !.mem = [a \in DOMAIN @ |-> IF a \in va .. va + n - 1 THEN Bit(val, a - va) ELSE @[a]]]

\* [ok, v, c]: the value, or the state after the abort of the page that refused.
ReadAt(c, va, f, n) ==
    IF ~ Allows(c, va, FALSE) THEN [ok |-> FALSE, v |-> 0, c |-> raise_abort(c, va, FALSE)]
    ELSE IF f < n /\ ~ Allows(c, u64(va + f), FALSE)
    THEN [ok |-> FALSE, v |-> 0, c |-> raise_abort(c, u64(va + f), FALSE)]
    ELSE [ok |-> TRUE, v |-> Bytes(c, va, n), c |-> c]
mem_read(c, va, n) == ReadAt(c, u64(va), FirstPart(u64(va), n), n)

\* The first page's part is stored before the second page is looked at.
WriteAt(c, va, f, n, val) ==
    IF ~ Allows(c, va, TRUE) THEN [ok |-> FALSE, c |-> raise_abort(c, va, TRUE)]
    ELSE IF f < n /\ ~ Allows(c, u64(va + f), TRUE)
    THEN [ok |-> FALSE, c |-> raise_abort(Stored(c, va, f, val), u64(va + f), TRUE)]
    ELSE [ok |-> TRUE, c |-> Stored(c, va, n, val)]
mem_write(c, va, n, val) == WriteAt(c, u64(va), FirstPart(u64(va), n), n, val)

\* What follows an access that succeeded; a fault ends the instruction.
WithValue(r, Then(_)) == IF r.ok THEN Then(r.v) ELSE r.c
WithState(r, Then(_)) == IF r.ok THEN Then(r.c) ELSE r.c
OnRead(c, va, n, Then(_)) == WithValue(mem_read(c, va, n), Then)
OnWrite(c, va, n, val, Then(_)) == WithState(mem_write(c, va, n, val), Then)

\* A quadword access is two doublewords, low half first.
Joined(lo, hi) == IF ~ lo.ok THEN lo ELSE IF ~ hi.ok THEN hi ELSE [hi EXCEPT !.v = lo.v + 256 * @]
mem_read128(c, va) == Joined(mem_read(c, va, 8), mem_read(c, va + 8, 8))
HighHalf(lo, va, val) == IF lo.ok THEN mem_write(lo.c, va + 8, 8, val \div 256) ELSE lo
mem_write128(c, va, val) == HighHalf(mem_write(c, va, 8, val % 256), va, val)

OnRead128(c, va, Then(_)) == WithValue(mem_read128(c, va), Then)
OnWrite128(c, va, val, Then(_)) == WithState(mem_write128(c, va, val), Then)
===============================================================================
