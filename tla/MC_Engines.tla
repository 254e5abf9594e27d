------------------------------ MODULE MC_Engines ------------------------------
(* Programs of one to three instructions at address 16, one family at a    *)
(* time.  Page 2 is mapped, page 3 for EL1 only, page 4 read-only; the     *)
(* rest of the address space faults.                                       *)
EXTENDS Engines, SequencesExt

MCGprs == {0, 1, 2, 3, 30}
MCVRegs == {0, 1, 2, 31}
MCHostPool == << "rbx", "rdi", "r12", "r8" >>

Start == [
    x |-> [r \in MCGprs |-> 0], sp_el |-> [e \in {0, 1} |-> 48], v |-> [t \in MCVRegs |-> 40961 + 257 * t],
    nzcv |-> 0, daif |-> 0, el |-> 1, sp_sel |-> 1, pc |-> 16, cur |-> 0, esr |-> NoEsr, far |-> 0, elr |-> 0,
    spsr |-> [nzcv |-> 0, daif |-> 0, el |-> 0, sp_sel |-> 0], excl_valid |-> 0, excl_addr |-> 0, event |-> FALSE,
    halted |-> FALSE, stop |-> FALSE, reset |-> FALSE, cpacr |-> 3, fp_trapped |-> FALSE, fpcr |-> 0,
    sctlr |-> [sa |-> 1, sa0 |-> 1, mscen |-> 1], ldst_unpriv |-> 0, sys |-> [r \in PlainRegs |-> 0], icount |-> 0,
    skip |-> 5, voff |-> 2, mem |-> [a \in MemBytes |-> IF a % 7 \in {0, 1, 4} \/ a % 16 = 3 THEN 1 ELSE 0],
    perm |-> (2 :> {"r", "w"}) @@ (3 :> {"kr", "kw"}) @@ (4 :> {"r"}), warm |-> {}, cold |-> {}]

Fam(P, S) == [programs |-> P, starts |-> S, jit |-> TRUE]
NoJit(f) == [f EXCEPT !.jit = FALSE]
Each(I, S) == Fam({ <<i>> : i \in I }, S)

B == {0, 1}
At(a, b) == [Start EXCEPT !.x = (0 :> a) @@ (1 :> b) @@ (2 :> 165) @@ (3 :> 3) @@ (30 :> 90)]
FpAt(s, el, p) == [s EXCEPT !.el = el, !.sp_sel = el, !.cpacr = p, !.fp_trapped = FpTraps(p, el)]
AsUser(s) == FpAt(s, 0, s.cpacr)
Levels(S) == S \cup { AsUser(s) : s \in S }
Flagged(S, F) == { [s EXCEPT !.nzcv = f] : s \in S, f \in F }

(* ---- Data processing. ---- *)
Values == { << 0, 0 >>, << 255, 1 >>, << 127, 128 >>, << 8, 7 >>, << 90, 60 >> }
DpStarts == { At(v[1], v[2]) : v \in Values }

ImmInsns ==
    [g : {"adr"}, page : B, imm : {-3, 6}, rd : {2, 31}]
    \cup [g : {"addsub_imm"}, sf : B, op : B, S : B, sh : B, imm : {1, 15}, rn : {0, 31}, rd : {0, 31}]
    \cup [g : {"logical_imm"}, sf : B, opc : 0..3, N : B, immr : {0, 3}, imms : 0..7, rn : {0}, rd : {2, 31}]
    \cup [g : {"move_wide"}, sf : B, opc : 0..3, hw : 0..3, imm : {2}, rd : {2}]
    \cup [g : {"bitfield"}, sf : B, opc : 0..3, N : B, immr : {0, 1, 3, 6}, imms : 0..7, rn : {0}, rd : {2}]
    \cup [g : {"extr"}, sf : B, op21 : B, N : B, rm : {0, 1}, imms : {0, 3, 5}, rn : {0}, rd : {2}]
RegInsns ==
    [g : {"logical_reg"}, sf : B, opc : 0..3, shift : 0..3, N : B, rm : {1}, imm : {0, 3, 5}, rn : {0}, rd : {2}]
    \cup [g : {"addsub_ext"}, sf : B, op : B, S : B, opt : B, option : 0..7, imm : {0, 2, 5}, rm : {1}, rn : {0, 31}, rd : {31}]
    \cup [g : {"addsub_reg"}, sf : B, op : B, S : B, shift : 0..3, imm : {0, 3, 5}, rm : {1}, rn : {0, 31}, rd : {0}]
    \cup [g : {"dp_3src"}, sf : B, op54 : B, op31 : 0..7, o0 : B, ra : {1, 31}, rm : {1}, rn : {0}, rd : {2}]
    \cup [g : {"dp_1src"}, sf : B, opcode : 0..6, rn : {0}, rd : {2}]
    \cup [g : {"dp_2src"}, sf : B, opcode : {2, 3} \cup 8..12, rm : {1}, rn : {0}, rd : {2}]
FlagInsns ==
    [g : {"addsub_carry"}, sf : B, op : B, S : B, rm : {1}, rn : {0}, rd : {2}]
    \cup [g : {"rmif"}, imm : {0, 3}, mask : {5, 15}, rn : {0}]
    \cup [g : {"setf"}, half : B, rn : {0}]
    \cup [g : {"ccmp"}, sf : B, S : B, o : B, op : B, is_imm : B, rm : {1}, rn : {0}, cond : {0, 3, 11}, nzcv : {9}]
    \cup [g : {"csel"}, sf : B, S : B, b11 : B, op : B, o2 : B, cond : {1, 9, 14}, rm : {1}, rn : {0}, rd : {2}]
    \cup [g : {"bcond"}, cond : 0..15, imm : {8}]
BranchInsns ==
    [g : {"b", "bl"}, imm : {-8, 4}]
    \cup [g : {"cbz"}, sf : B, op : B, rt : {0, 31}, imm : {8}]
    \cup [g : {"tbz"}, op : B, bit : {0, 7}, rt : {0}, imm : {8}]
    \cup [g : {"breg"}, opc : 0..5, rn : {0, 30, 31}]

DpTests ==
    << Each(ImmInsns, DpStarts), Each(RegInsns, DpStarts), Each(BranchInsns, DpStarts),
       Each(FlagInsns, Flagged({ At(127, 128), At(8, 7) }, 0..15)) >>

(* ---- Loads and stores: bases that stay in a page, cross into the one    *)
(* only EL1 may use, into the read-only one, and out of the mapped ones. - *)
Bases == { 36, 45, 61, 76 }
MemStarts == Levels({ [At(165, b) EXCEPT !.sp_el = [e \in B |-> IF b % 16 = 13 THEN 32 ELSE b]] : b \in Bases })
MemInsns ==
    [g : {"ldst"}, V : B, size : 0..3, opc : 0..3, mode : {"uimm", "ur", "tr", "pre", "post"}, imm : {1}, rn : {1, 31}, rt : {0}]
    \cup [g : {"ldst"}, V : {0}, size : 0..3, opc : 0..3, mode : {"ur", "pre", "post"}, imm : {-3}, rn : {1}, rt : {1, 31}]
    \cup [g : {"ldst"}, V : B, size : 0..3, opc : 0..3, mode : {"ro"}, rm : {3}, option : {2, 7}, S : B, rn : {1, 31}, rt : {0}]
    \cup [g : {"pair"}, V : B, opc : 0..3, mode : {"off", "pre", "post", "none"}, L : B, imm : {-1}, rt : {0}, rt2 : {1, 2}, rn : {1, 31}]
    \cup [g : {"rcpc"}, opc : 0..3, size : 0..3, imm : {1}, rn : {1}, rt : {0}]
    \cup [g : {"literal"}, V : B, opc : 0..3, imm : {20, 28, 60}, rt : {0}]
    \cup [g : {"exclusive"}, k : {"cas", "ord", "ex", "exp"}, size : {2, 3}, L : B, rs : {2}, rt : {0}, rt2 : {3}, rn : {1}]
    \cup [g : {"exclusive"}, k : {"casp"}, size : B, L : {1}, rs : {2}, rt : {0}, rt2 : {31}, rn : {1}]
VecInsns ==
    [g : {"vmulti"}, Q : B, L : B, post : B, rm : {3, 31}, nregs : 0..2, sel : B, size : {0, 2}, rn : {1, 31}, rt : {0, 31}]
    \cup [g : {"vsingle"}, Q : B, L : B, post : B, rm : {31}, selem : 1..2, rep : B, size : {0, 3}, index : {1}, rn : {1}, rt : {31}]
    \cup [g : {"fp"}, k : {"orr", "fmov", "fadd", "faddv", "fmax", "fcmp", "fcsel"}, rd : {1}, rn : {2}, rm : {0}, cond : {1}]
\* The aligned addresses of the atomic operations.
AtomicInsns == [g : {"ldst"}, V : {0}, size : {0, 2, 3}, opc : {0}, mode : {"atomic"}, imm : {0}, rm : {0, 31}, o3 : B, aop : 0..7, rn : {1}, rt : {2}]
AtomicStarts == Levels({ At(v, b) : v \in {5, 200}, b \in {40, 56, 72} })

NoFp == { FpAt(s, s.el, p) : s \in Levels({ At(165, 36), At(165, 45) }), p \in {0, 1} }
MemTests ==
    << Each(MemInsns, MemStarts), Each(VecInsns, MemStarts),
       Each({ i \in MemInsns : "V" \in DOMAIN i /\ i.V = 1 }, NoFp), Each(VecInsns, NoFp), Each(AtomicInsns, AtomicStarts) >>

(* ---- The system group. ---- *)
SysInsns ==
    [g : {"sys"}, op0 : {0}, L : {0}, f : {"SPSel", "CFINV", "XAFLAG", "AXFLAG", "DAIFSet", "DAIFClr", "PAN"}, crm : {0, 5}, rt : {31}]
    \cup [g : {"sys"}, op0 : {1}, L : {0}, f : {"TLBI_VA", "TLBI_ALL", "AT", "DC_ZVA", "DC_CVAU", "IC_IVAU"}, crm : 0..3, rt : {1}]
    \cup [g : {"sys"}, op0 : {1}, L : {1}, f : {"SYSL"}, crm : {0}, rt : {1}]
    \cup [g : {"sys"}, op0 : {3}, L : B, crm : {0}, rt : {1, 31},
          f : PlainRegs \cup {"SP_EL0", "SPSel", "NZCV", "DAIF", "ELR", "FAR", "CPACR", "FPCR", "CNTPCT", "CNTVCT", "DCZID", "TTBR", "MIDR"}]
    \cup [g : {"exc"}, k : {"svc", "hvc", "brk", "hlt", "dcps"}, imm : {1}]
    \cup [g : {"hint"}, f : {"NOP", "YIELD", "WFE", "WFI", "SEV", "SEVL"}]
    \cup [g : {"barrier"}, f : {"CLREX", "DMB", "ISB"}]
SysStarts ==
    Levels({ [At(n, m) EXCEPT !.nzcv = f, !.warm = {2, 3}, !.excl_valid = 1, !.excl_addr = 36] : n \in {0, 3, 9}, m \in {6, 40}, f \in {3, 4} })
SysTests == << Each(SysInsns, SysStarts) >>

(* ---- Memory set and copy, in three instructions. ---- *)
Triples(set, move) ==
    { [k \in 1..3 |-> [g |-> "mops", set |-> set, stage |-> k - 1, move |-> move, wt |-> u, rt |-> u, rd |-> 0, rs |-> 1, rn |-> 2]] : u \in B }
MopsStarts(D) ==
    { [At(d[1], d[2]) EXCEPT !.x[2] = n, !.warm = w, !.cold = k, !.el = e, !.sp_sel = e] :
        d \in D, n \in {0, 5, 20, 33}, w \in {{}, {2, 3, 4}}, k \in {{}, {3}}, e \in B }
MopsTests ==
    << NoJit(Fam(Triples(0, 1), MopsStarts({ << 34, 40 >>, << 40, 34 >>, << 47, 33 >>, << 33, 46 >> }))),
       NoJit(Fam(Triples(1, 0), MopsStarts({ << 34, 1 >>, << 46, 0 >> }))),
       Fam(Triples(0, 0), MopsStarts({ << 34, 40 >> })),
       Fam({ <<p[k]>> : p \in Triples(0, 1) \cup Triples(1, 0), k \in 2..3 },
           { [s EXCEPT !.nzcv = f] : s \in MopsStarts({ << 34, 40 >> }), f \in {0, 2} }) >>

(* ---- Sequences: registers reused, evicted and fused, flags kept, dead   *)
(* and consumed across instructions.                                  ---- *)
AddReg3(op, s, m, n, d) == [g |-> "addsub_reg", sf |-> 1, op |-> op, S |-> s, shift |-> 0, imm |-> 0, rm |-> m, rn |-> n, rd |-> d]
Ld(mode, imm, n, t) == [g |-> "ldst", V |-> 0, size |-> 3, opc |-> 1, mode |-> mode, imm |-> imm, rn |-> n, rt |-> t]
St(size, imm, n, t) == [g |-> "ldst", V |-> 0, size |-> size, opc |-> 0, mode |-> "ur", imm |-> imm, rn |-> n, rt |-> t]
Vec(k, d, n, m) == [g |-> "fp", k |-> k, rd |-> d, rn |-> n, rm |-> m, cond |-> 8]
Csel(op, o2, cond) == [g |-> "csel", sf |-> 1, S |-> 0, b11 |-> 0, op |-> op, o2 |-> o2, cond |-> cond, rm |-> 1, rn |-> 0, rd |-> 2]
Logic3 == [g |-> "logical_reg", sf |-> 1, opc |-> 3, shift |-> 0, N |-> 0, rm |-> 1, imm |-> 0, rn |-> 0, rd |-> 31]
Carry(op, s) == [g |-> "addsub_carry", sf |-> 1, op |-> op, S |-> s, rm |-> 1, rn |-> 0, rd |-> 0]
Bcond == [g |-> "bcond", cond |-> 9, imm |-> 8]
AluSeq ==
    { AddReg3(0, 1, 1, 0, 1), AddReg3(1, 1, 1, 0, 31), AddReg3(0, 0, 3, 0, 3), Logic3, Carry(0, 1), Carry(1, 0), Csel(0, 0, 8), Csel(1, 1, 3),
      Bcond, [g |-> "cbz", sf |-> 1, op |-> 1, rt |-> 2, imm |-> 8],
      [g |-> "dp_3src", sf |-> 1, op54 |-> 0, op31 |-> 0, o0 |-> 1, ra |-> 2, rm |-> 1, rn |-> 0, rd |-> 30],
      [g |-> "ccmp", sf |-> 1, S |-> 1, o |-> 0, op |-> 1, is_imm |-> 0, rm |-> 1, rn |-> 0, cond |-> 8, nzcv |-> 6],
      [g |-> "sys", op0 |-> 3, L |-> 1, f |-> "CNTVCT", crm |-> 0, rt |-> 1], [g |-> "setf", half |-> 1, rn |-> 0] }
MemSeq ==
    { [g |-> "rcpc", opc |-> 0, size |-> 3, imm |-> 1, rn |-> 1, rt |-> 0], Ld("uimm", 0, 1, 2), Ld("ur", 4, 1, 3), Ld("post", 8, 1, 0),
      St(3, 4, 1, 2), St(2, 0, 1, 31), AddReg3(0, 1, 2, 0, 2), AddReg3(1, 1, 2, 3, 3),
      [g |-> "pair", V |-> 0, opc |-> 2, mode |-> "pre", L |-> 1, imm |-> 1, rt |-> 0, rt2 |-> 1, rn |-> 1],
      [g |-> "exclusive", k |-> "ex", size |-> 3, L |-> 1, rs |-> 2, rt |-> 0, rt2 |-> 3, rn |-> 1],
      [g |-> "exclusive", k |-> "ex", size |-> 3, L |-> 0, rs |-> 2, rt |-> 0, rt2 |-> 3, rn |-> 1],
      [g |-> "exclusive", k |-> "cas", size |-> 3, L |-> 0, rs |-> 2, rt |-> 3, rt2 |-> 31, rn |-> 1] }
VecSeq ==
    { Vec("orr", 1, 2, 2), Vec("faddv", 0, 1, 2), Vec("fadd", 2, 1, 0), Vec("fmov", 2, 0, 0), Vec("fcmp", 0, 1, 2), Vec("fcsel", 1, 0, 2), Vec("fmax", 0, 2, 1),
      AddReg3(1, 1, 1, 0, 31), Csel(0, 1, 8), [g |-> "ldst", V |-> 1, size |-> 3, opc |-> 1, mode |-> "uimm", imm |-> 0, rn |-> 1, rt |-> 1],
      [g |-> "ldst", V |-> 1, size |-> 0, opc |-> 2, mode |-> "ur", imm |-> 0, rn |-> 1, rt |-> 0] }
Triples3(I) == { << i, k, l >> : i, k, l \in I }
WithV(s, a, b) == [s EXCEPT !.v[1] = a, !.v[2] = b]
SeqTests ==
    << Fam(Triples3(AluSeq), { At(8, 7), At(127, 128) }), Fam(Triples3(MemSeq), { At(165, 36), At(7, 43), At(7, 57) }),
       Fam(Triples3(VecSeq), { WithV(At(200, 34), 258, 1027), WithV(At(8, 60), 65281, 514) }) >>

(* ---- A dead comparison with the zero register before the zero register   *)
(* is stored.                                                         ---- *)
MCZero == << Fam({ << AddReg3(0, 1, 31, 1, 31), AddReg3(0, 1, 1, 0, 2), St(3, 0, 1, 31) >> }, { At(7, 43) }) >>
MCFamilies == DpTests \o MemTests \o SysTests \o MopsTests \o SeqTests
===============================================================================
