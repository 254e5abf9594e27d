------------------------------ MODULE Predecode -------------------------------
(***************************************************************************)
(* The predecoder (predecode.c): pd_fill turns an instruction into a dense *)
(* opcode with its operands extracted, or GENERIC, and pd_step executes    *)
(* the entries.  The JIT frontend reads the same entries.  An opcode's     *)
(* 64- and 32-bit forms share a name here and differ in the field w.       *)
(***************************************************************************)
EXTENDS A64

CONSTANT PD_SIZE     \* entries of the direct-mapped decode cache

Ent(op, w, rd, rn, rm, imm) == [op |-> op, w |-> w, rd |-> rd, rn |-> rn, rm |-> rm, imm |-> imm]
GENERIC == Ent("GENERIC", 1, 0, 0, 0, 0)

(* ---- Classification. ---- *)
pd_bitmasks(immN, imms, immr, is64) ==
    LET nimms == immN * 8 + (7 - imms)
        len == IF nimms = 0 THEN 0 ELSE 3 - Clz(nimms, 4)
        Mask(esize, elem) ==
            MapThenSumSet(LAMBDA k : RorIn(elem, immr % esize, esize) * 2^(k * esize), 0 .. (XLEN \div esize) - 1)
        Checked(esize) ==
            IF esize = 1 \/ esize > Width(is64) THEN [ok |-> FALSE, w |-> 0]
            ELSE [ok |-> TRUE, w |-> Trunc(Mask(esize, ones((imms % esize) + 1) % 2^esize), is64)]
    IN  Checked(2^len)

fill_addsub_imm(i) ==
    LET imm == i.imm * (IF i.sh = 1 THEN 2^ImmShift ELSE 1)
    IN  CASE i.S = 1 /\ i.op = 1 -> Ent("SUBS_I", i.sf, i.rd, i.rn, 0, Not(imm))   \* pre-inverted
          [] i.S = 1 /\ i.op = 0 -> Ent("ADDS_I", i.sf, i.rd, i.rn, 0, imm)
          [] OTHER -> Ent(IF i.op = 1 THEN "SUB_I" ELSE "ADD_I", i.sf, i.rd, i.rn, 0, imm)

LogicalIds == << "AND", "ORR", "EOR", "ANDS" >>
fill_logical_imm(i) ==
    LET By(m) == IF m.ok THEN Ent(<< "AND_I", "ORR_I", "EOR_I", "ANDS_I" >>[i.opc + 1], i.sf, i.rd, i.rn, 0, m.w)
                 ELSE GENERIC
    IN  By(pd_bitmasks(i.N, i.imms, i.immr, i.sf))

fill_move_wide(i) ==
    LET s == 2 * i.hw  v == u64(i.imm * 2^s)
    IN  CASE (i.sf = 0 /\ i.hw >= 2) \/ i.opc = 1 -> GENERIC
          [] i.opc = 0 -> Ent("MOVI", i.sf, i.rd, 0, 0, Trunc(Not(v), i.sf))
          [] i.opc = 2 -> Ent("MOVI", i.sf, i.rd, 0, 0, Trunc(v, i.sf))
          [] OTHER     -> Ent("MOVK", i.sf, i.rd, 0, s, v)

\* Mutant: the insert form shifts by one bit too few.
UbfizShift_Short(width, immr) == width - immr - 1
UbfizShift(width, immr) == width - immr
fill_bitfield(i) ==
    LET w == Width(i.sf)
        E(op, rm, imm) == Ent(op, i.sf, i.rd, i.rn, rm, imm)
    IN  CASE IF i.sf = 1 THEN i.N # 1 ELSE i.N # 0 \/ i.immr >= WLEN \/ i.imms >= WLEN -> GENERIC
          [] i.opc = 2 -> CASE i.imms = w - 1      -> E("LSR_I", i.immr, 0)
                            [] i.imms # w - 1 /\ i.immr = i.imms + 1 -> E("LSL_I", w - 1 - i.imms, 0)
                            [] i.imms # w - 1 /\ i.imms >= i.immr    -> E("UBFX", i.immr, ones(i.imms - i.immr + 1))
                            [] OTHER -> E("UBFIZ", UbfizShift(w, i.immr), ones(i.imms + 1))
          [] i.opc = 0 -> CASE i.imms = w - 1 -> E("ASR_I", i.immr, 0)
                            [] i.imms # w - 1 /\ i.imms >= i.immr -> E("SBFX", w - 1 - i.imms, w - 1 - i.imms + i.immr)
                            [] OTHER -> GENERIC
          [] OTHER -> GENERIC

fill_dp_imm(i) ==
    CASE i.g = "adr" -> (IF i.page = 1 THEN Ent("ADRP", 1, i.rd, 0, 0, u64(i.imm * PAGE)) ELSE Ent("ADR", 1, i.rd, 0, 0, u64(i.imm)))
      [] i.g = "addsub_imm" -> fill_addsub_imm(i)
      [] i.g = "logical_imm" -> fill_logical_imm(i)
      [] i.g = "move_wide" -> fill_move_wide(i)
      [] i.g = "bitfield" -> fill_bitfield(i)
      [] OTHER -> IF i.op21 # 0 \/ i.N # i.sf \/ (i.sf = 0 /\ i.imms >= WLEN) THEN GENERIC
                  ELSE Ent("EXTR", i.sf, i.rd, i.rn, i.rm, i.imms)

\* Every hint but WFE and WFI is a NOP.
fill_branch(i) ==
    CASE i.g = "b"     -> Ent("B", 1, 0, 0, 0, u64(i.imm))
      [] i.g = "bl"    -> Ent("BL", 1, 0, 0, 0, u64(i.imm))
      [] i.g = "bcond" -> Ent("BCOND", 1, i.cond, 0, 0, u64(i.imm))
      [] i.g = "cbz"   -> Ent(IF i.op = 1 THEN "CBNZ" ELSE "CBZ", i.sf, i.rt, 0, 0, u64(i.imm))
      [] i.g = "tbz"   -> Ent(IF i.op = 1 THEN "TBNZ" ELSE "TBZ", 1, i.rt, 0, i.bit, u64(i.imm))
      [] i.g = "breg" /\ i.opc \in {0, 2} -> Ent("BR", 1, 0, i.rn, 0, 0)
      [] i.g = "breg" /\ i.opc = 1 -> Ent("BLR", 1, 0, i.rn, 0, 0)
      [] i.g = "hint"  -> (IF i.f \in {"WFE", "WFI"} THEN GENERIC ELSE Ent("NOP", 1, 0, 0, 0, 0))
      [] OTHER -> GENERIC

\* Single registers: rm holds 4 * size + opc for the integer forms, the byte
\* count for the vector ones; w is the size of a register-offset form.
fill_ldst_register(i) ==
    LET quad == i.V = 1 /\ i.opc >= 2
        scale == IF quad THEN 4 ELSE i.size
        key == 4 * i.size + i.opc
        imm == u64(IF i.mode = "uimm" THEN i.imm * 2^scale ELSE i.imm)
        E(op, rm) == Ent(op, 1, i.rt, i.rn, rm, imm)
        load == i.opc % 2 = 1
    IN  CASE i.mode \in {"uimm", "ur"} /\ i.V = 1 ->
                 IF quad /\ i.size # 0 THEN GENERIC
                 ELSE E(IF load THEN "LDRV" ELSE "STRV", IF quad THEN 16 ELSE 2^i.size)
          [] i.mode \in {"uimm", "ur"} /\ i.V = 0 ->
                 IF key \in {11, 15} THEN GENERIC ELSE IF key = 14 THEN E("NOP", 0) ELSE E(IF i.opc = 0 THEN "STR" ELSE "LDR", key)
          [] i.mode = "ro" ->
                 IF i.V = 1 \/ i.opc >= 2 THEN GENERIC
                 ELSE Ent(IF i.opc = 0 THEN "STR_RO" ELSE "LDR_RO", i.size, i.rt, i.rn, i.rm,
                          8 * i.option + (IF i.S = 1 THEN i.size ELSE 0))
          [] i.mode \in {"pre", "post"} /\ i.V = 1 ->
                 IF quad /\ i.size = 0
                 THEN E(IF i.mode = "pre" THEN (IF load THEN "LDRV_PRE" ELSE "STRV_PRE")
                        ELSE (IF load THEN "LDRV_POST" ELSE "STRV_POST"), 16)
                 ELSE GENERIC
          [] i.mode \in {"pre", "post"} /\ i.V = 0 ->
                 IF key \in {8, 9, 12, 13} \/ (key \in {0, 1} /\ i.mode = "post")
                 THEN E(IF i.mode = "pre" THEN (IF load THEN "LDR_PRE" ELSE "STR_PRE")
                        ELSE (IF load THEN "LDR_POST" ELSE "STR_POST"), key)
                 ELSE GENERIC
          [] OTHER -> GENERIC

\* Pairs: w is the element's size, imm the scaled offset.
fill_pair(i) ==
    LET esz == IF i.V = 1 THEN 2^(i.opc + 2) ELSE IF i.opc = 2 THEN 8 ELSE 4
        kind == IF i.mode = "pre" THEN "PRE" ELSE IF i.mode = "post" THEN "POST" ELSE "OFF"
        op == IF i.V = 1 THEN (IF i.L = 1 THEN "LDPV" ELSE "STPV") ELSE (IF i.L = 1 THEN "LDP" ELSE "STP")
    IN  IF i.mode = "none" \/ i.opc = 3 \/ (i.V = 1 /\ i.opc = 0) \/ (i.V = 0 /\ i.opc = 1) THEN GENERIC
        ELSE [op |-> op, w |-> esz, rd |-> i.rt, rn |-> i.rn, rm |-> i.rt2, imm |-> u64(i.imm * esz), kind |-> kind]

fill_ldst(i) ==
    CASE i.g = "ldst" -> fill_ldst_register(i)
      [] i.g = "pair" -> fill_pair(i)
      [] i.g = "literal" /\ i.V = 1 -> (IF i.opc = 3 THEN GENERIC ELSE Ent("LDRLITV", 1, i.rt, 0, 4 * 2^i.opc, u64(i.imm)))
      [] i.g = "literal" /\ i.V = 0 ->
             (CASE i.opc < 2 -> Ent("LDRLIT", i.opc, i.rt, 0, 0, u64(i.imm)) [] i.opc = 3 -> Ent("NOP", 1, 0, 0, 0, 0) [] OTHER -> GENERIC)
      [] OTHER -> GENERIC

fill_dp_reg(i) ==
    LET key == i.op31 * 2 + i.o0
    IN  CASE i.g = "logical_reg" ->
                 IF i.sf = 0 /\ i.imm >= WLEN THEN GENERIC
                 ELSE IF i.shift = 0 /\ i.imm = 0
                 THEN Ent((IF i.N = 1 THEN << "BIC", "ORN", "EON", "BICS" >> ELSE LogicalIds)[i.opc + 1], i.sf, i.rd, i.rn, i.rm, 0)
                 ELSE Ent(<< "AND_S", "ORR_S", "EOR_S", "ANDS_S" >>[i.opc + 1], i.sf, i.rd, i.rn, i.rm, 256 * i.N + 64 * i.shift + i.imm)
          [] i.g = "addsub_ext" ->
                 IF i.imm > 4 \/ i.opt # 0 THEN GENERIC
                 ELSE Ent(<< "ADDX", "ADDSX", "SUBX", "SUBSX" >>[2 * i.op + i.S + 1], i.sf, i.rd, i.rn, i.rm, 8 * i.option + i.imm)
          [] i.g = "addsub_reg" ->
                 IF i.shift = 3 \/ (i.sf = 0 /\ i.imm >= WLEN) THEN GENERIC
                 ELSE IF i.shift = 0 /\ i.imm = 0
                 THEN Ent(<< "ADD_R", "ADDS_R", "SUB_R", "SUBS_R" >>[2 * i.op + i.S + 1], i.sf, i.rd, i.rn, i.rm, 0)
                 ELSE Ent(<< "ADD_RS", "ADDS_RS", "SUB_RS", "SUBS_RS" >>[2 * i.op + i.S + 1], i.sf, i.rd, i.rn, i.rm, 64 * i.shift + i.imm)
          [] i.g = "dp_3src" ->
                 IF i.op54 # 0 \/ key \notin {0, 1, 2, 3, 4, 10, 11, 12} \/ (i.sf = 0 /\ key > 1) THEN GENERIC
                 ELSE Ent(CASE key = 0 -> "MADD" [] key = 1 -> "MSUB" [] key = 2 -> "SMADDL" [] key = 3 -> "SMSUBL"
                            [] key = 4 -> "SMULH" [] key = 10 -> "UMADDL" [] key = 11 -> "UMSUBL" [] OTHER -> "UMULH",
                          i.sf, i.rd, i.rn, i.rm, i.ra)
          [] i.g = "ccmp" ->
                 IF i.S = 0 \/ i.o # 0 THEN GENERIC
                 ELSE Ent(<< "CCMN_R", "CCMN_I", "CCMP_R", "CCMP_I" >>[2 * i.op + i.is_imm + 1], i.sf, 0, i.rn,
                          IF i.is_imm = 1 THEN 0 ELSE i.rm, i.cond + 256 * (IF i.is_imm = 1 THEN i.rm ELSE 0) + 65536 * i.nzcv)
          [] i.g = "csel" ->
                 IF i.S = 1 \/ i.b11 = 1 THEN GENERIC
                 ELSE Ent(<< "CSEL", "CSINC", "CSINV", "CSNEG" >>[2 * i.op + i.o2 + 1], i.sf, i.rd, i.rn, i.rm, i.cond)
          [] i.g = "dp_1src" ->
                 CASE i.opcode = 2 /\ i.sf = 0 -> Ent("REVW", 0, i.rd, i.rn, 0, 0)
                   [] i.opcode = 3 /\ i.sf = 1 -> Ent("REV64", 1, i.rd, i.rn, 0, 0)
                   [] i.opcode = 4 -> Ent("CLZ", i.sf, i.rd, i.rn, 0, 0)
                   [] OTHER -> GENERIC
          [] i.g = "dp_2src" ->
                 IF i.opcode \notin {2, 3} \cup 8..11 THEN GENERIC
                 ELSE Ent(IF i.opcode < 4 THEN << "UDIV", "SDIV" >>[i.opcode - 1] ELSE << "LSLV", "LSRV", "ASRV", "RORV" >>[i.opcode - 7],
                          i.sf, i.rd, i.rn, i.rm, 0)
          [] OTHER -> GENERIC

DpImm == { "adr", "addsub_imm", "logical_imm", "move_wide", "bitfield", "extr" }
DpReg == { "logical_reg", "addsub_ext", "addsub_reg", "dp_3src", "ccmp", "csel", "dp_1src", "dp_2src" }
pd_fill(i) ==
    CASE i.g \in DpImm -> fill_dp_imm(i)
      [] i.g \in DpReg -> fill_dp_reg(i)
      [] i.g \in BranchGroups -> fill_branch(i)
      [] OTHER -> fill_ldst(i)

MemOps == { "LDR", "STR", "LDR_PRE", "STR_PRE", "LDR_POST", "STR_POST", "LDR_RO", "STR_RO", "LDRV", "STRV",
            "LDRV_PRE", "STRV_PRE", "LDRV_POST", "STRV_POST", "LDP", "STP", "LDPV", "STPV" }
\* The tier's handlers do not check SP's alignment.
Unchecked(e) == IF e.op \in MemOps /\ e.rn = SP THEN GENERIC ELSE e
pd_fill_tier(i) == Unchecked(pd_fill(i))

(***************************************************************************)
(* The predecoded tier (pd_step of predecode.c): the handlers that execute *)
(* an entry, and the decode cache, direct-mapped by address and validated  *)
(* by the fetched word.                                                    *)
(***************************************************************************)
\* [v, f], with the carries and the overflow derived from the 64-bit words.
pd_awc(x, y, cin, is64) ==
    LET t == u64(x + y)
        r == u64(t + cin)
        w == Trunc(x, 0) + Trunc(y, 0) + cin
    IN  IF is64 = 1
        THEN [v |-> r, f |-> Flags(Bit(r, XLEN - 1) = 1, r = 0, t < x \/ r < t,
                                   Bit(x, XLEN - 1) = Bit(y, XLEN - 1) /\ Bit(x, XLEN - 1) # Bit(r, XLEN - 1))]
        ELSE [v |-> u32(w), f |-> Flags(Bit(w, WLEN - 1) = 1, u32(w) = 0, w >= 2^WLEN,
                                        Signed(w, WLEN) # Signed(x, WLEN) + Signed(y, WLEN) + cin)]

pd_logical_flags(c, r, is64) ==
    [c EXCEPT !.nzcv = Flags(Bit(r, Width(is64) - 1) = 1, Trunc(r, is64) = 0, FALSE, FALSE)]

pd_shift_reg(v, type, amount, is64) ==
    LET a == amount % Width(is64)
    IN  CASE type = 0 -> u64(Trunc(v, is64) * 2^a)
          [] type = 1 -> Lsr(v, a, is64)
          [] type = 2 -> Asr(v, a, is64)
          [] OTHER    -> Ror(v, a, is64)

pd_extend_reg(v, option, shift) ==
    LET w == 2^(option % 4) IN u64((IF option >= 4 THEN sign_extend(v, w) ELSE v % 2^w) * 2^shift)

(* ---- Handlers. ---- *)
pd_branch(c, e) ==
    LET tgt == u64(c.cur + e.imm)
        Take(p) == IF p THEN [c EXCEPT !.pc = tgt] ELSE c
        rd == reg_x(c, e.rd)
    IN  CASE e.op = "B"     -> Take(TRUE)
          [] e.op = "BL"    -> [set_x(c, 30, u64(c.cur + 4)) EXCEPT !.pc = tgt]
          [] e.op = "BCOND" -> Take(cond_holds(c.nzcv, e.rd))
          [] e.op = "CBZ"   -> Take(Trunc(rd, e.w) = 0)
          [] e.op = "CBNZ"  -> Take(Trunc(rd, e.w) # 0)
          [] e.op = "TBZ"   -> Take(Bit(rd, e.rm) = 0)
          [] e.op = "TBNZ"  -> Take(Bit(rd, e.rm) = 1)
          [] e.op = "BR"    -> [c EXCEPT !.pc = reg_x(c, e.rn)]
          [] OTHER          -> [set_x(c, 30, u64(c.cur + 4)) EXCEPT !.pc = reg_x(c, e.rn)]

AluImm == { "ADD_I", "SUB_I", "ADDS_I", "SUBS_I", "AND_I", "ORR_I", "EOR_I", "ANDS_I" }
pd_alu_imm(c, e) ==
    LET s == reg_xsp(c, e.rn)
        n == reg_x(c, e.rn)
        Sum(cin) == LET r == pd_awc(s, e.imm, cin, e.w) IN set_x([c EXCEPT !.nzcv = r.f], e.rd, r.v)
        a == Trunc(And(n, e.imm), e.w)
    IN  CASE e.op = "ADD_I"  -> set_xsp(c, e.rd, Trunc(s + e.imm, e.w))
          [] e.op = "SUB_I"  -> set_xsp(c, e.rd, Trunc(s - e.imm, e.w))
          [] e.op = "ADDS_I" -> Sum(0)
          [] e.op = "SUBS_I" -> Sum(1)
          [] e.op = "AND_I"  -> set_xsp(c, e.rd, a)
          [] e.op = "ORR_I"  -> set_xsp(c, e.rd, Trunc(Or(n, e.imm), e.w))
          [] e.op = "EOR_I"  -> set_xsp(c, e.rd, Trunc(Xor(n, e.imm), e.w))
          [] OTHER           -> set_x(pd_logical_flags(c, a, e.w), e.rd, a)

MoveOps == { "MOVI", "MOVK", "ADR", "ADRP" }
pd_move(c, e) ==
    CASE e.op = "MOVI" -> set_x(c, e.rd, e.imm)
      [] e.op = "MOVK" -> set_x(c, e.rd, Trunc(Or(And(reg_x(c, e.rd), Not(u64(3 * 2^e.rm))), e.imm), e.w))
      [] e.op = "ADR"  -> set_x(c, e.rd, c.cur + e.imm)
      [] OTHER         -> set_x(c, e.rd, c.cur - (c.cur % PAGE) + e.imm)

FieldOps == { "LSL_I", "LSR_I", "ASR_I", "UBFX", "UBFIZ", "SBFX", "EXTR" }
pd_field(c, e) ==
    LET n == reg_x(c, e.rn)
        hi == Trunc(n, e.w)
        lo == Trunc(reg_x(c, e.rm), e.w)
        v == CASE e.op = "LSL_I" -> Lsl(n, e.rm, e.w)
               [] e.op = "LSR_I" -> Lsr(n, e.rm, e.w)
               [] e.op = "ASR_I" -> Asr(n, e.rm, e.w)
               [] e.op = "UBFX"  -> And(n \div 2^e.rm, e.imm)
               [] e.op = "UBFIZ" -> Lsl(And(n, e.imm), e.rm, e.w)
               [] e.op = "SBFX"  -> Asr(Lsl(n, e.rm, e.w), e.imm, e.w)
               [] OTHER -> IF e.imm = 0 THEN lo ELSE Or(Lsl(hi, Width(e.w) - e.imm, e.w), lo \div 2^e.imm)
    IN  set_x(c, e.rd, v)

LogicalReg == { "AND", "BIC", "ORR", "ORN", "EOR", "EON", "ANDS", "BICS", "AND_S", "ORR_S", "EOR_S", "ANDS_S" }
pd_logical(c, e) ==
    LET n == reg_x(c, e.rn)
        m == reg_x(c, e.rm)
        s == pd_shift_reg(m, (e.imm \div 64) % 4, e.imm % 64, e.w)
        op2 == CASE e.op \in {"AND", "ORR", "EOR", "ANDS"} -> m
                 [] e.op \in {"BIC", "ORN", "EON", "BICS"} -> Not(m)
                 [] OTHER -> IF e.imm >= 256 THEN Not(s) ELSE s
        r == Trunc(CASE e.op \in {"ORR", "ORN", "ORR_S"} -> Or(n, op2)
                     [] e.op \in {"EOR", "EON", "EOR_S"} -> Xor(n, op2)
                     [] OTHER -> And(n, op2), e.w)
        Set(v) == set_x(IF e.op \in {"ANDS", "BICS", "ANDS_S"} THEN pd_logical_flags(c, v, e.w) ELSE c, e.rd, v)
    IN  Set(r)

AddReg == { "ADD_R", "SUB_R", "ADDS_R", "SUBS_R", "ADD_RS", "SUB_RS", "ADDS_RS", "SUBS_RS",
            "ADDX", "SUBX", "ADDSX", "SUBSX" }
pd_addsub(c, e) ==
    LET ext == e.op \in {"ADDX", "SUBX", "ADDSX", "SUBSX"}
        sub == e.op \in {"SUB_R", "SUBS_R", "SUB_RS", "SUBS_RS", "SUBX", "SUBSX"}
        S == e.op \in {"ADDS_R", "SUBS_R", "ADDS_RS", "SUBS_RS", "ADDSX", "SUBSX"}
        m == reg_x(c, e.rm)
        op2 == CASE ext -> pd_extend_reg(m, (e.imm \div 8) % 8, e.imm % 8)
                 [] e.op \in {"ADD_R", "SUB_R", "ADDS_R", "SUBS_R"} -> m
                 [] OTHER -> pd_shift_reg(m, (e.imm \div 64) % 4, e.imm % 64, e.w)
        n == IF ext THEN reg_xsp(c, e.rn) ELSE reg_x(c, e.rn)
        d(r) == IF S THEN [c EXCEPT !.nzcv = r.f] ELSE c
        Set(r) == IF ext /\ ~ S THEN set_xsp(d(r), e.rd, r.v) ELSE set_x_sz(d(r), e.rd, e.w, r.v)
    IN  Set(pd_awc(n, IF sub THEN Not(op2) ELSE op2, Bool(sub), e.w))

DpOps == { "MADD", "MSUB", "SMADDL", "SMSUBL", "UMADDL", "UMSUBL", "SMULH", "UMULH", "CSEL", "CSINC", "CSINV",
           "CSNEG", "REV64", "REVW", "CLZ", "UDIV", "SDIV", "LSLV", "LSRV", "ASRV", "RORV" }
\* The value of a multiply, a select, or a one- or two-source operation.
PdValue(c, e) ==
    LET n == reg_x(c, e.rn)
        m == reg_x(c, e.rm)
        a == reg_x(c, e.imm)
        sp == Signed(n, WLEN) * Signed(m, WLEN)
        up == u32(n) * u32(m)
        held == cond_holds(c.nzcv, e.imm)
    IN  CASE e.op = "MADD" -> a + n * m [] e.op = "MSUB" -> a - n * m
          [] e.op = "SMADDL" -> a + sp [] e.op = "SMSUBL" -> a - sp
          [] e.op = "UMADDL" -> a + up [] e.op = "UMSUBL" -> a - up
          [] e.op = "SMULH" -> smulh64(n, m) [] e.op = "UMULH" -> umulh64(n, m)
          [] e.op = "CSEL" -> (IF held THEN n ELSE m)
          [] e.op = "CSINC" -> (IF held THEN n ELSE u64(m + 1))
          [] e.op = "CSINV" -> (IF held THEN n ELSE Not(m))
          [] e.op = "CSNEG" -> (IF held THEN n ELSE u64(-m))
          [] e.op = "REV64" -> RevIn(n, 1, XLEN) [] e.op = "REVW" -> RevIn(u32(n), 1, WLEN)
          [] e.op = "CLZ" -> Clz(n, Width(e.w))
          [] e.op = "UDIV" -> Udiv(n, m, e.w) [] e.op = "SDIV" -> Sdiv(n, m, e.w)
          [] e.op = "LSLV" -> pd_shift_reg(n, 0, m, e.w) [] e.op = "LSRV" -> pd_shift_reg(n, 1, m, e.w)
          [] e.op = "ASRV" -> pd_shift_reg(n, 2, m, e.w) [] OTHER -> pd_shift_reg(n, 3, m, e.w)
pd_value(c, e) == set_x(c, e.rd, Trunc(PdValue(c, e), e.w))

CcmpOps == { "CCMP_I", "CCMP_R", "CCMN_I", "CCMN_R" }
pd_ccmp(c, e) ==
    LET m == IF e.op \in {"CCMP_I", "CCMN_I"} THEN (e.imm \div 256) % 32 ELSE reg_x(c, e.rm)
        n == reg_x(c, e.rn)
        r == IF e.op \in {"CCMP_I", "CCMP_R"} THEN pd_awc(n, Not(m), 1, e.w) ELSE pd_awc(n, m, 0, e.w)
    IN  [c EXCEPT !.nzcv = IF cond_holds(@, e.imm % 16) THEN r.f ELSE e.imm \div 65536]

FP_GUARD(c) == c.fp_trapped

VecOps == { "LDRV", "STRV", "LDRV_PRE", "STRV_PRE", "LDRV_POST", "STRV_POST", "LDPV", "STPV", "LDRLITV" }

\* The base after the access: a writeback adds the offset, before or after.
pd_back(c, e, base, plain) == IF e.op \in plain THEN c ELSE set_xsp(c, e.rn, base + e.imm)
pd_address(c, e, post) == u64(IF e.op \in post THEN reg_xsp(c, e.rn) ELSE reg_xsp(c, e.rn) + e.imm)

IntOps == { "LDR", "LDR_PRE", "LDR_POST", "STR", "STR_PRE", "STR_POST" }
pd_ldst(c, e) ==
    LET size == e.rm \div 4
        va == pd_address(c, e, {"LDR_POST", "STR_POST"})
        Back(d) == pd_back(d, e, reg_xsp(c, e.rn), {"LDR", "STR"})
    IN  IF e.op \in {"LDR", "LDR_PRE", "LDR_POST"}
        THEN OnRead(c, va, 2^size, LAMBDA v : Back(set_x(c, e.rd, LoadValue(v, size, e.rm % 4))))
        ELSE OnWrite(c, va, 2^size, reg_x(c, e.rd), Back)

pd_register_offset(c, e) ==
    LET va == u64(reg_xsp(c, e.rn) + pd_extend_reg(reg_x(c, e.rm), (e.imm \div 8) % 8, e.imm % 8))
    IN  IF e.op = "LDR_RO" THEN OnRead(c, va, 2^e.w, LAMBDA v : set_x(c, e.rd, v))
        ELSE OnWrite(c, va, 2^e.w, reg_x(c, e.rd), LAMBDA d : d)

pd_literal(c, e) ==
    LET va == u64(c.cur + e.imm)
    IN  IF e.op = "LDRLIT" THEN OnRead(c, va, 4 * 2^e.w, LAMBDA v : set_x(c, e.rd, v))
        ELSE vreg_load(c, e.rd, va, e.rm, LAMBDA d : d)

pd_vector(c, e) ==
    LET va == pd_address(c, e, {"LDRV_POST", "STRV_POST"})
        Back(d) == pd_back(d, e, reg_xsp(c, e.rn), {"LDRV", "STRV"})
    IN  IF e.op \in {"LDRV", "LDRV_PRE", "LDRV_POST"} THEN vreg_load(c, e.rd, va, e.rm, Back)
        ELSE vreg_store(c, e.rd, va, e.rm, Back)

\* Both loads land before either register is written.
PairBack(c, e, base) == IF e.kind = "OFF" THEN c ELSE set_xsp(c, e.rn, base + e.imm)
PairVa(c, e) == u64(IF e.kind = "POST" THEN reg_xsp(c, e.rn) ELSE reg_xsp(c, e.rn) + e.imm)
pd_pair(c, e) ==
    LET va == PairVa(c, e)
        Back(d) == PairBack(d, e, reg_xsp(c, e.rn))
    IN  IF e.op = "LDP"
        THEN OnRead(c, va, e.w, LAMBDA a : OnRead(c, u64(va + e.w), e.w, LAMBDA b : Back(set_x(set_x(c, e.rd, a), e.rm, b))))
        ELSE OnWrite(c, va, e.w, reg_x(c, e.rd), LAMBDA d : OnWrite(d, u64(va + e.w), e.w, reg_x(d, e.rm), Back))
pd_pair_vector(c, e) ==
    LET va == PairVa(c, e)
        Back(d) == PairBack(d, e, reg_xsp(c, e.rn))
    IN  IF e.op = "LDPV" THEN vreg_load(c, e.rd, va, e.w, LAMBDA d : vreg_load(d, e.rm, u64(va + e.w), e.w, Back))
        ELSE vreg_store(c, e.rd, va, e.w, LAMBDA d : vreg_store(d, e.rm, u64(va + e.w), e.w, Back))

pd_dispatch(c, e, i) ==
    CASE e.op = "GENERIC" -> exec_a64(c, i)
      [] e.op = "NOP" -> c
      [] e.op \in {"B", "BL", "BCOND", "CBZ", "CBNZ", "TBZ", "TBNZ", "BR", "BLR"} -> pd_branch(c, e)
      [] e.op \in AluImm -> pd_alu_imm(c, e)
      [] e.op \in MoveOps -> pd_move(c, e)
      [] e.op \in FieldOps -> pd_field(c, e)
      [] e.op \in LogicalReg -> pd_logical(c, e)
      [] e.op \in AddReg -> pd_addsub(c, e)
      [] e.op \in DpOps -> pd_value(c, e)
      [] e.op \in CcmpOps -> pd_ccmp(c, e)
      [] e.op \in VecOps /\ FP_GUARD(c) -> cpu_fp_trap(c)
      [] e.op \in IntOps -> pd_ldst(c, e)
      [] e.op \in {"LDR_RO", "STR_RO"} -> pd_register_offset(c, e)
      [] e.op = "LDRLIT" \/ (e.op = "LDRLITV" /\ ~ FP_GUARD(c)) -> pd_literal(c, e)
      [] e.op \in {"LDP", "STP"} -> pd_pair(c, e)
      [] e.op \in {"LDPV", "STPV"} /\ ~ FP_GUARD(c) -> pd_pair_vector(c, e)
      [] OTHER -> pd_vector(c, e)

(* ---- The cache: each entry keeps the word it was filled from. ---- *)
EmptyCache == [k \in 0 .. PD_SIZE - 1 |-> [insn |-> [g |-> "none"], e |-> GENERIC]]
PdSlot(pc) == (pc \div 4) % PD_SIZE
pd_lookup(cache, pc, i) ==
    IF cache[PdSlot(pc)].insn = i THEN cache ELSE [cache EXCEPT ![PdSlot(pc)] = [insn |-> i, e |-> pd_fill_tier(i)]]

\* One instruction of pd_step: [c, cache].
pd_step(c, cache, code) ==
    LET d == [c EXCEPT !.cur = c.pc]
    IN  IF c.stop \/ c.halted THEN [c |-> c, cache |-> cache]
        ELSE IF c.pc \notin DOMAIN code THEN [c |-> fetch_abort(d), cache |-> cache]
        ELSE LET With(k) == [c |-> [pd_dispatch([d EXCEPT !.pc = u64(c.pc + 4)], k[PdSlot(c.pc)].e, code[c.pc])
                                       EXCEPT !.icount = @ + 1],
                             cache |-> k]
             IN  With(pd_lookup(cache, c.pc, code[c.pc]))
===============================================================================
