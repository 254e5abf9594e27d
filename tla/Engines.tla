-------------------------------- MODULE Engines -------------------------------
(***************************************************************************)
(* The execution engines side by side on the same program: the plain       *)
(* interpreter (cpu_step), the predecoded tier (pd_step) and the JIT.  The  *)
(* JIT runs a block, the interpreter catches up instruction by             *)
(* instruction, and the tier follows it.  The guest's exception handlers   *)
(* are part of the system: they map a page that faulted, enable the        *)
(* floating-point unit, and return.                                        *)
(***************************************************************************)
EXTENDS BackendX86

CONSTANTS
    Families,    \* [programs, starts]: programs, and the states they start in
    MaxInsns     \* instructions a test may execute

VARIABLES
    test,        \* the program under test
    ref,         \* the CPU under the interpreter
    pd,          \* [c, cache]: the CPU under the predecoded tier, and its cache
    jit,         \* the JIT: the block it executes, or the CPU it left
    faults       \* instructions of ref that ended in a fault the handler served

vars == << test, ref, pd, jit, faults >>

(* ---- The guest's handlers. ---- *)
Vectors == VBAR .. VBAR + 15
InHandler(c) == c.pc \in Vectors
PageFault(c) == c.esr.ec \in {"dabort_lower", "dabort_same"} /\ Page(c.far) \in DOMAIN c.perm
Servable(c) == InHandler(c) /\ (PageFault(c) \/ c.esr.ec \in {"fp", "svc"})
Mapped == {"r", "w"}

\* CPACR_EL1 is written through a register that is saved around it.
EnableFp(c) == LET d == do_msr([c EXCEPT !.x[0] = 3], [f |-> "CPACR", rt |-> 0]) IN [d EXCEPT !.x[0] = c.x[0]]
Serve(c) ==
    eret(CASE c.esr.ec = "fp"  -> EnableFp(c)
           [] c.esr.ec = "svc" -> c
           [] OTHER            -> [c EXCEPT !.perm[Page(c.far)] = Mapped])

(* ---- The system.  A program is a sequence of instructions at Origin. ---- *)
Origin == 16
Code(p) == [a \in { Origin + 4 * (k - 1) : k \in 1 .. Len(p) } |-> p[((a - Origin) \div 4) + 1]]
Left(c) == [c |-> c, on |-> FALSE]
InBlock(j) == IF j.on THEN j ELSE Left(j.c)
Init ==
    /\ \E k \in DOMAIN Families : \E p \in Families[k].programs : \E s \in Families[k].starts :
           test = [code |-> Code(p), start |-> s, jit |-> Families[k].jit]
    /\ ref = test.start
    /\ pd = [c |-> test.start, cache |-> EmptyCache]
    /\ jit = Left(test.start)
    /\ faults = 0

Stopped(c) == InHandler(c) \/ c.halted \/ c.stop
\* a has yet to execute what b has.
Behind(a, b) == ~ Stopped(a) /\ (a.icount < b.icount \/ (a.icount = b.icount /\ InHandler(b)))
RefSettled == ~ jit.on /\ ~ (test.jit /\ Behind(ref, jit.c))
PdSettled == ~ Behind(pd.c, ref)
Settled == RefSettled /\ PdSettled
May(c) == ~ Stopped(c) /\ c.icount < MaxInsns

JitEnter ==
    /\ test.jit /\ Settled /\ May(jit.c)
    /\ jit' = IF jit.c.pc \in DOMAIN test.code THEN be_start(jit.c, test.code)
              ELSE Left(fetch_abort([jit.c EXCEPT !.cur = jit.c.pc]))
    /\ UNCHANGED << test, ref, pd, faults >>
\* An access takes the slow way when its page is not in the D-TLB.
JitOp ==
    /\ jit.on
    /\ \E slow \in (IF jit.ops[jit.k].op \in Accesses THEN BOOLEAN ELSE {FALSE}) :
          jit' = InBlock(jit_op(jit, slow))
    /\ UNCHANGED << test, ref, pd, faults >>
Interpret ==
    /\ ~ jit.on /\ PdSettled
    /\ IF test.jit THEN Behind(ref, jit.c) ELSE May(ref)
    /\ ref' = cpu_step(ref, test.code)
    /\ UNCHANGED << test, pd, jit, faults >>
Predecoded ==
    /\ ~ PdSettled
    /\ pd' = pd_step(pd.c, pd.cache, test.code)
    /\ UNCHANGED << test, ref, jit, faults >>
Handlers ==
    /\ Settled /\ Servable(ref) /\ Servable(pd.c) /\ (test.jit => Servable(jit.c))
    /\ ref' = Serve(ref)
    /\ pd' = [pd EXCEPT !.c = Serve(pd.c)]
    /\ jit' = IF test.jit THEN Left(Serve(jit.c)) ELSE jit
    /\ faults' = faults + Bool(ref.esr.ec # "svc")
    /\ UNCHANGED test

Next == JitEnter \/ JitOp \/ Interpret \/ Predecoded \/ Handlers
Spec == Init /\ [][Next]_vars

(* ---- Properties. ---- *)
CpuOK(c) ==
    /\ \A r \in Gprs : c.x[r] \in Word
    /\ \A e \in {0, 1} : c.sp_el[e] \in Word
    /\ \A t \in VRegs : c.v[t] \in 0 .. 2^16 - 1
    /\ \A a \in MemBytes : c.mem[a] \in {0, 1}
    /\ c.nzcv \in 0..15 /\ c.daif \in 0..15 /\ c.el \in {0, 1} /\ c.sp_sel \in {0, 1}
    /\ c.pc \in Word /\ c.elr \in Word /\ c.far \in Word
    /\ c.excl_valid \in {0, 1} /\ c.ldst_unpriv = 0
\* Every register, address and flag stays in its width, and no instruction
\* leaves the unprivileged-access mark set (cpu.h, ldst_unpriv).
TypeOK == CpuOK(ref) /\ CpuOK(pd.c) /\ CpuOK(jit.c)

\* After every instruction the predecoded tier is in the state the plain
\* interpreter is in, exceptions, memory and the count included (pd_step).
\* SEV and SEVL, and PRFM from a misaligned stack pointer, are the exceptions.
PdKnown ==
    \E a \in DOMAIN test.code : LET i == test.code[a] IN
        \/ i.g = "hint" /\ i.f \in {"SEV", "SEVL"}
        \/ i.g = "ldst" /\ i.V = 0 /\ i.size = 3 /\ i.opc = 2 /\ i.rn = SP
PdMatches == PdSettled /\ ~ PdKnown => pd.c = ref

\* The cached decision to trap floating point agrees with CPACR_EL1 and the
\* exception level after every instruction, exception and return
\* (cpu_refresh_fp_trap and its callers).
FpTrapCached == \A c \in {ref, pd.c} : c.fp_trapped = FpTraps(c.cpacr, c.el)

(* ---- The JIT. ---- *)
\* A flag definition is dead, and an access that may fault comes before the
\* next definition.
FlagsLost(ops) ==
    \E k \in DOMAIN ops : /\ ops[k].dead
                          /\ \E m \in k + 1 .. Len(ops) : /\ ops[m].op \in Accesses \cup {"ATOMIC"}
                                                          /\ \A d \in k + 1 .. m : ~ op_writes_flags(ops[d])
\* A dead comparison with the zero register.
ZeroDefined(ops) ==
    \E k \in DOMAIN ops : ops[k].dead /\ ops[k].dst = VREG_ZERO /\ ops[k].op \in {"ADDS", "SUBS", "ANDS"} /\ VREG_ZERO \in {ops[k].a, ops[k].b}
FlagsOrZeroLost(ops) == FlagsLost(ops) \/ ZeroDefined(ops)
JitKnown ==
    \E a \in DOMAIN test.code : LET i == test.code[a] IN
        \/ i.g = "ldst" /\ i.mode = "ro" /\ i.rn = SP
        \/ i.g = "ldst" /\ i.V = 0 /\ i.mode = "atomic" /\ i.o3 = 0 /\ i.aop >= 4 /\ i.size >= 2
        \/ FlagsOrZeroLost(jit_fe_block(test.start, test.code, a))
\* When the JIT leaves a block the CPU is in the state the interpreter is in
\* after the same instructions: registers, flags, memory, system registers,
\* the exception taken and the count.
JitMatches ==
    test.jit /\ Settled /\ ~ PdKnown /\ jit.c # ref => JitKnown \/ [jit.c EXCEPT !.cur = 0] = [ref EXCEPT !.cur = 0]

\* A host register holds at most one guest register, and a clean one agrees
\* with its home, so that any slow way, eviction or exit finds the truth.
RegsCoherent ==
    jit.on =>
        /\ \A v \in DOMAIN jit.map : v \in jit.dirty \/ jit.map[v].x = Home(jit, v)
        /\ \A v, u \in DOMAIN jit.map : v # u => jit.map[v].r # jit.map[u].r
        /\ \A t \in DOMAIN jit.vmap : t \in jit.vdirty \/ jit.vmap[t] = jit.c.v[t]
\* The zero register is never defined: its host register holds 0 and is
\* never stored (def_alias).
ZeroKept == jit.on /\ VREG_ZERO \in DOMAIN jit.map => VREG_ZERO \notin jit.dirty /\ jit.map[VREG_ZERO].x = 0
(* ---- Restarting after a fault. ---- *)
AllMapped(c) == cpu_refresh_fp_trap([c EXCEPT !.perm = [p \in DOMAIN @ |-> Mapped], !.cpacr = 3])
RECURSIVE Straight(_, _, _)
\* The program run for n instructions, its system calls served.
Straight(c, code, n) ==
    IF InHandler(c) /\ c.esr.ec = "svc" THEN Straight(Serve(c), code, n)
    ELSE IF n = 0 THEN c ELSE Straight(cpu_step(c, code), code, n - 1)

Seen(c) == << c.x, c.sp_el, c.v, c.mem, c.nzcv, c.pc, c.el, c.sp_sel, c.daif >>
Exclusives == \E a \in DOMAIN test.code : test.code[a].g = "exclusive" /\ test.code[a].k \in {"ex", "exp", "cas", "casp"}
\* Pages that fault and are mapped by the handler, and a floating-point unit
\* enabled on demand, leave no trace: registers, memory and flags are those
\* of a run in which everything was mapped and enabled from the start
\* (the accesses of decode.c write back and commit only after the last
\* fault).  An exception clears the exclusive monitor, and CAS and CASP
\* across two pages compare again, so these are excluded.
RestartExact ==
    ref.pc \notin DOMAIN test.code \cup Vectors /\ faults > 0 /\ ~ Exclusives
        => Seen(ref) = Seen(Straight(AllMapped(test.start), test.code, ref.icount - faults))

(* ---- Memory set and copy. ---- *)
Triple ==
    \A k \in 0..2 : Origin + 4 * k \in DOMAIN test.code /\ test.code[Origin + 4 * k].g = "mops" /\ test.code[Origin + 4 * k].stage = k
MemAfter(c, i) ==
    LET d == c.x[i.rd]  s == c.x[i.rs]
        n == MinOf(c.x[i.rn], IF i.set = 0 /\ i.move = 1 THEN MOVE_CLAMP ELSE MOPS_CLAMP)
    IN  [a \in MemBytes |-> IF a \notin d .. d + n - 1 THEN c.mem[a]
                            ELSE IF i.set = 1 THEN s % 2 ELSE c.mem[s + (a - d)]]
\* Prologue, main and epilogue together move (or set) exactly the bytes asked
\* for, whatever the overlap, the page boundaries, the faults on the way and
\* the pages the D-TLB holds (mops_set, mops_cpy).
MopsExact ==
    Triple /\ ref.pc = Origin + 12 => ref.mem = MemAfter(test.start, test.code[Origin]) /\ ref.x[test.code[Origin].rn] = 0

\* What the engines cache is coherent with the CPU: the floating-point trap,
\* the host registers of the JIT; and every value keeps its width.
CachesCoherent == TypeOK /\ FpTrapCached /\ RegsCoherent

===============================================================================
