------------------------------ MODULE JitProofs ------------------------------
(***************************************************************************)
(* Proofs about the JIT's code cache, second part: every guest instruction *)
(* keeps JitInv, whether a block or the interpreter executes it, so do the *)
(* dispatcher and the run loop, and what follows for every reachable state.*)
(***************************************************************************)
EXTENDS JitStores

\* The instruction that executes comes from a block or from memory.
LEMMA NowTyped ==
  ASSUME JitInv, NEW op, Executes(op)
  PROVE  /\ Now \in Code /\ Now.op = op
         /\ loc = "block" \/ loc = "interp"
         /\ op # "undef" => Target(Now) \in PCs /\ Advance \in Cpus
<1>1. cpu \in Cpus /\ cpu.pc \in PCs /\ cpu.pc[1] \in Pages /\ cpu.pc[2] \in Offs
  BY Zenon DEF JitInv, Inv, Cpus, PCs
<1>2. Now \in Code
  <2>1. CASE loc = "block"
    <3>1. at \in DOMAIN jit.arena
      BY <2>1, ArenaTyped DEF JitInv, Inv, Located, Sound
    <3> QED BY <2>1, <3>1, ArenaTyped, Zenon DEF JitInv, Inv, Sound, Blocks, Now, Code
  <2>2. CASE loc = "interp"
    <3>1. cpu.map[cpu.pc[1]] \in Frames
      BY <1>1, <2>2, Zenon DEF Cpus, Executes
    <3> QED BY <1>1, <2>2, <3>1 DEF Cpus, Now
  <2> QED BY <2>1, <2>2, Zenon DEF Executes
<1>3. ASSUME op # "undef" PROVE Target(Now) \in PCs
  <2>1. Now \in Insns
    BY <1>2, <1>3 DEF Code, Erased, Executes
  <2>2. Now.dp \in Nat /\ Now.off \in Offs
    BY <2>1, JitAssumption, Zenon
  <2>3. cpu.pc[1] \in Nat /\ NPages \in Nat /\ NPages > 0
    BY <1>1, JitAssumption DEF Pages
  <2> DEFINE s == cpu.pc[1] + Now.dp
  <2>4. s \in Nat
    BY <2>2, <2>3
  <2> HIDE DEF s
  <2>5. s % NPages \in 0..NPages - 1
    BY <2>3, <2>4
  <2> QED BY <2>2, <2>5, Zenon DEF Target, PCs, Pages, s
<1>4. ASSUME op # "undef" PROVE Advance \in Cpus
  BY <1>1, <1>3, <1>4, Zenon DEF Advance, Cpus
<1> QED BY <1>2, <1>3, <1>4, Zenon DEF Executes

-----------------------------------------------------------------------------
(* Ways out of an instruction *)

\* A static exit (ExitStatic) keeps the invariant: the chained block was
\* compiled for where the guest goes, unless the instruction was a TLBI or
\* changed the context, and then the jump is behind the dispatcher's back.
LEMMA StaticExit ==
  ASSUME JitInv, NEW c \in Cpus, NEW j, Sound(j), Forgets(jit, j), j.ctx = jit.ctx,
         loc = "block" \/ loc = "interp", ExitStatic(c, j),
         cpu.raw => c.raw, clean /\ ~c.raw => Coherent(c, j), c.pc = Target(Now),
         Now.op = "tlbi" => ~j.jc, Now.op # "tlbi" => c.map = cpu.map
  PROVE  JitInv'
<1>1. cpu' = c /\ jit' = j
  BY Zenon DEF ExitStatic
<1>2. /\ Located(jit, loc, at, prev) /\ clean \in BOOLEAN
      /\ clean /\ ~cpu.raw /\ at # 0 => Running(cpu, jit, at)
  BY Zenon DEF JitInv, Inv
<1>3. /\ DOMAIN jit.arena = 1..Len(jit.arena) /\ DOMAIN j.arena = 1..Len(j.arena)
      /\ Len(j.arena) = Len(jit.arena) /\ Len(j.arena) \in Nat
  BY ArenaTyped, Zenon DEF JitInv, Inv, Sound, Forgets
<1>4. CASE loc = "interp"
  <2>1. loc' \in {"interp", "dispatch"} /\ at' = at /\ prev' = prev /\ clean' = clean
    BY <1>4, Zenon DEF ExitStatic, Interpreted
  <2>2. at = 0 /\ prev = 0
    BY <1>2, <1>4, Zenon DEF Located
  <2>3. Located(j, loc', 0, 0)
    BY <2>1, <1>3 DEF Located
  <2>4. Inv(c, j, loc', 0, 0, clean)
    BY <2>3, <1>2, Zenon DEF Inv
  <2> QED BY <2>1, <2>2, <2>4, <1>1, Zenon DEF JitInv
<1>5. CASE loc = "block"
  <2> DEFINE b == j.arena[at].chain
  <2>1. at \in DOMAIN j.arena /\ at \in DOMAIN jit.arena /\ at # 0
    BY <1>2, <1>3, <1>5 DEF Located
  <2>2. /\ j.arena[at].pc = jit.arena[at].pc /\ j.arena[at].ctx = jit.arena[at].ctx
        /\ j.arena[at].frame = jit.arena[at].frame /\ j.arena[at].insn = jit.arena[at].insn
        /\ Now = jit.arena[at].insn
    BY <2>1, <1>5, Zenon DEF Forgets, Now
  <2>3. CASE b = 0
    <3>1. loc' = "dispatch" /\ at' = 0 /\ prev' = at /\ clean' = clean
      BY <1>5, <2>3, Zenon DEF ExitStatic, ToDispatcher
    <3>2. Located(j, "dispatch", 0, at)
      BY <1>3, <2>1 DEF Located
    <3>3. ASSUME clean, ~c.raw PROVE Left(c, j, at)
      BY <3>3, <1>2, <2>1, <2>2, Zenon DEF Left, Running
    <3>4. Inv(c, j, "dispatch", 0, at, clean)
      BY <3>2, <3>3, <1>2, Zenon DEF Inv
    <3> QED BY <3>1, <3>4, <1>1, Zenon DEF JitInv
  <2>4. CASE b # 0
    <3>1. at' = b /\ prev' = 0 /\ loc' = "block" /\ clean' = (clean /\ Synced(c, j))
      BY <1>5, <2>4, Zenon DEF ExitStatic, JumpTo
    <3>2. b \in DOMAIN j.arena /\ j.arena[b].live /\ Follows(j.arena[at], j.arena[b])
      BY <2>1, <2>4, Zenon DEF Sound, Linked
    <3>3. Located(j, "block", b, 0)
      BY <1>3, <3>2, <2>4 DEF Located
    <3>4. ASSUME clean, Synced(c, j), ~c.raw PROVE Running(c, j, b)
      <4>1. Running(cpu, jit, at) /\ Coherent(c, j)
        BY <3>4, <1>2, <2>1, Zenon
      <4>2. Now.op # "tlbi" /\ c.map = cpu.map
        BY <3>4, Zenon DEF Synced
      <4>3. j.arena[b].pc = c.pc
        <5>1. j.arena[b].pc = <<(j.arena[at].pc[1] + j.arena[at].insn.dp) % NPages, j.arena[at].insn.off>>
          BY <3>2, Zenon DEF Follows
        <5>2. jit.arena[at].pc = cpu.pc
          BY <4>1, Zenon DEF Running
        <5> QED BY <5>1, <5>2, <2>2, ZenonT(60) DEF Target
      <4>4. j.arena[b].ctx = c.ctx
        BY <3>2, <3>4, <2>2, <4>1, Zenon DEF Follows, Running, Synced
      <4>5. j.arena[b].frame = j.arena[at].frame
        BY <2>1, <2>2, <2>4, <4>1, <4>2, Zenon DEF Coherent, SameFrame
      <4>6. j.arena[b].frame = c.map[j.arena[b].pc[1]]
        BY <4>1, <4>2, <4>5, <3>2, <2>2, ZenonT(60) DEF Running, Follows
      <4>7. j.arena[b].insn = Word(c, j.arena[b])
        BY <4>1, <3>2, Zenon DEF Coherent, Faithful
      <4> QED BY <3>4, <4>3, <4>4, <4>6, <4>7, Zenon DEF Running
    <3> HIDE DEF b
    <3>5. Inv(c, j, "block", b, 0, clean /\ Synced(c, j))
      BY <3>3, <3>4, <1>2, Zenon DEF Inv
    <3> QED BY <3>1, <3>5, <1>1, Zenon DEF JitInv
  <2> QED BY <2>3, <2>4, Zenon
<1> QED BY <1>4, <1>5, Zenon

\* A plain exit (exit_plain) goes through the dispatcher with nothing to chain.
LEMMA PlainExit ==
  ASSUME JitInv, NEW c \in Cpus, NEW j, Sound(j),
         loc = "block" \/ loc = "interp", ExitPlain(c, j),
         cpu.raw => c.raw, clean /\ ~c.raw => Coherent(c, j)
  PROVE  JitInv'
<1>1. cpu' = c /\ jit' = j
  BY Zenon DEF ExitPlain
<1>2. Located(jit, loc, at, prev) /\ clean \in BOOLEAN
  BY Zenon DEF JitInv, Inv
<1>3. loc' \in {"interp", "dispatch"} /\ at' = 0 /\ prev' = 0 /\ clean' = clean
  <2>1. CASE loc = "interp"
    <3>1. loc' \in {"interp", "dispatch"} /\ at' = at /\ prev' = prev /\ clean' = clean
      BY <2>1, Zenon DEF ExitPlain, Interpreted
    <3> QED BY <3>1, <2>1, <1>2, Zenon DEF Located
  <2>2. CASE loc = "block"
    BY <2>2, Zenon DEF ExitPlain, ToDispatcher
  <2> QED BY <2>1, <2>2, Zenon
<1>4. Len(j.arena) \in Nat
  BY ArenaTyped, Zenon DEF Sound
<1>5. Located(j, loc', 0, 0)
  BY <1>3, <1>4 DEF Located
<1>6. Inv(c, j, loc', 0, 0, clean)
  BY <1>2, <1>5, Zenon DEF Inv
<1> QED BY <1>1, <1>3, <1>6, Zenon DEF JitInv

\* An indirect exit (IRO_JMPIND) enters a block of the indirect-branch cache
\* only in the context the probe compares with.
LEMMA IndirectExit ==
  ASSUME JitInv, NEW t \in PCs, loc = "block" \/ loc = "interp",
         ExitIndirect([cpu EXCEPT !.pc = t], jit)
  PROVE  JitInv'
<1> DEFINE c == [cpu EXCEPT !.pc = t]
           b == jit.jcache[t]
<1>1. cpu' = c /\ jit' = jit
  BY Zenon DEF ExitIndirect
<1>2. /\ Located(jit, loc, at, prev) /\ clean \in BOOLEAN /\ cpu \in Cpus /\ Sound(jit)
      /\ clean /\ ~cpu.raw => Coherent(cpu, jit)
  BY Zenon DEF JitInv, Inv
<1>3. c \in Cpus /\ c.pc = t /\ c.mem = cpu.mem /\ c.map = cpu.map /\ c.ctx = cpu.ctx /\ c.raw = cpu.raw
  BY <1>2, Zenon DEF Cpus
<1> HIDE DEF c
<1>4. clean /\ ~c.raw => Coherent(c, jit)
  BY <1>2, <1>3, SameGuest, Zenon
<1>5. DOMAIN jit.arena = 1..Len(jit.arena) /\ Len(jit.arena) \in Nat
  BY ArenaTyped, <1>2, Zenon DEF Sound
<1>6. CASE loc = "block" /\ b # 0 /\ jit.arena[b].ctx = jit.ctx
  <2>1. at' = b /\ prev' = 0 /\ loc' = "block" /\ clean' = (clean /\ Synced(c, jit))
    BY <1>3, <1>6, Zenon DEF ExitIndirect, JumpTo, c
  <2>2. b \in DOMAIN jit.arena /\ jit.arena[b].live /\ jit.arena[b].pc = t
    BY <1>2, <1>6, Zenon DEF Sound, Linked
  <2>3. Located(jit, "block", b, 0)
    BY <1>5, <1>6, <2>2 DEF Located
  <2>4. ASSUME clean, Synced(c, jit), ~c.raw PROVE Running(c, jit, b)
    <3>1. Coherent(c, jit) /\ jit.jc /\ jit.ctx = c.ctx
      BY <2>4, <1>4, Zenon DEF Synced
    <3>2. jit.arena[b].frame = c.map[t[1]]
      BY <3>1, <1>6, Zenon DEF Coherent, CacheMapped
    <3>3. jit.arena[b].insn = Word(c, jit.arena[b])
      BY <3>1, <2>2, Zenon DEF Coherent, Faithful
    <3> QED BY <2>2, <2>4, <3>1, <3>2, <3>3, <1>3, <1>6, Zenon DEF Running
  <2> HIDE DEF b
  <2>5. Inv(c, jit, "block", b, 0, clean /\ Synced(c, jit))
    BY <1>2, <1>3, <1>4, <2>3, <2>4, Zenon DEF Inv
  <2> QED BY <2>1, <2>5, <1>1, Zenon DEF JitInv
<1>7. CASE ~(loc = "block" /\ b # 0 /\ jit.arena[b].ctx = jit.ctx)
  <2>1. ExitPlain(c, jit)
    BY <1>3, <1>7, Zenon DEF ExitIndirect, ExitPlain, c
  <2> QED BY <2>1, <1>2, <1>3, <1>4, PlainExit, Zenon
<1> QED BY <1>6, <1>7, Zenon


-----------------------------------------------------------------------------
(* Instructions *)

\* An instruction that writes one page and whose hook left no live block on
\* it keeps the invariant.
LEMMA WriteExit ==
  ASSUME JitInv, NEW op, Executes(op), op # "undef", op # "tlbi",
         NEW f \in Frames, NEW o \in Offs, NEW i \in Code,
         NEW j, Sound(j), Forgets(jit, j), NoneLive(j, f), SameView(jit, j),
         ExitStatic(Poke(Advance, f, o, i), j)
  PROVE  JitInv'
<1> DEFINE c == Poke(Advance, f, o, i)
<1>1. /\ Now.op = op /\ (loc = "block" \/ loc = "interp")
      /\ Target(Now) \in PCs /\ Advance \in Cpus
  BY NowTyped, Zenon
<1>2. cpu \in Cpus /\ Sound(jit) /\ (clean /\ ~cpu.raw => Coherent(cpu, jit))
  BY Zenon DEF JitInv, Inv
<1>3. /\ Advance.mem = cpu.mem /\ Advance.map = cpu.map /\ Advance.raw = cpu.raw
      /\ Advance.pc = Target(Now)
  BY <1>2, Zenon DEF Advance, Cpus
<1>4. /\ c \in Cpus /\ c.map = cpu.map /\ c.pc = Target(Now) /\ c.raw = cpu.raw
      /\ c.mem = [cpu.mem EXCEPT ![f] = [cpu.mem[f] EXCEPT ![o] = i]]
  BY <1>1, <1>3, PokeTyped
<1> HIDE DEF c
<1>5. Agree(cpu, c, j)
  BY <1>2, <1>4, PokeAgrees, Zenon
<1>6. clean /\ ~c.raw => Coherent(c, j)
  <2>1. j.jc => jit.jc /\ c.map = cpu.map
    BY <1>4, Zenon DEF SameView
  <2> QED BY <1>2, <1>4, <1>5, <2>1, ForgetsCoherent, Zenon
<1>7. ExitStatic(c, j) /\ j.ctx = jit.ctx
  BY Zenon DEF c, SameView
<1>8. Now.op # "tlbi"
  BY <1>1, Zenon
<1> QED BY <1>1, <1>4, <1>6, <1>7, <1>8, StaticExit, Zenon

\* An instruction that changes neither memory, translation nor the code cache
\* keeps the invariant.
LEMMA PureExit ==
  ASSUME JitInv, NEW op, Executes(op), op # "tlbi",
         NEW c \in Cpus, c.mem = cpu.mem, c.map = cpu.map, c.raw = cpu.raw,
         (ExitStatic(c, jit) /\ c.pc = Target(Now)) \/ ExitPlain(c, jit)
  PROVE  JitInv'
<1>1. Now.op # "tlbi" /\ (loc = "block" \/ loc = "interp")
  BY NowTyped, Zenon
<1>2. cpu \in Cpus /\ Sound(jit) /\ (clean /\ ~cpu.raw => Coherent(cpu, jit))
  BY Zenon DEF JitInv, Inv
<1>3. clean /\ ~c.raw => Coherent(c, jit)
  BY <1>2, SameGuest, Zenon
<1>4. Forgets(jit, jit)
  BY Zenon DEF Forgets
<1>5. CASE ExitStatic(c, jit) /\ c.pc = Target(Now)
  BY <1>1, <1>2, <1>3, <1>4, <1>5, StaticExit, Zenon
<1>6. CASE ExitPlain(c, jit)
  BY <1>1, <1>2, <1>3, <1>6, PlainExit, Zenon
<1> QED BY <1>5, <1>6, Zenon


\* Every instruction keeps the invariant: one step per instruction.
LEMMA InstructionSafe == ASSUME JitInv, Instruction PROVE JitInv'
<1>1. /\ cpu \in Cpus /\ Sound(jit) /\ (clean /\ ~cpu.raw => Coherent(cpu, jit))
      /\ cpu.plan.written \subseteq Code
  BY JitAssumption, Zenon DEF JitInv, Inv, Cpus, Code
<1>2. Forgets(jit, jit) /\ SameView(jit, jit)
  BY Zenon DEF Forgets, SameView
<1>3. /\ Advance.mem = cpu.mem /\ Advance.map = cpu.map /\ Advance.raw = cpu.raw
      /\ Advance.pc = Target(Now) /\ Advance.plan = cpu.plan
  BY <1>1, Zenon DEF Advance, Cpus
<1>4. /\ exception_take(cpu) \in Cpus /\ exception_take(cpu).mem = cpu.mem
      /\ exception_take(cpu).map = cpu.map /\ exception_take(cpu).raw = cpu.raw
  BY <1>1, JitAssumption, Zenon DEF exception_take, Cpus
<1>5. CASE Branch
  <2>1. Executes("b") /\ ExitStatic(Advance, jit) /\ Advance \in Cpus
    BY <1>5, NowTyped DEF Branch
  <2> QED BY <2>1, <1>3, PureExit, Zenon
<1>6. CASE BranchIndirect
  <2>1. PICK t \in PCs : ExitIndirect([cpu EXCEPT !.pc = t], jit)
    BY <1>6, Zenon DEF BranchIndirect
  <2>2. loc = "block" \/ loc = "interp"
    BY <1>6, Zenon DEF BranchIndirect, Executes
  <2> QED BY <2>1, <2>2, IndirectExit, Zenon
<1>7. CASE Store
  <2>1. Executes("str")
    BY <1>7, Zenon DEF Store
  <2>2. PICK t \in PCs, i \in cpu.plan.written :
          IF cpu.map[t[1]] = Unmapped THEN ExitPlain(exception_take(cpu), jit)
          ELSE ExitStatic(Poke(Advance, cpu.map[t[1]], t[2], i), mem_write(jit, cpu.map[t[1]]))
    BY <1>7, Zenon DEF Store
  <2>3. CASE cpu.map[t[1]] = Unmapped
    BY <2>1, <2>2, <2>3, <1>4, PureExit, Zenon
  <2>4. CASE cpu.map[t[1]] # Unmapped
    <3> DEFINE f == cpu.map[t[1]]
               j == mem_write(jit, f)
    <3>1. f \in Frames /\ t[2] \in Offs /\ i \in Code
      BY <2>4, <1>1, Zenon DEF Cpus, PCs
    <3>2. ExitStatic(Poke(Advance, f, t[2], i), j)
      BY <2>2, <2>4, Zenon
    <3> HIDE DEF f
    <3>3. Sound(j) /\ Forgets(jit, j) /\ NoneLive(j, f) /\ SameView(jit, j)
      BY <1>1, <3>1, MemWriteSound, Zenon
    <3> HIDE DEF j
    <3> QED BY <2>1, <3>1, <3>2, <3>3, WriteExit, Zenon
  <2> QED BY <2>3, <2>4, Zenon
<1>8. CASE StoreCrossing
  <2>1. Executes("strx")
    BY <1>8, Zenon DEF StoreCrossing
  <2>2. PICK f \in Ram, i \in cpu.plan.written, o \in Offs :
          /\ f + 1 \in Ram
          /\ ExitStatic([Poke(Poke(Advance, f, o, i), f + 1, o, i) EXCEPT
                           !.raw = @ \/ (f \notin jit.bitmap /\ f + 1 \in jit.bitmap)],
                        mem_write_crossing(jit, f))
    BY <1>8, Zenon DEF StoreCrossing
  <2> DEFINE d == Poke(Advance, f, o, i)
             e == Poke(d, f + 1, o, i)
             past == f \notin jit.bitmap /\ f + 1 \in jit.bitmap
             c == [e EXCEPT !.raw = @ \/ past]
             j == mem_write_crossing(jit, f)
             m == [cpu.mem[f] EXCEPT ![o] = i]
  <2>3. /\ Now.op # "tlbi" /\ (loc = "block" \/ loc = "interp") /\ Advance \in Cpus
        /\ f \in Frames /\ f + 1 \in Frames /\ i \in Code
    BY <2>1, <2>2, <1>1, NowTyped DEF Frames
  <2>4. /\ d \in Cpus /\ d.mem = [cpu.mem EXCEPT ![f] = m]
        /\ d.map = cpu.map /\ d.pc = Target(Now) /\ d.raw = cpu.raw
    BY <2>3, <1>3, PokeTyped
  <2> HIDE DEF d, m
  <2>5. /\ e \in Cpus /\ e.mem = [d.mem EXCEPT ![f + 1] = [d.mem[f + 1] EXCEPT ![o] = i]]
        /\ e.map = cpu.map /\ e.pc = Target(Now) /\ e.raw = cpu.raw
    BY <2>3, <2>4, PokeTyped
  <2> HIDE DEF e, past
  <2>6. /\ c \in Cpus /\ c.mem = e.mem /\ c.map = cpu.map /\ c.pc = Target(Now)
        /\ c.raw = (cpu.raw \/ past)
    BY <2>5, Zenon DEF Cpus
  <2> HIDE DEF c
  <2>7. /\ Sound(j) /\ Forgets(jit, j) /\ SameView(jit, j) /\ NoneLive(j, f)
        /\ ~past => NoneLive(j, f + 1)
    BY <2>2, <1>1, CrossingSound, Zenon DEF past
  <2>8. ExitStatic(c, j)
    BY <2>2, Zenon DEF c, e, d, past
  <2> HIDE DEF j
  <2>9. Agree(cpu, d, j)
    BY <2>3, <2>4, <2>7, <1>1, PokeAgrees, Zenon
  <2>10. ASSUME ~past PROVE Agree(d, c, j)
    <3>1. c.mem = [d.mem EXCEPT ![f + 1] = [d.mem[f + 1] EXCEPT ![o] = i]] /\ NoneLive(j, f + 1)
      BY <2>5, <2>6, <2>7, <2>10, Zenon
    <3> QED BY <3>1, <2>3, <2>4, <2>7, PokeAgrees
  <2>11. clean /\ ~c.raw => Coherent(c, j)
    <3>1. SUFFICES ASSUME clean, ~c.raw PROVE Coherent(c, j)
      BY Zenon
    <3>2. Agree(cpu, c, j)
      <4>1. Agree(d, c, j)
        BY <2>6, <2>10, <3>1, Zenon
      <4> QED BY <4>1, <2>9, AgreeTwice, Zenon
    <3>3. j.jc => jit.jc /\ c.map = cpu.map
      BY <2>6, <2>7, Zenon DEF SameView
    <3>4. Coherent(cpu, jit)
      BY <1>1, <2>6, <3>1, Zenon
    <3> QED BY <1>1, <2>7, <3>2, <3>3, <3>4, ForgetsCoherent, Zenon
  <2>12. j.ctx = jit.ctx /\ (cpu.raw => c.raw)
    BY <2>6, <2>7, Zenon DEF SameView
  <2> QED BY <2>3, <2>6, <2>7, <2>8, <2>11, <2>12, StaticExit, Zenon
<1>9. CASE DeviceDma
  <2>1. Executes("dma")
    BY <1>9, Zenon DEF DeviceDma
  <2>2. PICK f \in Frames, o \in Offs, i \in cpu.plan.written :
          ExitStatic(Poke(Advance, f, o, i), jit_invalidate(jit, f))
    BY <1>9, Zenon DEF DeviceDma
  <2> DEFINE j == jit_invalidate(jit, f)
  <2>3. Sound(j) /\ Forgets(jit, j) /\ NoneLive(j, f) /\ SameView(jit, j)
    BY <1>1, InvalidateSound, Zenon
  <2>4. ExitStatic(Poke(Advance, f, o, i), j) /\ i \in Code
    BY <2>2, <1>1, Zenon
  <2> HIDE DEF j
  <2> QED BY <2>1, <2>3, <2>4, WriteExit, Zenon

<1>10. CASE FwCfgDma
  <2>1. Executes("fwdma")
    BY <1>10, Zenon DEF FwCfgDma
  <2>2. PICK f \in Ram, o \in Offs, i \in cpu.plan.written :
          ExitStatic([Poke(Advance, f, o, i) EXCEPT !.raw = TRUE], jit)
    BY <1>10, Zenon DEF FwCfgDma
  <2> DEFINE d == Poke(Advance, f, o, i)
             c == [d EXCEPT !.raw = TRUE]
  <2>3. Now.op # "tlbi" /\ (loc = "block" \/ loc = "interp") /\ Advance \in Cpus
        /\ f \in Frames /\ i \in Code
    BY <2>1, <1>1, NowTyped DEF Frames
  <2>4. d \in Cpus /\ d.map = cpu.map /\ d.pc = Target(Now)
    <3>1. /\ d \in Cpus /\ d.mem = [Advance.mem EXCEPT ![f] = [Advance.mem[f] EXCEPT ![o] = i]]
          /\ d.map = Advance.map /\ d.pc = Advance.pc
      BY <2>3, PokeTyped
    <3> QED BY <3>1, <1>3, Zenon
  <2> HIDE DEF d
  <2>5. c \in Cpus /\ c.map = cpu.map /\ c.pc = Target(Now) /\ c.raw
    BY <2>4, Zenon DEF Cpus
  <2>6. ExitStatic(c, jit)
    BY <2>2, Zenon DEF d
  <2> HIDE DEF c
  <2> QED BY <2>3, <2>5, <2>6, <1>1, <1>2, StaticExit, Zenon
<1>11. CASE FlashErase
  <2>1. Executes("erase")
    BY <1>11, Zenon DEF FlashErase
  <2>2. PICK f \in Flash :
          ExitStatic([Advance EXCEPT !.mem[f] = [o \in Offs |-> Erased], !.raw = TRUE], jit)
    BY <1>11, Zenon DEF FlashErase
  <2> DEFINE m == [cpu.mem EXCEPT ![f] = [o \in Offs |-> Erased]]
             c == [Advance EXCEPT !.mem[f] = [o \in Offs |-> Erased], !.raw = TRUE]
  <2>3. Now.op # "tlbi" /\ (loc = "block" \/ loc = "interp") /\ Advance \in Cpus
    BY <2>1, NowTyped
  <2>4. m \in [Frames -> [Offs -> Code]]
    BY <1>1, Zenon DEF Cpus, Code
  <2>5. c = [Advance EXCEPT !.mem = m, !.raw = TRUE]
    BY <2>3, <1>3, Zenon DEF Cpus
  <2> HIDE DEF m, c
  <2>6. c \in Cpus /\ c.map = cpu.map /\ c.pc = Target(Now) /\ c.raw
    BY <2>3, <2>4, <2>5, <1>3, Zenon DEF Cpus
  <2>7. ExitStatic(c, jit)
    BY <2>2, Zenon DEF c
  <2> QED BY <2>3, <2>6, <2>7, <1>1, <1>2, StaticExit, Zenon
<1>12. CASE IcIvau
  <2>1. Executes("ic")
    BY <1>12, Zenon DEF IcIvau
  <2>2. PICK p \in Pages :
          ExitPlain(Advance, IF cpu.map[p] = Unmapped THEN jit ELSE jit_invalidate(jit, cpu.map[p]))
    BY <1>12, Zenon DEF IcIvau
  <2>3. Advance \in Cpus /\ (loc = "block" \/ loc = "interp")
    BY <2>1, NowTyped
  <2>4. CASE cpu.map[p] = Unmapped
    BY <2>1, <2>2, <2>3, <2>4, <1>3, PureExit, Zenon
  <2>5. CASE cpu.map[p] # Unmapped
    <3> DEFINE j == jit_invalidate(jit, cpu.map[p])
    <3>1. cpu.map[p] \in Frames
      BY <2>5, <1>1, Zenon DEF Cpus
    <3>2. Sound(j) /\ Forgets(jit, j) /\ SameView(jit, j)
      BY <3>1, <1>1, InvalidateSound, Zenon
    <3>3. ExitPlain(Advance, j)
      BY <2>2, <2>5, Zenon
    <3> HIDE DEF j
    <3>4. Agree(cpu, Advance, j) /\ (j.jc => jit.jc /\ Advance.map = cpu.map)
      BY <1>3, <3>2, SameGuest, Zenon DEF SameView
    <3>5. clean /\ ~Advance.raw => Coherent(Advance, j)
      BY <1>1, <1>3, <3>2, <3>4, ForgetsCoherent, Zenon
    <3> QED BY <2>3, <3>2, <3>3, <3>5, <1>3, PlainExit, Zenon
  <2> QED BY <2>4, <2>5, Zenon
<1>13. CASE Tlbi
  <2>1. Executes("tlbi")
    BY <1>13, Zenon DEF Tlbi
  <2>2. PICK p \in Pages, f \in Frames \cup {Unmapped}, full \in BOOLEAN :
          ExitStatic([Advance EXCEPT !.map[p] = f], [jit EXCEPT !.jc = FALSE, !.gen = @ /\ ~full])
    BY <1>13, Zenon DEF Tlbi
  <2> DEFINE m == [cpu.map EXCEPT ![p] = f]
             c == [Advance EXCEPT !.map[p] = f]
             j == [jit EXCEPT !.jc = FALSE, !.gen = @ /\ ~full]
  <2>3. Advance \in Cpus /\ (loc = "block" \/ loc = "interp") /\ Now.op = "tlbi"
    BY <2>1, NowTyped
  <2>4. m \in [Pages -> Frames \cup {Unmapped}]
    BY <1>1, Zenon DEF Cpus
  <2>5. c = [Advance EXCEPT !.map = m]
    BY <2>3, <1>3, Zenon DEF Cpus
  <2>6. ExitStatic(c, j)
    BY <2>2, Zenon
  <2> HIDE DEF m, c
  <2>7. c \in Cpus /\ c.mem = cpu.mem /\ c.pc = Target(Now) /\ c.raw = cpu.raw
    BY <2>3, <2>4, <2>5, <1>3, Zenon DEF Cpus
  <2>8. /\ j \in Jits /\ j.arena = jit.arena /\ j.jcache = jit.jcache /\ j.bitmap = jit.bitmap
        /\ j.w = jit.w /\ j.ctx = jit.ctx /\ ~j.jc
    BY <1>1, Zenon DEF Sound, Typed, Jits
  <2> HIDE DEF j
  <2>9. Sound(j) /\ Forgets(jit, j)
    BY <2>8, <1>1, Zenon DEF Sound, Typed, Tracked, Linked, Forgets
  <2>10. clean /\ ~c.raw => Coherent(c, j)
    <3>1. Agree(cpu, c, j)
      BY <2>7, SameGuest, Zenon
    <3> QED BY <2>7, <2>8, <2>9, <3>1, <1>1, ForgetsCoherent, Zenon
  <2> QED BY <2>3, <2>6, <2>7, <2>8, <2>9, <2>10, StaticExit, Zenon
<1>14. CASE MsrContext
  <2>1. Executes("msr") /\ Advance \in Cpus
    BY <1>14, NowTyped DEF MsrContext
  <2>2. PICK x \in Ctxs : ExitStatic([Advance EXCEPT !.ctx = x], jit)
    BY <1>14, Zenon DEF MsrContext
  <2> DEFINE c == [Advance EXCEPT !.ctx = x]
  <2>3. c \in Cpus /\ c.mem = cpu.mem /\ c.map = cpu.map /\ c.raw = cpu.raw /\ c.pc = Target(Now)
    BY <2>1, <1>3, Zenon DEF Cpus
  <2> HIDE DEF c
  <2>4. ExitStatic(c, jit)
    BY <2>2, Zenon DEF c
  <2> QED BY <2>1, <2>3, <2>4, PureExit, Zenon
<1>15. CASE MsrMask
  <2>1. Executes("daif") /\ Advance \in Cpus
    BY <1>15, NowTyped DEF MsrMask
  <2>2. PICK b \in BOOLEAN : ExitStatic([Advance EXCEPT !.masked = b], jit)
    BY <1>15, Zenon DEF MsrMask
  <2> DEFINE c == [Advance EXCEPT !.masked = b]
  <2>3. c \in Cpus /\ c.mem = cpu.mem /\ c.map = cpu.map /\ c.raw = cpu.raw /\ c.pc = Target(Now)
    BY <2>1, <1>3, Zenon DEF Cpus
  <2> HIDE DEF c
  <2>4. ExitStatic(c, jit)
    BY <2>2, Zenon DEF c
  <2> QED BY <2>1, <2>3, <2>4, PureExit, Zenon
<1>16. CASE Eret
  <2>1. Executes("eret")
    BY <1>16, Zenon DEF Eret
  <2>2. PICK t \in PCs, x \in Ctxs, b \in BOOLEAN :
          IF t = Target(Now) THEN ExitStatic([cpu EXCEPT !.pc = t, !.ctx = x, !.masked = b], jit)
          ELSE ExitPlain([cpu EXCEPT !.pc = t, !.ctx = x, !.masked = b], jit)
    BY <1>16, Zenon DEF Eret
  <2> DEFINE c == [cpu EXCEPT !.pc = t, !.ctx = x, !.masked = b]
  <2>3. c \in Cpus /\ c.mem = cpu.mem /\ c.map = cpu.map /\ c.raw = cpu.raw /\ c.pc = t
    BY <1>1, Zenon DEF Cpus
  <2> HIDE DEF c
  <2>4. (ExitStatic(c, jit) /\ c.pc = Target(Now)) \/ ExitPlain(c, jit)
    BY <2>2, <2>3, Zenon DEF c
  <2> QED BY <2>1, <2>3, <2>4, PureExit, Zenon
<1>17. CASE Undefined
  <2>1. Executes("undef") /\ ExitPlain(exception_take(cpu), jit)
    BY <1>17, Zenon DEF Undefined
  <2> QED BY <2>1, <1>4, PureExit, Zenon
<1> QED
  BY <1>5, <1>6, <1>7, <1>8, <1>9, <1>10, <1>11, <1>12, <1>13, <1>14, <1>15, <1>16, <1>17, Zenon
  DEF Instruction

-----------------------------------------------------------------------------
(* The dispatcher and the run loop.                                        *)

\* Dispatching keeps the invariant: the block it enters is current, and the
\* exit it patches stays in its physical page.
LEMMA DispatchSafe == ASSUME JitInv, Dispatch PROVE JitInv'
<1> DEFINE f     == cpu.map[cpu.pc[1]]
           j0    == [Purged(jit) EXCEPT !.ctx = cpu.ctx, !.gen = TRUE]
           found == jit_lookup(j0, cpu.pc, cpu.ctx, f)
           j1    == IF found # 0 THEN j0
                    ELSE jit_translate(j0, cpu.pc, cpu.ctx, f, cpu.mem[f][cpu.pc[2]])
           b     == IF found # 0 THEN found ELSE Len(j1.arena)
           p     == IF found = 0 /\ Full(j0) THEN 0 ELSE prev
           j2    == IF p # 0 /\ Chainable(j1, p, b) THEN [j1 EXCEPT !.arena[p].chain = b] ELSE j1
           j3    == [j2 EXCEPT !.jcache[cpu.pc] = b]
           quiet == clean /\ ~cpu.raw
<1>1. /\ f # Unmapped /\ jit' = j3 /\ at' = b /\ loc = "dispatch" /\ loc' = "block"
      /\ prev' = 0 /\ cpu' = cpu /\ clean' = clean
  BY Zenon DEF Dispatch
<1>2. /\ cpu \in Cpus /\ clean \in BOOLEAN /\ Sound(jit) /\ Located(jit, loc, at, prev)
      /\ quiet => Coherent(cpu, jit) /\ (prev # 0 => Left(cpu, jit, prev))
  BY Zenon DEF JitInv, Inv
<1>3. /\ cpu.pc \in PCs /\ cpu.pc[1] \in Pages /\ cpu.pc[2] \in Offs /\ cpu.ctx \in Ctxs
      /\ f \in Frames /\ cpu.mem[f][cpu.pc[2]] \in Code
  <2>1. cpu.pc \in PCs /\ cpu.pc[1] \in Pages /\ cpu.pc[2] \in Offs /\ cpu.ctx \in Ctxs
    BY <1>2, Zenon DEF Cpus, PCs
  <2>2. f \in Frames
    BY <1>1, <1>2, <2>1, Zenon DEF Cpus
  <2> HIDE DEF f
  <2> QED BY <1>2, <2>1, <2>2, ZenonT(60) DEF Cpus
<1>4. /\ Sound(j0) /\ j0.jc /\ j0.gen /\ j0.ctx = cpu.ctx /\ j0.arena = jit.arena
      /\ quiet => Coherent(cpu, j0)
  <2> DEFINE j == Purged(jit)
  <2>1. Sound(j) /\ j.jc /\ j.arena = jit.arena /\ (quiet => Coherent(cpu, j))
    BY <1>2, PurgedSound, Zenon
  <2>2. j0 = [j EXCEPT !.ctx = cpu.ctx, !.gen = TRUE] /\ j \in Jits
    BY <2>1, Zenon DEF Sound, Typed
  <2> HIDE DEF j, j0
  <2>3. /\ j0 \in Jits /\ j0.arena = j.arena /\ j0.jcache = j.jcache /\ j0.bitmap = j.bitmap
        /\ j0.w = j.w /\ j0.ctx = cpu.ctx /\ j0.gen /\ j0.jc = j.jc
    BY <2>2, <1>3, Zenon DEF Jits
  <2>4. Sound(j0)
    BY <2>1, <2>3, SameLinks, Zenon DEF Sound, Typed, Tracked
  <2>5. quiet => Coherent(cpu, j0)
    BY <2>1, <2>3 DEF Coherent, Faithful, SameFrame, CacheMapped
  <2> QED BY <2>1, <2>3, <2>4, <2>5, Zenon
<1>5. /\ Sound(j1) /\ SameView(j0, j1) /\ b \in DOMAIN j1.arena /\ j1.arena[b].live
      /\ j1.arena[b].pc = cpu.pc /\ j1.arena[b].ctx = cpu.ctx /\ j1.arena[b].frame = f
      /\ quiet => Coherent(cpu, j1)
      /\ p # 0 => p = prev /\ p \in DOMAIN j1.arena /\ j1.arena[p] = jit.arena[p]
  <2>0. prev # 0 => prev \in DOMAIN j0.arena
    BY <1>2, <1>4, ArenaTyped DEF Located, Sound
  <2>1. CASE found # 0
    <3>1. /\ found \in DOMAIN j0.arena /\ j0.arena[found].live /\ j0.arena[found].pc = cpu.pc
          /\ j0.arena[found].ctx = cpu.ctx /\ j0.arena[found].frame = f
      <4> HIDE DEF j0, f
      <4> QED BY <2>1, <1>4, LookupFinds
    <3>2. j1 = j0 /\ b = found /\ (p # 0 => p = prev)
      BY <2>1, Zenon
    <3> HIDE DEF j0, f, j1, b, p, found
    <3> QED BY <3>1, <3>2, <2>0, <1>4, Zenon DEF SameView
  <2>2. CASE found = 0
    <3> DEFINE i == cpu.mem[f][cpu.pc[2]]
               n == jit_translate(j0, cpu.pc, cpu.ctx, f, i)
    <3>1. j1 = n /\ b = Len(n.arena) /\ p = IF Full(j0) THEN 0 ELSE prev
      BY <2>2, Zenon
    <3>2. i \in Code
      BY <1>3, Zenon
    <3> HIDE DEF j0, f, i
    <3>3. /\ Sound(n) /\ SameView(j0, n)
          /\ Len(n.arena) \in DOMAIN n.arena /\ n.arena[Len(n.arena)] = NewBlock(cpu.pc, cpu.ctx, f, i)
          /\ ~Full(j0) => \A k \in DOMAIN j0.arena : k \in DOMAIN n.arena /\ n.arena[k] = j0.arena[k]
          /\ \A c : Coherent(c, j0) /\ i = c.mem[f][cpu.pc[2]] => Coherent(c, n)
      BY <1>3, <1>4, <3>2, TranslateSound, Zenon
    <3>4. quiet => Coherent(cpu, n)
      BY <1>4, <3>3, Zenon DEF i
    <3> HIDE DEF n, j1, b, p, found
    <3>5. /\ j1.arena[b].live /\ j1.arena[b].pc = cpu.pc /\ j1.arena[b].ctx = cpu.ctx
          /\ j1.arena[b].frame = f
      BY <3>1, <3>3 DEF NewBlock
    <3>6. p # 0 => p = prev /\ p \in DOMAIN j1.arena /\ j1.arena[p] = jit.arena[p]
      BY <3>1, <3>3, <2>0, <1>4, Zenon
    <3> QED BY <3>1, <3>3, <3>4, <3>5, <3>6, Zenon
  <2> QED BY <2>1, <2>2, Zenon
<1>6. j2 = IF p # 0 /\ Chainable(j1, p, b) THEN [j1 EXCEPT !.arena[p].chain = b] ELSE j1
  BY Zenon
<1> HIDE DEF j0, j1, b, p, found, j2
<1>7. /\ Sound(j2) /\ SameView(j1, j2) /\ b \in DOMAIN j2.arena /\ j2.arena[b].live
      /\ j2.arena[b].pc = cpu.pc /\ j2.arena[b].ctx = cpu.ctx /\ j2.arena[b].frame = f
      /\ quiet => Coherent(cpu, j2)
  <2>1. CASE p # 0 /\ Chainable(j1, p, b)
    <3>1. j2 = Patched(j1, p, b) /\ p \in DOMAIN j1.arena
      BY <2>1, <1>5, <1>6, Zenon DEF Patched
    <3>2. Follows(j1.arena[p], j1.arena[b])
      BY <2>1, Zenon DEF Chainable, Follows
    <3>3. /\ Sound(j2) /\ SameView(j1, j2) /\ DOMAIN j2.arena = DOMAIN j1.arena
          /\ \A i \in DOMAIN j1.arena :
               /\ j2.arena[i].pc = j1.arena[i].pc /\ j2.arena[i].ctx = j1.arena[i].ctx
               /\ j2.arena[i].frame = j1.arena[i].frame /\ j2.arena[i].insn = j1.arena[i].insn
               /\ j2.arena[i].live = j1.arena[i].live
          /\ \A c : /\ Coherent(c, j1)
                    /\ j1.arena[p].insn.op # "tlbi" => j1.arena[b].frame = j1.arena[p].frame
                    => Coherent(c, j2)
      <4>1. Sound(j1) /\ b \in DOMAIN j1.arena /\ j1.arena[b].live
        BY <1>5, Zenon
      <4> HIDE DEF f
      <4> QED BY <3>1, <3>2, <4>1, ChainSound
    <3>4. quiet => (j1.arena[p].insn.op # "tlbi" => j1.arena[b].frame = j1.arena[p].frame)
      BY <1>2, <1>5, <2>1, <3>2, ZenonT(60) DEF Left, Follows
    <3>5. quiet => Coherent(cpu, j2)
      BY <3>3, <3>4, <1>5, Zenon
    <3> HIDE DEF f
    <3> QED BY <1>5, <3>3, <3>5, Zenon
  <2>2. CASE ~(p # 0 /\ Chainable(j1, p, b))
    <3> HIDE DEF f
    <3>1. j2 = j1
      BY <2>2, <1>6, Zenon
    <3> QED BY <3>1, <1>5, Zenon DEF SameView
  <2> QED BY <2>1, <2>2, Zenon
<1>8. j3 = [j2 EXCEPT !.jcache[cpu.pc] = b]
  BY Zenon
<1> HIDE DEF j3, quiet
<1>9. /\ Sound(j3) /\ SameView(j2, j3) /\ j3.arena = j2.arena
      /\ \A c : Coherent(c, j2) /\ j2.arena[b].frame = c.map[cpu.pc[1]] => Coherent(c, j3)
  <2>1. Sound(j2) /\ cpu.pc \in PCs /\ b \in DOMAIN j2.arena /\ j2.arena[b].live /\ j2.arena[b].pc = cpu.pc
    BY <1>3, <1>7, Zenon
  <2> HIDE DEF f
  <2> QED BY <1>8, <2>1, RefillSound
<1>10. quiet => Coherent(cpu, j3)
  BY <1>7, <1>9, Zenon
<1>11. quiet => Running(cpu, j3, b)
  <2>1. SUFFICES ASSUME quiet PROVE Running(cpu, j3, b)
    BY Zenon
  <2>2. /\ j3.arena[b].frame = cpu.map[j3.arena[b].pc[1]]
        /\ j3.arena[b].ctx = cpu.ctx /\ j3.arena[b].pc = cpu.pc
    BY <1>7, <1>9, Zenon
  <2>3. j3.arena[b].insn = Word(cpu, j3.arena[b])
    BY <2>1, <1>7, <1>9, <1>10, Zenon DEF Coherent, Faithful
  <2>4. Synced(cpu, j3)
    BY <1>4, <1>5, <1>7, <1>9, Zenon DEF SameView, Synced
  <2> QED BY <2>2, <2>3, <2>4, Zenon DEF Running
<1>12. Located(j3, "block", b, 0)
  <2>1. b \in 1..Len(j3.arena) /\ Len(j3.arena) \in Nat
    BY <1>7, <1>9, ArenaTyped, Zenon DEF Sound
  <2> QED BY <2>1 DEF Located
<1>13. Inv(cpu, j3, "block", b, 0, clean)
  BY <1>2, <1>9, <1>10, <1>11, <1>12, Zenon DEF Inv, quiet
<1> QED BY <1>1, <1>13, Zenon DEF JitInv


\* The run loop's steps around the dispatcher keep the invariant.
LEMMA LoopSafe ==
  ASSUME JitInv, Tick \/ TakeIrq \/ EnterLoop \/ LeaveLoop \/ DispatchSlow \/ Safepoint \/ WarmReboot
  PROVE  JitInv'
<1>1. /\ cpu \in Cpus /\ clean \in BOOLEAN /\ Sound(jit) /\ Located(jit, loc, at, prev)
      /\ clean /\ ~cpu.raw => Coherent(cpu, jit) /\ (prev # 0 => Left(cpu, jit, prev))
  BY Zenon DEF JitInv, Inv
<1>2. Len(jit.arena) \in Nat /\ DOMAIN jit.arena = 1..Len(jit.arena)
  BY <1>1, ArenaTyped, Zenon DEF Sound
<1>3. loc # "block" => at = 0
  BY <1>1, Zenon DEF Located
<1>4. /\ exception_take(cpu) \in Cpus /\ exception_take(cpu).mem = cpu.mem
      /\ exception_take(cpu).map = cpu.map /\ exception_take(cpu).raw = cpu.raw
      /\ exception_take(cpu).plan = cpu.plan
  BY <1>1, JitAssumption, Zenon DEF exception_take, Cpus
<1>5. ASSUME NEW c \in Cpus, c.mem = cpu.mem, c.map = cpu.map, c.raw = cpu.raw
      PROVE  clean /\ ~c.raw => Coherent(c, jit)
  BY <1>1, <1>5, SameGuest, Zenon
<1>6. ASSUME NEW c \in Cpus, NEW j, Sound(j), NEW l \in {"outside", "dispatch", "interp"},
             clean /\ ~c.raw => Coherent(c, j)
      PROVE  Inv(c, j, l, 0, 0, clean)
  <2>1. Len(j.arena) \in Nat
    BY <1>6, ArenaTyped, Zenon DEF Sound
  <2> QED BY <1>1, <1>6, <2>1 DEF Inv, Located
<1>7. CASE Tick
  <2>1. PICK x \in BOOLEAN : cpu' = [cpu EXCEPT !.line = x]
    BY <1>7, Zenon DEF Tick
  <2>2. loc = "outside" /\ jit' = jit /\ loc' = loc /\ at' = at /\ prev' = prev /\ clean' = clean
    BY <1>7, Zenon DEF Tick
  <2>3. at = 0 /\ prev = 0
    BY <2>2, <1>1, Zenon DEF Located
  <2> DEFINE c == [cpu EXCEPT !.line = x]
  <2>4. c \in Cpus /\ c.mem = cpu.mem /\ c.map = cpu.map /\ c.raw = cpu.raw
    BY <1>1, Zenon DEF Cpus
  <2> HIDE DEF c
  <2>5. Inv(c, jit, "outside", 0, 0, clean)
    BY <1>1, <1>5, <1>6, <2>4, Zenon
  <2> QED BY <2>1, <2>2, <2>3, <2>5, Zenon DEF JitInv, c
<1>8. CASE TakeIrq
  <2>1. /\ cpu' = exception_take(cpu) /\ jit' = jit /\ at' = at /\ prev' = prev /\ clean' = clean
        /\ loc \in {"outside", "interp"} /\ loc' \in {"outside", "dispatch"}
    BY <1>8, Zenon DEF TakeIrq
  <2>2. at = 0 /\ prev = 0
    BY <2>1, <1>1, Zenon DEF Located
  <2>3. Inv(exception_take(cpu), jit, loc', 0, 0, clean)
    BY <1>1, <1>4, <1>5, <1>6, <2>1, Zenon
  <2> QED BY <2>1, <2>2, <2>3, Zenon DEF JitInv
<1>9. CASE EnterLoop \/ LeaveLoop
  <2>1. /\ cpu' = cpu /\ jit' = jit /\ at' = at /\ prev' = 0 /\ clean' = clean
        /\ loc \in {"outside", "dispatch"} /\ loc' \in {"outside", "dispatch"}
    BY <1>9, Zenon DEF EnterLoop, LeaveLoop
  <2>2. at = 0
    BY <2>1, <1>3, Zenon
  <2>3. Inv(cpu, jit, loc', 0, 0, clean)
    BY <1>1, <1>6, <2>1, Zenon
  <2> QED BY <2>1, <2>2, <2>3, Zenon DEF JitInv
<1>10. CASE DispatchSlow
  <2> DEFINE j == Purged(jit)
  <2>1. Sound(j) /\ \A c : Coherent(c, jit) => Coherent(c, j)
    BY <1>1, PurgedSound, Zenon
  <2>2. /\ jit' = j /\ at' = at /\ prev' = 0 /\ clean' = clean /\ loc = "dispatch"
        /\ loc' \in {"dispatch", "interp"} /\ cpu' \in {cpu, exception_take(cpu)}
    BY <1>10, Zenon DEF DispatchSlow
  <2>3. at = 0
    BY <2>2, <1>3, Zenon
  <2> HIDE DEF j
  <2>4. cpu' \in Cpus /\ (clean /\ ~cpu'.raw => Coherent(cpu', j))
    <3>1. CASE cpu' = cpu
      BY <3>1, <1>1, <2>1, Zenon
    <3>2. CASE cpu' = exception_take(cpu)
      <4>1. clean /\ ~exception_take(cpu).raw => Coherent(exception_take(cpu), jit)
        BY <1>4, <1>5, Zenon
      <4> QED BY <3>2, <4>1, <1>4, <2>1, Zenon
    <3> QED BY <3>1, <3>2, <2>2, Zenon
  <2>5. Inv(cpu', j, loc', 0, 0, clean)
    BY <1>6, <2>1, <2>2, <2>4, Zenon
  <2> QED BY <2>2, <2>3, <2>5, Zenon DEF JitInv
<1>11. CASE Safepoint
  <2> DEFINE c == [cpu EXCEPT !.pc = jit.arena[at].pc]
  <2>1. /\ cpu' = c /\ jit' = jit /\ loc = "block" /\ loc' = "outside" /\ at' = 0 /\ prev' = 0
        /\ clean' = clean
    BY <1>11, Zenon DEF Safepoint
  <2>2. jit.arena[at].pc \in PCs
    <3>1. at \in DOMAIN jit.arena
      BY <2>1, <1>1, <1>2 DEF Located
    <3> QED BY <3>1, <1>1, ArenaTyped, Zenon DEF Sound, Blocks
  <2>3. c \in Cpus /\ c.mem = cpu.mem /\ c.map = cpu.map /\ c.raw = cpu.raw
    BY <1>1, <2>2, Zenon DEF Cpus
  <2> HIDE DEF c
  <2>4. Inv(c, jit, "outside", 0, 0, clean)
    BY <1>1, <1>5, <1>6, <2>3, Zenon
  <2> QED BY <2>1, <2>4, Zenon DEF JitInv
<1>12. CASE WarmReboot
  <2> DEFINE e == exception_take(cpu)
             c == [e EXCEPT !.map = cpu.plan.map, !.line = FALSE]
             d == jit_flush_all(jit)
             j == jit_reset(jit)
  <2>1. /\ cpu' = c /\ jit' = j /\ loc = "outside" /\ loc' = loc /\ at' = at /\ prev' = prev
        /\ clean' = clean
    BY <1>12, Zenon DEF WarmReboot
  <2>2. at = 0 /\ prev = 0
    BY <2>1, <1>1, Zenon DEF Located
  <2>3. cpu.plan.map \in [Pages -> Frames \cup {Unmapped}]
    BY <1>1, JitAssumption, Zenon DEF Cpus
  <2>4. e \in Cpus
    BY <1>4, Zenon
  <2> HIDE DEF e
  <2>5. c \in Cpus
    BY <2>3, <2>4, Zenon DEF Cpus
  <2>6. Sound(d) /\ d.arena = <<>> /\ (\A x : Coherent(x, d))
    BY <1>1, FlushSound, Zenon
  <2>7. j = [d EXCEPT !.thrash = [x \in Frames |-> 0], !.bitmap = {}]
    BY Zenon DEF jit_reset, jit_init
  <2>8. d \in Jits /\ [x \in Frames |-> 0] \in [Frames -> 0..ThrashLimit]
    BY <2>6, JitAssumption DEF Sound, Typed
  <2> HIDE DEF c, d, j
  <2>9. j \in Jits /\ j.arena = <<>> /\ j.jcache = d.jcache /\ j.bitmap = {} /\ j.jc = d.jc
    BY <2>6, <2>7, <2>8, Zenon DEF Jits
  <2>10. Sound(j)
    BY <2>6, <2>9 DEF Sound, Typed, Tracked, Linked
  <2>11. Coherent(c, j)
    BY <2>6, <2>9 DEF Coherent, Faithful, SameFrame, CacheMapped
  <2>12. Inv(c, j, "outside", 0, 0, clean)
    BY <1>6, <2>5, <2>10, <2>11, Zenon
  <2> QED BY <2>1, <2>2, <2>12, Zenon DEF JitInv
<1> QED BY <1>7, <1>8, <1>9, <1>10, <1>11, <1>12, Zenon

\* The initial states satisfy the invariant: the code cache is empty.
LEMMA InitSafe == Init => JitInv
<1> SUFFICES ASSUME Init PROVE JitInv
  BY Zenon
<1>1. PICK p \in Plans : \E m \in p.mems :
        cpu = [mem |-> m, map |-> p.map, ctx |-> VectorCtx, pc |-> Vector,
               line |-> FALSE, masked |-> TRUE, plan |-> p, raw |-> FALSE]
  BY Zenon DEF Init
<1>2. cpu \in Cpus
  <2>1. PICK m \in p.mems :
          cpu = [mem |-> m, map |-> p.map, ctx |-> VectorCtx, pc |-> Vector,
                 line |-> FALSE, masked |-> TRUE, plan |-> p, raw |-> FALSE]
    BY <1>1, Zenon
  <2>2. m \in [Frames -> [Offs -> Code]] /\ p.map \in [Pages -> Frames \cup {Unmapped}]
    <3>1. m \in [Frames -> [Offs -> Insns]] /\ p.map \in [Pages -> Frames \cup {Unmapped}]
      BY JitAssumption, Zenon
    <3>2. [Offs -> Insns] \subseteq [Offs -> Code]
      BY Zenon DEF Code
    <3> QED BY <3>1, <3>2, Zenon
  <2> QED BY <2>1, <2>2, JitAssumption, Zenon DEF Cpus
<1>3. /\ jit = jit_init /\ loc = "outside" /\ at = 0 /\ prev = 0 /\ clean = TRUE
  BY Zenon DEF Init
<1>4. jit \in Jits
  <2>1. /\ <<>> \in Seq(Blocks) /\ [t \in PCs |-> 0] \in [PCs -> 0..MaxBlocks]
        /\ [x \in Frames |-> 0] \in [Frames -> 0..ThrashLimit] /\ VectorCtx \in Ctxs
    BY JitAssumption
  <2> QED BY <1>3, <2>1, Zenon DEF jit_init, Jits
<1>5. jit.arena = <<>> /\ jit.bitmap = {} /\ jit.jcache = [t \in PCs |-> 0]
  BY <1>3, Zenon DEF jit_init
<1>6. Sound(jit)
  BY <1>4, <1>5, JitAssumption DEF Sound, Typed, Tracked, Linked
<1>7. Coherent(cpu, jit)
  BY <1>5 DEF Coherent, Faithful, SameFrame, CacheMapped
<1>8. Located(jit, "outside", 0, 0)
  BY <1>5 DEF Located
<1> QED BY <1>2, <1>3, <1>6, <1>7, <1>8, Zenon DEF JitInv, Inv

\* The invariant is preserved by every step, and by steps that change nothing.
LEMMA StepSafe == JitInv /\ [Next]_vars => JitInv'
<1> SUFFICES ASSUME JitInv, [Next]_vars PROVE JitInv'
  BY Zenon
<1>1. CASE Instruction
  BY <1>1, InstructionSafe, Zenon
<1>2. CASE Dispatch
  BY <1>2, DispatchSafe, Zenon
<1>3. CASE Tick \/ TakeIrq \/ EnterLoop \/ LeaveLoop \/ DispatchSlow \/ Safepoint \/ WarmReboot
  BY <1>3, LoopSafe, Zenon
<1>4. CASE UNCHANGED vars
  BY <1>4, Zenon DEF vars, JitInv
<1> QED BY <1>1, <1>2, <1>3, <1>4, Zenon DEF Next

\* The invariant holds in every reachable state of the code cache.
THEOREM JitInvariant == Spec => []JitInv
BY InitSafe, StepSafe, PTL DEF Spec

\* What the invariant says of the state: the properties of the runs.
LEMMA InvImplies == JitInv => TypeOK /\ StoresTracked /\ NoDanglingJump /\ RunsCurrentCode
<1> SUFFICES ASSUME JitInv PROVE TypeOK /\ StoresTracked /\ NoDanglingJump /\ RunsCurrentCode
  BY Zenon
<1>1. cpu \in Cpus /\ Sound(jit) /\ Located(jit, loc, at, prev)
  BY Zenon DEF JitInv, Inv
<1>2. TypeOK
  <2>1. /\ cpu.mem \in [Frames -> [Offs -> Insns \cup {Erased}]]
        /\ cpu.map \in [Pages -> Frames \cup {Unmapped}] /\ cpu.ctx \in Ctxs /\ cpu.pc \in PCs
    BY <1>1, Zenon DEF Cpus, Code
  <2>2. /\ Len(jit.arena) <= MaxBlocks /\ \A i \in DOMAIN jit.arena : jit.arena[i] \in Blocks
    BY <1>1, ArenaTyped, Zenon DEF Sound, Typed
  <2>3. /\ jit.jcache \in [PCs -> 0..MaxBlocks] /\ jit.bitmap \subseteq Ram /\ jit.w \subseteq Ram
        /\ jit.thrash \in [Frames -> 0..ThrashLimit]
    BY <1>1, Zenon DEF Sound, Typed, Jits
  <2> QED BY <1>1, <2>1, <2>2, <2>3, Zenon DEF TypeOK, Located
<1>3. StoresTracked
  BY <1>1, Zenon DEF Sound, Tracked, StoresTracked
<1>4. NoDanglingJump
  BY <1>1, Zenon DEF Sound, Linked, NoDanglingJump
<1>5. RunsCurrentCode
  <2>1. ASSUME clean, ~cpu.raw, loc = "block" PROVE Running(cpu, jit, at)
    BY <1>1, <2>1, Zenon DEF JitInv, Inv, Located
  <2> QED BY <2>1, Zenon DEF RunsCurrentCode, Current, Running, Word
<1> QED BY <1>2, <1>3, <1>4, <1>5, Zenon

\* Every reachable state of the code cache is well formed, and the arena never
\* outgrows JIT_MAX_BLOCKS: jit_translate flushes before it appends.
THEOREM JitTypeSafe == Spec => []TypeOK
BY JitInvariant, InvImplies, PTL

\* A RAM page with a live translation is always marked, and no D-TLB entry
\* lets a store reach it without the hook (jit_translate, mem_write).
THEOREM JitTracksStores == Spec => []StoresTracked
BY JitInvariant, InvImplies, PTL

\* No patched jump and no entry of the indirect-branch cache leads to a
\* dropped block (jit_drop_page, jit_flush_all, jit_step's chaining).
THEOREM JitNeverDangles == Spec => []NoDanglingJump
BY JitInvariant, InvImplies, PTL

\* Until code is written past the hook or a chained jump runs behind the
\* dispatcher's back, the JIT runs what memory holds (jit_step).
THEOREM JitRunsCurrentCode == Spec => []RunsCurrentCode
BY JitInvariant, InvImplies, PTL
=============================================================================
