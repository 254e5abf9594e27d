-------------------------------- MODULE Jit --------------------------------
(***************************************************************************)
(* The JIT's code cache and dispatcher (src/src/jit/jit.c), and how they   *)
(* stay coherent with guest memory and with address translation.           *)
(*                                                                         *)
(* A translated block holds one guest instruction; longer blocks only add  *)
(* instructions that touch none of this state.  Guest code is data: memory *)
(* holds instructions, a block holds the instruction it was compiled from. *)
(* A control-flow target is <<virtual page, offset>>; register operands    *)
(* (store addresses, branch targets, ERET) are chosen nondeterministically.*)
(*                                                                         *)
(* map is the translation in force: it changes in the TLBI (or register    *)
(* write) that makes it visible, since a guest that changes its tables and *)
(* does not invalidate has no claim on either translation.                 *)
(***************************************************************************)
EXTENDS Integers, Sequences, FiniteSets

CONSTANTS NPages,      \* virtual pages are 0..NPages - 1
          Offs,        \* instruction slots of a page
          Ram,         \* physical pages that are RAM
          Flash,       \* physical pages that are flash
          Ctxs,        \* block contexts: EL0, MMU on, SP bank, FP trap
          Insns,       \* instructions [op, dp, off]; dp, off: the static exit
          Plans,       \* guests [mems, map, written]: initial memories, translation
                       \* after reset, and the instructions that are ever written
          Vector,      \* where exceptions go, in context VectorCtx
          VectorCtx,
          MaxBlocks,   \* JIT_MAX_BLOCKS
          ThrashLimit  \* JIT_THRASH_LIMIT

Pages == 0..NPages - 1
PCs == Pages \X Offs
Frames == Ram \cup Flash
Unmapped == 0
Erased == [op |-> "undef", dp |-> 0, off |-> 0]

ASSUME JitAssumption ==
  /\ NPages \in Nat \ {0}
  /\ Frames \subseteq Nat \ {Unmapped} /\ Ram \cap Flash = {}
  /\ Insns \subseteq [op : STRING, dp : Nat, off : Offs]
  /\ \A p \in Plans : /\ p.mems \subseteq [Frames -> [Offs -> Insns]]
                      /\ p.map \in [Pages -> Frames \cup {Unmapped}]
                      /\ p.written \subseteq Insns
  /\ Vector \in PCs /\ VectorCtx \in Ctxs
  /\ {MaxBlocks, ThrashLimit} \subseteq Nat \ {0}

VARIABLES cpu,    \* guest: memory, translation, context, pc, IRQ line and mask;
                  \* its plan, and raw: code was written without the JIT's hook
          jit,    \* the code cache and the JIT's view of the guest
          loc,    \* in the run loop, the dispatcher, a block, the interpreter
          at,     \* the running block
          prev,   \* the block whose static exit returned to the dispatcher
          clean   \* no block was entered behind the dispatcher's back

vars == <<cpu, jit, loc, at, prev, clean>>

-----------------------------------------------------------------------------
(* The code cache.  Blocks are indices of the arena; 0 is none.  A dropped *)
(* block stays in the arena: it may still be running.                      *)

jit_init ==
  [arena |-> <<>>, jcache |-> [t \in PCs |-> 0], bitmap |-> {},
   thrash |-> [f \in Frames |-> 0],
   w |-> {},          \* pages some D-TLB entry lets stores reach directly
   ctx |-> VectorCtx, \* env->ctx: the context probes compare with
   gen |-> TRUE,      \* env->dtlb_ctxgen holds the current TLB generation
   jc |-> TRUE]       \* no TLBI since jc_gen and jc_va_seq were read

jcache_purge(j) == [j EXCEPT !.jcache = jit_init.jcache]

\* Pages stay marked in the bitmap: that only costs stores the slow path.
jit_flush_all(j) == [jcache_purge(j) EXCEPT !.arena = <<>>]

\* The newest block for pc in context ctx compiled from physical page f.
jit_lookup(j, pc, ctx, f) ==
  LET found == {i \in DOMAIN j.arena :
                  /\ j.arena[i].live /\ j.arena[i].pc = pc
                  /\ j.arena[i].ctx = ctx /\ j.arena[i].frame = f}
  IN  IF found = {} THEN 0 ELSE CHOOSE i \in found : \A k \in found : k <= i

\* Mutant: jumps chained into a dropped block stay patched.
jit_drop_page_KeepsChains(j, f) ==
  LET gone == {i \in DOMAIN j.arena : j.arena[i].live /\ j.arena[i].frame = f}
      kept == [i \in DOMAIN j.arena |-> [j.arena[i] EXCEPT !.live = @ /\ i \notin gone]]
  IN  [(IF gone = {} THEN j ELSE jcache_purge(j)) EXCEPT !.arena = kept]

\* Unlinks the blocks of a page and unpatches every jump into them.
jit_drop_page(j, f) ==
  LET gone == {i \in DOMAIN j.arena : j.arena[i].live /\ j.arena[i].frame = f}
      kept == [i \in DOMAIN j.arena |->
                 [j.arena[i] EXCEPT !.live = @ /\ i \notin gone,
                                    !.chain = IF @ \in gone THEN 0 ELSE @]]
  IN  [(IF gone = {} THEN j ELSE jcache_purge(j)) EXCEPT !.arena = kept]

\* The RAM pages without a bit in the bitmap are skipped.
jit_invalidate(j, f) ==
  IF f \in Ram \ j.bitmap THEN j
  ELSE [jit_drop_page(j, f) EXCEPT
          !.thrash[f] = IF @ < ThrashLimit THEN @ + 1 ELSE @,
          !.bitmap = @ \ {f}]

jit_reset(j) == [jit_flush_all(j) EXCEPT !.thrash = jit_init.thrash, !.bitmap = {}]

NewBlock(pc, ctx, f, i) ==
  [pc |-> pc, ctx |-> ctx, frame |-> f, insn |-> i, live |-> TRUE, chain |-> 0]

Full(j) == Len(j.arena) >= MaxBlocks

\* Mutant: the D-TLB keeps its W bits on the page.
jit_translate_KeepsW(j, pc, ctx, f, i) ==
  LET room == IF Full(j) THEN jit_flush_all(j) ELSE j
  IN  [room EXCEPT !.arena = Append(@, NewBlock(pc, ctx, f, i)),
                   !.bitmap = @ \cup ({f} \cap Ram)]

\* Mutant: the arena is not flushed when it is full.
jit_translate_NoFlush(j, pc, ctx, f, i) ==
  [j EXCEPT !.arena = Append(@, NewBlock(pc, ctx, f, i)),
            !.bitmap = @ \cup ({f} \cap Ram),
            !.w = IF f \in j.bitmap THEN @ ELSE @ \ {f}]

\* The first translation on a RAM page marks it and strips the W bits.
jit_translate(j, pc, ctx, f, i) ==
  LET room == IF Full(j) THEN jit_flush_all(j) ELSE j
  IN  [room EXCEPT !.arena = Append(@, NewBlock(pc, ctx, f, i)),
                   !.bitmap = @ \cup ({f} \cap Ram),
                   !.w = IF f \in j.bitmap THEN @ ELSE @ \ {f}]

-----------------------------------------------------------------------------
(* Writes to memory that may hold code. *)

Poke(c, f, o, i) == [c EXCEPT !.mem[f][o] = i]

\* Mutant: the slow path of a store forgets the translations on the page.
mem_write_NoHook(j, f) == IF f \in Ram \ j.bitmap THEN [j EXCEPT !.w = @ \cup {f}] ELSE j

\* A store within one page: through a W entry of the D-TLB, or the slow path
\* with its hook, after which the page gets a W entry unless it is marked.
\* Stores to flash program it, which invalidates.
mem_write(j, f) ==
  IF f \in j.w THEN j
  ELSE LET n == jit_invalidate(j, f)
       IN  [n EXCEPT !.w = IF f \in Ram \ n.bitmap THEN @ \cup {f} ELSE @]

\* With the MMU off a store may cross into the next physical page; the hook
\* looks at the first page's bit only.
mem_write_crossing(j, f) ==
  IF f \in j.bitmap THEN jit_invalidate(jit_invalidate(j, f), f + 1) ELSE j

-----------------------------------------------------------------------------
(* Control flow out of an instruction. *)

Target(i) == <<(cpu.pc[1] + i.dp) % NPages, i.off>>

exception_take(c) ==
  [c EXCEPT !.pc = Vector, !.ctx = VectorCtx, !.masked = TRUE]

\* The JIT's view of the guest is current.
Synced(c, j) == j.jc /\ j.gen /\ j.ctx = c.ctx

\* Generated code goes on at block b without the dispatcher.
JumpTo(c, j, b) ==
  /\ at' = b /\ prev' = 0
  /\ clean' = (clean /\ Synced(c, j))
  /\ UNCHANGED loc

ToDispatcher(p) == loc' = "dispatch" /\ at' = 0 /\ prev' = p /\ UNCHANGED clean

\* The interpreter's loop over a page that is rewritten too often.
Interpreted(c) ==
  /\ loc' \in (IF c.pc[1] = cpu.pc[1] THEN {"interp", "dispatch"} ELSE {"dispatch"})
  /\ UNCHANGED <<at, prev, clean>>

\* A static exit (IRO_JMP): patched, or a stub that returns its number.
ExitStatic(c, j) ==
  /\ cpu' = c /\ jit' = j
  /\ \/ loc = "interp" /\ Interpreted(c)
     \/ /\ loc = "block"
        /\ LET b == j.arena[at].chain
           IN  IF b # 0 THEN JumpTo(c, j, b) ELSE ToDispatcher(at)

\* A helper that returns nonzero: exit_plain.
ExitPlain(c, j) ==
  /\ cpu' = c /\ jit' = j
  /\ \/ loc = "interp" /\ Interpreted(c)
     \/ loc = "block" /\ ToDispatcher(0)

\* BR, BLR, RET (IRO_JMPIND): probe the indirect-branch cache.
ExitIndirect(c, j) ==
  /\ cpu' = c /\ jit' = j
  /\ \/ loc = "interp" /\ Interpreted(c)
     \/ /\ loc = "block"
        /\ LET b == j.jcache[c.pc]
           IN  IF b # 0 /\ j.arena[b].ctx = j.ctx THEN JumpTo(c, j, b) ELSE ToDispatcher(0)

\* The instruction about to execute: the block's copy or the word in memory.
Now == IF loc = "block" THEN jit.arena[at].insn
       ELSE cpu.mem[cpu.map[cpu.pc[1]]][cpu.pc[2]]

Executes(op) ==
  /\ loc \in {"block", "interp"} /\ Now.op = op
  /\ loc = "interp" => cpu.map[cpu.pc[1]] # Unmapped /\ ~(cpu.line /\ ~cpu.masked)

Advance == [cpu EXCEPT !.pc = Target(Now)]

-----------------------------------------------------------------------------
(* Instructions *)

Branch == Executes("b") /\ ExitStatic(Advance, jit)

BranchIndirect ==
  /\ Executes("br")
  /\ \E t \in PCs : ExitIndirect([cpu EXCEPT !.pc = t], jit)

\* A store through the translation; unmapped: data abort.
Store ==
  /\ Executes("str")
  /\ \E t \in PCs, i \in cpu.plan.written :
       LET f == cpu.map[t[1]]
       IN  IF f = Unmapped THEN ExitPlain(exception_take(cpu), jit)
           ELSE ExitStatic(Poke(Advance, f, t[2], i), mem_write(jit, f))

StoreCrossing ==
  /\ Executes("strx")
  /\ \E f \in Ram, i \in cpu.plan.written, o \in Offs :
       /\ f + 1 \in Ram
       /\ ExitStatic([Poke(Poke(Advance, f, o, i), f + 1, o, i) EXCEPT
                        !.raw = @ \/ (f \notin jit.bitmap /\ f + 1 \in jit.bitmap)],
                     mem_write_crossing(jit, f))

\* A store to a device that answers with DMA through phys_write_blk.
DeviceDma ==
  /\ Executes("dma")
  /\ \E f \in Frames, o \in Offs, i \in cpu.plan.written :
       ExitStatic(Poke(Advance, f, o, i), jit_invalidate(jit, f))

\* A store to the fw_cfg DMA register: do_dma writes with phys_write.
FwCfgDma ==
  /\ Executes("fwdma")
  /\ \E f \in Ram, o \in Offs, i \in cpu.plan.written :
       ExitStatic([Poke(Advance, f, o, i) EXCEPT !.raw = TRUE], jit)

\* The confirming store of a flash block erase.
FlashErase ==
  /\ Executes("erase")
  /\ \E f \in Flash :
       ExitStatic([Advance EXCEPT !.mem[f] = [o \in Offs |-> Erased], !.raw = TRUE], jit)

\* IC IVAU ends its block with a plain exit.
IcIvau ==
  /\ Executes("ic")
  /\ \E p \in Pages :
       ExitPlain(Advance, IF cpu.map[p] = Unmapped THEN jit ELSE jit_invalidate(jit, cpu.map[p]))

\* TLBI, or a write to TTBR or TCR: the translation of a page changes.
Tlbi ==
  /\ Executes("tlbi")
  /\ \E p \in Pages, f \in Frames \cup {Unmapped}, full \in BOOLEAN :
       ExitStatic([Advance EXCEPT !.map[p] = f],
                  [jit EXCEPT !.jc = FALSE, !.gen = @ /\ ~full])

\* MSR SPSel or CPACR: the context of later instructions changes.
MsrContext ==
  /\ Executes("msr")
  /\ \E x \in Ctxs : ExitStatic([Advance EXCEPT !.ctx = x], jit)

\* MSR DAIFSet, DAIFClr and DAIF.
MsrMask ==
  /\ Executes("daif")
  /\ \E b \in BOOLEAN : ExitStatic([Advance EXCEPT !.masked = b], jit)

\* ERET, SVC, HVC and undefined instructions vector in their helper, which
\* tells so by comparing the pc with the next instruction's.
Eret ==
  /\ Executes("eret")
  /\ \E t \in PCs, x \in Ctxs, b \in BOOLEAN :
       LET c == [cpu EXCEPT !.pc = t, !.ctx = x, !.masked = b]
       IN  IF t = Target(Now) THEN ExitStatic(c, jit) ELSE ExitPlain(c, jit)

Undefined == Executes("undef") /\ ExitPlain(exception_take(cpu), jit)

-----------------------------------------------------------------------------
(* jit_step *)

Deliverable == cpu.line /\ ~cpu.masked

\* machine_tick between two calls changes the interrupt line.
Tick ==
  /\ loc = "outside"
  /\ cpu' \in {[cpu EXCEPT !.line = b] : b \in BOOLEAN}
  /\ UNCHANGED <<jit, loc, at, prev, clean>>

\* The preamble of jit_step and of cpu_step.
TakeIrq ==
  /\ loc \in {"outside", "interp"} /\ Deliverable
  /\ cpu' = exception_take(cpu)
  /\ loc' = IF loc = "interp" THEN "dispatch" ELSE loc
  /\ UNCHANGED <<jit, at, prev, clean>>

EnterLoop ==
  /\ loc = "outside" /\ ~Deliverable
  /\ loc' = "dispatch" /\ prev' = 0
  /\ UNCHANGED <<cpu, jit, at, clean>>

\* The loop ends at the instruction deadline, on env->interrupt, or when an
\* interrupt can be taken.
LeaveLoop ==
  /\ loc = "dispatch"
  /\ loc' = "outside" /\ prev' = 0
  /\ UNCHANGED <<cpu, jit, at, clean>>

\* The indirect-branch cache is emptied if a TLBI ran since the last round.
Purged(j) == IF j.jc THEN j ELSE [jcache_purge(j) EXCEPT !.jc = TRUE]

\* Fetch abort on the code page, or one that is interpreted in place.
DispatchSlow ==
  /\ loc = "dispatch" /\ ~Deliverable
  /\ jit' = Purged(jit) /\ prev' = 0
  /\ \/ /\ cpu.map[cpu.pc[1]] = Unmapped
        /\ cpu' = exception_take(cpu)
        /\ UNCHANGED loc
     \/ /\ cpu.map[cpu.pc[1]] # Unmapped
        /\ jit.thrash[cpu.map[cpu.pc[1]]] >= ThrashLimit
        /\ loc' = "interp"
        /\ UNCHANGED cpu
  /\ UNCHANGED <<at, clean>>

\* Chaining: b is the static successor of p, on its page, in its context, and
\* p is still the block a lookup finds.
Chainable(j, p, b) ==
  LET from == j.arena[p]
      to == j.arena[b]
  IN  /\ <<(from.pc[1] + from.insn.dp) % NPages, from.insn.off>> = to.pc
      /\ from.chain = 0 /\ from.ctx = to.ctx /\ from.pc[1] = to.pc[1]
      /\ jit_lookup(j, from.pc, from.ctx, from.frame) = p

\* Find or translate the block at pc, chain the exit that led here, refill
\* the indirect-branch cache and enter the block.
Dispatch ==
  /\ loc = "dispatch" /\ ~Deliverable
  /\ LET f     == cpu.map[cpu.pc[1]]
         j0    == [Purged(jit) EXCEPT !.ctx = cpu.ctx, !.gen = TRUE]
         found == jit_lookup(j0, cpu.pc, cpu.ctx, f)
         j1    == IF found # 0 THEN j0
                  ELSE jit_translate(j0, cpu.pc, cpu.ctx, f, cpu.mem[f][cpu.pc[2]])
         b     == IF found # 0 THEN found ELSE Len(j1.arena)
         p     == IF found = 0 /\ Full(j0) THEN 0 ELSE prev
         j2    == IF p # 0 /\ Chainable(j1, p, b) THEN [j1 EXCEPT !.arena[p].chain = b] ELSE j1
     IN  /\ f # Unmapped /\ jit.thrash[f] < ThrashLimit
         /\ jit' = [j2 EXCEPT !.jcache[cpu.pc] = b]
         /\ at' = b
  /\ loc' = "block" /\ prev' = 0
  /\ UNCHANGED <<cpu, clean>>

\* The check at the entry of every block: deadline or env->interrupt.
Safepoint ==
  /\ loc = "block"
  /\ cpu' = [cpu EXCEPT !.pc = jit.arena[at].pc]
  /\ loc' = "outside" /\ at' = 0 /\ prev' = 0
  /\ UNCHANGED <<jit, clean>>

\* SYSTEM_RESET, handled by the run loop between two calls.
WarmReboot ==
  /\ loc = "outside"
  /\ cpu' = [exception_take(cpu) EXCEPT !.map = cpu.plan.map, !.line = FALSE]
  /\ jit' = jit_reset(jit)
  /\ UNCHANGED <<loc, at, prev, clean>>

Init ==
  /\ \E p \in Plans : \E m \in p.mems :
       cpu = [mem |-> m, map |-> p.map, ctx |-> VectorCtx, pc |-> Vector,
              line |-> FALSE, masked |-> TRUE, plan |-> p, raw |-> FALSE]
  /\ jit = jit_init /\ loc = "outside" /\ at = 0 /\ prev = 0 /\ clean = TRUE

Instruction ==
  \/ Branch \/ BranchIndirect \/ Store \/ StoreCrossing \/ DeviceDma \/ FwCfgDma
  \/ FlashErase \/ IcIvau \/ Tlbi \/ MsrContext \/ MsrMask \/ Eret \/ Undefined

Next ==
  \/ Instruction \/ Tick \/ TakeIrq \/ EnterLoop \/ LeaveLoop
  \/ DispatchSlow \/ Dispatch \/ Safepoint \/ WarmReboot

Spec == Init /\ [][Next]_vars

-----------------------------------------------------------------------------
(* Properties *)

Blocks == [pc : PCs, ctx : Ctxs, frame : Frames, insn : Insns \cup {Erased},
           live : BOOLEAN, chain : 0..MaxBlocks]

\* Shape of the state; the arena never outgrows JIT_MAX_BLOCKS.
TypeOK ==
  /\ cpu.mem \in [Frames -> [Offs -> Insns \cup {Erased}]]
  /\ cpu.map \in [Pages -> Frames \cup {Unmapped}] /\ cpu.ctx \in Ctxs /\ cpu.pc \in PCs
  /\ Len(jit.arena) <= MaxBlocks /\ \A i \in DOMAIN jit.arena : jit.arena[i] \in Blocks
  /\ jit.jcache \in [PCs -> 0..MaxBlocks] /\ jit.bitmap \subseteq Ram /\ jit.w \subseteq Ram
  /\ jit.thrash \in [Frames -> 0..ThrashLimit]
  /\ loc \in {"outside", "dispatch", "block", "interp"}
  /\ at \in 0..Len(jit.arena) /\ prev \in 0..Len(jit.arena)
  /\ loc = "block" => at # 0

\* Store tracking: a RAM page with a live translation is marked, and no D-TLB
\* entry lets a store reach a marked page without the invalidation hook.
StoresTracked ==
  /\ \A i \in DOMAIN jit.arena :
       jit.arena[i].live /\ jit.arena[i].frame \in Ram => jit.arena[i].frame \in jit.bitmap
  /\ jit.bitmap \cap jit.w = {}

\* Neither a patched jump nor the indirect-branch cache leads to a block that
\* was dropped, whatever was invalidated, flushed or chained meanwhile.
NoDanglingJump ==
  /\ \A i \in DOMAIN jit.arena :
       jit.arena[i].chain # 0 => jit.arena[i].chain \in DOMAIN jit.arena
                                 /\ jit.arena[jit.arena[i].chain].live
  /\ \A t \in PCs :
       jit.jcache[t] # 0 => jit.jcache[t] \in DOMAIN jit.arena
                            /\ jit.arena[jit.jcache[t]].live /\ jit.arena[jit.jcache[t]].pc = t

\* The running block was compiled from what memory holds now, through the
\* translation in force, for the current context.
Current ==
  loc = "block" =>
    LET b == jit.arena[at]
    IN  /\ b.frame = cpu.map[b.pc[1]] /\ b.insn = cpu.mem[b.frame][b.pc[2]]
        /\ b.ctx = cpu.ctx /\ b.pc = cpu.pc

\* Under stores to code, DMA, IC IVAU, TLBIs, context changes and reboots the
\* JIT runs current code, as long as every change of translation or context
\* has been followed by a pass through the dispatcher, and no fw_cfg DMA,
\* flash erase or store across two pages wrote code past the hook.
RunsCurrentCode == clean /\ ~cpu.raw => Current

=============================================================================
