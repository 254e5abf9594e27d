------------------------------ MODULE JitStores ------------------------------
(***************************************************************************)
(* Proofs about the JIT's code cache, first part: the inductive invariant, *)
(* what dropping translations and storing to code do to it, and the        *)
(* operations of the dispatcher (lookup, flush, translation, chaining, and *)
(* the refill of the indirect-branch cache).  JitInv: the cache is well    *)
(* formed, stores are tracked, jumps lead to live blocks and, until code is*)
(* written past the hook or a chained jump runs behind the dispatcher's    *)
(* back, the cache is coherent with the guest.                             *)
(***************************************************************************)
EXTENDS Jit, TLAPS, WellFoundedInduction

Code == Insns \cup {Erased}

Cpus == [mem : [Frames -> [Offs -> Code]], map : [Pages -> Frames \cup {Unmapped}],
         ctx : Ctxs, pc : PCs, line : BOOLEAN, masked : BOOLEAN, plan : Plans, raw : BOOLEAN]

Jits == [arena : Seq(Blocks), jcache : [PCs -> 0..MaxBlocks], bitmap : SUBSET Ram,
         thrash : [Frames -> 0..ThrashLimit], w : SUBSET Ram,
         ctx : Ctxs, gen : BOOLEAN, jc : BOOLEAN]

Typed(j) == j \in Jits /\ Len(j.arena) <= MaxBlocks

\* A RAM page with a live block is marked, a marked page has no W entry.
Tracked(j) ==
  /\ \A i \in DOMAIN j.arena : j.arena[i].live /\ j.arena[i].frame \in Ram => j.arena[i].frame \in j.bitmap
  /\ j.bitmap \cap j.w = {}

\* Block b is where the static exit of block a goes, in a's page and context.
Follows(a, b) ==
  /\ b.pc = <<(a.pc[1] + a.insn.dp) % NPages, a.insn.off>>
  /\ b.ctx = a.ctx /\ b.pc[1] = a.pc[1]

\* Patched jumps and the indirect-branch cache lead to live blocks of the
\* right address.
Linked(j) ==
  /\ \A i \in DOMAIN j.arena :
       j.arena[i].chain # 0 => /\ j.arena[i].chain \in DOMAIN j.arena
                               /\ j.arena[j.arena[i].chain].live
                               /\ Follows(j.arena[i], j.arena[j.arena[i].chain])
  /\ \A t \in PCs :
       j.jcache[t] # 0 => /\ j.jcache[t] \in DOMAIN j.arena
                          /\ j.arena[j.jcache[t]].live
                          /\ j.arena[j.jcache[t]].pc = t

Sound(j) == Typed(j) /\ Tracked(j) /\ Linked(j)

\* What memory holds where block b was compiled from.
Word(c, b) == c.mem[b.frame][b.pc[2]]

\* Live blocks are copies of memory.
Faithful(c, j) ==
  \A i \in DOMAIN j.arena :
    j.arena[i].live => j.arena[i].insn = Word(c, j.arena[i])

\* A chained jump stays in its physical page, unless it follows a TLBI.
SameFrame(j) ==
  \A i \in DOMAIN j.arena :
    j.arena[i].chain # 0 /\ j.arena[i].insn.op # "tlbi"
      => j.arena[j.arena[i].chain].frame = j.arena[i].frame

\* The indirect-branch cache follows the translation since the last TLBI.
CacheMapped(c, j) ==
  j.jc => \A t \in PCs : j.jcache[t] # 0 => j.arena[j.jcache[t]].frame = c.map[t[1]]

Coherent(c, j) == Faithful(c, j) /\ SameFrame(j) /\ CacheMapped(c, j)

\* Where control is, and what the running and the last block say.
Located(j, l, a, p) ==
  /\ l \in {"outside", "dispatch", "block", "interp"}
  /\ a \in 0..Len(j.arena) /\ p \in 0..Len(j.arena)
  /\ l = "block" <=> a # 0
  /\ p # 0 => l = "dispatch"

\* The running block is current and the JIT's view of the guest too.
Running(c, j, a) ==
  /\ j.arena[a].frame = c.map[j.arena[a].pc[1]]
  /\ j.arena[a].insn = Word(c, j.arena[a])
  /\ j.arena[a].ctx = c.ctx /\ j.arena[a].pc = c.pc
  /\ Synced(c, j)

\* The block that returned to the dispatcher is still mapped where it was.
Left(c, j, p) ==
  j.arena[p].insn.op # "tlbi" => j.arena[p].frame = c.map[j.arena[p].pc[1]]

Inv(c, j, l, a, p, q) ==
  /\ c \in Cpus /\ q \in BOOLEAN
  /\ Sound(j) /\ Located(j, l, a, p)
  /\ q /\ ~c.raw => /\ Coherent(c, j)
                    /\ a # 0 => Running(c, j, a)
                    /\ p # 0 => Left(c, j, p)

JitInv == Inv(cpu, jit, loc, at, prev, clean)

-----------------------------------------------------------------------------
(* Forgetting translations *)

\* n is j with some blocks dropped and some jumps and cache entries cleared.
Forgets(j, n) ==
  /\ Len(n.arena) = Len(j.arena)
  /\ \A i \in DOMAIN j.arena :
       /\ n.arena[i].pc = j.arena[i].pc /\ n.arena[i].ctx = j.arena[i].ctx
       /\ n.arena[i].frame = j.arena[i].frame /\ n.arena[i].insn = j.arena[i].insn
       /\ n.arena[i].live => j.arena[i].live
       /\ n.arena[i].chain \in {0, j.arena[i].chain}
  /\ \A t \in PCs : n.jcache[t] \in {0, j.jcache[t]}

NoneLive(j, f) == \A i \in DOMAIN j.arena : j.arena[i].live => j.arena[i].frame # f

SameView(j, n) == n.ctx = j.ctx /\ n.gen = j.gen /\ n.jc = j.jc

\* The blocks of the arena are indexed from 1 and are well formed.
LEMMA ArenaTyped ==
  ASSUME NEW j, Typed(j)
  PROVE  /\ j.arena \in Seq(Blocks) /\ Len(j.arena) \in Nat
         /\ DOMAIN j.arena = 1..Len(j.arena)
         /\ \A i \in DOMAIN j.arena : j.arena[i] \in Blocks
BY DEF Typed, Jits

\* A patched jump leads to a live block where its static exit goes.
LEMMA ChainLinked ==
  ASSUME NEW j, Sound(j), NEW i \in DOMAIN j.arena, j.arena[i].chain # 0
  PROVE  /\ j.arena[i].chain \in DOMAIN j.arena /\ j.arena[j.arena[i].chain].live
         /\ Follows(j.arena[i], j.arena[j.arena[i].chain])
BY Zenon DEF Sound, Linked

\* An entry of the indirect-branch cache leads to a live block of its address.
LEMMA CacheLinked ==
  ASSUME NEW j, Sound(j), NEW t \in PCs, j.jcache[t] # 0
  PROVE  /\ j.jcache[t] \in DOMAIN j.arena /\ j.arena[j.jcache[t]].live
         /\ j.arena[j.jcache[t]].pc = t
BY Zenon DEF Sound, Linked

\* The links are in the arena and the indirect-branch cache alone.
LEMMA SameLinks ==
  ASSUME NEW j, Linked(j), NEW n, n.arena = j.arena, n.jcache = j.jcache
  PROVE  Linked(n)
BY SMT DEF Linked

\* Dropping a page (jit_drop_page) leaves a sound cache without live blocks of
\* the page: every jump into them was unpatched.
LEMMA DropSound ==
  ASSUME NEW j, Sound(j), NEW f \in Frames
  PROVE  LET n == jit_drop_page(j, f)
         IN  /\ Sound(n) /\ Forgets(j, n) /\ NoneLive(n, f) /\ SameView(j, n)
             /\ n.bitmap = j.bitmap /\ n.w = j.w /\ n.thrash = j.thrash
<1> DEFINE n == jit_drop_page(j, f)
           gone == {i \in DOMAIN j.arena : j.arena[i].live /\ j.arena[i].frame = f}
           kept == [i \in DOMAIN j.arena |->
                      [j.arena[i] EXCEPT !.live = @ /\ i \notin gone,
                                         !.chain = IF @ \in gone THEN 0 ELSE @]]
<1>1. /\ j.arena \in Seq(Blocks) /\ Len(j.arena) \in Nat /\ DOMAIN j.arena = 1..Len(j.arena)
      /\ \A i \in DOMAIN j.arena : j.arena[i] \in Blocks
  BY ArenaTyped, Zenon DEF Sound
<1>2. n = [j EXCEPT !.arena = kept, !.jcache = IF gone = {} THEN @ ELSE [t \in PCs |-> 0]]
  BY ZenonT(60) DEF jit_drop_page, jcache_purge, jit_init, Sound, Typed, Jits
<1>3. /\ n.arena = kept /\ n.bitmap = j.bitmap /\ n.w = j.w /\ n.thrash = j.thrash
      /\ n.ctx = j.ctx /\ n.gen = j.gen /\ n.jc = j.jc
      /\ n.jcache = IF gone = {} THEN j.jcache ELSE [t \in PCs |-> 0]
  BY <1>2, Zenon DEF Sound, Typed, Jits
<1>4. ASSUME NEW i \in DOMAIN j.arena
      PROVE  /\ kept[i].pc = j.arena[i].pc /\ kept[i].ctx = j.arena[i].ctx
             /\ kept[i].frame = j.arena[i].frame /\ kept[i].insn = j.arena[i].insn
             /\ kept[i].live <=> (j.arena[i].live /\ i \notin gone)
             /\ kept[i].chain = IF j.arena[i].chain \in gone THEN 0 ELSE j.arena[i].chain
             /\ kept[i] \in Blocks
  <2> DEFINE l == j.arena[i].live /\ i \notin gone
             x == IF j.arena[i].chain \in gone THEN 0 ELSE j.arena[i].chain
  <2>1. kept[i] = [j.arena[i] EXCEPT !.live = l, !.chain = x]
    BY <1>1, Zenon DEF Blocks
  <2>2. l \in BOOLEAN /\ x \in 0..MaxBlocks /\ j.arena[i] \in Blocks
    <3>1. j.arena[i] \in Blocks
      BY <1>1, Zenon
    <3>2. j.arena[i].chain \in 0..MaxBlocks
      BY <3>1, Zenon DEF Blocks
    <3> HIDE DEF gone
    <3>3. x \in 0..MaxBlocks
      BY <3>2, JitAssumption
    <3> QED BY <3>1, <3>3, Zenon
  <2> HIDE DEF l, x, kept
  <2>3. /\ kept[i].pc = j.arena[i].pc /\ kept[i].ctx = j.arena[i].ctx
        /\ kept[i].frame = j.arena[i].frame /\ kept[i].insn = j.arena[i].insn
        /\ kept[i].live = l /\ kept[i].chain = x /\ kept[i] \in Blocks
    <3> DEFINE b == j.arena[i]
               k == kept[i]
    <3>1. b \in Blocks /\ k = [b EXCEPT !.live = l, !.chain = x]
      BY <2>1, <2>2, Zenon
    <3> HIDE DEF b, k
    <3>2. /\ k.pc = b.pc /\ k.ctx = b.ctx /\ k.frame = b.frame /\ k.insn = b.insn
          /\ k.live = l /\ k.chain = x /\ k \in Blocks
      BY <3>1, <2>2, Zenon DEF Blocks
    <3> QED BY <3>2, Zenon DEF b, k
  <2>4. kept[i].live <=> (j.arena[i].live /\ i \notin gone)
    BY <2>3, Zenon DEF l
  <2>5. kept[i].chain = IF j.arena[i].chain \in gone THEN 0 ELSE j.arena[i].chain
    BY <2>3, Zenon DEF x
  <2> QED BY <2>3, <2>4, <2>5, Zenon
<1>5. kept \in Seq(Blocks) /\ Len(kept) = Len(j.arena) /\ DOMAIN kept = DOMAIN j.arena
  <2>1. DOMAIN kept = 1..Len(j.arena)
    BY <1>1, Zenon
  <2>2. kept \in [1..Len(j.arena) -> Blocks]
    <3>1. kept = [i \in DOMAIN j.arena |-> kept[i]]
      BY Zenon
    <3> HIDE DEF kept
    <3> QED BY <3>1, <1>1, <1>4, Zenon
  <2> HIDE DEF kept, gone
  <2> QED BY <1>1, <2>1, <2>2
<1>6. n \in Jits
  <2>0. j.jcache \in [PCs -> 0..MaxBlocks] /\ 0 \in 0..MaxBlocks
    BY JitAssumption DEF Sound, Typed, Jits
  <2> HIDE DEF gone, n, kept
  <2>1. n.jcache \in [PCs -> 0..MaxBlocks]
    BY <1>3, <2>0, Zenon
  <2>2. [j EXCEPT !.arena = kept, !.jcache = n.jcache] \in Jits
    BY <2>1, <1>5, Zenon DEF Sound, Typed, Jits
  <2>3. n = [j EXCEPT !.arena = kept, !.jcache = n.jcache]
    BY <1>2, <2>0, Zenon DEF Sound, Typed, Jits
  <2> QED BY <2>2, <2>3, Zenon
<1> HIDE DEF n, kept
<1>7. Typed(n)
  BY <1>6, <1>5, <1>3, Zenon DEF Typed, Sound
<1>8. Tracked(n)
  BY <1>3, <1>4, <1>5, ZenonT(60) DEF Tracked, Sound
<1>9. Linked(n)
  <2>1. ASSUME NEW i \in DOMAIN n.arena, n.arena[i].chain # 0
        PROVE  /\ n.arena[i].chain \in DOMAIN n.arena /\ n.arena[n.arena[i].chain].live
               /\ Follows(n.arena[i], n.arena[n.arena[i].chain])
    <3>1. i \in DOMAIN j.arena /\ n.arena[i].chain = j.arena[i].chain /\ j.arena[i].chain \notin gone
      BY <2>1, <1>3, <1>4, <1>5, Zenon
    <3>2. j.arena[i].chain \in DOMAIN j.arena /\ j.arena[j.arena[i].chain].live
          /\ Follows(j.arena[i], j.arena[j.arena[i].chain])
      BY <3>1, <2>1, Zenon DEF Linked, Sound
    <3>3. i \in DOMAIN j.arena /\ j.arena[i].chain \in DOMAIN j.arena
      BY <3>1, <3>2, Zenon
    <3> HIDE DEF gone
    <3>4. n.arena[j.arena[i].chain].live
      BY <3>1, <3>2, <3>3, <1>3, <1>4, Zenon
    <3>5. Follows(n.arena[i], n.arena[j.arena[i].chain])
      BY <3>2, <3>3, <1>3, <1>4, Zenon DEF Follows
    <3> QED BY <3>1, <3>3, <3>4, <3>5, <1>3, <1>5, Zenon
  <2>2. ASSUME NEW t \in PCs, n.jcache[t] # 0
        PROVE  /\ n.jcache[t] \in DOMAIN n.arena /\ n.arena[n.jcache[t]].live
               /\ n.arena[n.jcache[t]].pc = t
    <3>1. gone = {} /\ n.jcache[t] = j.jcache[t]
      BY <2>2, <1>3, Zenon
    <3>2. j.jcache[t] \in DOMAIN j.arena /\ j.arena[j.jcache[t]].live /\ j.arena[j.jcache[t]].pc = t
      BY <3>1, <2>2, Zenon DEF Linked, Sound
    <3>3. j.jcache[t] \notin gone
      BY <3>1, Zenon
    <3> HIDE DEF gone
    <3> QED BY <3>3, <3>1, <3>2, <1>3, <1>4, <1>5
  <2> QED BY <2>1, <2>2, Zenon DEF Linked
<1>10. NoneLive(n, f)
  BY <1>3, <1>4, <1>5 DEF NoneLive
<1>11. Forgets(j, n)
  BY <1>3, <1>4, <1>5, ZenonT(60) DEF Forgets
<1> QED BY <1>3, <1>7, <1>8, <1>9, <1>10, <1>11, Zenon DEF Sound, SameView, n

\* Invalidating a page (jit_invalidate) leaves a sound cache without live
\* blocks of it: an unmarked RAM page has none to begin with.
LEMMA InvalidateSound ==
  ASSUME NEW j, Sound(j), NEW f \in Frames
  PROVE  LET n == jit_invalidate(j, f)
         IN  /\ Sound(n) /\ Forgets(j, n) /\ NoneLive(n, f) /\ SameView(j, n)
             /\ n.bitmap \subseteq j.bitmap /\ n.w = j.w /\ f \notin n.bitmap
<1> DEFINE n == jit_invalidate(j, f)
           d == jit_drop_page(j, f)
<1>1. CASE f \in Ram \ j.bitmap
  <2>1. n = j
    BY <1>1, Zenon DEF jit_invalidate
  <2>2. NoneLive(j, f)
    BY <1>1, Zenon DEF NoneLive, Sound, Tracked
  <2>3. Forgets(j, j)
    BY Zenon DEF Forgets
  <2> QED BY <1>1, <2>1, <2>2, <2>3, Zenon DEF SameView
<1>2. CASE f \notin Ram \ j.bitmap
  <2>1. /\ Sound(d) /\ Forgets(j, d) /\ NoneLive(d, f) /\ SameView(j, d)
        /\ d.bitmap = j.bitmap /\ d.w = j.w /\ d.thrash = j.thrash
    BY DropSound, Zenon
  <2>2. n = [d EXCEPT !.thrash[f] = IF @ < ThrashLimit THEN @ + 1 ELSE @, !.bitmap = @ \ {f}]
    BY <1>2, Zenon DEF jit_invalidate
  <2> HIDE DEF d, n
  <2>3. /\ n.arena = d.arena /\ n.jcache = d.jcache /\ n.bitmap = d.bitmap \ {f} /\ n.w = d.w
        /\ n.ctx = d.ctx /\ n.gen = d.gen /\ n.jc = d.jc
    BY <2>1, <2>2, Zenon DEF Sound, Typed, Jits
  <2>4. n \in Jits
    <3>1. d \in Jits /\ d.thrash \in [Frames -> 0..ThrashLimit] /\ ThrashLimit \in Nat
      BY <2>1, JitAssumption, Zenon DEF Sound, Typed, Jits
    <3>2. d.thrash[f] \in 0..ThrashLimit
      BY <3>1, Zenon
    <3>3. (IF d.thrash[f] < ThrashLimit THEN d.thrash[f] + 1 ELSE d.thrash[f]) \in 0..ThrashLimit
      BY <3>1, <3>2
    <3>4. [d.thrash EXCEPT ![f] = IF @ < ThrashLimit THEN @ + 1 ELSE @] \in [Frames -> 0..ThrashLimit]
      BY <3>1, <3>3, Zenon
    <3> QED BY <2>2, <3>1, <3>4, Zenon DEF Jits
  <2>5. Typed(n)
    BY <2>1, <2>3, <2>4, Zenon DEF Sound, Typed
  <2>6. Tracked(n)
    BY <2>1, <2>3, ZenonT(60) DEF Sound, Tracked, NoneLive
  <2>7. Linked(n)
    BY <2>1, <2>3, SameLinks, Zenon DEF Sound
  <2>8. Forgets(j, n) /\ NoneLive(n, f) /\ SameView(j, n)
    BY <2>1, <2>3 DEF Forgets, NoneLive, SameView
  <2> QED BY <2>1, <2>3, <2>5, <2>6, <2>7, <2>8, Zenon DEF Sound, n
<1> QED BY <1>1, <1>2, Zenon


-----------------------------------------------------------------------------
(* Coherence with the guest *)

\* Memories c and d agree on what the live blocks were compiled from.
Agree(c, d, j) ==
  \A i \in DOMAIN j.arena :
    j.arena[i].live => Word(d, j.arena[i]) = Word(c, j.arena[i])

\* A guest with the same memory agrees, and with the same translation too the
\* cache is as coherent with it.
LEMMA SameGuest ==
  ASSUME NEW c, NEW d, NEW j, d.mem = c.mem
  PROVE  Agree(c, d, j) /\ (d.map = c.map /\ Coherent(c, j) => Coherent(d, j))
<1>1. \A b : Word(d, b) = Word(c, b)
  BY Zenon DEF Word
<1>2. Agree(c, d, j)
  BY <1>1, Zenon DEF Agree
<1>3. ASSUME d.map = c.map, Coherent(c, j) PROVE Coherent(d, j)
  BY <1>1, <1>3, Zenon DEF Coherent, Faithful, CacheMapped
<1> QED BY <1>2, <1>3, Zenon

\* Agreement composes.
LEMMA AgreeTwice ==
  ASSUME NEW c, NEW d, NEW e, NEW j, Agree(c, d, j), Agree(d, e, j)
  PROVE  Agree(c, e, j)
<1>1. ASSUME NEW i \in DOMAIN j.arena, j.arena[i].live
      PROVE  Word(e, j.arena[i]) = Word(c, j.arena[i])
  <2>1. Word(d, j.arena[i]) = Word(c, j.arena[i])
    BY <1>1, Zenon DEF Agree
  <2>2. Word(e, j.arena[i]) = Word(d, j.arena[i])
    BY <1>1, Zenon DEF Agree
  <2> QED BY <2>1, <2>2, Zenon
<1> QED BY <1>1, Zenon DEF Agree

\* Forgetting translations keeps the cache coherent with a guest whose writes
\* left the live blocks alone; a new translation of addresses counts as a TLBI.
LEMMA ForgetsCoherent ==
  ASSUME NEW c, NEW d, NEW j, NEW n, Sound(j), Sound(n), Forgets(j, n), Coherent(c, j),
         n.jc => j.jc /\ d.map = c.map, Agree(c, d, n)
  PROVE  Coherent(d, n)
<1>1. /\ DOMAIN j.arena = 1..Len(j.arena) /\ DOMAIN n.arena = 1..Len(n.arena)
      /\ Len(n.arena) = Len(j.arena)
  BY ArenaTyped, Zenon DEF Sound, Forgets
<1>2. Faithful(d, n)
  <2>1. ASSUME NEW i \in DOMAIN n.arena, n.arena[i].live
        PROVE  n.arena[i].insn = Word(d, n.arena[i])
    <3>1. /\ j.arena[i].live /\ n.arena[i].insn = j.arena[i].insn
          /\ n.arena[i].frame = j.arena[i].frame /\ n.arena[i].pc = j.arena[i].pc
      BY <1>1, <2>1, Zenon DEF Forgets
    <3>2. j.arena[i].insn = Word(c, j.arena[i])
      BY <1>1, <2>1, <3>1, Zenon DEF Coherent, Faithful
    <3>3. Word(d, n.arena[i]) = Word(c, n.arena[i])
      BY <2>1, Zenon DEF Agree
    <3>4. Word(c, n.arena[i]) = Word(c, j.arena[i])
      BY <3>1, Zenon DEF Word
    <3> QED BY <3>1, <3>2, <3>3, <3>4, Zenon
  <2> QED BY <2>1, Zenon DEF Faithful
<1>3. SameFrame(n)
  <2>1. ASSUME NEW i \in DOMAIN n.arena, n.arena[i].chain # 0, n.arena[i].insn.op # "tlbi"
        PROVE  n.arena[n.arena[i].chain].frame = n.arena[i].frame
    <3>1. /\ i \in DOMAIN j.arena /\ n.arena[i].chain = j.arena[i].chain
          /\ n.arena[i].insn = j.arena[i].insn /\ n.arena[i].frame = j.arena[i].frame
      BY <1>1, <2>1, Zenon DEF Forgets
    <3>2. n.arena[i].chain \in DOMAIN j.arena
      BY <1>1, <2>1, Zenon DEF Sound, Linked
    <3>3. j.arena[j.arena[i].chain].frame = j.arena[i].frame
      BY <2>1, <3>1, Zenon DEF Coherent, SameFrame
    <3> QED BY <3>1, <3>2, <3>3 DEF Forgets
  <2> QED BY <2>1, Zenon DEF SameFrame
<1>4. CacheMapped(d, n)
  <2>1. ASSUME n.jc, NEW t \in PCs, n.jcache[t] # 0
        PROVE  n.arena[n.jcache[t]].frame = d.map[t[1]]
    <3>1. n.jcache[t] = j.jcache[t]
      BY <2>1, Zenon DEF Forgets
    <3>2. n.jcache[t] \in DOMAIN j.arena
      BY <1>1, <2>1, Zenon DEF Sound, Linked
    <3>3. j.arena[j.jcache[t]].frame = c.map[t[1]]
      BY <2>1, <3>1, Zenon DEF Coherent, CacheMapped
    <3> QED BY <2>1, <3>1, <3>2, <3>3, ZenonT(60) DEF Forgets
  <2> QED BY <2>1, Zenon DEF CacheMapped
<1> QED BY <1>2, <1>3, <1>4, Zenon DEF Coherent

\* A write to a page without live blocks is one the blocks agree with.
LEMMA PokeAgrees ==
  ASSUME NEW c \in Cpus, NEW j, Sound(j), NEW f \in Frames, NoneLive(j, f),
         NEW d, NEW m, d.mem = [c.mem EXCEPT ![f] = m]
  PROVE  Agree(c, d, j)
<1>1. ASSUME NEW i \in DOMAIN j.arena, j.arena[i].live
      PROVE  d.mem[j.arena[i].frame] = c.mem[j.arena[i].frame]
  <2>1. j.arena[i].frame # f /\ j.arena[i].frame \in Frames
    BY <1>1, ArenaTyped, Zenon DEF NoneLive, Sound, Blocks
  <2>2. c.mem \in [Frames -> [Offs -> Code]]
    BY Zenon DEF Cpus
  <2> QED BY <2>1, <2>2, Zenon
<1>2. ASSUME NEW i \in DOMAIN j.arena, j.arena[i].live
      PROVE  Word(d, j.arena[i]) = Word(c, j.arena[i])
  BY <1>1, <1>2, Zenon DEF Word
<1> QED BY <1>2, Zenon DEF Agree

\* A write of one instruction keeps the guest well formed and changes only
\* its page.
LEMMA PokeTyped ==
  ASSUME NEW c \in Cpus, NEW f \in Frames, NEW o \in Offs, NEW i \in Code
  PROVE  /\ Poke(c, f, o, i) \in Cpus
         /\ Poke(c, f, o, i).mem = [c.mem EXCEPT ![f] = [c.mem[f] EXCEPT ![o] = i]]
         /\ Poke(c, f, o, i).map = c.map /\ Poke(c, f, o, i).pc = c.pc
         /\ Poke(c, f, o, i).raw = c.raw /\ Poke(c, f, o, i).ctx = c.ctx
<1>1. c.mem \in [Frames -> [Offs -> Code]]
  BY Zenon DEF Cpus
<1> DEFINE m == [c.mem EXCEPT ![f] = [c.mem[f] EXCEPT ![o] = i]]
<1>2. m \in [Frames -> [Offs -> Code]]
  BY <1>1, Zenon
<1>3. Poke(c, f, o, i) = [c EXCEPT !.mem = m]
  BY <1>1, Zenon DEF Poke, Cpus
<1> HIDE DEF m
<1>4. [c EXCEPT !.mem = m] \in Cpus
  BY <1>2, Zenon DEF Cpus
<1> QED BY <1>3, <1>4, Zenon DEF Cpus, m

-----------------------------------------------------------------------------
(* Stores *)

\* Forgetting composes.
LEMMA ForgetsTwice ==
  ASSUME NEW j, NEW m, NEW n, Sound(j), Sound(m), Sound(n), Forgets(j, m), Forgets(m, n)
  PROVE  Forgets(j, n) /\ \A f : NoneLive(m, f) => NoneLive(n, f)
<1>1. /\ DOMAIN j.arena = 1..Len(j.arena) /\ DOMAIN m.arena = 1..Len(m.arena)
      /\ DOMAIN n.arena = 1..Len(n.arena)
      /\ Len(m.arena) = Len(j.arena) /\ Len(n.arena) = Len(m.arena)
  BY ArenaTyped, Zenon DEF Sound, Forgets
<1>2. Forgets(j, n)
  <2>1. ASSUME NEW i \in DOMAIN j.arena
        PROVE  /\ n.arena[i].pc = j.arena[i].pc /\ n.arena[i].ctx = j.arena[i].ctx
               /\ n.arena[i].frame = j.arena[i].frame /\ n.arena[i].insn = j.arena[i].insn
               /\ n.arena[i].live => j.arena[i].live
               /\ n.arena[i].chain \in {0, j.arena[i].chain}
    BY <1>1 DEF Forgets
  <2>2. ASSUME NEW t \in PCs PROVE n.jcache[t] \in {0, j.jcache[t]}
    BY Zenon DEF Forgets
  <2> QED BY <1>1, <2>1, <2>2, Zenon DEF Forgets
<1>3. ASSUME NEW f, NoneLive(m, f) PROVE NoneLive(n, f)
  BY <1>1, <1>3, ZenonT(60) DEF Forgets, NoneLive
<1> QED BY <1>2, <1>3, Zenon

\* A store (mem_write) leaves a sound cache without live blocks of its page:
\* a W entry is only there when the page has none.
LEMMA MemWriteSound ==
  ASSUME NEW j, Sound(j), NEW f \in Frames
  PROVE  LET n == mem_write(j, f)
         IN  Sound(n) /\ Forgets(j, n) /\ NoneLive(n, f) /\ SameView(j, n)
<1>1. CASE f \in j.w
  <2>1. mem_write(j, f) = j
    BY <1>1, Zenon DEF mem_write
  <2>2. f \in Ram /\ f \notin j.bitmap
    BY <1>1, Zenon DEF Sound, Typed, Jits, Tracked
  <2>3. NoneLive(j, f)
    BY <2>2, Zenon DEF NoneLive, Sound, Tracked
  <2> QED BY <2>1, <2>3, Zenon DEF Forgets, SameView
<1>2. CASE f \notin j.w
  <2> DEFINE d == jit_invalidate(j, f)
             n == mem_write(j, f)
  <2>1. Sound(d) /\ Forgets(j, d) /\ NoneLive(d, f) /\ SameView(j, d)
    BY InvalidateSound, Zenon
  <2>2. n = [d EXCEPT !.w = IF f \in Ram \ d.bitmap THEN @ \cup {f} ELSE @]
    BY <1>2, Zenon DEF mem_write
  <2> HIDE DEF d, n
  <2>3. d \in Jits
    BY <2>1, Zenon DEF Sound, Typed
  <2>4. /\ n \in Jits /\ n.arena = d.arena /\ n.jcache = d.jcache /\ n.bitmap = d.bitmap
        /\ n.w = IF f \in Ram \ d.bitmap THEN d.w \cup {f} ELSE d.w
        /\ n.ctx = d.ctx /\ n.gen = d.gen /\ n.jc = d.jc
    BY <2>2, <2>3, Zenon DEF Jits
  <2>5. Typed(n) /\ Linked(n)
    BY <2>1, <2>4, SameLinks, Zenon DEF Sound, Typed
  <2>6. Tracked(n)
    BY <2>1, <2>4, Zenon DEF Sound, Tracked
  <2>7. Forgets(j, n) /\ NoneLive(n, f) /\ SameView(j, n)
    BY <2>1, <2>4 DEF Forgets, NoneLive, SameView
  <2> QED BY <2>5, <2>6, <2>7, Zenon DEF Sound, n
<1> QED BY <1>1, <1>2, Zenon

\* A store across two physical pages (mem_write_crossing) leaves no live block
\* on either, but for the second page when only that one was marked.
LEMMA CrossingSound ==
  ASSUME NEW j, Sound(j), NEW f \in Ram, f + 1 \in Ram
  PROVE  LET n == mem_write_crossing(j, f)
         IN  /\ Sound(n) /\ Forgets(j, n) /\ SameView(j, n) /\ NoneLive(n, f)
             /\ f \in j.bitmap \/ f + 1 \notin j.bitmap => NoneLive(n, f + 1)
<1>0. f \in Frames /\ f + 1 \in Frames
  BY Zenon DEF Frames
<1>1. CASE f \in j.bitmap
  <2> DEFINE m == jit_invalidate(j, f)
             n == jit_invalidate(m, f + 1)
  <2>1. Sound(m) /\ Forgets(j, m) /\ NoneLive(m, f) /\ SameView(j, m)
    BY <1>0, InvalidateSound, Zenon
  <2> HIDE DEF m
  <2>2. Sound(n) /\ Forgets(m, n) /\ NoneLive(n, f + 1) /\ SameView(m, n)
    BY <1>0, <2>1, InvalidateSound, Zenon
  <2> HIDE DEF n
  <2>3. Forgets(j, n) /\ NoneLive(n, f)
    BY <2>1, <2>2, ForgetsTwice, Zenon
  <2>4. mem_write_crossing(j, f) = n
    BY <1>1, Zenon DEF mem_write_crossing, m, n
  <2> QED BY <2>1, <2>2, <2>3, <2>4, Zenon DEF SameView
<1>2. CASE f \notin j.bitmap
  <2>1. mem_write_crossing(j, f) = j
    BY <1>2, Zenon DEF mem_write_crossing
  <2>2. NoneLive(j, f) /\ (f + 1 \notin j.bitmap => NoneLive(j, f + 1))
    BY <1>2, Zenon DEF NoneLive, Sound, Tracked
  <2> QED BY <1>2, <2>1, <2>2, Zenon DEF Forgets, SameView
<1> QED BY <1>1, <1>2, Zenon

-----------------------------------------------------------------------------
(* The operations of the dispatcher.                                       *)

\* A non-empty set of block numbers has a largest one.
LEMMA LargestElement ==
  ASSUME NEW n \in Nat, NEW S, S \subseteq 1..n, S # {}
  PROVE  \E x \in S : \A y \in S : y <= x
<1> DEFINE R == OpToRel(<, Nat)
           T == {n - y : y \in S}
<1>1. \A x, y \in Nat : y < x => <<y, x>> \in R
  BY Zenon DEF OpToRel
<1>2. IsWellFoundedOn(R, Nat)
  BY NatLessThanWellFounded, Zenon
<1>3. T \subseteq Nat /\ T # {}
  <2>1. \A y \in S : n - y \in Nat
    OBVIOUS
  <2> QED BY <2>1, Zenon
<1> HIDE DEF R, T
<1>4. PICK m \in T : \A k \in T : ~(<<k, m>> \in R)
  BY <1>2, <1>3, WFMin, Zenon
<1>5. PICK x \in S : m = n - x
  BY <1>4, Zenon DEF T
<1>6. ASSUME NEW y \in S PROVE y <= x
  <2>1. n - y \in T /\ n - y \in Nat /\ m \in Nat
    BY <1>3, Zenon DEF T
  <2>2. ~(n - y < m)
    BY <1>1, <1>4, <2>1, Zenon
  <2> QED BY <1>5, <2>1, <2>2
<1> QED BY <1>6, Zenon

\* A lookup that succeeds (jit_lookup) finds a live block for the pc, the
\* context and the physical page.
LEMMA LookupFinds ==
  ASSUME NEW j, Sound(j), NEW pc, NEW ctx, NEW f, jit_lookup(j, pc, ctx, f) # 0
  PROVE  LET b == jit_lookup(j, pc, ctx, f)
         IN  /\ b \in DOMAIN j.arena /\ j.arena[b].live
             /\ j.arena[b].pc = pc /\ j.arena[b].ctx = ctx /\ j.arena[b].frame = f
<1> DEFINE found == {i \in DOMAIN j.arena : /\ j.arena[i].live /\ j.arena[i].pc = pc
                                            /\ j.arena[i].ctx = ctx /\ j.arena[i].frame = f}
           b == jit_lookup(j, pc, ctx, f)
<1>1. found # {} /\ b = CHOOSE i \in found : \A k \in found : k <= i
  BY Zenon DEF jit_lookup
<1>2. Len(j.arena) \in Nat /\ DOMAIN j.arena = 1..Len(j.arena)
  BY ArenaTyped, Zenon DEF Sound
<1>3. found \subseteq 1..Len(j.arena)
  BY <1>2, Zenon
<1> HIDE DEF b
<1>4. b \in found
  <2> HIDE DEF found
  <2>1. \E i \in found : \A k \in found : k <= i
    BY <1>1, <1>2, <1>3, LargestElement, Zenon
  <2> QED BY <1>1, <2>1, Zenon
<1> QED BY <1>4, Zenon DEF b

\* Emptying the indirect-branch cache after a TLBI (Purged) keeps everything
\* else.
LEMMA PurgedSound ==
  ASSUME NEW j, Sound(j)
  PROVE  LET n == Purged(j)
         IN  /\ Sound(n) /\ n.jc /\ n.arena = j.arena
             /\ \A c : Coherent(c, j) => Coherent(c, n)
<1> DEFINE n == Purged(j)
<1>1. CASE j.jc
  BY <1>1, Zenon DEF Purged
<1>2. CASE ~j.jc
  <2>1. n = [j EXCEPT !.jcache = [t \in PCs |-> 0], !.jc = TRUE]
    BY <1>2, Zenon DEF Purged, jcache_purge, jit_init
  <2>2. j \in Jits /\ [t \in PCs |-> 0] \in [PCs -> 0..MaxBlocks]
    BY JitAssumption DEF Sound, Typed
  <2> HIDE DEF n
  <2>3. /\ n \in Jits /\ n.jc /\ n.arena = j.arena /\ n.bitmap = j.bitmap /\ n.w = j.w
        /\ n.jcache = [t \in PCs |-> 0]
    BY <2>1, <2>2, Zenon DEF Jits
  <2>4. Sound(n)
    BY <2>3 DEF Sound, Typed, Tracked, Linked
  <2>5. ASSUME NEW c, Coherent(c, j) PROVE Coherent(c, n)
    BY <2>3, <2>5 DEF Coherent, Faithful, SameFrame, CacheMapped
  <2> QED BY <2>3, <2>4, <2>5, Zenon DEF n
<1> QED BY <1>1, <1>2, Zenon

\* Flushing (jit_flush_all) leaves an empty cache.
LEMMA FlushSound ==
  ASSUME NEW j, Sound(j)
  PROVE  LET n == jit_flush_all(j)
         IN  /\ Sound(n) /\ n.arena = <<>> /\ SameView(j, n)
             /\ n.bitmap = j.bitmap /\ n.w = j.w /\ n.thrash = j.thrash
             /\ \A c : Coherent(c, n)
<1> DEFINE n == jit_flush_all(j)
<1>1. n = [j EXCEPT !.jcache = [t \in PCs |-> 0], !.arena = <<>>]
  BY Zenon DEF jit_flush_all, jcache_purge, jit_init
<1>2. j \in Jits /\ [t \in PCs |-> 0] \in [PCs -> 0..MaxBlocks] /\ <<>> \in Seq(Blocks) /\ MaxBlocks \in Nat
  BY JitAssumption DEF Sound, Typed
<1> HIDE DEF n
<1>3. /\ n \in Jits /\ n.arena = <<>> /\ n.jcache = [t \in PCs |-> 0] /\ n.bitmap = j.bitmap
      /\ n.w = j.w /\ n.thrash = j.thrash /\ SameView(j, n)
  BY <1>1, <1>2, Zenon DEF Jits, SameView
<1>4. Sound(n)
  BY <1>2, <1>3 DEF Sound, Typed, Tracked, Linked
<1>5. ASSUME NEW c PROVE Coherent(c, n)
  BY <1>3 DEF Coherent, Faithful, SameFrame, CacheMapped
<1> QED BY <1>3, <1>4, <1>5, Zenon DEF n


\* The arena with one more block, its page marked and without a W entry.
Appended(j, x) ==
  [j EXCEPT !.arena = Append(@, x), !.bitmap = @ \cup ({x.frame} \cap Ram),
            !.w = IF x.frame \in j.bitmap THEN @ ELSE @ \ {x.frame}]

\* Appending a block to an arena that has room keeps the cache sound.
LEMMA AppendSound ==
  ASSUME NEW j, Sound(j), ~Full(j), NEW x \in Blocks, x.chain = 0,
         NEW n, n = Appended(j, x)
  PROVE  /\ Sound(n) /\ SameView(j, n) /\ n.jcache = j.jcache /\ n.thrash = j.thrash
         /\ Len(n.arena) = Len(j.arena) + 1 /\ n.arena[Len(n.arena)] = x
         /\ \A i \in DOMAIN j.arena : i \in DOMAIN n.arena /\ n.arena[i] = j.arena[i]
         /\ \A c : Coherent(c, j) /\ x.insn = Word(c, x) => Coherent(c, n)
<1>1. j \in Jits /\ MaxBlocks \in Nat
  BY JitAssumption, Zenon DEF Sound, Typed
<1>2. /\ j.arena \in Seq(Blocks) /\ Len(j.arena) \in Nat /\ DOMAIN j.arena = 1..Len(j.arena)
      /\ Len(j.arena) + 1 <= MaxBlocks
  BY <1>1, ArenaTyped DEF Sound, Full
<1> DEFINE a == Append(j.arena, x)
           L == Len(j.arena)
<1>3. /\ a \in Seq(Blocks) /\ Len(a) = L + 1 /\ a[L + 1] = x /\ DOMAIN a = 1..L + 1
      /\ \A i \in 1..L : a[i] = j.arena[i]
  BY <1>2
<1> HIDE DEF a
<1>4. /\ n \in Jits /\ n.arena = a /\ n.jcache = j.jcache /\ n.thrash = j.thrash /\ SameView(j, n)
      /\ n.bitmap = j.bitmap \cup ({x.frame} \cap Ram)
      /\ n.w = IF x.frame \in j.bitmap THEN j.w ELSE j.w \ {x.frame}
  <2> DEFINE bm == j.bitmap \cup ({x.frame} \cap Ram)
             w == IF x.frame \in j.bitmap THEN j.w ELSE j.w \ {x.frame}
  <2>1. n = [j EXCEPT !.arena = a, !.bitmap = bm, !.w = w]
    BY <1>1, Zenon DEF a, Jits, Appended
  <2>2. bm \in SUBSET Ram /\ w \in SUBSET Ram
    BY <1>1, Zenon DEF Jits
  <2> HIDE DEF bm, w
  <2>3. /\ n \in Jits /\ n.arena = a /\ n.jcache = j.jcache /\ n.thrash = j.thrash /\ SameView(j, n)
        /\ n.bitmap = bm /\ n.w = w
    BY <2>1, <2>2, <1>1, <1>3, ZenonT(60) DEF Jits, SameView
  <2> QED BY <2>3, Zenon DEF bm, w
<1>5. Typed(n)
  BY <1>2, <1>3, <1>4, Zenon DEF Typed
<1>6. Tracked(n)
  <2>1. ASSUME NEW i \in DOMAIN n.arena, n.arena[i].live, n.arena[i].frame \in Ram
        PROVE  n.arena[i].frame \in n.bitmap
    <3>1. CASE i = L + 1
      BY <3>1, <2>1, <1>3, <1>4, Zenon
    <3>2. CASE i # L + 1
      <4>1. i \in DOMAIN j.arena /\ n.arena[i] = j.arena[i]
        BY <3>2, <1>2, <1>3, <1>4
      <4> QED BY <4>1, <2>1, <1>4, Zenon DEF Sound, Tracked
    <3> QED BY <3>1, <3>2, Zenon
  <2>2. n.bitmap \cap n.w = {}
    BY <1>4, Zenon DEF Sound, Tracked
  <2> QED BY <2>1, <2>2, Zenon DEF Tracked
<1>7. ASSUME NEW i \in DOMAIN j.arena
      PROVE  i \in DOMAIN n.arena /\ n.arena[i] = j.arena[i]
  BY <1>2, <1>3, <1>4
<1>8. ASSUME NEW i \in DOMAIN n.arena
      PROVE  i \in DOMAIN j.arena \/ n.arena[i] = x
  BY <1>2, <1>3, <1>4
<1>9. Linked(n)
  <2>1. ASSUME NEW i \in DOMAIN n.arena, n.arena[i].chain # 0
        PROVE  /\ n.arena[i].chain \in DOMAIN n.arena /\ n.arena[n.arena[i].chain].live
               /\ Follows(n.arena[i], n.arena[n.arena[i].chain])
    <3>1. i \in DOMAIN j.arena /\ n.arena[i] = j.arena[i]
      BY <2>1, <1>7, <1>8, Zenon
    <3>2. /\ j.arena[i].chain \in DOMAIN j.arena /\ j.arena[j.arena[i].chain].live
          /\ Follows(j.arena[i], j.arena[j.arena[i].chain])
      BY <2>1, <3>1, Zenon DEF Sound, Linked
    <3> QED BY <3>1, <3>2, <1>7, Zenon
  <2>2. ASSUME NEW t \in PCs, n.jcache[t] # 0
        PROVE  /\ n.jcache[t] \in DOMAIN n.arena /\ n.arena[n.jcache[t]].live
               /\ n.arena[n.jcache[t]].pc = t
    <3>1. j.jcache[t] \in DOMAIN j.arena /\ j.arena[j.jcache[t]].live /\ j.arena[j.jcache[t]].pc = t
      BY <2>2, <1>4, ZenonT(60) DEF Sound, Linked
    <3> QED BY <3>1, <1>4, <1>7, ZenonT(60)
  <2> QED BY <2>1, <2>2, Zenon DEF Linked
<1>10. ASSUME NEW c, Coherent(c, j), x.insn = Word(c, x)
       PROVE  Coherent(c, n)
  <2>1. Faithful(c, n)
    BY <1>7, <1>8, <1>10, Zenon DEF Coherent, Faithful
  <2>2. SameFrame(n)
    <3>1. ASSUME NEW i \in DOMAIN n.arena, n.arena[i].chain # 0, n.arena[i].insn.op # "tlbi"
          PROVE  n.arena[n.arena[i].chain].frame = n.arena[i].frame
      <4>1. i \in DOMAIN j.arena /\ n.arena[i] = j.arena[i]
        BY <3>1, <1>7, <1>8, Zenon
      <4>2. j.arena[i].chain \in DOMAIN j.arena
        BY <3>1, <4>1, Zenon DEF Sound, Linked
      <4> QED BY <3>1, <4>1, <4>2, <1>7, <1>10 DEF Coherent, SameFrame
    <3> QED BY <3>1, Zenon DEF SameFrame
  <2>3. CacheMapped(c, n)
    <3>1. ASSUME n.jc, NEW t \in PCs, n.jcache[t] # 0
          PROVE  n.arena[n.jcache[t]].frame = c.map[t[1]]
      <4>1. j.jcache[t] \in DOMAIN j.arena /\ j.jc
        BY <3>1, <1>4, ZenonT(60) DEF Sound, Linked, SameView
      <4> QED BY <3>1, <4>1, <1>4, <1>7, <1>10 DEF Coherent, CacheMapped
    <3> QED BY <3>1, Zenon DEF CacheMapped
  <2> QED BY <2>1, <2>2, <2>3, Zenon DEF Coherent
<1>11. Sound(n)
  BY <1>5, <1>6, <1>9, Zenon DEF Sound
<1> QED BY <1>3, <1>4, <1>7, <1>10, <1>11, Zenon

\* Translating (jit_translate) appends the block for the pc, after a flush
\* when the arena is full.
LEMMA TranslateSound ==
  ASSUME NEW j, Sound(j), NEW pc \in PCs, NEW ctx \in Ctxs, NEW f \in Frames, NEW i \in Code
  PROVE  LET n == jit_translate(j, pc, ctx, f, i)
         IN  /\ Sound(n) /\ SameView(j, n)
             /\ Len(n.arena) \in DOMAIN n.arena /\ n.arena[Len(n.arena)] = NewBlock(pc, ctx, f, i)
             /\ ~Full(j) => \A k \in DOMAIN j.arena : k \in DOMAIN n.arena /\ n.arena[k] = j.arena[k]
             /\ \A c : Coherent(c, j) /\ i = c.mem[f][pc[2]] => Coherent(c, n)
<1> DEFINE n == jit_translate(j, pc, ctx, f, i)
           room == IF Full(j) THEN jit_flush_all(j) ELSE j
           x == NewBlock(pc, ctx, f, i)
<1>1. /\ Sound(room) /\ SameView(j, room) /\ room.bitmap = j.bitmap /\ ~Full(room)
      /\ \A c : Coherent(c, j) => Coherent(c, room)
  <2>1. CASE Full(j)
    <3>1. ~Full(jit_flush_all(j))
      BY FlushSound, JitAssumption DEF Full
    <3> QED BY <2>1, <3>1, FlushSound, Zenon
  <2>2. CASE ~Full(j)
    BY <2>2, Zenon DEF SameView
  <2> QED BY <2>1, <2>2, Zenon
<1>2. x \in Blocks /\ x.chain = 0 /\ x.frame = f /\ x.insn = i /\ x.pc = pc
  BY JitAssumption DEF NewBlock, Blocks, Code
<1>3. n = [room EXCEPT !.arena = Append(@, x), !.bitmap = @ \cup ({f} \cap Ram),
                       !.w = IF f \in j.bitmap THEN @ ELSE @ \ {f}]
  BY Zenon DEF jit_translate
<1>4. ~Full(j) => room = j
  BY Zenon
<1> HIDE DEF x, n, room
<1>5. n = Appended(room, x)
  BY <1>1, <1>2, <1>3, Zenon DEF Appended
<1>6. /\ Sound(n) /\ SameView(room, n)
      /\ Len(n.arena) = Len(room.arena) + 1 /\ n.arena[Len(n.arena)] = x
      /\ \A k \in DOMAIN room.arena : k \in DOMAIN n.arena /\ n.arena[k] = room.arena[k]
      /\ \A c : Coherent(c, room) /\ x.insn = Word(c, x) => Coherent(c, n)
  <2>1. Sound(room) /\ ~Full(room) /\ x \in Blocks /\ x.chain = 0
    BY <1>1, <1>2, Zenon
  <2> QED BY <2>1, <1>5, AppendSound
<1>7. Len(n.arena) \in DOMAIN n.arena
  BY <1>1, <1>6, ArenaTyped DEF Sound
<1>8. SameView(j, n)
  BY <1>1, <1>6, Zenon DEF SameView
<1>9. ASSUME NEW c, Coherent(c, j), i = c.mem[f][pc[2]] PROVE Coherent(c, n)
  <2>1. x.insn = Word(c, x)
    BY <1>2, <1>9, Zenon DEF Word
  <2> QED BY <2>1, <1>1, <1>6, <1>9, Zenon
<1> QED BY <1>4, <1>6, <1>7, <1>8, <1>9, Zenon DEF n, x


\* The cache with the static exit of block p patched to block b.
Patched(j, p, b) == [j EXCEPT !.arena[p].chain = b]

\* Patching a static exit to a live block that follows it keeps the cache
\* sound, and coherent when the jump stays in its physical page.
LEMMA ChainSound ==
  ASSUME NEW j, Sound(j), NEW p \in DOMAIN j.arena, NEW b \in DOMAIN j.arena,
         j.arena[b].live, Follows(j.arena[p], j.arena[b]),
         NEW n, n = Patched(j, p, b)
  PROVE  /\ Sound(n) /\ SameView(j, n) /\ n.jcache = j.jcache /\ DOMAIN n.arena = DOMAIN j.arena
         /\ \A i \in DOMAIN j.arena :
              /\ n.arena[i].pc = j.arena[i].pc /\ n.arena[i].ctx = j.arena[i].ctx
              /\ n.arena[i].frame = j.arena[i].frame /\ n.arena[i].insn = j.arena[i].insn
              /\ n.arena[i].live = j.arena[i].live
         /\ \A c : /\ Coherent(c, j)
                   /\ j.arena[p].insn.op # "tlbi" => j.arena[b].frame = j.arena[p].frame
                   => Coherent(c, n)
<1>1. j \in Jits /\ MaxBlocks \in Nat /\ Len(j.arena) <= MaxBlocks
  BY JitAssumption, Zenon DEF Sound, Typed
<1>2. /\ j.arena \in Seq(Blocks) /\ Len(j.arena) \in Nat /\ DOMAIN j.arena = 1..Len(j.arena)
      /\ \A i \in DOMAIN j.arena : j.arena[i] \in Blocks
  BY ArenaTyped, Zenon DEF Sound
<1> DEFINE x == [j.arena[p] EXCEPT !.chain = b]
           a == [j.arena EXCEPT ![p] = x]
<1>3. /\ x \in Blocks /\ x.pc = j.arena[p].pc /\ x.ctx = j.arena[p].ctx /\ x.frame = j.arena[p].frame
      /\ x.insn = j.arena[p].insn /\ x.live = j.arena[p].live /\ x.chain = b
  <2>1. j.arena[p] \in Blocks /\ b \in 0..MaxBlocks
    BY <1>1, <1>2
  <2> QED BY <2>1, Zenon DEF Blocks
<1> HIDE DEF x
<1>4. /\ a \in Seq(Blocks) /\ Len(a) = Len(j.arena) /\ DOMAIN a = DOMAIN j.arena
      /\ a[p] = x /\ \A i \in DOMAIN j.arena : i # p => a[i] = j.arena[i]
  BY <1>2, <1>3
<1> HIDE DEF a
<1>5. /\ n \in Jits /\ n.arena = a /\ n.jcache = j.jcache /\ n.bitmap = j.bitmap /\ n.w = j.w
      /\ SameView(j, n)
  <2>1. n = [j EXCEPT !.arena = a]
    BY <1>1, Zenon DEF Jits, Patched, a, x
  <2> QED BY <2>1, <1>1, <1>4, Zenon DEF Jits, SameView
<1>6. ASSUME NEW i \in DOMAIN j.arena
      PROVE  /\ n.arena[i].pc = j.arena[i].pc /\ n.arena[i].ctx = j.arena[i].ctx
             /\ n.arena[i].frame = j.arena[i].frame /\ n.arena[i].insn = j.arena[i].insn
             /\ n.arena[i].live = j.arena[i].live
             /\ IF i = p THEN n.arena[i].chain = b ELSE n.arena[i].chain = j.arena[i].chain
  BY <1>3, <1>4, <1>5, ZenonT(60)
<1>7. Typed(n)
  BY <1>1, <1>4, <1>5, Zenon DEF Typed
<1>8. Tracked(n)
  BY <1>4, <1>5, <1>6, SMTT(60) DEF Sound, Tracked
<1>9. Linked(n)
  <2>1. ASSUME NEW i \in DOMAIN n.arena, n.arena[i].chain # 0
        PROVE  /\ n.arena[i].chain \in DOMAIN n.arena /\ n.arena[n.arena[i].chain].live
               /\ Follows(n.arena[i], n.arena[n.arena[i].chain])
    <3>0. i \in DOMAIN j.arena
      BY <1>4, <1>5, Zenon
    <3> DEFINE k == n.arena[i].chain
    <3>1. k \in DOMAIN j.arena /\ j.arena[k].live /\ Follows(j.arena[i], j.arena[k])
      <4>1. CASE i = p
        BY <3>0, <4>1, <1>6, Zenon
      <4>2. CASE i # p
        <5>1. k = j.arena[i].chain /\ j.arena[i].chain # 0
          BY <2>1, <3>0, <4>2, <1>6, Zenon
        <5> HIDE DEF k
        <5> QED BY <3>0, <5>1, ChainLinked
      <4> QED BY <4>1, <4>2, Zenon
    <3> HIDE DEF k
    <3>2. n.arena[k].live /\ Follows(n.arena[i], n.arena[k])
      BY <3>0, <3>1, <1>6, ZenonT(60) DEF Follows
    <3> QED BY <3>1, <3>2, <1>4, <1>5, Zenon DEF k
  <2>2. ASSUME NEW t \in PCs, n.jcache[t] # 0
        PROVE  /\ n.jcache[t] \in DOMAIN n.arena /\ n.arena[n.jcache[t]].live
               /\ n.arena[n.jcache[t]].pc = t
    <3>1. j.jcache[t] \in DOMAIN j.arena /\ j.arena[j.jcache[t]].live /\ j.arena[j.jcache[t]].pc = t
      BY <2>2, <1>5, Zenon DEF Sound, Linked
    <3> QED BY <3>1, <1>4, <1>5, <1>6
  <2> QED BY <2>1, <2>2, Zenon DEF Linked
<1>10. ASSUME NEW c, Coherent(c, j),
              j.arena[p].insn.op # "tlbi" => j.arena[b].frame = j.arena[p].frame
       PROVE  Coherent(c, n)
  <2>1. Faithful(c, n)
    <3>1. ASSUME NEW i \in DOMAIN n.arena, n.arena[i].live
          PROVE  n.arena[i].insn = Word(c, n.arena[i])
      <4>1. i \in DOMAIN j.arena /\ j.arena[i].live
        BY <3>1, <1>4, <1>5, <1>6, Zenon
      <4>2. j.arena[i].insn = Word(c, j.arena[i])
        BY <4>1, <1>10, Zenon DEF Coherent, Faithful
      <4>3. Word(c, n.arena[i]) = Word(c, j.arena[i])
        BY <4>1, <1>6, Zenon DEF Word
      <4> QED BY <4>1, <4>2, <4>3, <1>6, Zenon
    <3> QED BY <3>1, Zenon DEF Faithful
  <2>2. SameFrame(n)
    <3>1. ASSUME NEW i \in DOMAIN n.arena, n.arena[i].chain # 0, n.arena[i].insn.op # "tlbi"
          PROVE  n.arena[n.arena[i].chain].frame = n.arena[i].frame
      <4>0. i \in DOMAIN j.arena /\ j.arena[i].insn.op # "tlbi"
        BY <3>1, <1>4, <1>5, <1>6, Zenon
      <4>1. CASE i = p
        BY <4>0, <4>1, <1>6, <1>10
      <4>2. CASE i # p
        <5>1. n.arena[i].chain = j.arena[i].chain /\ j.arena[i].chain \in DOMAIN j.arena
          BY <3>1, <4>0, <4>2, <1>6, ChainLinked, ZenonT(60)
        <5>2. j.arena[j.arena[i].chain].frame = j.arena[i].frame
          BY <3>1, <4>0, <5>1, <1>10, Zenon DEF Coherent, SameFrame
        <5> QED BY <4>0, <5>1, <5>2, <1>6
      <4> QED BY <4>1, <4>2, Zenon
    <3> QED BY <3>1, Zenon DEF SameFrame
  <2>3. CacheMapped(c, n)
    <3>1. ASSUME n.jc, NEW t \in PCs, n.jcache[t] # 0
          PROVE  n.arena[n.jcache[t]].frame = c.map[t[1]]
      <4>1. j.jcache[t] \in DOMAIN j.arena /\ j.jc
        BY <3>1, <1>5, CacheLinked, ZenonT(60) DEF SameView
      <4>2. j.arena[j.jcache[t]].frame = c.map[t[1]]
        BY <3>1, <4>1, <1>5, <1>10, Zenon DEF Coherent, CacheMapped
      <4> QED BY <4>1, <4>2, <1>5, <1>6
    <3> QED BY <3>1, Zenon DEF CacheMapped
  <2> QED BY <2>1, <2>2, <2>3, Zenon DEF Coherent
<1>11. Sound(n)
  BY <1>7, <1>8, <1>9, Zenon DEF Sound
<1> QED BY <1>4, <1>5, <1>6, <1>10, <1>11, ZenonT(60)

\* Entering a live block into the indirect-branch cache keeps it sound.
LEMMA RefillSound ==
  ASSUME NEW j, Sound(j), NEW pc \in PCs, NEW b \in DOMAIN j.arena,
         j.arena[b].live, j.arena[b].pc = pc, NEW n, n = [j EXCEPT !.jcache[pc] = b]
  PROVE  /\ Sound(n) /\ SameView(j, n) /\ n.arena = j.arena
         /\ \A c : Coherent(c, j) /\ j.arena[b].frame = c.map[pc[1]] => Coherent(c, n)
<1>1. /\ j \in Jits /\ MaxBlocks \in Nat /\ Len(j.arena) <= MaxBlocks
      /\ j.jcache \in [PCs -> 0..MaxBlocks]
  BY JitAssumption, Zenon DEF Sound, Typed, Jits
<1>2. b \in 0..MaxBlocks
  BY <1>1, ArenaTyped DEF Sound
<1> DEFINE q == [j.jcache EXCEPT ![pc] = b]
<1>3. q \in [PCs -> 0..MaxBlocks] /\ q[pc] = b /\ \A t \in PCs : t # pc => q[t] = j.jcache[t]
  BY <1>1, <1>2, Zenon
<1>4. n = [j EXCEPT !.jcache = q]
  BY <1>1, Zenon DEF Jits
<1> HIDE DEF q
<1>5. /\ n \in Jits /\ n.arena = j.arena /\ n.jcache = q /\ n.bitmap = j.bitmap /\ n.w = j.w
      /\ SameView(j, n)
  BY <1>1, <1>3, <1>4, ZenonT(60) DEF Jits, SameView
<1>6. Typed(n) /\ Tracked(n)
  BY <1>5, Zenon DEF Sound, Typed, Tracked
<1>7. Linked(n)
  <2>1. ASSUME NEW t \in PCs, n.jcache[t] # 0
        PROVE  /\ n.jcache[t] \in DOMAIN n.arena /\ n.arena[n.jcache[t]].live
               /\ n.arena[n.jcache[t]].pc = t
    BY <2>1, <1>3, <1>5 DEF Sound, Linked
  <2> QED BY <2>1, <1>5 DEF Sound, Linked
<1>8. ASSUME NEW c, Coherent(c, j), j.arena[b].frame = c.map[pc[1]] PROVE Coherent(c, n)
  <2>1. Faithful(c, n) /\ SameFrame(n)
    BY <1>5, <1>8 DEF Coherent, Faithful, SameFrame
  <2>2. CacheMapped(c, n)
    <3>1. ASSUME n.jc, NEW t \in PCs, n.jcache[t] # 0
          PROVE  n.arena[n.jcache[t]].frame = c.map[t[1]]
      <4>1. CASE t = pc
        BY <4>1, <1>3, <1>5, <1>8, ZenonT(60)
      <4>2. CASE t # pc
        BY <3>1, <4>2, <1>3, <1>5, <1>8 DEF Coherent, CacheMapped, SameView
      <4> QED BY <4>1, <4>2, Zenon
    <3> QED BY <3>1, Zenon DEF CacheMapped
  <2> QED BY <2>1, <2>2, Zenon DEF Coherent
<1>9. Sound(n)
  BY <1>6, <1>7, Zenon DEF Sound
<1> QED BY <1>5, <1>8, <1>9, Zenon
=============================================================================
