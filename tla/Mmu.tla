-------------------------------- MODULE Mmu --------------------------------
(***************************************************************************)
(* The translation caches of src/src/mmu.c: the software TLB, the D-TLB of *)
(* host pointers for data accesses, and the two fetch-cache entries.       *)
(*                                                                         *)
(* A full flush only bumps a generation number that the TLB stores and the *)
(* D-TLB holds modulo Slice in its tags; the arrays are purged when the    *)
(* number wraps.  A TLBI by address clears one slot of each array, or      *)
(* flushes everything if the address lies in the range of the blocks that  *)
(* were cached in page-sized fragments since the last full flush.          *)
(*                                                                         *)
(* The caches are one record; every function of the code that changes them *)
(* is an operator on it.  A virtual address is a page and a tag byte       *)
(* (top-byte-ignore): slots depend on the page, tags compare both.         *)
(***************************************************************************)
EXTENDS PageTables

CONSTANTS Tags,    \* tag bytes of pointers; 0 is the untagged pointer
          Slots,   \* entries of the TLB and of the D-TLB
          GenMod,  \* generation numbers are kept modulo this (2^32)
          Slice,   \* and in the D-TLB modulo this (2^10)
          VaBits,  \* page numbers have this many bits
          Ram,     \* physical pages that are RAM
          Flash    \* physical pages that are flash

ASSUME MmuAssumption ==
  /\ 0 \in Tags
  /\ {Slots, GenMod, Slice} \subseteq Nat \ {0} /\ VaBits \in Nat
  /\ GenMod > 1 /\ GenMod % Slice = 0
  /\ Ram \subseteq Frames /\ Flash \subseteq Frames
  /\ Ram \cap Hole = {} /\ Flash \cap Hole = {}

VARIABLES mmu, pt, stale, out

VAs == [page : Pages, tag : Tags]
Slot(v) == v.page % Slots

\* An empty slot of the TLB, of the D-TLB (no permission bits: it never hits)
\* and of the fetch cache.
NoTlb == [valid |-> FALSE]
NoDtlb == [perm |-> {}]
NoFetch == [host |-> FALSE]

mmu_init ==
  [on |-> FALSE, gen |-> 1, lp |-> {},
   tlb |-> [i \in 0..Slots - 1 |-> NoTlb],
   dtlb |-> [i \in 0..Slots - 1 |-> NoDtlb],
   fcache |-> [el0 \in BOOLEAN |-> NoFetch]]

-----------------------------------------------------------------------------
(* Invalidation. *)

\* The aligned power-of-two ranges of pages.
Ranges == {{q \in Pages : q \div 2^k = p \div 2^k} : p \in Pages, k \in 0..VaBits}

\* The smallest aligned range over the recorded one and the block of p.
lp_record(m, p) ==
  [m EXCEPT !.lp = {r \in Pages : \A R \in Ranges : m.lp \cup Block(p) \subseteq R => r \in R}]

\* Mutant: the D-TLB is not purged when its slice of the generation wraps.
tlb_flush_all_NoPurge(m) ==
  LET g == (m.gen + 1) % GenMod
  IN  [m EXCEPT
         !.gen = IF g = 0 THEN 1 ELSE g,
         !.tlb = IF g = 0 THEN mmu_init.tlb ELSE @,
         !.lp = {}, !.fcache = mmu_init.fcache]

tlb_flush_all(m) ==
  LET g == (m.gen + 1) % GenMod
  IN  [m EXCEPT
         !.gen = IF g = 0 THEN 1 ELSE g,
         !.dtlb = IF g % Slice = 0 THEN mmu_init.dtlb ELSE @,
         !.tlb = IF g = 0 THEN mmu_init.tlb ELSE @,
         !.lp = {}, !.fcache = mmu_init.fcache]

\* Mutant: no escalation for pages of a block.
tlb_flush_page_NoEscalate(m, p) ==
  [m EXCEPT !.tlb[p % Slots] = NoTlb, !.dtlb[p % Slots] = NoDtlb,
            !.fcache = mmu_init.fcache]

tlb_flush_page(m, p) ==
  IF p \in m.lp THEN tlb_flush_all(m)
  ELSE [m EXCEPT !.tlb[p % Slots] = NoTlb, !.dtlb[p % Slots] = NoDtlb,
                 !.fcache = mmu_init.fcache]

-----------------------------------------------------------------------------
(* Translation.  Each operator returns the caches and the physical page. *)

tlb_hit(m, v, acc, el0) ==
  LET e == m.tlb[Slot(v)]
  IN  e.valid /\ e.gen = m.gen /\ e.va = v /\ e.el0 = el0 /\ perm_ok_el(acc, e, el0)

\* A miss, or a hit that denies the access, walks the tables tab.
mmu_translate(m, tab, v, acc, el0) ==
  LET d == tab[v.page]
      e == [valid |-> TRUE, gen |-> m.gen, va |-> v, el0 |-> el0, pa |-> leaf(v.page, d),
            ap |-> d.ap, uxn |-> d.uxn, pxn |-> d.pxn]
      n == [(IF d.blk THEN lp_record(m, v.page) ELSE m) EXCEPT !.tlb[Slot(v)] = e]
  IN  IF ~m.on THEN [m |-> m, pa |-> v.page]
      ELSE IF tlb_hit(m, v, acc, el0) THEN [m |-> m, pa |-> m.tlb[Slot(v)].pa]
      ELSE IF ~d.valid THEN [m |-> m, pa |-> Fault]
      ELSE [m |-> n, pa |-> IF perm_ok_el(acc, d, el0) THEN e.pa ELSE Fault]

\* The tag of a D-TLB entry.
dtlb_tag(m, v, el0) == [va |-> v, gen |-> m.gen % Slice, on |-> m.on, el0 |-> el0]

dtlb_hit(m, v, el0, acc) ==
  LET de == m.dtlb[Slot(v)]
  IN  acc \in de.perm /\ de.tag = dtlb_tag(m, v, el0)

\* Mutant: any page behind the bus gets a host pointer.
dtlb_fill_AnyPage(m, v, el0, pa, code) ==
  [m EXCEPT !.dtlb[Slot(v)] =
     [tag |-> dtlb_tag(m, v, el0), host |-> pa, perm |-> {"READ"}]]

\* After an access that went through the tables: a host pointer for RAM, with
\* the permissions of the entry and no W for pages with translated code.
dtlb_fill(m, v, el0, pa, code) ==
  LET e == m.tlb[Slot(v)]
      granted == {a \in {"READ", "WRITE"} : m.on => perm_ok_el(a, e, el0)}
      entry == [tag |-> dtlb_tag(m, v, el0), host |-> pa,
                perm |-> granted \ (IF pa \in code THEN {"WRITE"} ELSE {})]
  IN  IF pa \in Ram THEN [m EXCEPT !.dtlb[Slot(v)] = entry] ELSE m

\* mem_read and mem_write within one page; code is the bitmap of RAM pages
\* that hold translated code.
mem_access(m, tab, v, acc, el0, code) ==
  LET t == mmu_translate(m, tab, v, acc, el0)
  IN  IF dtlb_hit(m, v, el0, acc) THEN [m |-> m, pa |-> m.dtlb[Slot(v)].host]
      ELSE IF t.pa = Fault \/ t.pa \in Hole THEN [m |-> t.m, pa |-> Fault]
      ELSE [m |-> dtlb_fill(t.m, v, el0, t.pa, code), pa |-> t.pa]

fetch_hit(m, v, el0) ==
  LET f == m.fcache[el0]
  IN  f.host /\ f.va = v /\ f.on = m.on

\* mem_ifetch; only RAM and flash pages enter the fetch cache.
mem_ifetch(m, tab, v, el0) ==
  LET t == mmu_translate(m, tab, v, "EXEC", el0)
      f == [host |-> TRUE, va |-> v, pa |-> t.pa, on |-> m.on]
  IN  IF fetch_hit(m, v, el0) THEN [m |-> m, pa |-> m.fcache[el0].pa]
      ELSE IF t.pa = Fault \/ t.pa \in Hole THEN [m |-> t.m, pa |-> Fault]
      ELSE [m |-> IF t.pa \in Ram \cup Flash THEN [t.m EXCEPT !.fcache[el0] = f] ELSE t.m,
            pa |-> t.pa]

-----------------------------------------------------------------------------
(* The machine: a guest that accesses memory, rewrites its tables and      *)
(* maintains the TLB, in any order.  stale and out are history variables.  *)

Abs == INSTANCE Stage1 WITH on <- mmu.on

Init ==
  /\ mmu = mmu_init /\ pt \in Tables /\ stale = {}
  /\ out = [page |-> 0, acc |-> "EXEC", el0 |-> FALSE, res |-> Fault]

Did(v, acc, el0, a) ==
  /\ mmu' = a.m
  /\ out' = [page |-> v.page, acc |-> acc, el0 |-> el0, res |-> a.pa]
  /\ UNCHANGED <<pt, stale>>

\* With the MMU off a tagged pointer reaches nothing on the bus.
Pointers == {v \in VAs : mmu.on \/ v.tag = 0}

LoadOrStore ==
  \E v \in Pointers, acc \in {"READ", "WRITE"}, el0 \in BOOLEAN :
    Did(v, acc, el0, mem_access(mmu, pt, v, acc, el0, {}))

Fetch ==
  \E v \in Pointers, el0 \in BOOLEAN : Did(v, "EXEC", el0, mem_ifetch(mmu, pt, v, el0))

RewriteTables ==
  \E tab \in Tables :
    /\ pt' = tab /\ stale' = stale \cup Abs!Replaced(tab)
    /\ UNCHANGED <<mmu, out>>

\* MSR SCTLR_EL1, TTBR0_EL1, TTBR1_EL1, TCR_EL1
MsrTranslation ==
  \E tab \in Tables, b \in BOOLEAN :
    /\ mmu' = tlb_flush_all([mmu EXCEPT !.on = b])
    /\ pt' = tab /\ stale' = {}
    /\ UNCHANGED out

TlbiVa ==
  \E p \in Pages :
    /\ mmu' = tlb_flush_page(mmu, p)
    /\ stale' = {s \in stale : Abs!Survives(s, p)}
    /\ UNCHANGED <<pt, out>>

TlbiAll ==
  /\ mmu' = tlb_flush_all(mmu) /\ stale' = {}
  /\ UNCHANGED <<pt, out>>

\* cpu_reset clears SCTLR; the caches are not flushed.
WarmReset ==
  /\ mmu' = [mmu EXCEPT !.on = FALSE]
  /\ UNCHANGED <<pt, stale, out>>

Next ==
  \/ LoadOrStore \/ Fetch \/ RewriteTables \/ MsrTranslation
  \/ TlbiVa \/ TlbiAll \/ WarmReset

vars == <<mmu, pt, stale, out>>
Spec == Init /\ [][Next]_vars

-----------------------------------------------------------------------------
(* Properties *)

\* The shape of the caches; in particular a D-TLB entry never names a page
\* that is not RAM, whose accesses have side effects on the bus.
TypeOK ==
  /\ mmu.on \in BOOLEAN /\ mmu.gen \in 1..GenMod - 1 /\ mmu.lp \subseteq Pages
  /\ \A i \in 0..Slots - 1 :
       /\ mmu.tlb[i].valid => /\ mmu.tlb[i].va \in VAs /\ mmu.tlb[i].gen \in 1..GenMod - 1
                              /\ mmu.tlb[i].pa \in Frames
       /\ mmu.dtlb[i].perm # {} => /\ mmu.dtlb[i].tag.va \in VAs
                                   /\ mmu.dtlb[i].host \in Ram
  /\ \A e \in BOOLEAN : mmu.fcache[e].host => mmu.fcache[e].pa \in Ram \cup Flash
  /\ pt \in Tables

\* The cached translations implement the translation the guest may rely on:
\* whatever the interleaving of accesses, table rewrites, TLBIs, register
\* writes and reboots, every access has an outcome that Stage1 allows.
ImplementsStage1 == Abs!Spec

=============================================================================
