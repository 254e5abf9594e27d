------------------------------ MODULE MmuProofs ------------------------------
(***************************************************************************)
(* The inductive invariant of the translation caches, what every           *)
(* operation of mmu.c does to it, for any number of pages, tags, slots and *)
(* generations and any well-formed tables, and what follows: the caches    *)
(* keep their shape and implement Stage1, every access having an outcome   *)
(* Stage1 allows (Allowed) and every step being one of Stage1 or a stutter.*)
(*                                                                         *)
(* The invariant, Good, says where every usable entry comes from: a        *)
(* descriptor that the tables hold, or held since the last invalidation    *)
(* that covers the page (Source).  It has two parts that no single access  *)
(* shows.  Entries are dated: the generation of a TLB entry and the slice  *)
(* of it in a D-TLB tag are at most the current ones, so the next          *)
(* generation finds none of its own.  And a descriptor of a block that is  *)
(* cached in fragments has all its pages in lp, so that a TLBI of any of   *)
(* them that is not escalated cannot concern the block.                    *)
(***************************************************************************)
EXTENDS Mmu, TLAPS

TlbEntry ==
  [valid : {TRUE}, gen : 1..GenMod - 1, va : VAs, el0 : BOOLEAN, pa : Frames,
   ap : 0..3, uxn : BOOLEAN, pxn : BOOLEAN]
DtlbTag == [va : VAs, gen : 0..Slice - 1, on : BOOLEAN, el0 : BOOLEAN]
DtlbEntry == [tag : DtlbTag, host : Ram, perm : SUBSET {"READ", "WRITE"}]
FetchEntry == [host : {TRUE}, va : VAs, pa : Ram \cup Flash, on : BOOLEAN]
SlotIds == 0..Slots - 1

Caches ==
  [on : BOOLEAN, gen : 1..GenMod - 1, lp : SUBSET Pages,
   tlb : [SlotIds -> TlbEntry \cup {NoTlb}],
   dtlb : [SlotIds -> DtlbEntry \cup {NoDtlb}],
   fcache : [BOOLEAN -> FetchEntry \cup {NoFetch}]]

\* The descriptors replaced and not invalidated.
Olds == SUBSET (Pages \X Descs)

\* d may still be cached for page p.
Source(lp, tab, st, p, d) ==
  /\ d = tab[p] \/ <<p, d>> \in st
  /\ d.valid /\ (d.blk => Block(p) \subseteq lp)

TlbBacked(lp, tab, st, e) ==
  \E d \in Descs :
    /\ Source(lp, tab, st, e.va.page, d) /\ e.pa = leaf(e.va.page, d)
    /\ e.ap = d.ap /\ e.uxn = d.uxn /\ e.pxn = d.pxn

DtlbBacked(lp, tab, st, de) ==
  IF de.tag.on
  THEN \E d \in Descs :
         /\ Source(lp, tab, st, de.tag.va.page, d) /\ de.host = leaf(de.tag.va.page, d)
         /\ \A a \in de.perm : perm_ok_el(a, d, de.tag.el0)
  ELSE de.host = de.tag.va.page

FetchBacked(lp, tab, st, f, el0) ==
  IF f.on
  THEN \E d \in Descs :
         /\ Source(lp, tab, st, f.va.page, d) /\ f.pa = leaf(f.va.page, d)
         /\ perm_ok_el("EXEC", d, el0)
  ELSE f.pa = f.va.page

TlbGood(m, tab, st) ==
  \A i \in SlotIds : m.tlb[i] # NoTlb =>
    /\ Slot(m.tlb[i].va) = i /\ m.tlb[i].gen <= m.gen
    /\ m.tlb[i].gen = m.gen => TlbBacked(m.lp, tab, st, m.tlb[i])

DtlbGood(m, tab, st) ==
  \A i \in SlotIds : m.dtlb[i] # NoDtlb =>
    /\ Slot(m.dtlb[i].tag.va) = i /\ m.dtlb[i].tag.gen <= m.gen % Slice
    /\ m.dtlb[i].tag.gen = m.gen % Slice => DtlbBacked(m.lp, tab, st, m.dtlb[i])

FetchGood(m, tab, st) ==
  \A el0 \in BOOLEAN : m.fcache[el0] # NoFetch => FetchBacked(m.lp, tab, st, m.fcache[el0], el0)

Good(m, tab, st) ==
  m \in Caches /\ TlbGood(m, tab, st) /\ DtlbGood(m, tab, st) /\ FetchGood(m, tab, st)

\* The inductive invariant.
MmuInv == pt \in Tables /\ stale \in Olds /\ Good(mmu, pt, stale)

-----------------------------------------------------------------------------
(* Facts about tables, slots and generations. *)

LEMMA TablesTyped ==
  ASSUME NEW tab \in Tables
  PROVE  /\ tab \in [Pages -> Descs]
         /\ \A p \in Pages : leaf(p, tab[p]) \in Frames
<1>1. WellFormed(tab)
  BY PageTablesAssumption, Zenon
<1>2. ASSUME NEW p \in Pages PROVE leaf(p, tab[p]) \in Frames
  <2>1. p \in Block(p)
    BY Zenon DEF Block
  <2>2. tab[p] \in Descs
    BY <1>1, Zenon DEF WellFormed
  <2> QED
    BY <1>1, <2>1, <2>2, Zenon DEF WellFormed, leaf, Descs
<1> QED
  BY <1>1, <1>2, Zenon DEF WellFormed

LEMMA SlotIsId ==
  ASSUME NEW p \in Pages
  PROVE  p % Slots \in SlotIds
<1>1. p \in Nat /\ Slots \in Nat \ {0}
  BY PageTablesAssumption, MmuAssumption, Zenon
<1> QED
  BY <1>1 DEF SlotIds

\* Division with remainder, and the remainder of a successor.
LEMMA DivMod ==
  ASSUME NEW n \in Nat, NEW k \in Nat \ {0}
  PROVE  /\ n \div k \in Nat /\ (n % k) \in 0..k - 1
         /\ n = k * (n \div k) + (n % k)
OBVIOUS

LEMMA NextRemainder ==
  ASSUME NEW n \in Nat, NEW k \in Nat \ {0}
  PROVE  (n + 1) % k = IF n % k = k - 1 THEN 0 ELSE (n % k) + 1
<1> DEFINE q == n \div k
           r == n % k
           p == (n + 1) \div k
           s == (n + 1) % k
           d == p - q
<1>1. /\ q \in Nat /\ r \in 0..k - 1 /\ n = k * q + r
      /\ p \in Nat /\ s \in 0..k - 1 /\ n + 1 = k * p + s
  <2>1. q \in Nat /\ r \in 0..k - 1 /\ n = k * q + r
    BY DivMod, Zenon
  <2>2. n + 1 \in Nat
    OBVIOUS
  <2>3. p \in Nat /\ s \in 0..k - 1 /\ n + 1 = k * p + s
    BY <2>2, DivMod, Zenon
  <2> QED
    BY <2>1, <2>3, Zenon
<1> HIDE DEF q, r, p, s
<1>2. d \in Int /\ p = q + d
  BY <1>1
<1>3. k * d = r + 1 - s
  <2>1. k * p = k * q + k * d
    BY <1>1, <1>2
  <2>2. k * q \in Int /\ k * d \in Int /\ k * p \in Int
    BY <1>1, <1>2
  <2> QED
    BY <1>1, <2>1, <2>2
<1> HIDE DEF d
<1>4. d >= 2 => k * d >= 2 * k
  BY <1>2
<1>5. d <= -1 => k * d <= -k
  BY <1>2
<1>6. d = 0 \/ d = 1
  BY <1>1, <1>2, <1>3, <1>4, <1>5
<1>7. (d = 0 => k * d = 0) /\ (d = 1 => k * d = k)
  OBVIOUS
<1>8. s = IF r = k - 1 THEN 0 ELSE r + 1
  BY <1>1, <1>3, <1>6, <1>7
<1> QED
  BY <1>8, Zenon DEF r, s

\* The next generation is 0 after the last one; its slice is 0, and the D-TLB
\* is purged, or it is later than the one before.
LEMMA NextGeneration ==
  ASSUME NEW n \in 1..GenMod - 1
  PROVE  LET g == (n + 1) % GenMod
         IN  /\ g = IF n = GenMod - 1 THEN 0 ELSE n + 1
             /\ g = 0 => g % Slice = 0
             /\ g % Slice # 0 => g % Slice > n % Slice
             /\ g % Slice \in 0..Slice - 1
<1>1. GenMod \in Nat \ {0} /\ GenMod > 1 /\ Slice \in Nat \ {0} /\ n \in Nat
  BY MmuAssumption
<1>2. (n + 1) % GenMod = IF n % GenMod = GenMod - 1 THEN 0 ELSE (n % GenMod) + 1
  BY <1>1, NextRemainder, Zenon
<1>3. n % GenMod = n
  BY <1>1
<1>4. (n + 1) % GenMod = IF n = GenMod - 1 THEN 0 ELSE n + 1
  BY <1>2, <1>3, Zenon
<1>5. 0 % Slice = 0
  BY <1>1
<1>6. (n + 1) % Slice = IF n % Slice = Slice - 1 THEN 0 ELSE (n % Slice) + 1
  BY <1>1, NextRemainder, Zenon
<1>7. (n % Slice) \in 0..Slice - 1
  BY <1>1, DivMod, Zenon
<1>8. CASE n = GenMod - 1
  BY <1>1, <1>4, <1>5, <1>8
<1>9. CASE n # GenMod - 1
  <2>1. (n + 1) % GenMod = n + 1
    BY <1>4, <1>9, Zenon
  <2> DEFINE r == n % Slice
             s == (n + 1) % Slice
  <2>2. r \in 0..Slice - 1 /\ s = IF r = Slice - 1 THEN 0 ELSE r + 1
    BY <1>6, <1>7, Zenon
  <2> HIDE DEF r, s
  <2>3. (s # 0 => s > r) /\ s \in 0..Slice - 1
    BY <1>1, <2>2
  <2> QED
    BY <1>1, <1>4, <1>9, <2>1, <2>3 DEF r, s
<1> QED
  BY <1>8, <1>9, Zenon

-----------------------------------------------------------------------------
(* Invalidation. *)

\* Used slots hold entries of their type.
LEMMA EntriesTyped ==
  ASSUME NEW m \in Caches
  PROVE  /\ \A i \in SlotIds : m.tlb[i] # NoTlb => m.tlb[i] \in TlbEntry
         /\ \A i \in SlotIds : m.dtlb[i] # NoDtlb => m.dtlb[i] \in DtlbEntry
         /\ \A e \in BOOLEAN : m.fcache[e] # NoFetch => m.fcache[e] \in FetchEntry
BY Zenon DEF Caches

LEMMA GenTyped ==
  ASSUME NEW e \in TlbEntry
  PROVE  e.gen \in Nat
<1>1. e.gen \in 1..GenMod - 1 /\ GenMod \in Nat
  BY MmuAssumption, Zenon DEF TlbEntry
<1> QED
  BY <1>1

\* The empty caches.
LEMMA EmptyCaches ==
  /\ mmu_init \in Caches
  /\ \A i \in SlotIds : mmu_init.tlb[i] = NoTlb /\ mmu_init.dtlb[i] = NoDtlb
  /\ \A e \in BOOLEAN : mmu_init.fcache[e] = NoFetch
<1>1. 1 \in 1..GenMod - 1
  BY MmuAssumption
<1> QED
  BY <1>1, Zenon DEF mmu_init, Caches, SlotIds

\* A full flush leaves no usable entry, whatever the tables are then.
LEMMA FlushAllGood ==
  ASSUME NEW m, NEW tab, NEW st, Good(m, tab, st), NEW tab2, NEW st2
  PROVE  Good(tlb_flush_all(m), tab2, st2) /\ tlb_flush_all(m).on = m.on
<1> DEFINE g == (m.gen + 1) % GenMod
           n == tlb_flush_all(m)
<1>1. m \in Caches /\ m.gen \in 1..GenMod - 1
  BY Zenon DEF Good, Caches
<1>2. /\ g = IF m.gen = GenMod - 1 THEN 0 ELSE m.gen + 1
      /\ g = 0 => g % Slice = 0
      /\ g % Slice # 0 => g % Slice > m.gen % Slice
      /\ g % Slice \in 0..Slice - 1
  BY <1>1, NextGeneration, Zenon
<1>3. (m.gen % Slice) \in 0..Slice - 1 /\ GenMod \in Nat /\ Slice \in Nat
  <2>1. m.gen \in Nat /\ GenMod \in Nat /\ Slice \in Nat \ {0}
    BY <1>1, MmuAssumption
  <2> QED
    BY <2>1, DivMod, Zenon
<1>4. n = [m EXCEPT !.gen = IF g = 0 THEN 1 ELSE g,
                    !.dtlb = IF g % Slice = 0 THEN mmu_init.dtlb ELSE @,
                    !.tlb = IF g = 0 THEN mmu_init.tlb ELSE @,
                    !.lp = {}, !.fcache = mmu_init.fcache]
  BY Zenon DEF tlb_flush_all
<1> HIDE DEF g, n
<1>5. /\ n.on = m.on /\ n.gen = IF g = 0 THEN 1 ELSE g
      /\ n.tlb = IF g = 0 THEN mmu_init.tlb ELSE m.tlb
      /\ n.dtlb = IF g % Slice = 0 THEN mmu_init.dtlb ELSE m.dtlb
      /\ n.fcache = mmu_init.fcache
  BY <1>1, <1>4, Zenon DEF Caches
<1>6. n.gen \in 1..GenMod - 1 /\ (g # 0 => n.gen > m.gen)
  BY <1>1, <1>2, <1>3, <1>5, MmuAssumption
<1>7. n \in Caches
  BY <1>1, <1>4, <1>5, <1>6, EmptyCaches, ZenonT(60) DEF Caches
<1>8. ASSUME NEW i \in SlotIds, n.tlb[i] # NoTlb
      PROVE  Slot(n.tlb[i].va) = i /\ n.tlb[i].gen < n.gen
  <2>1. g # 0 /\ n.tlb[i] = m.tlb[i]
    BY <1>5, <1>8, EmptyCaches, Zenon
  <2>2. m.tlb[i] \in TlbEntry
    BY <1>1, <1>8, <2>1, EntriesTyped, Zenon
  <2>3. m.tlb[i].gen \in Nat /\ m.tlb[i].gen <= m.gen /\ Slot(m.tlb[i].va) = i
    BY <1>8, <2>1, <2>2, GenTyped, Zenon DEF Good, TlbGood
  <2> QED
    BY <1>1, <1>6, <2>1, <2>3
<1>9. ASSUME NEW i \in SlotIds, n.dtlb[i] # NoDtlb
      PROVE  Slot(n.dtlb[i].tag.va) = i /\ n.dtlb[i].tag.gen < n.gen % Slice
  <2>1. g % Slice # 0 /\ n.dtlb[i] = m.dtlb[i]
    BY <1>5, <1>9, EmptyCaches, Zenon
  <2>2. n.gen = g
    BY <1>2, <1>5, <2>1, Zenon
  <2>3. m.dtlb[i] \in DtlbEntry
    BY <1>1, <1>9, <2>1, EntriesTyped, Zenon
  <2>4. m.dtlb[i].tag.gen \in Nat
    BY <2>3 DEF DtlbEntry, DtlbTag
  <2>5. m.dtlb[i].tag.gen <= m.gen % Slice /\ Slot(m.dtlb[i].tag.va) = i
    BY <1>9, <2>1, Zenon DEF Good, DtlbGood
  <2> DEFINE x == m.dtlb[i].tag.gen
             r == m.gen % Slice
             s == g % Slice
  <2>6. x \in Nat /\ x <= r /\ r < s /\ r \in Nat /\ s \in Nat
    BY <1>2, <1>3, <2>1, <2>4, <2>5
  <2> HIDE DEF x, r, s
  <2>7. x < s
    BY <2>6
  <2> QED
    BY <2>1, <2>2, <2>5, <2>7, Zenon DEF x, s
<1>10. TlbGood(n, tab2, st2)
  <2>1. ASSUME NEW i \in SlotIds, n.tlb[i] # NoTlb
        PROVE  n.tlb[i].gen <= n.gen /\ n.tlb[i].gen # n.gen
    <3>1. n.tlb[i].gen \in Nat
      BY <1>7, <2>1, EntriesTyped, GenTyped, Zenon
    <3> QED
      BY <1>6, <1>8, <2>1, <3>1
  <2> QED
    BY <1>8, <2>1, Zenon DEF TlbGood
<1>11. DtlbGood(n, tab2, st2)
  <2>1. ASSUME NEW i \in SlotIds, n.dtlb[i] # NoDtlb
        PROVE  n.dtlb[i].tag.gen <= n.gen % Slice /\ n.dtlb[i].tag.gen # n.gen % Slice
    <3>1. n.dtlb[i] \in DtlbEntry
      BY <1>7, <2>1, EntriesTyped, Zenon
    <3>2. n.dtlb[i].tag.gen \in Nat
      BY <3>1 DEF DtlbEntry, DtlbTag
    <3>3. (n.gen % Slice) \in Nat
      <4>1. n.gen \in Nat /\ Slice \in Nat \ {0}
        BY <1>6, MmuAssumption
      <4> QED
        BY <4>1, DivMod
    <3> DEFINE x == n.dtlb[i].tag.gen
               s == n.gen % Slice
    <3>4. x \in Nat /\ s \in Nat /\ x < s
      BY <1>9, <2>1, <3>2, <3>3, Zenon
    <3> HIDE DEF x, s
    <3>5. x <= s /\ x # s
      BY <3>4
    <3> QED
      BY <3>5, Zenon DEF x, s
  <2> QED
    BY <1>9, <2>1, Zenon DEF DtlbGood
<1>12. FetchGood(n, tab2, st2)
  BY <1>5, EmptyCaches, Zenon DEF FetchGood
<1> QED
  BY <1>5, <1>7, <1>10, <1>11, <1>12, Zenon DEF Good, n

\* An entry for page q stays backed when every source of q stays one.
LEMMA SourcesKept ==
  ASSUME NEW lp, NEW tab, NEW st, NEW lp2, NEW tab2, NEW st2, NEW q,
         \A d \in Descs : Source(lp, tab, st, q, d) => Source(lp2, tab2, st2, q, d)
  PROVE  /\ \A e : e.va.page = q /\ TlbBacked(lp, tab, st, e) => TlbBacked(lp2, tab2, st2, e)
         /\ \A de : de.tag.va.page = q /\ DtlbBacked(lp, tab, st, de)
                      => DtlbBacked(lp2, tab2, st2, de)
         /\ \A f, el0 : f.va.page = q /\ FetchBacked(lp, tab, st, f, el0)
                          => FetchBacked(lp2, tab2, st2, f, el0)
<1>1. ASSUME NEW e, e.va.page = q, TlbBacked(lp, tab, st, e)
      PROVE  TlbBacked(lp2, tab2, st2, e)
  BY <1>1, Zenon DEF TlbBacked
<1>2. ASSUME NEW de, de.tag.va.page = q, DtlbBacked(lp, tab, st, de)
      PROVE  DtlbBacked(lp2, tab2, st2, de)
  BY <1>2, Zenon DEF DtlbBacked
<1>3. ASSUME NEW f, NEW el0, f.va.page = q, FetchBacked(lp, tab, st, f, el0)
      PROVE  FetchBacked(lp2, tab2, st2, f, el0)
  BY <1>3, Zenon DEF FetchBacked
<1> QED
  BY <1>1, <1>2, <1>3, Zenon

LEMMA PagesOfEntries ==
  ASSUME NEW m \in Caches
  PROVE  /\ \A i \in SlotIds : m.tlb[i] # NoTlb => m.tlb[i].va.page \in Pages
         /\ \A i \in SlotIds : m.dtlb[i] # NoDtlb => m.dtlb[i].tag.va.page \in Pages
         /\ \A e \in BOOLEAN : m.fcache[e] # NoFetch => m.fcache[e].va.page \in Pages
<1>1. \A e \in TlbEntry : e.va.page \in Pages
  BY Zenon DEF TlbEntry, VAs
<1>2. \A e \in DtlbEntry : e.tag.va.page \in Pages
  BY Zenon DEF DtlbEntry, DtlbTag, VAs
<1>3. \A e \in FetchEntry : e.va.page \in Pages
  BY Zenon DEF FetchEntry, VAs
<1> QED
  BY <1>1, <1>2, <1>3, EntriesTyped, Zenon

\* The caches stay good when every source stays one.
LEMMA SameCachesGood ==
  ASSUME NEW m, NEW tab, NEW st, Good(m, tab, st), NEW tab2, NEW st2,
         \A p \in Pages, d \in Descs : Source(m.lp, tab, st, p, d) => Source(m.lp, tab2, st2, p, d)
  PROVE  Good(m, tab2, st2)
<1>1. m \in Caches
  BY Zenon DEF Good
<1>2. ASSUME NEW q \in Pages
      PROVE  /\ \A e : e.va.page = q /\ TlbBacked(m.lp, tab, st, e) => TlbBacked(m.lp, tab2, st2, e)
             /\ \A de : de.tag.va.page = q /\ DtlbBacked(m.lp, tab, st, de)
                          => DtlbBacked(m.lp, tab2, st2, de)
             /\ \A f, el0 : f.va.page = q /\ FetchBacked(m.lp, tab, st, f, el0)
                              => FetchBacked(m.lp, tab2, st2, f, el0)
  BY SourcesKept, Zenon
<1>3. TlbGood(m, tab2, st2)
  BY <1>1, <1>2, PagesOfEntries, Zenon DEF Good, TlbGood
<1>4. DtlbGood(m, tab2, st2)
  BY <1>1, <1>2, PagesOfEntries, Zenon DEF Good, DtlbGood
<1>5. FetchGood(m, tab2, st2)
  BY <1>1, <1>2, PagesOfEntries, Zenon DEF Good, FetchGood
<1> QED
  BY <1>1, <1>3, <1>4, <1>5, Zenon DEF Good

\* A descriptor the guest replaces is remembered in stale.
LEMMA RewriteGood ==
  ASSUME Good(mmu, pt, stale), NEW tab \in Tables
  PROVE  Good(mmu, tab, stale \cup Abs!Replaced(tab))
<1>1. ASSUME NEW p \in Pages, NEW d \in Descs, Source(mmu.lp, pt, stale, p, d)
      PROVE  Source(mmu.lp, tab, stale \cup Abs!Replaced(tab), p, d)
  BY <1>1, Zenon DEF Source, Abs!Replaced
<1> QED
  BY <1>1, SameCachesGood, Zenon

\* A TLBI by address that is not escalated concerns no block that is cached.
LEMMA FlushPageGood ==
  ASSUME NEW m, NEW tab, NEW st, Good(m, tab, st), NEW p \in Pages
  PROVE  /\ Good(tlb_flush_page(m, p), tab, {s \in st : Abs!Survives(s, p)})
         /\ tlb_flush_page(m, p).on = m.on
<1> DEFINE n == [m EXCEPT !.tlb[p % Slots] = NoTlb, !.dtlb[p % Slots] = NoDtlb,
                          !.fcache = mmu_init.fcache]
           left == {s \in st : Abs!Survives(s, p)}
<1>1. CASE p \in m.lp
  BY <1>1, FlushAllGood, Zenon DEF tlb_flush_page
<1>2. CASE p \notin m.lp
  <2>1. tlb_flush_page(m, p) = n
    BY <1>2, Zenon DEF tlb_flush_page
  <2>2. m \in Caches /\ p % Slots \in SlotIds
    BY SlotIsId, Zenon DEF Good
  <2>3. /\ n.on = m.on /\ n.gen = m.gen /\ n.lp = m.lp /\ n.fcache = mmu_init.fcache
        /\ \A i \in SlotIds : n.tlb[i] = IF i = p % Slots THEN NoTlb ELSE m.tlb[i]
        /\ \A i \in SlotIds : n.dtlb[i] = IF i = p % Slots THEN NoDtlb ELSE m.dtlb[i]
    BY <2>2, Zenon DEF Caches
  <2>4. n \in Caches
    BY <2>2, EmptyCaches, Zenon DEF Caches
  <2> HIDE DEF n
  <2>5. ASSUME NEW q \in Pages, q # p, NEW d \in Descs, Source(m.lp, tab, st, q, d)
        PROVE  Source(m.lp, tab, left, q, d)
    <3>1. q \in Block(p) => p \in Block(q)
      BY Zenon DEF Block
    <3>2. <<q, d>> \in st => <<q, d>> \in left
      <4>1. d.blk => q \notin Block(p)
        BY <1>2, <2>5, <3>1, Zenon DEF Source
      <4>2. <<q, d>>[1] = q /\ <<q, d>>[2] = d
        BY Zenon
      <4>3. Abs!Survives(<<q, d>>, p)
        BY <2>5, <4>1, <4>2, Zenon DEF Abs!Survives, Abs!Block, Block
      <4> QED
        BY <4>3, Zenon
    <3> QED
      BY <2>5, <3>2, Zenon DEF Source
  <2> HIDE DEF left
  <2>6. ASSUME NEW q \in Pages, q # p
        PROVE  /\ \A e : e.va.page = q /\ TlbBacked(m.lp, tab, st, e) => TlbBacked(m.lp, tab, left, e)
               /\ \A de : de.tag.va.page = q /\ DtlbBacked(m.lp, tab, st, de)
                            => DtlbBacked(m.lp, tab, left, de)
    BY <2>5, <2>6, SourcesKept, Zenon
  <2>7. TlbGood(n, tab, left)
    <3>1. ASSUME NEW i \in SlotIds, n.tlb[i] # NoTlb
          PROVE  /\ Slot(n.tlb[i].va) = i /\ n.tlb[i].gen <= n.gen
                 /\ n.tlb[i].gen = n.gen => TlbBacked(n.lp, tab, left, n.tlb[i])
      <4>1. i # p % Slots /\ n.tlb[i] = m.tlb[i] /\ m.tlb[i] # NoTlb
        BY <2>3, <3>1, Zenon
      <4>2. /\ Slot(m.tlb[i].va) = i /\ m.tlb[i].gen <= m.gen
            /\ m.tlb[i].gen = m.gen => TlbBacked(m.lp, tab, st, m.tlb[i])
        BY <4>1, Zenon DEF Good, TlbGood
      <4>3. m.tlb[i].va.page \in Pages /\ m.tlb[i].va.page # p
        BY <2>2, <4>1, <4>2, PagesOfEntries, Zenon DEF Slot
      <4> QED
        BY <2>3, <2>6, <4>1, <4>2, <4>3, Zenon
    <3> QED
      BY <3>1, Zenon DEF TlbGood
  <2>8. DtlbGood(n, tab, left)
    <3>1. ASSUME NEW i \in SlotIds, n.dtlb[i] # NoDtlb
          PROVE  /\ Slot(n.dtlb[i].tag.va) = i /\ n.dtlb[i].tag.gen <= n.gen % Slice
                 /\ n.dtlb[i].tag.gen = n.gen % Slice => DtlbBacked(n.lp, tab, left, n.dtlb[i])
      <4>1. i # p % Slots /\ n.dtlb[i] = m.dtlb[i] /\ m.dtlb[i] # NoDtlb
        BY <2>3, <3>1, Zenon
      <4>2. /\ Slot(m.dtlb[i].tag.va) = i /\ m.dtlb[i].tag.gen <= m.gen % Slice
            /\ m.dtlb[i].tag.gen = m.gen % Slice => DtlbBacked(m.lp, tab, st, m.dtlb[i])
        BY <4>1, Zenon DEF Good, DtlbGood
      <4>3. m.dtlb[i].tag.va.page \in Pages /\ m.dtlb[i].tag.va.page # p
        BY <2>2, <4>1, <4>2, PagesOfEntries, Zenon DEF Slot
      <4> QED
        BY <2>3, <2>6, <4>1, <4>2, <4>3, Zenon
    <3> QED
      BY <3>1, Zenon DEF DtlbGood
  <2>9. FetchGood(n, tab, left)
    BY <2>3, EmptyCaches, Zenon DEF FetchGood
  <2> QED
    BY <2>1, <2>3, <2>4, <2>7, <2>8, <2>9, Zenon DEF Good, left
<1> QED
  BY <1>1, <1>2, Zenon

-----------------------------------------------------------------------------
(* Translation. *)

\* What the recorded range covers after a block was cached.
LEMMA RecordGrows ==
  ASSUME NEW m \in Caches, NEW p \in Pages
  PROVE  /\ lp_record(m, p) \in Caches
         /\ lp_record(m, p) = [m EXCEPT !.lp = lp_record(m, p).lp]
         /\ m.lp \cup Block(p) \subseteq lp_record(m, p).lp
<1> DEFINE l == {r \in Pages : \A R \in Ranges : m.lp \cup Block(p) \subseteq R => r \in R}
<1>1. lp_record(m, p) = [m EXCEPT !.lp = l]
  BY Zenon DEF lp_record
<1>2. m.lp \subseteq Pages /\ Block(p) \subseteq Pages
  BY Zenon DEF Caches, Block
<1>3. l \subseteq Pages /\ m.lp \cup Block(p) \subseteq l
  BY <1>2, Zenon
<1> HIDE DEF l
<1>4. lp_record(m, p).lp = l
  BY <1>1, Zenon DEF Caches
<1>5. [m EXCEPT !.lp = l] \in Caches
  BY <1>3, Zenon DEF Caches
<1> QED
  BY <1>1, <1>3, <1>4, <1>5, Zenon

\* The entry a walk makes and the caches with it.
WalkEntry(m, tab, v, el0) ==
  [valid |-> TRUE, gen |-> m.gen, va |-> v, el0 |-> el0, pa |-> leaf(v.page, tab[v.page]),
   ap |-> tab[v.page].ap, uxn |-> tab[v.page].uxn, pxn |-> tab[v.page].pxn]
Walked(m, tab, v, el0) ==
  [(IF tab[v.page].blk THEN lp_record(m, v.page) ELSE m)
     EXCEPT !.tlb[Slot(v)] = WalkEntry(m, tab, v, el0)]

\* A walk caches the current descriptor, and the range of its block.
LEMMA WalkedGood ==
  ASSUME NEW m, NEW tab \in Tables, NEW st, Good(m, tab, st),
         NEW v \in VAs, NEW el0 \in BOOLEAN, tab[v.page].valid
  PROVE  LET n == Walked(m, tab, v, el0)
         IN  /\ Good(n, tab, st) /\ n.on = m.on
             /\ n.tlb[Slot(v)] = WalkEntry(m, tab, v, el0)
             /\ Source(n.lp, tab, st, v.page, tab[v.page])
<1> DEFINE k == IF tab[v.page].blk THEN lp_record(m, v.page) ELSE m
           w == WalkEntry(m, tab, v, el0)
           n == [k EXCEPT !.tlb[Slot(v)] = w]
           d == tab[v.page]
<1>1. m \in Caches /\ v.page \in Pages /\ Slot(v) \in SlotIds
  BY SlotIsId, Zenon DEF Good, VAs, Slot
<1>2. d \in Descs /\ leaf(v.page, d) \in Frames
  BY <1>1, TablesTyped, Zenon
<1>3. /\ k \in Caches /\ k.on = m.on /\ k.gen = m.gen /\ k.tlb = m.tlb /\ k.dtlb = m.dtlb
      /\ k.fcache = m.fcache /\ m.lp \subseteq k.lp /\ (d.blk => Block(v.page) \subseteq k.lp)
  BY <1>1, RecordGrows DEF Caches
<1>4. w \in TlbEntry
  <2>1. m.gen \in 1..GenMod - 1
    BY <1>1, Zenon DEF Caches
  <2>2. d.ap \in 0..3 /\ d.uxn \in BOOLEAN /\ d.pxn \in BOOLEAN
    BY <1>2, Zenon DEF Descs
  <2> HIDE DEF d
  <2> QED
    BY <1>2, <2>1, <2>2, Zenon DEF WalkEntry, TlbEntry, d
<1>5. /\ w # NoTlb /\ w.va = v /\ w.gen = m.gen /\ w.pa = leaf(v.page, d)
      /\ w.ap = d.ap /\ w.uxn = d.uxn /\ w.pxn = d.pxn
  BY Zenon DEF WalkEntry, NoTlb
<1> HIDE DEF k, w, d
<1>6. /\ n.on = m.on /\ n.gen = m.gen /\ n.dtlb = m.dtlb /\ n.fcache = m.fcache /\ n.lp = k.lp
      /\ \A i \in SlotIds : n.tlb[i] = IF i = Slot(v) THEN w ELSE m.tlb[i]
  BY <1>1, <1>3, Zenon DEF Caches
<1>7. n \in Caches
  BY <1>1, <1>3, <1>4, Zenon DEF Caches
<1>8. n = Walked(m, tab, v, el0)
  BY Zenon DEF Walked, k, w
<1> HIDE DEF n
<1>9. Source(n.lp, tab, st, v.page, d)
  BY <1>3, <1>6, Zenon DEF Source, d
<1>10. TlbBacked(n.lp, tab, st, w)
  BY <1>2, <1>5, <1>9, Zenon DEF TlbBacked
<1>11. ASSUME NEW q \in Pages, NEW x \in Descs, Source(m.lp, tab, st, q, x)
       PROVE  Source(n.lp, tab, st, q, x)
  BY <1>3, <1>6, <1>11, Zenon DEF Source
<1>12. ASSUME NEW q \in Pages
       PROVE  /\ \A e : e.va.page = q /\ TlbBacked(m.lp, tab, st, e) => TlbBacked(n.lp, tab, st, e)
              /\ \A de : de.tag.va.page = q /\ DtlbBacked(m.lp, tab, st, de)
                           => DtlbBacked(n.lp, tab, st, de)
              /\ \A f, el : f.va.page = q /\ FetchBacked(m.lp, tab, st, f, el)
                              => FetchBacked(n.lp, tab, st, f, el)
  BY <1>11, SourcesKept, Zenon
<1>13. TlbGood(n, tab, st)
  <2>1. ASSUME NEW i \in SlotIds, n.tlb[i] # NoTlb
        PROVE  /\ Slot(n.tlb[i].va) = i /\ n.tlb[i].gen <= n.gen
               /\ n.tlb[i].gen = n.gen => TlbBacked(n.lp, tab, st, n.tlb[i])
    <3>1. CASE i = Slot(v)
      <4>1. n.tlb[i] = w /\ n.gen \in Int
        BY <1>1, <1>6, <3>1, MmuAssumption DEF Caches
      <4> QED
        BY <1>5, <1>6, <1>10, <3>1, <4>1
    <3>2. CASE i # Slot(v)
      <4>1. n.tlb[i] = m.tlb[i]
        BY <1>6, <3>2, Zenon
      <4> QED
        BY <1>1, <1>6, <1>12, <2>1, <4>1, PagesOfEntries, ZenonT(60) DEF Good, TlbGood
    <3> QED
      BY <3>1, <3>2, Zenon
  <2> QED
    BY <2>1, Zenon DEF TlbGood
<1>14. DtlbGood(n, tab, st)
  <2>1. ASSUME NEW i \in SlotIds, m.dtlb[i] # NoDtlb
        PROVE  /\ Slot(m.dtlb[i].tag.va) = i /\ m.dtlb[i].tag.gen <= m.gen % Slice
               /\ m.dtlb[i].tag.gen = m.gen % Slice => DtlbBacked(n.lp, tab, st, m.dtlb[i])
    BY <1>1, <1>12, <2>1, PagesOfEntries, Zenon DEF Good, DtlbGood
  <2> QED
    BY <1>6, <2>1, ZenonT(60) DEF DtlbGood
<1>15. FetchGood(n, tab, st)
  <2>1. ASSUME NEW x \in BOOLEAN, m.fcache[x] # NoFetch
        PROVE  FetchBacked(n.lp, tab, st, m.fcache[x], x)
    BY <1>1, <1>12, <2>1, PagesOfEntries, Zenon DEF Good, FetchGood
  <2> QED
    BY <1>6, <2>1, Zenon DEF FetchGood
<1>16. n.tlb[Slot(v)] = w
  BY <1>1, <1>6, Zenon
<1> QED
  BY <1>6, <1>7, <1>8, <1>9, <1>13, <1>14, <1>15, <1>16, Zenon DEF Good, d, w

\* A TLB entry grants what its descriptor grants.
LEMMA PermOfEntry ==
  ASSUME NEW e, NEW d, e.ap = d.ap, e.uxn = d.uxn, e.pxn = d.pxn, NEW acc \in Accs, NEW el0
  PROVE  perm_ok_el(acc, e, el0) <=> perm_ok_el(acc, d, el0)
BY Zenon DEF perm_ok_el, Accs

\* The access is granted by a source of the page, whose fields are in the TLB.
Granted(n, tab, st, v, acc, el0, pa) ==
  \E d \in Descs :
    /\ Source(n.lp, tab, st, v.page, d) /\ perm_ok_el(acc, d, el0) /\ pa = leaf(v.page, d)
    /\ n.tlb[Slot(v)].ap = d.ap /\ n.tlb[Slot(v)].uxn = d.uxn /\ n.tlb[Slot(v)].pxn = d.pxn

LEMMA TranslateGood ==
  ASSUME NEW m, NEW tab \in Tables, NEW st, Good(m, tab, st),
         NEW v \in VAs, NEW acc \in Accs, NEW el0 \in BOOLEAN
  PROVE  LET t == mmu_translate(m, tab, v, acc, el0)
         IN  /\ Good(t.m, tab, st) /\ t.m.on = m.on /\ t.pa \in Frames \cup {Fault}
             /\ ~m.on => t.pa = v.page
             /\ m.on /\ t.pa = Fault => ~permits(tab[v.page], acc, el0)
             /\ m.on /\ t.pa # Fault => Granted(t.m, tab, st, v, acc, el0, t.pa)
<1> DEFINE t == mmu_translate(m, tab, v, acc, el0)
           d == tab[v.page]
           e == m.tlb[Slot(v)]
           n == Walked(m, tab, v, el0)
<1>1. m \in Caches /\ v.page \in Pages /\ Slot(v) \in SlotIds /\ Fault \notin Frames
  <2>1. m \in Caches /\ v.page \in Pages
    BY Zenon DEF Good, VAs
  <2>2. Fault \notin Frames
    BY PageTablesAssumption DEF Fault
  <2> QED
    BY <2>1, <2>2, SlotIsId, Zenon DEF Slot
<1>2. d \in Descs /\ leaf(v.page, d) \in Frames
  BY <1>1, TablesTyped, Zenon
<1>3. CASE ~m.on
  <2>1. t = [m |-> m, pa |-> v.page]
    BY <1>3, Zenon DEF mmu_translate
  <2>2. v.page \in Frames
    BY <1>1, PageTablesAssumption, Zenon
  <2> QED
    BY <1>3, <2>1, <2>2
<1>4. CASE m.on /\ tlb_hit(m, v, acc, el0)
  <2>1. t = [m |-> m, pa |-> e.pa]
    BY <1>4, Zenon DEF mmu_translate
  <2>2. e.valid /\ e.gen = m.gen /\ e.va = v /\ perm_ok_el(acc, e, el0)
    BY <1>4, Zenon DEF tlb_hit
  <2>3. e # NoTlb
    BY <2>2 DEF NoTlb
  <2>4. e.pa \in Frames
    BY <1>1, <2>3, EntriesTyped, Zenon DEF TlbEntry
  <2>5. TlbBacked(m.lp, tab, st, e)
    BY <1>1, <2>2, <2>3, Zenon DEF Good, TlbGood
  <2> HIDE DEF e
  <2>6. PICK x \in Descs : /\ Source(m.lp, tab, st, v.page, x) /\ e.pa = leaf(v.page, x)
                           /\ e.ap = x.ap /\ e.uxn = x.uxn /\ e.pxn = x.pxn
    BY <2>2, <2>5, Zenon DEF TlbBacked
  <2>7. perm_ok_el(acc, x, el0)
    BY <2>2, <2>6, PermOfEntry, Zenon
  <2>8. Granted(m, tab, st, v, acc, el0, e.pa)
    BY <2>6, <2>7, Zenon DEF Granted, e
  <2> HIDE DEF t
  <2>9. t.m = m /\ t.pa = e.pa
    BY <2>1, Zenon
  <2> QED
    BY <1>1, <1>4, <2>4, <2>8, <2>9, Zenon DEF t
<1>5. CASE m.on /\ ~tlb_hit(m, v, acc, el0) /\ ~d.valid
  <2>1. t = [m |-> m, pa |-> Fault]
    BY <1>5, Zenon DEF mmu_translate
  <2>2. ~permits(d, acc, el0)
    BY <1>5, Zenon DEF permits
  <2> HIDE DEF t
  <2>3. t.m = m /\ t.pa = Fault
    BY <2>1, Zenon
  <2> QED
    BY <1>5, <2>2, <2>3, Zenon DEF t
<1>6. CASE m.on /\ ~tlb_hit(m, v, acc, el0) /\ d.valid
  <2>1. t = [m |-> n, pa |-> IF perm_ok_el(acc, d, el0) THEN leaf(v.page, d) ELSE Fault]
    BY <1>6, Zenon DEF mmu_translate, Walked, WalkEntry
  <2>2. /\ Good(n, tab, st) /\ n.on = m.on /\ n.tlb[Slot(v)] = WalkEntry(m, tab, v, el0)
        /\ Source(n.lp, tab, st, v.page, d)
    BY <1>6, WalkedGood, ZenonT(60)
  <2>3. n.tlb[Slot(v)].ap = d.ap /\ n.tlb[Slot(v)].uxn = d.uxn /\ n.tlb[Slot(v)].pxn = d.pxn
    BY <2>2 DEF WalkEntry
  <2> HIDE DEF n, d, t
  <2>4. t.m = n /\ t.pa = IF perm_ok_el(acc, d, el0) THEN leaf(v.page, d) ELSE Fault
    BY <2>1, Zenon
  <2>5. CASE perm_ok_el(acc, d, el0)
    <3>1. Granted(n, tab, st, v, acc, el0, leaf(v.page, d))
      BY <1>2, <2>2, <2>3, <2>5, Zenon DEF Granted
    <3> QED
      BY <1>1, <1>2, <1>6, <2>2, <2>4, <2>5, <3>1, Zenon DEF t, d
  <2>6. CASE ~perm_ok_el(acc, d, el0)
    BY <1>6, <2>2, <2>4, <2>6, Zenon DEF permits, t, d
  <2> QED
    BY <2>5, <2>6, Zenon
<1> QED
  BY <1>3, <1>4, <1>5, <1>6, Zenon

\* An entry of the D-TLB grants no more than the access that made it could
\* have been granted.
LEMMA DtlbFillGood ==
  ASSUME NEW m, NEW tab, NEW st, Good(m, tab, st), NEW v \in VAs, NEW el0 \in BOOLEAN,
         NEW pa, NEW acc, NEW code,
         ~m.on => pa = v.page, m.on => Granted(m, tab, st, v, acc, el0, pa)
  PROVE  /\ Good(dtlb_fill(m, v, el0, pa, code), tab, st)
         /\ dtlb_fill(m, v, el0, pa, code).on = m.on
<1> DEFINE e == m.tlb[Slot(v)]
           granted == {a \in {"READ", "WRITE"} : m.on => perm_ok_el(a, e, el0)}
           entry == [tag |-> dtlb_tag(m, v, el0), host |-> pa,
                     perm |-> granted \ (IF pa \in code THEN {"WRITE"} ELSE {})]
           n == [m EXCEPT !.dtlb[Slot(v)] = entry]
<1>1. m \in Caches /\ v.page \in Pages /\ Slot(v) \in SlotIds
  BY SlotIsId, Zenon DEF Good, VAs, Slot
<1>2. CASE pa \notin Ram
  BY <1>2, Zenon DEF dtlb_fill
<1>3. CASE pa \in Ram
  <2>1. dtlb_fill(m, v, el0, pa, code) = n
    BY <1>3, Zenon DEF dtlb_fill
  <2>2. (m.gen % Slice) \in 0..Slice - 1 /\ m.gen \in Nat /\ Slice \in Nat
    <3>1. m.gen \in 1..GenMod - 1 /\ GenMod \in Nat /\ Slice \in Nat \ {0}
      BY <1>1, MmuAssumption, Zenon DEF Caches
    <3>2. m.gen \in Nat
      BY <3>1
    <3> QED
      BY <3>1, <3>2, DivMod, Zenon
  <2>3. dtlb_tag(m, v, el0) \in DtlbTag
    BY <1>1, <2>2, Zenon DEF dtlb_tag, DtlbTag, Caches
  <2>4. /\ entry \in DtlbEntry /\ entry # NoDtlb /\ entry.host = pa
        /\ entry.tag = dtlb_tag(m, v, el0) /\ entry.perm \subseteq granted
    BY <1>3, <2>3, Zenon DEF DtlbEntry, NoDtlb
  <2>5. /\ entry.tag.va = v /\ entry.tag.gen = m.gen % Slice /\ entry.tag.on = m.on
        /\ entry.tag.el0 = el0
    BY <2>4, Zenon DEF dtlb_tag
  <2>6. DtlbBacked(m.lp, tab, st, entry)
    <3>1. CASE m.on
      <4>1. PICK x \in Descs : /\ Source(m.lp, tab, st, v.page, x) /\ pa = leaf(v.page, x)
                               /\ e.ap = x.ap /\ e.uxn = x.uxn /\ e.pxn = x.pxn
        BY <3>1, Zenon DEF Granted
      <4> HIDE DEF e
      <4>2. \A a \in granted : a \in Accs /\ perm_ok_el(a, e, el0)
        BY <3>1, Zenon DEF Accs
      <4>3. \A a \in granted : perm_ok_el(a, x, el0)
        BY <4>1, <4>2, PermOfEntry, Zenon
      <4> HIDE DEF granted, entry
      <4> QED
        BY <2>4, <2>5, <3>1, <4>1, <4>3, Zenon DEF DtlbBacked
    <3>2. CASE ~m.on
      <4> HIDE DEF entry
      <4> QED
        BY <2>4, <2>5, <3>2, Zenon DEF DtlbBacked
    <3> QED
      BY <3>1, <3>2, Zenon
  <2> HIDE DEF entry
  <2>7. /\ n.on = m.on /\ n.gen = m.gen /\ n.lp = m.lp /\ n.tlb = m.tlb /\ n.fcache = m.fcache
        /\ \A i \in SlotIds : n.dtlb[i] = IF i = Slot(v) THEN entry ELSE m.dtlb[i]
    BY <1>1, Zenon DEF Caches
  <2>8. n \in Caches
    BY <1>1, <2>4, Zenon DEF Caches
  <2> HIDE DEF n
  <2>9. TlbGood(n, tab, st) /\ FetchGood(n, tab, st)
    BY <2>7, ZenonT(60) DEF Good, TlbGood, FetchGood
  <2>10. ASSUME NEW i \in SlotIds, n.dtlb[i] # NoDtlb
         PROVE  /\ Slot(n.dtlb[i].tag.va) = i /\ n.dtlb[i].tag.gen <= n.gen % Slice
                /\ n.dtlb[i].tag.gen = n.gen % Slice => DtlbBacked(n.lp, tab, st, n.dtlb[i])
    <3>1. CASE i = Slot(v)
      BY <2>2, <2>5, <2>6, <2>7, <3>1
    <3>2. CASE i # Slot(v)
      <4>1. n.dtlb[i] = m.dtlb[i]
        BY <2>7, <3>2, Zenon
      <4> QED
        BY <2>7, <2>10, <4>1, Zenon DEF Good, DtlbGood
    <3> QED
      BY <3>1, <3>2, Zenon
  <2>11. DtlbGood(n, tab, st)
    BY <2>10, Zenon DEF DtlbGood
  <2> QED
    BY <2>1, <2>7, <2>8, <2>9, <2>11, Zenon DEF Good
<1> QED
  BY <1>2, <1>3, Zenon

-----------------------------------------------------------------------------
(* The accesses and the refinement.                                        *)

\* An outcome that Stage1 allows.
Allowed(on, tab, st, p, acc, el0, r) ==
  IF ~on THEN r = Bus(p)
  ELSE \/ \E d \in Descs : (d = tab[p] \/ <<p, d>> \in st) /\ permits(d, acc, el0) /\ r = Bus(leaf(p, d))
       \/ r = Fault /\ ~permits(tab[p], acc, el0)

\* The outcome of a translation, seen on the bus.
LEMMA TranslatedAllowed ==
  ASSUME NEW on \in BOOLEAN, NEW n, NEW tab, NEW st, NEW v, NEW acc, NEW el0, NEW pa,
         ~on => pa = v.page,
         on /\ pa = Fault => ~permits(tab[v.page], acc, el0),
         on /\ pa # Fault => Granted(n, tab, st, v, acc, el0, pa)
  PROVE  Allowed(on, tab, st, v.page, acc, el0, IF pa = Fault \/ pa \in Hole THEN Fault ELSE pa)
<1> DEFINE r == IF pa = Fault \/ pa \in Hole THEN Fault ELSE pa
<1>1. r = Bus(pa)
  BY Zenon DEF Bus
<1> HIDE DEF r
<1>2. CASE ~on
  BY <1>1, <1>2, Zenon DEF Allowed, r
<1>3. CASE on /\ pa = Fault
  BY <1>3, Zenon DEF Allowed
<1>4. CASE on /\ pa # Fault
  <2>1. PICK d \in Descs : Source(n.lp, tab, st, v.page, d) /\ perm_ok_el(acc, d, el0) /\ pa = leaf(v.page, d)
    BY <1>4, Zenon DEF Granted
  <2>2. (d = tab[v.page] \/ <<v.page, d>> \in st) /\ permits(d, acc, el0)
    BY <2>1, Zenon DEF Source, permits
  <2>3. r = Bus(leaf(v.page, d))
    BY <1>1, <2>1, Zenon
  <2> QED
    BY <1>4, <2>2, <2>3, Zenon DEF Allowed, r
<1> QED
  BY <1>2, <1>3, <1>4, Zenon

\* mem_read and mem_write.
LEMMA AccessGood ==
  ASSUME NEW m, NEW tab \in Tables, NEW st, Good(m, tab, st), NEW v \in VAs,
         NEW acc \in {"READ", "WRITE"}, NEW el0 \in BOOLEAN, NEW code
  PROVE  LET a == mem_access(m, tab, v, acc, el0, code)
         IN  /\ Good(a.m, tab, st) /\ a.m.on = m.on
             /\ Allowed(m.on, tab, st, v.page, acc, el0, a.pa)
<1> DEFINE a == mem_access(m, tab, v, acc, el0, code)
           t == mmu_translate(m, tab, v, acc, el0)
           de == m.dtlb[Slot(v)]
           bus == IF t.pa = Fault \/ t.pa \in Hole THEN Fault ELSE t.pa
<1>1. m \in Caches /\ v.page \in Pages /\ m.on \in BOOLEAN
  BY Zenon DEF Good, VAs, Caches
<1>2. Slot(v) \in SlotIds /\ acc \in Accs
  BY <1>1, SlotIsId, Zenon DEF Slot, Accs
<1>3. /\ Good(t.m, tab, st) /\ t.m.on = m.on
      /\ ~m.on => t.pa = v.page
      /\ m.on /\ t.pa = Fault => ~permits(tab[v.page], acc, el0)
      /\ m.on /\ t.pa # Fault => Granted(t.m, tab, st, v, acc, el0, t.pa)
  BY <1>2, TranslateGood, SMTT(60)
<1>4. CASE dtlb_hit(m, v, el0, acc)
  <2>1. a = [m |-> m, pa |-> de.host]
    BY <1>4, SMTT(60) DEF mem_access
  <2>2. acc \in de.perm /\ de.tag = dtlb_tag(m, v, el0)
    BY <1>4, Zenon DEF dtlb_hit
  <2>3. de # NoDtlb
    BY <2>2 DEF NoDtlb
  <2>4. de.tag.va = v /\ de.tag.gen = m.gen % Slice /\ de.tag.on = m.on /\ de.tag.el0 = el0
    BY <2>2 DEF dtlb_tag
  <2>5. DtlbBacked(m.lp, tab, st, de)
    BY <1>2, <2>3, <2>4, Zenon DEF Good, DtlbGood
  <2>6. de.host \in Ram
    BY <1>1, <1>2, <2>3, EntriesTyped, Zenon DEF DtlbEntry
  <2> HIDE DEF de, a
  <2>7. Bus(de.host) = de.host
    BY <2>6, MmuAssumption, Zenon DEF Bus
  <2>8. CASE ~m.on
    <3>1. de.host = v.page
      BY <2>4, <2>5, <2>8, Zenon DEF DtlbBacked
    <3>2. Allowed(m.on, tab, st, v.page, acc, el0, de.host)
      BY <2>7, <2>8, <3>1, Zenon DEF Allowed
    <3> QED
      BY <2>1, <3>2 DEF a
  <2>9. CASE m.on
    <3>1. PICK d \in Descs : /\ Source(m.lp, tab, st, v.page, d) /\ de.host = leaf(v.page, d)
                             /\ \A b \in de.perm : perm_ok_el(b, d, el0)
      BY <2>4, <2>5, <2>9, Zenon DEF DtlbBacked
    <3>2. (d = tab[v.page] \/ <<v.page, d>> \in st) /\ permits(d, acc, el0)
      BY <2>2, <3>1, Zenon DEF Source, permits
    <3>3. Allowed(m.on, tab, st, v.page, acc, el0, de.host)
      BY <2>7, <2>9, <3>1, <3>2, Zenon DEF Allowed
    <3> QED
      BY <2>1, <3>3 DEF a
  <2> QED
    BY <1>1, <2>8, <2>9, Zenon
<1>5. CASE ~dtlb_hit(m, v, el0, acc)
  <2>1. Allowed(m.on, tab, st, v.page, acc, el0, bus)
    BY <1>1, <1>3, TranslatedAllowed, ZenonT(60)
  <2>2. CASE t.pa = Fault \/ t.pa \in Hole
    <3>1. a = [m |-> t.m, pa |-> Fault]
      BY <1>5, <2>2, Zenon DEF mem_access
    <3>2. bus = Fault
      BY <2>2, Zenon
    <3> HIDE DEF a, t, bus
    <3>3. a.m = t.m /\ a.pa = bus
      BY <3>1, <3>2, Zenon
    <3> QED
      BY <1>3, <2>1, <3>3, Zenon DEF a
  <2>3. CASE ~(t.pa = Fault \/ t.pa \in Hole)
    <3>1. a = [m |-> dtlb_fill(t.m, v, el0, t.pa, code), pa |-> t.pa]
      BY <1>5, <2>3, Zenon DEF mem_access
    <3>2. bus = t.pa
      BY <2>3, Zenon
    <3> HIDE DEF a, t, bus
    <3>3. /\ Good(dtlb_fill(t.m, v, el0, t.pa, code), tab, st)
          /\ dtlb_fill(t.m, v, el0, t.pa, code).on = t.m.on
      BY <1>3, <2>3, DtlbFillGood
    <3> QED
      BY <1>3, <2>1, <3>1, <3>2, <3>3, SMTT(60) DEF a
  <2> QED
    BY <2>2, <2>3, Zenon
<1> QED
  BY <1>4, <1>5, Zenon

\* mem_ifetch.
LEMMA IfetchGood ==
  ASSUME NEW m, NEW tab \in Tables, NEW st, Good(m, tab, st), NEW v \in VAs, NEW el0 \in BOOLEAN
  PROVE  LET a == mem_ifetch(m, tab, v, el0)
         IN  /\ Good(a.m, tab, st) /\ a.m.on = m.on
             /\ Allowed(m.on, tab, st, v.page, "EXEC", el0, a.pa)
<1> DEFINE a == mem_ifetch(m, tab, v, el0)
           t == mmu_translate(m, tab, v, "EXEC", el0)
           c == m.fcache[el0]
           f == [host |-> TRUE, va |-> v, pa |-> t.pa, on |-> m.on]
           k == [t.m EXCEPT !.fcache[el0] = f]
           bus == IF t.pa = Fault \/ t.pa \in Hole THEN Fault ELSE t.pa
<1>1. m \in Caches /\ v.page \in Pages /\ m.on \in BOOLEAN /\ "EXEC" \in Accs
  BY Zenon DEF Good, VAs, Caches, Accs
<1>2. /\ Good(t.m, tab, st) /\ t.m.on = m.on
      /\ ~m.on => t.pa = v.page
      /\ m.on /\ t.pa = Fault => ~permits(tab[v.page], "EXEC", el0)
      /\ m.on /\ t.pa # Fault => Granted(t.m, tab, st, v, "EXEC", el0, t.pa)
  BY <1>1, TranslateGood, SMTT(60)
<1>3. CASE fetch_hit(m, v, el0)
  <2>1. a = [m |-> m, pa |-> c.pa]
    BY <1>3, Zenon DEF mem_ifetch
  <2>2. c.host /\ c.va = v /\ c.on = m.on
    BY <1>3, Zenon DEF fetch_hit
  <2>3. c # NoFetch
    BY <2>2 DEF NoFetch
  <2>4. FetchBacked(m.lp, tab, st, c, el0)
    BY <2>3, Zenon DEF Good, FetchGood
  <2>5. c.pa \in Ram \cup Flash
    BY <1>1, <2>3, EntriesTyped, Zenon DEF FetchEntry
  <2> HIDE DEF c, a
  <2>6. Bus(c.pa) = c.pa
    BY <2>5, MmuAssumption, Zenon DEF Bus
  <2>7. CASE ~m.on
    <3>1. c.pa = v.page
      BY <2>2, <2>4, <2>7, Zenon DEF FetchBacked
    <3>2. Allowed(m.on, tab, st, v.page, "EXEC", el0, c.pa)
      BY <2>6, <2>7, <3>1, Zenon DEF Allowed
    <3> QED
      BY <2>1, <3>2 DEF a
  <2>8. CASE m.on
    <3>1. PICK d \in Descs : /\ Source(m.lp, tab, st, v.page, d) /\ c.pa = leaf(v.page, d)
                             /\ perm_ok_el("EXEC", d, el0)
      BY <2>2, <2>4, <2>8, Zenon DEF FetchBacked
    <3>2. (d = tab[v.page] \/ <<v.page, d>> \in st) /\ permits(d, "EXEC", el0)
      BY <3>1, Zenon DEF Source, permits
    <3>3. Allowed(m.on, tab, st, v.page, "EXEC", el0, c.pa)
      BY <2>6, <2>8, <3>1, <3>2, Zenon DEF Allowed
    <3> QED
      BY <2>1, <3>3 DEF a
  <2> QED
    BY <1>1, <2>7, <2>8, Zenon
<1>4. CASE ~fetch_hit(m, v, el0)
  <2>1. Allowed(m.on, tab, st, v.page, "EXEC", el0, bus)
    BY <1>1, <1>2, TranslatedAllowed, ZenonT(60)
  <2>2. CASE t.pa = Fault \/ t.pa \in Hole
    <3>1. a = [m |-> t.m, pa |-> Fault]
      BY <1>4, <2>2, Zenon DEF mem_ifetch
    <3>2. bus = Fault
      BY <2>2, Zenon
    <3> HIDE DEF a, t, bus
    <3>3. a.m = t.m /\ a.pa = bus
      BY <3>1, <3>2, Zenon
    <3> QED
      BY <1>2, <2>1, <3>3, Zenon DEF a
  <2>3. CASE ~(t.pa = Fault \/ t.pa \in Hole)
    <3>1. a = [m |-> IF t.pa \in Ram \cup Flash THEN k ELSE t.m, pa |-> t.pa]
      BY <1>4, <2>3, Zenon DEF mem_ifetch
    <3>2. bus = t.pa
      BY <2>3, Zenon
    <3> HIDE DEF a, t, bus
    <3>3. ASSUME t.pa \in Ram \cup Flash
          PROVE  Good(k, tab, st) /\ k.on = m.on
      <4>1. f \in FetchEntry /\ f.on = m.on /\ f.va = v /\ f.pa = t.pa
        BY <1>1, <3>3, Zenon DEF FetchEntry
      <4> HIDE DEF f
      <4>2. t.m \in Caches
        BY <1>2, Zenon DEF Good
      <4>3. /\ k.on = t.m.on /\ k.gen = t.m.gen /\ k.lp = t.m.lp /\ k.tlb = t.m.tlb /\ k.dtlb = t.m.dtlb
            /\ \A e \in BOOLEAN : k.fcache[e] = IF e = el0 THEN f ELSE t.m.fcache[e]
        BY <4>2, Zenon DEF Caches
      <4>4. k \in Caches
        BY <4>1, <4>2, Zenon DEF Caches
      <4> HIDE DEF k
      <4>5. FetchBacked(t.m.lp, tab, st, f, el0)
        BY <1>1, <1>2, <2>3, <4>1, Zenon DEF FetchBacked, Granted
      <4>6. FetchGood(k, tab, st)
        BY <1>2, <4>3, <4>5, Zenon DEF FetchGood, Good
      <4>7. TlbGood(k, tab, st) /\ DtlbGood(k, tab, st)
        BY <1>2, <4>3, ZenonT(60) DEF TlbGood, DtlbGood, Good
      <4> QED
        BY <1>2, <4>3, <4>4, <4>6, <4>7, Zenon DEF Good
    <3> QED
      BY <1>2, <2>1, <3>1, <3>2, <3>3 DEF a
  <2> QED
    BY <2>2, <2>3, Zenon
<1> QED
  BY <1>3, <1>4, Zenon

-----------------------------------------------------------------------------
(* The machine. *)

\* Every step keeps the invariant.
LEMMA StepGood ==
  ASSUME MmuInv, [Next]_vars
  PROVE  MmuInv'
<1>1. pt \in Tables /\ stale \in Olds /\ Good(mmu, pt, stale)
  BY Zenon DEF MmuInv
<1>2. ASSUME UNCHANGED <<pt, stale>>, Good(mmu', pt, stale)
      PROVE  MmuInv'
  BY <1>1, <1>2, Zenon DEF MmuInv
<1>3. CASE LoadOrStore
  <2>1. PICK v \in Pointers, acc \in {"READ", "WRITE"}, el0 \in BOOLEAN :
             Did(v, acc, el0, mem_access(mmu, pt, v, acc, el0, {}))
    BY <1>3, Zenon DEF LoadOrStore
  <2>2. v \in VAs
    BY Zenon DEF Pointers
  <2> QED
    BY <1>1, <1>2, <2>1, <2>2, AccessGood, ZenonT(60) DEF Did
<1>4. CASE Fetch
  <2>1. PICK v \in Pointers, el0 \in BOOLEAN : Did(v, "EXEC", el0, mem_ifetch(mmu, pt, v, el0))
    BY <1>4, Zenon DEF Fetch
  <2>2. v \in VAs
    BY Zenon DEF Pointers
  <2> QED
    BY <1>1, <1>2, <2>1, <2>2, IfetchGood, Zenon DEF Did
<1>5. CASE RewriteTables
  <2>1. PICK tab \in Tables :
             pt' = tab /\ stale' = stale \cup Abs!Replaced(tab) /\ mmu' = mmu
    BY <1>5, Zenon DEF RewriteTables
  <2>2. Good(mmu, tab, stale \cup Abs!Replaced(tab))
    BY <1>1, RewriteGood, Zenon
  <2>3. Abs!Replaced(tab) \in Olds
    BY <1>1, TablesTyped DEF Abs!Replaced, Olds
  <2> QED
    BY <1>1, <2>1, <2>2, <2>3, Zenon DEF MmuInv, Olds
<1>6. CASE MsrTranslation
  <2>1. PICK tab \in Tables, b \in BOOLEAN :
             mmu' = tlb_flush_all([mmu EXCEPT !.on = b]) /\ pt' = tab /\ stale' = {}
    BY <1>6, Zenon DEF MsrTranslation
  <2> DEFINE n == [mmu EXCEPT !.on = b]
  <2>2. mmu \in Caches
    BY <1>1, Zenon DEF Good
  <2>3. /\ n.gen = mmu.gen /\ n.lp = mmu.lp /\ n.tlb = mmu.tlb /\ n.dtlb = mmu.dtlb
        /\ n.fcache = mmu.fcache /\ n \in Caches
    BY <2>2, Zenon DEF Caches
  <2> HIDE DEF n
  <2>4. Good(n, pt, stale)
    BY <1>1, <2>3, SMTT(60) DEF Good, TlbGood, DtlbGood, FetchGood
  <2>5. Good(tlb_flush_all(n), tab, {})
    BY <2>4, FlushAllGood, Zenon
  <2> QED
    BY <2>1, <2>5, Zenon DEF MmuInv, Olds, n
<1>7. CASE TlbiVa
  <2>1. PICK p \in Pages :
             /\ mmu' = tlb_flush_page(mmu, p) /\ pt' = pt
             /\ stale' = {s \in stale : Abs!Survives(s, p)}
    BY <1>7, Zenon DEF TlbiVa
  <2>2. Good(tlb_flush_page(mmu, p), pt, {s \in stale : Abs!Survives(s, p)})
    BY <1>1, FlushPageGood, Zenon
  <2> QED
    BY <1>1, <2>1, <2>2, Zenon DEF MmuInv, Olds
<1>8. CASE TlbiAll
  <2>1. Good(tlb_flush_all(mmu), pt, {})
    BY <1>1, FlushAllGood, Zenon
  <2> QED
    BY <1>1, <1>8, <2>1, Zenon DEF TlbiAll, MmuInv, Olds
<1>9. CASE WarmReset
  <2> DEFINE n == [mmu EXCEPT !.on = FALSE]
  <2>1. mmu' = n /\ UNCHANGED <<pt, stale>> /\ mmu \in Caches
    BY <1>1, <1>9, Zenon DEF WarmReset, Good
  <2>2. /\ n.gen = mmu.gen /\ n.lp = mmu.lp /\ n.tlb = mmu.tlb /\ n.dtlb = mmu.dtlb
        /\ n.fcache = mmu.fcache /\ n \in Caches
    BY <2>1, Zenon DEF Caches
  <2> HIDE DEF n
  <2>3. Good(n, pt, stale)
    BY <1>1, <2>2, SMTT(60) DEF Good, TlbGood, DtlbGood, FetchGood
  <2> QED
    BY <1>2, <2>1, <2>3, Zenon
<1>10. CASE UNCHANGED vars
  BY <1>1, <1>2, <1>10, Zenon DEF vars
<1> QED
  BY <1>3, <1>4, <1>5, <1>6, <1>7, <1>8, <1>9, <1>10, Zenon DEF Next

LEMMA MmuInvariant == Spec => []MmuInv
<1>1. Init => MmuInv
  <2> SUFFICES ASSUME Init PROVE MmuInv
    BY Zenon
  <2>1. mmu = mmu_init /\ pt \in Tables /\ stale = {}
    BY Zenon DEF Init
  <2>2. Good(mmu_init, pt, {})
    BY EmptyCaches, Zenon DEF Good, TlbGood, DtlbGood, FetchGood
  <2> QED
    BY <2>1, <2>2, Zenon DEF MmuInv, Olds
<1> QED
  BY <1>1, StepGood, PTL DEF Spec

\* The caches keep their shape: mmu_translate, dtlb_fill and the fetch path of
\* mmu.c store entries of their slot's kind, a generation never leaves its
\* range, and a host pointer (dtlb_fill) is only made for RAM.
THEOREM MmuTypeSafe == Spec => []TypeOK
<1>1. ASSUME MmuInv PROVE TypeOK
  <2>1. pt \in Tables /\ mmu \in Caches
    BY <1>1, Zenon DEF MmuInv, Good
  <2>2. mmu.on \in BOOLEAN /\ mmu.gen \in 1..GenMod - 1 /\ mmu.lp \subseteq Pages
    BY <2>1, Zenon DEF Caches
  <2>3. ASSUME NEW i \in 0..Slots - 1, mmu.tlb[i].valid
        PROVE  mmu.tlb[i].va \in VAs /\ mmu.tlb[i].gen \in 1..GenMod - 1 /\ mmu.tlb[i].pa \in Frames
    <3>1. mmu.tlb[i] # NoTlb /\ i \in SlotIds
      BY <2>3 DEF NoTlb, SlotIds
    <3>2. mmu.tlb[i] \in TlbEntry
      BY <2>1, <3>1, EntriesTyped, Zenon
    <3> QED
      BY <3>2, Zenon DEF TlbEntry
  <2>4. ASSUME NEW i \in 0..Slots - 1, mmu.dtlb[i].perm # {}
        PROVE  mmu.dtlb[i].tag.va \in VAs /\ mmu.dtlb[i].host \in Ram
    <3>1. mmu.dtlb[i] # NoDtlb /\ i \in SlotIds
      BY <2>4 DEF NoDtlb, SlotIds
    <3>2. mmu.dtlb[i] \in DtlbEntry
      BY <2>1, <3>1, EntriesTyped, Zenon
    <3> QED
      BY <3>2, Zenon DEF DtlbEntry, DtlbTag
  <2>5. ASSUME NEW e \in BOOLEAN, mmu.fcache[e].host
        PROVE  mmu.fcache[e].pa \in Ram \cup Flash
    <3>1. mmu.fcache[e] # NoFetch
      BY <2>5 DEF NoFetch
    <3> QED
      BY <2>1, <3>1, EntriesTyped, Zenon DEF FetchEntry
  <2> QED
    BY <2>1, <2>2, <2>3, <2>4, <2>5, Zenon DEF TypeOK
<1> QED
  BY <1>1, MmuInvariant, PTL

\* The outcomes allowed are those of Stage1 in this state.
LEMMA AllowedIsOutcome ==
  ASSUME MmuInv, NEW p \in Pages, NEW acc, NEW el0, NEW r,
         Allowed(mmu.on, pt, stale, p, acc, el0, r)
  PROVE  r \in Abs!Outcomes(p, acc, el0)
<1>1. /\ \A f : Abs!Bus(f) = Bus(f) /\ \A d : Abs!leaf(p, d) = leaf(p, d)
      /\ \A d : Abs!permits(d, acc, el0) = permits(d, acc, el0) /\ Abs!Fault = Fault
  BY Zenon DEF Abs!Bus, Bus, Abs!leaf, leaf, Abs!permits, permits, Abs!perm_ok_el, perm_ok_el, Abs!Fault, Fault
<1>2. CASE ~mmu.on
  BY <1>1, <1>2, Zenon DEF Allowed, Abs!Outcomes
<1>3. CASE mmu.on
  <2>1. CASE r = Fault /\ ~permits(pt[p], acc, el0)
    BY <1>1, <1>3, <2>1, Zenon DEF Abs!Outcomes
  <2>2. ASSUME NEW d \in Descs, d = pt[p] \/ <<p, d>> \in stale, permits(d, acc, el0), r = Bus(leaf(p, d))
        PROVE  r \in Abs!Outcomes(p, acc, el0)
    <3>1. d \in Abs!Usable(p)
      BY <2>2 DEF Abs!Usable
    <3> QED
      BY <1>1, <1>3, <2>2, <3>1, Zenon DEF Abs!Outcomes
  <2> QED
    BY <1>3, <2>1, <2>2, Zenon DEF Allowed
<1> QED
  BY <1>2, <1>3, Zenon

\* Each step of the caches is a step of Stage1 or leaves its state alone.
LEMMA StepRefines ==
  ASSUME MmuInv, [Next]_vars
  PROVE  [Abs!Next]_<<mmu.on, pt, stale, out>>
<1>1. pt \in Tables /\ Good(mmu, pt, stale) /\ mmu \in Caches
  BY Zenon DEF MmuInv, Good
<1>2. ASSUME NEW v \in VAs, NEW acc \in Accs, NEW el0 \in BOOLEAN, NEW a,
             a.m.on = mmu.on, Allowed(mmu.on, pt, stale, v.page, acc, el0, a.pa),
             Did(v, acc, el0, a)
      PROVE  Abs!Access
  <2>1. v.page \in Pages /\ acc \in Abs!Accs
    BY Zenon DEF VAs, Accs, Abs!Accs
  <2>2. a.pa \in Abs!Outcomes(v.page, acc, el0)
    BY <1>2, <2>1, AllowedIsOutcome, Zenon
  <2>3. /\ out' = [page |-> v.page, acc |-> acc, el0 |-> el0, res |-> a.pa]
        /\ mmu'.on = mmu.on /\ pt' = pt /\ stale' = stale
    BY <1>2, Zenon DEF Did
  <2> QED
    BY <2>1, <2>2, <2>3, Zenon DEF Abs!Access
<1>3. CASE LoadOrStore
  <2>1. PICK v \in Pointers, acc \in {"READ", "WRITE"}, el0 \in BOOLEAN :
             Did(v, acc, el0, mem_access(mmu, pt, v, acc, el0, {}))
    BY <1>3, Zenon DEF LoadOrStore
  <2>2. v \in VAs /\ acc \in Accs
    BY Zenon DEF Pointers, Accs
  <2>3. Abs!Access
    BY <1>1, <1>2, <2>1, <2>2, AccessGood
  <2> QED
    BY <2>3, Zenon DEF Abs!Next
<1>4. CASE Fetch
  <2>1. PICK v \in Pointers, el0 \in BOOLEAN : Did(v, "EXEC", el0, mem_ifetch(mmu, pt, v, el0))
    BY <1>4, Zenon DEF Fetch
  <2>2. v \in VAs /\ "EXEC" \in Accs
    BY Zenon DEF Pointers, Accs
  <2>3. Abs!Access
    BY <1>1, <1>2, <2>1, <2>2, IfetchGood, ZenonT(60)
  <2> QED
    BY <2>3, Zenon DEF Abs!Next
<1>5. CASE RewriteTables
  BY <1>5, Zenon DEF RewriteTables, Abs!Next, Abs!RewriteTables
<1>6. CASE MsrTranslation
  <2>1. PICK tab \in Tables, b \in BOOLEAN :
             /\ mmu' = tlb_flush_all([mmu EXCEPT !.on = b]) /\ pt' = tab /\ stale' = {}
             /\ out' = out
    BY <1>6, Zenon DEF MsrTranslation
  <2>2. mmu'.on = b
    BY <1>1, <2>1, Zenon DEF tlb_flush_all, Caches
  <2> QED
    BY <2>1, <2>2, Zenon DEF Abs!Next, Abs!ChangeRegime
<1>7. CASE TlbiVa
  <2>1. PICK p \in Pages :
             /\ mmu' = tlb_flush_page(mmu, p) /\ pt' = pt /\ out' = out
             /\ stale' = {s \in stale : Abs!Survives(s, p)}
    BY <1>7, Zenon DEF TlbiVa
  <2>2. mmu'.on = mmu.on
    BY <1>1, <2>1, FlushPageGood, Zenon
  <2> QED
    BY <2>1, <2>2, Zenon DEF Abs!Next, Abs!InvalidatePage
<1>8. CASE TlbiAll
  <2>1. mmu'.on = mmu.on
    BY <1>1, <1>8, FlushAllGood, Zenon DEF TlbiAll
  <2> QED
    BY <1>8, <2>1, Zenon DEF TlbiAll, Abs!Next, Abs!InvalidateAll
<1>9. CASE WarmReset
  <2>1. mmu'.on = FALSE
    BY <1>1, <1>9, Zenon DEF WarmReset, Caches
  <2> QED
    BY <1>9, <2>1, Zenon DEF WarmReset, Abs!Next, Abs!Reboot
<1>10. CASE UNCHANGED vars
  BY <1>10, Zenon DEF vars
<1> QED
  BY <1>3, <1>4, <1>5, <1>6, <1>7, <1>8, <1>9, <1>10, Zenon DEF Next

\* The software TLB, the D-TLB and the fetch cache of mmu.c implement the
\* translation the guest may rely on: every load, store and fetch has an
\* outcome that Stage1 allows, however the generation wraps and whatever
\* blocks are cached in fragments.
THEOREM MmuImplementsStage1 == Spec => ImplementsStage1
<1>1. Init => Abs!Init
  BY DEF Init, Abs!Init, mmu_init, Fault, Abs!Fault
<1>2. MmuInv /\ [Next]_vars => [Abs!Next]_<<mmu.on, pt, stale, out>>
  BY StepRefines, Zenon
<1> QED
  BY <1>1, <1>2, MmuInvariant, PTL DEF Spec, ImplementsStage1, Abs!Spec
=============================================================================
