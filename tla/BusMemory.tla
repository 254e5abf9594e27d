------------------------------ MODULE BusMemory ------------------------------
(***************************************************************************)
(* Proofs about the bus, second part: what the registers of fw_cfg, stores *)
(* to RAM and a DMA transfer do to a machine, and what the search finds in *)
(* the device table of every configuration.                                *)
(***************************************************************************)
EXTENDS BusGuest, TLAPS, WellFoundedInduction

-----------------------------------------------------------------------------
(* Loops *)

\* Induction on natural numbers: a set with 0 and every successor has them all.
LEMMA Induct ==
  ASSUME NEW T, 0 \in T, \A n \in Nat : n \in T => n + 1 \in T
  PROVE  Nat \subseteq T
<1> DEFINE R == OpToRel(<, Nat)
           U == Nat \ T
<1>1. \A x, y \in Nat : y < x => <<y, x>> \in R
  BY Zenon DEF OpToRel
<1>2. IsWellFoundedOn(R, Nat)
  BY NatLessThanWellFounded, Zenon
<1> HIDE DEF R
<1> SUFFICES ASSUME U # {} PROVE FALSE
  BY Zenon
<1>3. PICK x \in U : \A y \in U : ~(<<y, x>> \in R)
  BY <1>2, WFMin, Zenon
<1>4. x \in Nat /\ x # 0 /\ x - 1 \in Nat /\ x - 1 < x /\ (x - 1) + 1 = x
  BY <1>3
<1>5. x - 1 \in U
  BY <1>4, Zenon
<1> QED BY <1>1, <1>3, <1>4, <1>5, Zenon

\* The bytes of a DMA read, one after the other: h[k] is the machine after k.
DmaSteps(s, d, h) ==
  h[0] = s /\ \A k \in 0 .. (d.len - 1) : h[k + 1] = dma_byte(h[k], d, k + 1)

\* The loop of a DMA read is well defined on machines that its step maps to
\* machines again.
LEMMA DmaLoop ==
  ASSUME NEW S, NEW s \in S, NEW d, d.len \in Nat,
         \A i \in 1 .. d.len, x \in S : dma_byte(x, d, i) \in S
  PROVE  \E h : DmaSteps(s, d, h) /\ dma_read(s, d) = h[d.len]
<1> DEFINE n == d.len
           Loop(F) == F = [i \in 0 .. n |-> IF i = 0 THEN s ELSE dma_byte(F[i - 1], d, i)]
           Upto(k, F) == /\ F \in [0 .. k -> S] /\ F[0] = s
                         /\ \A i \in 1 .. k : F[i] = dma_byte(F[i - 1], d, i)
           T == {k \in Nat : k <= n => \E F : Upto(k, F)}
<1>1. 0 \in T
  <2>1. Upto(0, [i \in 0 .. 0 |-> s])
    OBVIOUS
  <2> HIDE DEF Upto
  <2> QED BY <2>1, Zenon
<1>2. ASSUME NEW k \in Nat, k \in T PROVE k + 1 \in T
  <2>0. ASSUME k + 1 <= n PROVE \E F : Upto(k + 1, F)
    <3>1. PICK F : Upto(k, F)
      <4> HIDE DEF Upto
      <4> QED BY <1>2, <2>0
    <3> DEFINE y == dma_byte(F[k], d, k + 1)
               G == [i \in 0 .. (k + 1) |-> IF i = k + 1 THEN y ELSE F[i]]
    <3>2. y \in S
      <4>1. F[k] \in S /\ k + 1 \in 1 .. n
        BY <2>0, <3>1
      <4> QED BY <4>1, Zenon
    <3>3. G[k + 1] = dma_byte(F[k], d, k + 1) /\ \A i \in 0 .. k : G[i] = F[i]
      <4> HIDE DEF y
      <4>1. G[k + 1] = y /\ \A i \in 0 .. k : G[i] = F[i]
        OBVIOUS
      <4> QED BY <4>1, Zenon DEF y
    <3> HIDE DEF y
    <3>4. G \in [0 .. (k + 1) -> S]
      BY <3>1, <3>2
    <3> HIDE DEF G
    <3>5. ASSUME NEW i \in 1 .. (k + 1) PROVE G[i] = dma_byte(G[i - 1], d, i)
      <4>1. CASE i = k + 1
        BY <3>3, <4>1
      <4>2. CASE i # k + 1
        BY <3>1, <3>3, <4>2
      <4> QED BY <4>1, <4>2, Zenon
    <3>6. Upto(k + 1, G)
      BY <3>1, <3>3, <3>4, <3>5
    <3> HIDE DEF Upto
    <3> QED BY <3>6, Zenon
  <2> HIDE DEF Upto
  <2> QED BY <2>0
<1>3. n \in T
  <2> HIDE DEF T
  <2> QED BY <1>1, <1>2, Induct, Zenon
<1>4. PICK F : Upto(n, F)
  <2> HIDE DEF Upto
  <2> QED BY <1>3
<1>5. Loop(F)
  <2> DEFINE E == [i \in 0 .. n |-> IF i = 0 THEN s ELSE dma_byte(F[i - 1], d, i)]
  <2>1. F = [i \in 0 .. n |-> F[i]] /\ E = [i \in 0 .. n |-> E[i]]
    BY <1>4, Zenon
  <2>2. ASSUME NEW i \in 0 .. n PROVE E[i] = IF i = 0 THEN s ELSE dma_byte(F[i - 1], d, i)
    BY Zenon
  <2>3. ASSUME NEW i \in 0 .. n PROVE F[i] = IF i = 0 THEN s ELSE dma_byte(F[i - 1], d, i)
    BY <1>4
  <2> HIDE DEF E
  <2>4. F = E
    BY <2>1, <2>2, <2>3, Zenon
  <2> QED BY <2>4, Zenon DEF E
<1> DEFINE F0 == CHOOSE G : Loop(G)
<1>6. Loop(F0)
  <2> HIDE DEF Loop
  <2> QED BY <1>5, Zenon
<1>7. dma_read(s, d) = F0[n]
  BY Zenon DEF dma_read
<1> HIDE DEF F0
<1>8. F0[0] = s /\ \A k \in 0 .. (n - 1) : F0[k + 1] = dma_byte(F0[k], d, k + 1)
  BY <1>6
<1> QED BY <1>7, <1>8, Zenon DEF DmaSteps

-----------------------------------------------------------------------------
(* The registers of fw_cfg *)

\* What the assumptions say of the sizes.
LEMMA Sizes ==
  /\ RAM_BASE \in Nat /\ RAM_SIZE \in Nat /\ FWCFG_BASE \in Nat /\ HalfAddr \in Nat /\ MaxPos \in Nat
  /\ FLASH_BANK \in Nat /\ 2 * FLASH_BANK <= RAM_BASE /\ RAM_BASE + RAM_SIZE <= FWCFG_BASE
  /\ OffMod \in Nat /\ 2 <= MaxPos /\ MaxPos + 2 < OffMod
BY BusAssumption, FlashFits, Zenon

\* An offset below the limit does not wrap.
LEMMA NoWrap == ASSUME NEW a \in 0 .. (OffMod - 1) PROVE a % OffMod = a
BY Sizes

\* The registers of fw_cfg are neither RAM nor flash, and its entry is found.
LEMMA FwReg ==
  ASSUME NEW k, NEW p \in Plans, k.dev = p.devs, p.kind # "map", NEW off \in {0, 8, 16, 20}, NEW n \in {1, 2, 4, 8}, NEW v
  PROVE  /\ phys_write(k, FWCFG_BASE + off, n, v) = fwcfg_write(Ok(k), off, n, v)
         /\ phys_read(k, FWCFG_BASE + off, n) = fwcfg_read(Ok(k), off, n)
<1> DEFINE pa == FWCFG_BASE + off
<1>1. ~InRam(pa, n) /\ ~InFlash(pa, n) /\ pa - FWCFG_BASE = off
  BY Sizes DEF InRam, InFlash
<1>2. find_dev(k.dev, pa) = Dev(FWCFG_BASE, 24, "fw-cfg")
  BY BusAssumption, ZenonT(60)
<1>3. find_dev(k.dev, pa).kind = "fw-cfg" /\ find_dev(k.dev, pa).base = FWCFG_BASE
  BY <1>2 DEF Dev
<1> HIDE DEF pa
<1> QED BY <1>1, <1>3, Zenon DEF phys_write, phys_read, pa

-----------------------------------------------------------------------------
(* RAM *)

\* What a store to RAM leaves alone.
Beside(k, n) ==
  n \in Buses /\ n.flash = k.flash /\ n.cfi = k.cfi /\ n.dev = k.dev /\ n.fw = k.fw

\* Bytes stored to RAM are there, and nothing else changes.
LEMMA StoredRam ==
  ASSUME NEW k \in Buses, NEW pa \in Nat, NEW val \in Seq(Byte), InRam(pa, Len(val))
  PROVE  /\ Beside(k, Stored(k, pa, val))
         /\ \A a \in RamBytes : Stored(k, pa, val).ram[a] =
               IF a + RAM_BASE \in Covered(pa, Len(val)) THEN val[a + RAM_BASE - pa + 1] ELSE k.ram[a]
<1> DEFINE hit == {a \in RamBytes : a + RAM_BASE \in Covered(pa, Len(val))}
           R == [a \in RamBytes |-> IF a \in hit THEN val[a + RAM_BASE - pa + 1] ELSE k.ram[a]]
           D == [a \in RamBytes |-> IF a \in hit THEN NoDesc ELSE k.desc[a]]
<1>1. Stored(k, pa, val) = [k EXCEPT !.ram = R, !.desc = D]
  BY Zenon DEF Stored
<1>2. R \in [RamBytes -> Byte]
  <2>1. ASSUME NEW a \in hit PROVE val[a + RAM_BASE - pa + 1] \in Byte
    BY Sizes DEF Covered, RamBytes
  <2>2. k.ram \in [RamBytes -> Byte]
    BY Zenon DEF Buses
  <2> HIDE DEF hit
  <2> QED BY <2>1, <2>2, Zenon
<1>3. D \in [RamBytes -> Descs \cup {NoDesc}]
  <2> k.desc \in [RamBytes -> Descs \cup {NoDesc}]
    BY Zenon DEF Buses
  <2> HIDE DEF hit
  <2> QED BY Zenon
<1>4. \A a \in RamBytes : R[a] =
        IF a + RAM_BASE \in Covered(pa, Len(val)) THEN val[a + RAM_BASE - pa + 1] ELSE k.ram[a]
  BY Zenon
<1> HIDE DEF R, D
<1>5. Beside(k, [k EXCEPT !.ram = R, !.desc = D]) /\ [k EXCEPT !.ram = R, !.desc = D].ram = R
  BY <1>2, <1>3, Zenon DEF Beside, Buses
<1> QED BY <1>1, <1>4, <1>5, Zenon

\* One byte of it.
LEMMA StoredByte ==
  ASSUME NEW k \in Buses, NEW c \in RamBytes, NEW b \in Byte
  PROVE  /\ InRam(RAM_BASE + c, 1)
         /\ Beside(k, Stored(k, RAM_BASE + c, <<b>>))
         /\ Stored(k, RAM_BASE + c, <<b>>).ram = [k.ram EXCEPT ![c] = b]
<1> DEFINE pa == RAM_BASE + c
           n == Stored(k, pa, <<b>>)
<1>1. /\ pa \in Nat /\ <<b>> \in Seq(Byte) /\ Len(<<b>>) = 1 /\ <<b>>[1] = b
      /\ InRam(pa, 1)
  BY Sizes DEF RamBytes, InRam
<1>2. /\ Beside(k, n)
      /\ \A a \in RamBytes : n.ram[a] =
            IF a + RAM_BASE \in Covered(pa, 1) THEN <<b>>[a + RAM_BASE - pa + 1] ELSE k.ram[a]
  <2> HIDE DEF pa
  <2> QED BY <1>1, StoredRam, ZenonT(60)
<1> HIDE DEF n
<1>3. \A a \in RamBytes : a + RAM_BASE \in Covered(pa, 1) <=> a = c
  BY Sizes DEF Covered, RamBytes
<1>4. c + RAM_BASE - pa + 1 = 1
  BY Sizes DEF RamBytes
<1>5. \A a \in RamBytes : n.ram[a] = IF a = c THEN b ELSE k.ram[a]
  <2> HIDE DEF pa
  <2> QED BY <1>1, <1>2, <1>3, <1>4, Zenon
<1>6. n.ram \in [RamBytes -> Byte] /\ k.ram \in [RamBytes -> Byte]
  BY <1>2, Zenon DEF Beside, Buses
<1>7. n.ram = [k.ram EXCEPT ![c] = b]
  BY <1>5, <1>6, Zenon
<1> QED BY <1>1, <1>2, <1>7, Zenon DEF n

\* A successful access leaves the machine as it is.
LEMMA OkTyped == ASSUME NEW k \in Buses PROVE Beside(k, Ok(k)) /\ Ok(k).ram = k.ram /\ Ok(k).desc = k.desc
BY Zenon DEF Ok, Beside, Buses

\* A store of one byte and a block write, over RAM.
LEMMA ByteWrite ==
  ASSUME NEW k \in Buses, NEW c \in RamBytes, NEW b \in Byte
  PROVE  /\ Beside(k, phys_write_dma(k, RAM_BASE + c, <<b>>))
         /\ phys_write_dma(k, RAM_BASE + c, <<b>>).ram = [k.ram EXCEPT ![c] = b]
<1>1. phys_write_dma(k, RAM_BASE + c, <<b>>) = Stored(Ok(k), RAM_BASE + c, <<b>>)
  <2>1. InRam(RAM_BASE + c, Len(<<b>>))
    BY StoredByte, Zenon
  <2> QED BY <2>1, Zenon DEF phys_write_dma
<1>2. Ok(k) \in Buses
  BY OkTyped, Zenon DEF Beside
<1> QED BY <1>1, <1>2, OkTyped, StoredByte DEF Beside

\* Dropping translations leaves the rest of the machine as it is.
LEMMA Dropped ==
  ASSUME NEW k \in Buses, NEW pa, NEW n
  PROVE  Beside(k, jit_invalidate(k, pa, n)) /\ jit_invalidate(k, pa, n).ram = k.ram
<1> DEFINE c == k.code \ Pages(pa, n)
<1>1. c \in SUBSET Nat
  BY Zenon DEF Buses
<1>2. jit_invalidate(k, pa, n) = [k EXCEPT !.code = c]
  BY Zenon DEF jit_invalidate
<1> HIDE DEF c
<1> QED BY <1>1, <1>2, ZenonT(60) DEF Beside, Buses

\* A block write over RAM is a store.
LEMMA BlockWrite ==
  ASSUME NEW k, NEW pa, NEW val, InRam(pa, Len(val))
  PROVE  phys_write_blk(k, pa, val) = Stored(jit_invalidate(k, pa, Len(val)), pa, val)
BY Zenon DEF phys_write_blk

\* The device tree is placed, the rest stays.
LEMMA Placed ==
  ASSUME NEW k \in Buses
  PROVE  LET n == phys_write_blk(k, RAM_BASE, DTB)
         IN  /\ Beside(k, n)
             /\ \A a \in RamBytes : n.ram[a] = IF a < Len(DTB) THEN DTB[a + 1] ELSE k.ram[a]
<1> DEFINE j == jit_invalidate(k, RAM_BASE, Len(DTB))
           n == Stored(j, RAM_BASE, DTB)
<1>1. DTB \in Seq(Byte) /\ Len(DTB) \in 1 .. RAM_SIZE - 1 /\ RAM_BASE \in Nat /\ InRam(RAM_BASE, Len(DTB))
  BY BusAssumption, Sizes DEF InRam
<1>2. phys_write_blk(k, RAM_BASE, DTB) = n
  BY <1>1, BlockWrite, Zenon
<1>3. Beside(k, j) /\ j.ram = k.ram
  BY Dropped, Zenon
<1> HIDE DEF j
<1>4. /\ Beside(j, n)
      /\ \A a \in RamBytes : n.ram[a] =
           IF a + RAM_BASE \in Covered(RAM_BASE, Len(DTB)) THEN DTB[a + RAM_BASE - RAM_BASE + 1] ELSE j.ram[a]
  BY <1>1, <1>3, StoredRam, ZenonT(60) DEF Beside
<1> HIDE DEF n
<1>5. ASSUME NEW a \in RamBytes
      PROVE  /\ a + RAM_BASE \in Covered(RAM_BASE, Len(DTB)) <=> a < Len(DTB)
             /\ a + RAM_BASE - RAM_BASE + 1 = a + 1
  BY <1>1, Sizes DEF Covered, RamBytes
<1>6. \A a \in RamBytes : n.ram[a] = IF a < Len(DTB) THEN DTB[a + 1] ELSE k.ram[a]
  BY <1>3, <1>4, <1>5, Zenon
<1> QED BY <1>2, <1>3, <1>4, <1>6, Zenon DEF Beside

\* The power-on states of the flash banks and of fw_cfg.
LEMMA Blank == Ready \in Cfis /\ [sel |-> 0, off |-> 0, hi |-> 0] \in [sel : Keys, off : 0 .. (OffMod - 1), hi : Nat]
BY Sizes DEF Ready, Cfis, Keys

-----------------------------------------------------------------------------
(* DMA *)

\* Past its end an item goes on in zeros.
LEMMA ItemByte ==
  ASSUME NEW key \in Keys, NEW off \in Nat
  PROVE  /\ item_byte(key, off) \in Byte
         /\ off < 2 * MaxPos => Padded(key)[off + 1] = item_byte(key, off)
<1> DEFINE s == IF key \in DOMAIN Items THEN Items[key] ELSE <<>>
           z == [i \in 1 .. 2 * MaxPos |-> Zero]
<1>1. s \in Seq(Byte) /\ item_byte(key, off) = (IF off < Len(s) THEN s[off + 1] ELSE Zero)
  <2>1. CASE key \in DOMAIN Items
    BY <2>1, BusAssumption, Zenon DEF item_byte
  <2>2. CASE key \notin DOMAIN Items
    BY <2>2 DEF item_byte
  <2> QED BY <2>1, <2>2, Zenon
<1>2. Zero \in Byte /\ 2 * MaxPos \in Nat
  BY Sizes DEF Zero, Byte
<1>3. z \in Seq(Byte) /\ Len(z) = 2 * MaxPos /\ \A i \in 1 .. 2 * MaxPos : z[i] = Zero
  <2> HIDE DEF s
  <2> QED BY <1>2
<1>4. Padded(key) = s \o z
  BY Zenon DEF Padded
<1> HIDE DEF s, z
<1>5. off < 2 * MaxPos => (s \o z)[off + 1] = IF off < Len(s) THEN s[off + 1] ELSE Zero
  <2> DEFINE N == 2 * MaxPos
  <2>1. N \in Nat /\ Len(z) = N /\ \A i \in 1 .. N : z[i] = Zero
    BY <1>2, <1>3, Zenon
  <2> HIDE DEF N
  <2>2. off < N => (s \o z)[off + 1] = IF off < Len(s) THEN s[off + 1] ELSE Zero
    BY <1>1, <1>3, <2>1, SMTT(60)
  <2> QED BY <2>2, Zenon DEF N
<1>6. (IF off < Len(s) THEN s[off + 1] ELSE Zero) \in Byte
  BY <1>1, <1>2
<1> QED BY <1>1, <1>4, <1>5, <1>6, Zenon

\* What fw_cfg's own registers leave alone.
Cursor(k, n, sel, off) ==
  /\ n \in Buses /\ n.flash = k.flash /\ n.cfi = k.cfi /\ n.dev = k.dev
  /\ n.fw.sel = sel /\ n.fw.off = off

\* The item offset advances without wrapping.
LEMMA AdvanceTyped ==
  ASSUME NEW k \in Buses, NEW n \in {0, 1, 2}, k.fw.off + n <= MaxPos
  PROVE  Cursor(k, Advance(k, n), k.fw.sel, k.fw.off + n) /\ Advance(k, n).ram = k.ram
<1>1. k.fw \in [sel : Keys, off : 0 .. (OffMod - 1), hi : Nat]
  BY Zenon DEF Buses
<1>2. (k.fw.off + n) % OffMod = k.fw.off + n /\ k.fw.off + n \in 0 .. (OffMod - 1)
  <2>1. k.fw.off + n \in 0 .. (OffMod - 1)
    BY <1>1, Sizes
  <2> QED BY <2>1, NoWrap, Zenon
<1> DEFINE f == [k.fw EXCEPT !.off = k.fw.off + n]
<1>3. Advance(k, n) = [k EXCEPT !.fw = f]
  BY <1>2, Zenon DEF Advance
<1>4. f \in [sel : Keys, off : 0 .. (OffMod - 1), hi : Nat] /\ f.sel = k.fw.sel /\ f.off = k.fw.off + n
  BY <1>1, <1>2, Zenon
<1> HIDE DEF f
<1> QED BY <1>3, <1>4, ZenonT(60) DEF Cursor, Buses

\* Selecting an item starts it over.
LEMMA SelectTyped ==
  ASSUME NEW k \in Buses, NEW key \in Keys
  PROVE  Cursor(k, Select(k, key), key, 0) /\ Select(k, key).ram = k.ram
<1>1. 0 \in 0 .. (OffMod - 1)
  BY Sizes
<1> QED BY <1>1, Zenon DEF Select, Cursor, Buses

\* What the descriptors the loader sets up look like: two cells of RAM, below
\* the descriptor's own.
LEMMA Descriptor ==
  ASSUME NEW d \in Descs
  PROVE  /\ d.op \in {"read", "skip", "write"} /\ d.sel \in BOOLEAN /\ d.key \in Keys /\ d.len \in {0, 2}
         /\ \E t \in Targets : d.target = RAM_BASE + t /\ t \in RamBytes /\ t + 1 \in RamBytes /\ t + 1 # RAM_SIZE - 1
<1>1. PICK op \in {"read", "skip", "write"}, s \in BOOLEAN, key \in DOMAIN Items, n \in {0, 2}, t \in Targets :
        d = [op |-> op, sel |-> s, key |-> key, len |-> n, target |-> RAM_BASE + t]
  BY DEF Descs
<1>2. t \in Nat /\ t + 2 < RAM_SIZE
  BY <1>1, BusAssumption, Zenon
<1>3. t \in RamBytes /\ t + 1 \in RamBytes /\ t + 1 # RAM_SIZE - 1
  BY <1>2, Sizes DEF RamBytes
<1> QED BY <1>1, <1>3, Zenon DEF Keys

\* One byte of a DMA read.
LEMMA DmaByte ==
  ASSUME NEW k \in Buses, NEW d, NEW i \in {1, 2}, NEW t, t \in RamBytes, t + 1 \in RamBytes,
         d.target = RAM_BASE + t
  PROVE  /\ dma_byte(k, d, i) \in Buses
         /\ k.fw.off + 1 <= MaxPos =>
              /\ Cursor(k, dma_byte(k, d, i), k.fw.sel, k.fw.off + 1)
              /\ dma_byte(k, d, i).ram = [k.ram EXCEPT ![t + i - 1] = item_byte(k.fw.sel, k.fw.off)]
<1> DEFINE b == item_byte(k.fw.sel, k.fw.off)
           n == phys_write_dma(k, RAM_BASE + (t + i - 1), <<b>>)
<1>1. b \in Byte
  BY ItemByte DEF Buses
<1>2. t + i - 1 \in RamBytes /\ d.target + i - 1 = RAM_BASE + (t + i - 1)
  BY Sizes DEF RamBytes
<1>3. dma_byte(k, d, i) = Advance(n, 1)
  BY <1>2, Zenon DEF dma_byte
<1> HIDE DEF b
<1>4. Beside(k, n) /\ n.ram = [k.ram EXCEPT ![t + i - 1] = b]
  BY <1>1, <1>2, ByteWrite
<1> HIDE DEF n
<1>5. n \in Buses /\ n.fw = k.fw
  BY <1>4, Zenon DEF Beside
<1>6. Advance(n, 1) \in Buses
  <2>1. n.fw \in [sel : Keys, off : 0 .. (OffMod - 1), hi : Nat] /\ (n.fw.off + 1) % OffMod \in 0 .. (OffMod - 1)
    BY <1>5, Sizes DEF Buses
  <2> QED BY <1>5, <2>1, Zenon DEF Advance, Buses
<1>7. k.fw.off + 1 <= MaxPos => Cursor(n, Advance(n, 1), k.fw.sel, k.fw.off + 1) /\ Advance(n, 1).ram = n.ram
  BY <1>5, AdvanceTyped, Zenon
<1> QED BY <1>3, <1>4, <1>6, <1>7, Zenon DEF Cursor, Beside, b

\* The bytes a descriptor copies, from off of item sel on.
Copied(k, n, d, sel, off) ==
  \A a \in RamBytes : n.ram[a] =
    IF a + RAM_BASE \in Covered(d.target, d.len) THEN item_byte(sel, off + a + RAM_BASE - d.target) ELSE k.ram[a]

\* A DMA read copies the next bytes of the item and moves past them.
LEMMA DmaRead ==
  ASSUME NEW k \in Buses, NEW d \in Descs, k.fw.off + d.len <= MaxPos
  PROVE  /\ Cursor(k, dma_read(k, d), k.fw.sel, k.fw.off + d.len)
         /\ Copied(k, dma_read(k, d), d, k.fw.sel, k.fw.off)
<1>1. PICK t \in Targets : d.target = RAM_BASE + t /\ t \in RamBytes /\ t + 1 \in RamBytes
  BY Descriptor, Zenon
<1>2. d.len \in Nat /\ d.len \in {0, 2}
  BY Descriptor
<1>3. \A i \in 1 .. d.len, x \in Buses : dma_byte(x, d, i) \in Buses
  <2>1. \A i \in 1 .. d.len : i \in {1, 2}
    BY <1>2
  <2> QED BY <1>1, <2>1, DmaByte, Zenon
<1>4. PICK h : DmaSteps(k, d, h) /\ dma_read(k, d) = h[d.len]
  BY <1>2, <1>3, DmaLoop, ZenonT(60)
<1>5. k.fw.off \in Nat /\ k.fw.sel \in Keys /\ k.ram \in [RamBytes -> Byte]
  BY Sizes DEF Buses
<1>6. CASE d.len = 0
  <2>1. dma_read(k, d) = k
    BY <1>4, <1>6, Zenon DEF DmaSteps
  <2>2. \A a \in RamBytes : a + RAM_BASE \notin Covered(d.target, 0)
    BY <1>1, Sizes DEF Covered, RamBytes
  <2> QED BY <1>5, <1>6, <2>1, <2>2 DEF Cursor, Copied
<1>7. CASE d.len = 2
  <2> DEFINE x == dma_byte(k, d, 1)
             y == dma_byte(x, d, 2)
             b == item_byte(k.fw.sel, k.fw.off)
             c == item_byte(k.fw.sel, k.fw.off + 1)
  <2>1. dma_read(k, d) = y
    <3>1. h[0] = k /\ h[0 + 1] = dma_byte(h[0], d, 0 + 1) /\ h[1 + 1] = dma_byte(h[1], d, 1 + 1)
      BY <1>4, <1>7 DEF DmaSteps
    <3> QED BY <1>4, <1>7, <3>1
  <2>2. k.fw.off + 1 <= MaxPos /\ (k.fw.off + 1) + 1 <= MaxPos /\ (k.fw.off + 1) + 1 = k.fw.off + 2
    BY <1>5, <1>7, Sizes
  <2>3. t + 1 - 1 = t /\ t + 2 - 1 = t + 1
    BY <1>1 DEF RamBytes
  <2>4. Cursor(k, x, k.fw.sel, k.fw.off + 1) /\ x.ram = [k.ram EXCEPT ![t] = b]
    BY <1>1, <2>2, <2>3, DmaByte
  <2> HIDE DEF x
  <2>5. x \in Buses /\ x.fw.sel = k.fw.sel /\ x.fw.off = k.fw.off + 1
    BY <2>4, Zenon DEF Cursor
  <2>6. Cursor(x, y, k.fw.sel, k.fw.off + 2) /\ y.ram = [x.ram EXCEPT ![t + 1] = c]
    BY <1>1, <2>2, <2>3, <2>5, DmaByte
  <2> HIDE DEF y, b, c
  <2>7. Cursor(k, y, k.fw.sel, k.fw.off + 2)
    BY <2>4, <2>6, Zenon DEF Cursor
  <2>8. ASSUME NEW a \in RamBytes
        PROVE  y.ram[a] = IF a + RAM_BASE \in Covered(d.target, 2)
                          THEN item_byte(k.fw.sel, k.fw.off + a + RAM_BASE - d.target) ELSE k.ram[a]
    <3>1. a + RAM_BASE \in Covered(d.target, 2) <=> a \in {t, t + 1}
      BY <1>1, Sizes DEF Covered, RamBytes
    <3>2. y.ram[a] = IF a = t THEN b ELSE IF a = t + 1 THEN c ELSE k.ram[a]
      <4>1. x.ram[a] = IF a = t THEN b ELSE k.ram[a]
        BY <1>5, <2>4, Zenon
      <4>2. x.ram \in [RamBytes -> Byte]
        BY <2>5, Zenon DEF Buses
      <4>3. y.ram[a] = IF a = t + 1 THEN c ELSE x.ram[a]
        BY <2>6, <4>2, Zenon
      <4>4. t # t + 1
        BY <1>1 DEF RamBytes
      <4> QED BY <4>1, <4>3, <4>4, Zenon
    <3>3. /\ a = t => k.fw.off + a + RAM_BASE - d.target = k.fw.off
          /\ a = t + 1 => k.fw.off + a + RAM_BASE - d.target = k.fw.off + 1
      BY <1>1, <1>5, Sizes, SMTT(60) DEF RamBytes
    <3> QED BY <3>1, <3>2, <3>3, Zenon DEF b, c
  <2> QED BY <1>7, <2>1, <2>7, <2>8, Zenon DEF Copied
<1> QED BY <1>2, <1>6, <1>7, Zenon

\* A whole transfer: the item and offset it starts from, the bytes it copies.
From(k, d) == IF d.sel THEN [sel |-> d.key, off |-> 0] ELSE [sel |-> k.fw.sel, off |-> k.fw.off]

\* The transfer as do_dma performs it, descriptor, selection and all.
LEMMA DmaDone ==
  ASSUME NEW k \in Buses, NEW d \in Descs, RAM_SIZE - 1 \in RamBytes, k.desc[RAM_SIZE - 1] = d,
         From(k, d).off + d.len <= MaxPos
  PROVE  LET n == do_dma(k, RAM_BASE + (RAM_SIZE - 1))
             s == From(k, d)
         IN  /\ Cursor(k, n, s.sel, s.off + d.len)
             /\ \A a \in RamBytes \ {RAM_SIZE - 1} : n.ram[a] =
                   IF d.op = "read" /\ a + RAM_BASE \in Covered(d.target, d.len)
                   THEN item_byte(s.sel, s.off + a + RAM_BASE - d.target) ELSE k.ram[a]
<1> DEFINE cell == RAM_SIZE - 1
           addr == RAM_BASE + cell
           s == IF d.sel THEN Select(k, d.key) ELSE k
           moved == CASE d.op = "read" -> dma_read(s, d)
                      [] d.op \in {"write", "skip"} -> Advance(s, d.len)
                      [] OTHER -> s
           inv == jit_invalidate(moved, addr, 1)
           f == From(k, d)
<1>1. Zero \in Byte /\ cell \in RamBytes /\ InRam(addr, 1) /\ Len(<<Zero>>) = 1 /\ addr - RAM_BASE = cell
  BY Sizes DEF Zero, Byte, RamBytes, InRam
<1>2. descriptor(k, addr) = d
  BY <1>1, Zenon DEF descriptor
<1>3. do_dma(k, addr) = Stored(inv, addr, <<Zero>>)
  <2>1. do_dma(k, addr) = phys_write_blk(moved, addr, <<Zero>>)
    BY <1>2, Zenon DEF do_dma
  <2> HIDE DEF moved, addr
  <2>2. phys_write_blk(moved, addr, <<Zero>>) = Stored(jit_invalidate(moved, addr, Len(<<Zero>>)), addr, <<Zero>>)
    BY <1>1, BlockWrite, Zenon
  <2> QED BY <1>1, <2>1, <2>2, Zenon
<1>4. Cursor(k, s, f.sel, f.off) /\ s.ram = k.ram
  <2>1. CASE d.sel
    <3>1. s = Select(k, d.key) /\ f.sel = d.key /\ f.off = 0
      BY <2>1, Zenon DEF From
    <3> HIDE DEF s, f
    <3> QED BY <3>1, SelectTyped, Descriptor, ZenonT(60)
  <2>2. CASE ~d.sel
    BY <2>2, Zenon DEF From, Cursor
  <2> QED BY <2>1, <2>2, Zenon
<1> HIDE DEF s, f
<1>5. s \in Buses /\ s.fw.sel = f.sel /\ s.fw.off = f.off /\ s.fw.off + d.len <= MaxPos
  BY <1>4, Zenon DEF Cursor, f
<1> DEFINE in(a) == d.op = "read" /\ a + RAM_BASE \in Covered(d.target, d.len)
           Src(a) == item_byte(f.sel, f.off + a + RAM_BASE - d.target)
<1>6. Cursor(s, moved, f.sel, f.off + d.len) /\ \A a \in RamBytes : moved.ram[a] = IF in(a) THEN Src(a) ELSE s.ram[a]
  <2>1. CASE d.op = "read"
    <3>1. moved = dma_read(s, d)
      BY <2>1, Zenon
    <3> HIDE DEF moved
    <3> QED BY <1>5, <2>1, <3>1, DmaRead DEF Copied
  <2>2. CASE d.op \in {"write", "skip"}
    <3>1. moved = Advance(s, d.len) /\ d.op # "read"
      BY <2>2, Zenon
    <3> HIDE DEF moved
    <3> QED BY <1>5, <3>1, AdvanceTyped, Descriptor, ZenonT(60)
  <2> QED BY <2>1, <2>2, Descriptor, Zenon
<1> HIDE DEF moved
<1>7. moved \in Buses
  BY <1>6, Zenon DEF Cursor
<1>8. Beside(moved, inv) /\ inv.ram = moved.ram
  BY <1>7, Dropped, Zenon
<1> HIDE DEF inv
<1> DEFINE n == Stored(inv, addr, <<Zero>>)
<1>9. Beside(inv, n) /\ n.ram = [inv.ram EXCEPT ![cell] = Zero]
  BY <1>1, <1>8, StoredByte DEF Beside
<1> HIDE DEF n
<1>10. Cursor(k, n, f.sel, f.off + d.len)
  BY <1>4, <1>6, <1>8, <1>9, ZenonT(60) DEF Cursor, Beside
<1>11. ASSUME NEW a \in RamBytes \ {cell} PROVE n.ram[a] = IF in(a) THEN Src(a) ELSE k.ram[a]
  <2>1. n.ram[a] = inv.ram[a]
    BY <1>8, <1>9, ZenonT(60) DEF Beside, Buses
  <2> HIDE DEF in, Src
  <2> QED BY <1>4, <1>6, <1>8, <2>1, Zenon
<1> QED BY <1>3, <1>10, <1>11, Zenon DEF n, f

-----------------------------------------------------------------------------
(* The device table *)

Kinds == {"gicd", "gicc", "pl011", "pl031", "fw-cfg", "gicv2m", "gpio-stub", "virtio-net", "virtio-blk",
          "virtio-9p", "virtio-console", "virtio-mmio", "pcie-pio", "pcie-mmio", "pcie-ecam"}

Devs == [base : Nat, size : Nat, kind : Kinds]

Hits(s, pa) == {i \in DOMAIN s : pa >= s[i].base /\ pa < s[i].base + s[i].size}

\* The search by the set of indices that hit.
LEMMA FindDev ==
  ASSUME NEW s, NEW pa
  PROVE  find_dev(s, pa) = IF Hits(s, pa) = {} THEN NoDev ELSE s[Min(Hits(s, pa))]
BY Zenon DEF find_dev, Hits

\* The first index that hits is the one found.
LEMMA FindFirst ==
  ASSUME NEW s \in Seq(Devs), NEW pa \in Nat, NEW i \in Hits(s, pa), \A j \in Hits(s, pa) : i <= j
  PROVE  find_dev(s, pa) = s[i] /\ find_dev(s, pa) # NoDev
<1>1. Hits(s, pa) \subseteq Nat
  BY DEF Hits
<1>2. \A j \in Hits(s, pa) : (\A k \in Hits(s, pa) : j <= k) => j = i
  BY <1>1
<1>3. Min(Hits(s, pa)) = i
  <2> HIDE DEF Hits
  <2>1. \E j \in Hits(s, pa) : \A k \in Hits(s, pa) : j <= k
    BY Zenon
  <2>2. Min(Hits(s, pa)) \in Hits(s, pa) /\ \A k \in Hits(s, pa) : Min(Hits(s, pa)) <= k
    BY <2>1, Zenon DEF Min
  <2> QED BY <1>2, <2>2, Zenon
<1>4. s[i] # NoDev
  <2>1. i \in DOMAIN s /\ s[i] \in Devs /\ pa >= s[i].base /\ pa < s[i].base + s[i].size
    BY DEF Hits
  <2> QED BY <2>1 DEF NoDev, Devs
<1> QED BY <1>3, <1>4, FindDev, Zenon

\* A set of indices has a least one.
LEMMA Least ==
  ASSUME NEW H, H \subseteq Nat, H # {}
  PROVE  \E i \in H : \A j \in H : i <= j
<1> DEFINE T == {n \in Nat : \A k \in Nat : k <= n => (k \in H => \E i \in H : \A j \in H : i <= j)}
<1>1. 0 \in T
  OBVIOUS
<1>2. ASSUME NEW n \in Nat, n \in T PROVE n + 1 \in T
  <2> SUFFICES ASSUME NEW k \in Nat, k <= n + 1, k \in H PROVE \E i \in H : \A j \in H : i <= j
    OBVIOUS
  <2>1. CASE \E j \in H : j < k
    <3>1. PICK j \in H : j < k
      BY <2>1, Zenon
    <3>2. j \in Nat /\ j <= n
      BY <3>1
    <3> QED BY <1>2, <3>2, Zenon
  <2>2. CASE \A j \in H : ~(j < k)
    BY <2>2
  <2> QED BY <2>1, <2>2, Zenon
<1>3. Nat \subseteq T
  <2> HIDE DEF T
  <2> QED BY <1>1, <1>2, Induct, Zenon
<1>4. PICK k \in H : TRUE
  BY Zenon
<1>5. k \in T
  BY <1>3, <1>4, Zenon
<1> QED BY <1>4, <1>5

\* Nothing is found exactly where no entry hits.
LEMMA FindNone ==
  ASSUME NEW s \in Seq(Devs), NEW pa \in Nat
  PROVE  find_dev(s, pa) = NoDev <=> Hits(s, pa) = {}
<1>1. ASSUME Hits(s, pa) # {} PROVE find_dev(s, pa) # NoDev
  <2>1. PICK i \in Hits(s, pa) : \A j \in Hits(s, pa) : i <= j
    <3>1. Hits(s, pa) \subseteq Nat
      BY DEF Hits
    <3> HIDE DEF Hits
    <3> QED BY <1>1, <3>1, Least, Zenon
  <2> QED BY <2>1, FindFirst, Zenon
<1> QED BY <1>1, FindDev, Zenon

\* In a table made of two the first one wins.
LEMMA FindCat ==
  ASSUME NEW s \in Seq(Devs), NEW t \in Seq(Devs), NEW pa \in Nat
  PROVE  find_dev(s \o t, pa) = IF find_dev(s, pa) # NoDev THEN find_dev(s, pa) ELSE find_dev(t, pa)
<1> DEFINE u == s \o t
<1>1. /\ u \in Seq(Devs) /\ Len(u) = Len(s) + Len(t)
      /\ \A i \in 1 .. Len(s) : u[i] = s[i]
      /\ \A i \in 1 .. Len(t) : u[Len(s) + i] = t[i]
  OBVIOUS
<1> HIDE DEF u
<1>2. /\ \A i \in 1 .. Len(s) : i \in Hits(u, pa) <=> i \in Hits(s, pa)
      /\ \A i \in 1 .. Len(t) : Len(s) + i \in Hits(u, pa) <=> i \in Hits(t, pa)
      /\ \A i \in Hits(u, pa) : i \in 1 .. Len(s) \/ (i - Len(s) \in 1 .. Len(t) /\ Len(s) + (i - Len(s)) = i)
      /\ \A i \in Hits(s, pa) : i \in 1 .. Len(s)
      /\ \A i \in Hits(t, pa) : i \in 1 .. Len(t)
  BY <1>1, SMTT(60) DEF Hits
<1>21. Hits(s, pa) \subseteq Nat /\ Hits(t, pa) \subseteq Nat
  BY DEF Hits
<1> HIDE DEF Hits
<1>3. CASE Hits(s, pa) # {}
  <2>1. PICK i \in Hits(s, pa) : \A j \in Hits(s, pa) : i <= j
    BY <1>3, <1>21, Least, Zenon
  <2>2. i \in Hits(u, pa) /\ \A j \in Hits(u, pa) : i <= j
    BY <1>2, <2>1
  <2>3. find_dev(u, pa) = u[i] /\ find_dev(s, pa) = s[i] /\ find_dev(s, pa) # NoDev
    BY <1>1, <2>1, <2>2, FindFirst, Zenon
  <2> QED BY <1>1, <1>2, <2>1, <2>3, Zenon DEF u
<1>4. CASE Hits(s, pa) = {} /\ Hits(t, pa) # {}
  <2>1. PICK i \in Hits(t, pa) : \A j \in Hits(t, pa) : i <= j
    BY <1>4, <1>21, Least, Zenon
  <2>2. Len(s) + i \in Hits(u, pa) /\ \A j \in Hits(u, pa) : Len(s) + i <= j
    <3>1. Len(s) \in Nat /\ i \in 1 .. Len(t)
      BY <1>2, <2>1
    <3>2. ASSUME NEW j \in Hits(u, pa) PROVE Len(s) + i <= j
      <4>1. j - Len(s) \in 1 .. Len(t) /\ Len(s) + (j - Len(s)) = j
        BY <1>2, <1>4, Zenon
      <4>2. j - Len(s) \in Hits(t, pa)
        BY <1>2, <4>1, Zenon
      <4>3. i <= j - Len(s)
        BY <2>1, <4>2, Zenon
      <4> QED BY <3>1, <4>1, <4>3
    <3> QED BY <1>2, <2>1, <3>1, <3>2, Zenon
  <2>3. find_dev(u, pa) = u[Len(s) + i] /\ find_dev(t, pa) = t[i] /\ find_dev(s, pa) = NoDev
    BY <1>1, <1>4, <2>1, <2>2, FindFirst, FindNone, ZenonT(60)
  <2> QED BY <1>1, <1>2, <2>1, <2>3, Zenon DEF u
<1>5. CASE Hits(s, pa) = {} /\ Hits(t, pa) = {}
  <2>1. Hits(u, pa) = {}
    BY <1>2, <1>5, Zenon
  <2> QED BY <1>1, <1>5, <2>1, FindNone, Zenon DEF u
<1> QED BY <1>3, <1>4, <1>5, Zenon

\* A table of one entry.
LEMMA FindOne ==
  ASSUME NEW d \in Devs, NEW pa \in Nat
  PROVE  find_dev(<<d>>, pa) = IF pa >= d.base /\ pa < d.base + d.size THEN d ELSE NoDev
<1> DEFINE s == <<d>>
<1>1. s \in Seq(Devs) /\ DOMAIN s = {1} /\ s[1] = d
  OBVIOUS
<1> HIDE DEF s
<1>2. CASE pa >= d.base /\ pa < d.base + d.size
  <2>1. 1 \in Hits(s, pa) /\ \A j \in Hits(s, pa) : 1 <= j
    BY <1>1, <1>2 DEF Hits
  <2> QED BY <1>1, <1>2, <2>1, FindFirst, Zenon DEF s
<1>3. CASE ~(pa >= d.base /\ pa < d.base + d.size)
  <2>1. Hits(s, pa) = {}
    BY <1>1, <1>3, Zenon DEF Hits
  <2> QED BY <1>1, <1>3, <2>1, FindNone, Zenon DEF s
<1> QED BY <1>2, <1>3, Zenon

\* A table of one entry or none.
LEMMA FindIf ==
  ASSUME NEW c \in BOOLEAN, NEW d \in Devs, NEW pa \in Nat
  PROVE  find_dev(If(c, d), pa) = IF c /\ pa >= d.base /\ pa < d.base + d.size THEN d ELSE NoDev
<1>1. CASE c
  <2>1. If(c, d) = <<d>>
    BY <1>1, Zenon DEF If
  <2> QED BY <1>1, <2>1, FindOne, Zenon
<1>2. CASE ~c
  <2>1. If(c, d) = <<>> /\ <<>> \in Seq(Devs)
    BY <1>2 DEF If
  <2>2. Hits(<<>>, pa) = {}
    BY DEF Hits
  <2> QED BY <1>2, <2>1, <2>2, FindNone, Zenon
<1> QED BY <1>1, <1>2, Zenon

\* A run of slots after slot b.
LEMMA FindRun ==
  ASSUME NEW n \in Nat, NEW b \in Nat, NEW kind \in Kinds, NEW k \in Nat, NEW s \in Seq(Devs), Len(s) = n,
         \A i \in 1 .. n : s[i] = Slot(b + i, kind)
  PROVE  find_dev(s, VIRTIO + k) = IF k > b /\ k <= b + n THEN Slot(k, kind) ELSE NoDev
<1>1. ASSUME NEW i \in 1 .. n PROVE i \in Hits(s, VIRTIO + k) <=> k = b + i
  <2>1. s[i].base = VIRTIO + (b + i) /\ s[i].size = 1 /\ i \in DOMAIN s
    BY DEF Slot, Dev
  <2> QED BY <2>1, SMT DEF Hits, VIRTIO
<1>2. Hits(s, VIRTIO + k) \subseteq 1 .. n /\ VIRTIO + k \in Nat
  BY SMT DEF Hits, VIRTIO
<1> HIDE DEF Hits
<1>3. CASE k > b /\ k <= b + n
  <2>1. k - b \in 1 .. n /\ b + (k - b) = k
    BY <1>3
  <2>2. k - b \in Hits(s, VIRTIO + k) /\ \A j \in Hits(s, VIRTIO + k) : k - b <= j
    BY <1>1, <1>2, <2>1, SMTT(60)
  <2>3. find_dev(s, VIRTIO + k) = s[k - b]
    BY <1>2, <2>2, FindFirst, Zenon
  <2> QED BY <1>3, <2>1, <2>3, Zenon
<1>4. CASE ~(k > b /\ k <= b + n)
  <2>1. Hits(s, VIRTIO + k) = {}
    BY <1>1, <1>2, <1>4
  <2> QED BY <1>2, <1>4, <2>1, FindNone, Zenon
<1> QED BY <1>3, <1>4, Zenon

-----------------------------------------------------------------------------
(* platform_build *)

\* Entries that stay clear of RAM.
Clear == {d \in Devs : d.base + d.size <= SYSRAM \/ d.base >= ECAM}

Kind(c, i) ==
  CASE i = 0 -> IF c.net THEN "virtio-net" ELSE "virtio-mmio"
    [] i \in 1 .. c.drives -> "virtio-blk"
    [] i \in c.drives + 1 .. c.drives + c.shares -> "virtio-9p"
    [] i = c.drives + c.shares + 1 /\ c.console -> "virtio-console"
    [] OTHER -> "virtio-mmio"

\* An entry clear of RAM.
LEMMA DevClear ==
  ASSUME NEW b \in Nat, NEW n \in Nat \ {0}, NEW kind \in Kinds, b + n <= SYSRAM \/ b >= ECAM
  PROVE  LET d == Dev(b, n, kind)
         IN  d \in Clear /\ d \in Devs /\ d # NoDev /\ d.base = b /\ d.size = n /\ d.kind = kind
BY SMT DEF Dev, Clear, Devs, NoDev

\* A virtio slot is one.
LEMMA SlotClear ==
  ASSUME NEW i \in 0 .. 100, NEW kind \in Kinds
  PROVE  /\ Slot(i, kind) \in Clear /\ Slot(i, kind) # NoDev
         /\ Slot(i, kind).base = VIRTIO + i /\ Slot(i, kind).size = 1 /\ Slot(i, kind).kind = kind
<1>1. VIRTIO + i \in Nat /\ VIRTIO + i + 1 <= SYSRAM
  BY SMT DEF VIRTIO, SYSRAM
<1> QED BY <1>1, DevClear DEF Slot

IsSlot(s, q, i, kind) ==
  /\ s \in Seq(Clear) /\ Len(s) \in 0 .. 1
  /\ \A k \in 0 .. 31 : find_dev(s, VIRTIO + k) = IF q /\ k = i THEN Slot(i, kind) ELSE NoDev

IsRun(s, n, b, kind) ==
  /\ s \in Seq(Clear) /\ Len(s) = n
  /\ \A k \in 0 .. 31 : find_dev(s, VIRTIO + k) = IF k > b /\ k <= b + n THEN Slot(k, kind) ELSE NoDev

\* Entries clear of RAM are entries.
LEMMA ClearDevs == Clear \subseteq Devs /\ Seq(Clear) \subseteq Seq(Devs)
BY DEF Clear

\* Two tables clear of RAM make one.
LEMMA CatClear ==
  ASSUME NEW s \in Seq(Clear), NEW t \in Seq(Clear)
  PROVE  /\ s \o t \in Seq(Clear) /\ Len(s \o t) = Len(s) + Len(t)
         /\ \A pa \in Nat : find_dev(s \o t, pa) = IF find_dev(s, pa) # NoDev THEN find_dev(s, pa) ELSE find_dev(t, pa)
<1>1. s \in Seq(Devs) /\ t \in Seq(Devs)
  BY ClearDevs, Zenon
<1>2. s \o t \in Seq(Clear) /\ Len(s \o t) = Len(s) + Len(t)
  OBVIOUS
<1> QED BY <1>1, <1>2, FindCat, Zenon

\* A slot that is there or not, and a run of slots after slot b.
LEMMA IfSlot ==
  ASSUME NEW q \in BOOLEAN, NEW i \in 0 .. 100, NEW kind \in Kinds
  PROVE  IsSlot(If(q, Slot(i, kind)), q, i, kind)
<1> DEFINE d == Slot(i, kind)
<1>1. d \in Clear /\ d \in Devs /\ d.base = VIRTIO + i /\ d.size = 1
  BY SlotClear, ClearDevs, Zenon
<1> HIDE DEF d
<1>2. If(q, d) \in Seq(Clear) /\ Len(If(q, d)) \in 0 .. 1
  BY <1>1 DEF If
<1>3. ASSUME NEW k \in 0 .. 31 PROVE find_dev(If(q, d), VIRTIO + k) = IF q /\ k = i THEN d ELSE NoDev
  <2>1. VIRTIO + k \in Nat /\ (VIRTIO + k >= d.base /\ VIRTIO + k < d.base + d.size <=> k = i)
    BY <1>1, SMT DEF VIRTIO
  <2> QED BY <1>1, <2>1, FindIf, ZenonT(60)
<1> QED BY <1>2, <1>3, Zenon DEF d, IsSlot

\* A run of slots after slot b answers at its slots and nowhere else.
LEMMA RunSlots ==
  ASSUME NEW n \in 0 .. 8, NEW b \in 0 .. 8, NEW kind \in Kinds
  PROVE  IsRun([i \in 1 .. n |-> Slot(b + i, kind)], n, b, kind)
<1> DEFINE s == [i \in 1 .. n |-> Slot(b + i, kind)]
<1>1. ASSUME NEW i \in 1 .. n PROVE Slot(b + i, kind) \in Clear
  <2>1. b + i \in 0 .. 100
    OBVIOUS
  <2> QED BY <2>1, SlotClear, Zenon
<1>2. n \in Nat /\ b \in Nat
  OBVIOUS
<1>3. s \in Seq(Clear) /\ Len(s) = n /\ \A i \in 1 .. n : s[i] = Slot(b + i, kind)
  <2>1. \A i \in 1 .. n : s[i] = Slot(b + i, kind)
    BY Zenon
  <2>2. s \in [1 .. n -> Clear]
    BY <1>1, Zenon
  <2> HIDE DEF s
  <2>3. s \in Seq(Clear) /\ Len(s) = n
    BY <1>2, <2>2
  <2> QED BY <2>1, <2>3, Zenon
<1> HIDE DEF s
<1>4. s \in Seq(Devs)
  BY <1>3, ClearDevs, Zenon
<1>5. \A k \in 0 .. 31 : find_dev(s, VIRTIO + k) = IF k > b /\ k <= b + n THEN Slot(k, kind) ELSE NoDev
  <2> SUFFICES ASSUME NEW k \in 0 .. 31
               PROVE  find_dev(s, VIRTIO + k) = IF k > b /\ k <= b + n THEN Slot(k, kind) ELSE NoDev
    BY Zenon
  <2>1. k \in Nat
    OBVIOUS
  <2> QED BY <1>2, <1>3, <1>4, <2>1, FindRun, ZenonT(60)
<1> QED BY <1>3, <1>5, Zenon DEF s, IsRun

\* The most entries of the virtio part.
LEMMA Sum21 ==
  ASSUME NEW a \in 0 .. 1, NEW b \in 0 .. 8, NEW c \in 0 .. 8, NEW d \in 0 .. 1, NEW e \in 0 .. 1, NEW f \in 0 .. 1
  PROVE  a + b + c + d + e + f + 1 <= 21
OBVIOUS

\* The virtio part of the table, slot by slot: the entries of real devices come
\* before the stubs over the same slots.
LEMMA VirtioTable ==
  ASSUME NEW c \in Configs
  PROVE  /\ virtio_devices(c) \in Seq(Clear) /\ Len(virtio_devices(c)) <= 21
         /\ \A k \in 0 .. 31 : find_dev(virtio_devices(c), VIRTIO + k) # NoDev
                              /\ find_dev(virtio_devices(c), VIRTIO + k).kind = Kind(c, k)
<1> DEFINE last == 1 + c.drives + c.shares
           A == If(c.net, Slot(0, "virtio-net"))
           B == [i \in 1 .. c.drives |-> Slot(i, "virtio-blk")]
           C == [i \in 1 .. c.shares |-> Slot(c.drives + i, "virtio-9p")]
           D == If(c.console, Slot(last, "virtio-console"))
           E == If(~c.net, Slot(0, "virtio-mmio"))
           F == If(slot1_free(c), Slot(1, "virtio-mmio"))
           r == Dev(VIRTIO + 2, 30, "virtio-mmio")
           G == <<r>>
           AB == A \o B
           AC == AB \o C
           AD == AC \o D
           AE == AD \o E
           AF == AE \o F
           AG == AF \o G
<1>1. /\ c.net \in BOOLEAN /\ (~c.net) \in BOOLEAN /\ c.console \in BOOLEAN /\ c.drives \in 0 .. 8 /\ c.shares \in 0 .. 8
      /\ slot1_free(c) \in BOOLEAN /\ last \in 0 .. 100 /\ 0 \in 0 .. 100 /\ 1 \in 0 .. 100 /\ 0 \in 0 .. 8
  <2>1. c.net \in BOOLEAN /\ c.console \in BOOLEAN /\ c.drives \in 0 .. 8 /\ c.shares \in 0 .. 8
    BY Zenon DEF Configs, MAX_DRIVES, MAX_SHARES
  <2>2. (~c.net) \in BOOLEAN /\ slot1_free(c) \in BOOLEAN
    BY Zenon DEF slot1_free
  <2>3. last \in 0 .. 100 /\ 0 \in 0 .. 100 /\ 1 \in 0 .. 100 /\ 0 \in 0 .. 8
    BY <2>1
  <2> QED BY <2>1, <2>2, <2>3, Zenon
<1>2. virtio_devices(c) = AG
  BY Zenon DEF virtio_devices
<1>3. /\ "virtio-net" \in Kinds /\ "virtio-blk" \in Kinds /\ "virtio-9p" \in Kinds
      /\ "virtio-console" \in Kinds /\ "virtio-mmio" \in Kinds
  BY Zenon DEF Kinds
<1>4. IsRun(B, c.drives, 0, "virtio-blk")
  <2>1. B = [i \in 1 .. c.drives |-> Slot(0 + i, "virtio-blk")]
    BY <1>1
  <2> QED BY <1>1, <1>3, <2>1, RunSlots, Zenon
<1>5. IsRun(C, c.shares, c.drives, "virtio-9p")
  BY <1>1, <1>3, RunSlots, Zenon
<1>6. IsSlot(A, c.net, 0, "virtio-net") /\ IsSlot(D, c.console, last, "virtio-console")
  <2> HIDE DEF last
  <2> QED BY <1>1, <1>3, IfSlot, ZenonT(60)
<1>7. IsSlot(E, ~c.net, 0, "virtio-mmio") /\ IsSlot(F, slot1_free(c), 1, "virtio-mmio")
  BY <1>1, <1>3, IfSlot, ZenonT(60)
<1>8. /\ A \in Seq(Clear) /\ Len(A) \in 0 .. 1 /\ B \in Seq(Clear) /\ Len(B) = c.drives
      /\ C \in Seq(Clear) /\ Len(C) = c.shares /\ D \in Seq(Clear) /\ Len(D) \in 0 .. 1
      /\ E \in Seq(Clear) /\ Len(E) \in 0 .. 1 /\ F \in Seq(Clear) /\ Len(F) \in 0 .. 1
  BY <1>4, <1>5, <1>6, <1>7, Zenon DEF IsSlot, IsRun
<1>9. r \in Clear /\ r \in Devs /\ r.base = VIRTIO + 2 /\ r.size = 30 /\ r.kind = "virtio-mmio" /\ r # NoDev
  <2>1. VIRTIO + 2 \in Nat /\ (VIRTIO + 2) + 30 <= SYSRAM /\ 30 \in Nat \ {0}
    BY SMT DEF VIRTIO, SYSRAM
  <2> QED BY <1>3, <2>1, DevClear
<1> HIDE DEF A, B, C, D, E, F, r
<1>10. G \in Seq(Clear) /\ Len(G) = 1
  BY <1>9
<1>11. \A k \in 0 .. 31 : find_dev(G, VIRTIO + k) = IF k >= 2 THEN r ELSE NoDev
  <2> SUFFICES ASSUME NEW k \in 0 .. 31 PROVE find_dev(G, VIRTIO + k) = IF k >= 2 THEN r ELSE NoDev
    BY Zenon
  <2>1. VIRTIO + k \in Nat /\ (VIRTIO + k >= r.base /\ VIRTIO + k < r.base + r.size <=> k >= 2)
    BY <1>9, SMT DEF VIRTIO
  <2> QED BY <1>9, <2>1, FindOne, Zenon
<1> HIDE DEF G
<1> DEFINE Or(x, y) == IF x # NoDev THEN x ELSE y
<1>12. /\ AB \in Seq(Clear) /\ Len(AB) = Len(A) + Len(B)
       /\ \A pa \in Nat : find_dev(AB, pa) = Or(find_dev(A, pa), find_dev(B, pa))
  BY <1>8, CatClear, ZenonT(60)
<1> HIDE DEF AB
<1>13. /\ AC \in Seq(Clear) /\ Len(AC) = Len(AB) + Len(C)
       /\ \A pa \in Nat : find_dev(AC, pa) = Or(find_dev(AB, pa), find_dev(C, pa))
  BY <1>8, <1>12, CatClear, ZenonT(60)
<1> HIDE DEF AC
<1>14. /\ AD \in Seq(Clear) /\ Len(AD) = Len(AC) + Len(D)
       /\ \A pa \in Nat : find_dev(AD, pa) = Or(find_dev(AC, pa), find_dev(D, pa))
  BY <1>8, <1>13, CatClear, ZenonT(60)
<1> HIDE DEF AD
<1>15. /\ AE \in Seq(Clear) /\ Len(AE) = Len(AD) + Len(E)
       /\ \A pa \in Nat : find_dev(AE, pa) = Or(find_dev(AD, pa), find_dev(E, pa))
  BY <1>8, <1>14, CatClear, ZenonT(60)
<1> HIDE DEF AE
<1>16. /\ AF \in Seq(Clear) /\ Len(AF) = Len(AE) + Len(F)
       /\ \A pa \in Nat : find_dev(AF, pa) = Or(find_dev(AE, pa), find_dev(F, pa))
  BY <1>8, <1>15, CatClear, ZenonT(60)
<1> HIDE DEF AF
<1>17. /\ AG \in Seq(Clear) /\ Len(AG) = Len(AF) + Len(G)
       /\ \A pa \in Nat : find_dev(AG, pa) = Or(find_dev(AF, pa), find_dev(G, pa))
  BY <1>10, <1>16, CatClear, Zenon
<1> HIDE DEF AG
<1>19. Len(AG) <= 21
  <2>1. Len(A) \in 0 .. 1 /\ Len(B) \in 0 .. 8 /\ Len(C) \in 0 .. 8 /\ Len(D) \in 0 .. 1 /\ Len(E) \in 0 .. 1 /\ Len(F) \in 0 .. 1
    BY <1>1, <1>8, Zenon
  <2>2. Len(AG) = Len(A) + Len(B) + Len(C) + Len(D) + Len(E) + Len(F) + 1
    BY <1>10, <1>12, <1>13, <1>14, <1>15, <1>16, <1>17, Zenon
  <2>3. Len(A) + Len(B) + Len(C) + Len(D) + Len(E) + Len(F) + 1 <= 21
    BY <2>1, Sum21, ZenonT(60)
  <2> QED BY <2>2, <2>3, Zenon
<1>18. ASSUME NEW k \in 0 .. 31 PROVE find_dev(AG, VIRTIO + k) # NoDev /\ find_dev(AG, VIRTIO + k).kind = Kind(c, k)
  <2> DEFINE pa == VIRTIO + k
             fA == find_dev(A, pa)
             fB == find_dev(B, pa)
             fC == find_dev(C, pa)
             fD == find_dev(D, pa)
             fE == find_dev(E, pa)
             fF == find_dev(F, pa)
             fG == find_dev(G, pa)
  <2>1. pa \in Nat
    BY SMT DEF VIRTIO
  <2> HIDE DEF pa
  <2>2. find_dev(AG, pa) = Or(Or(Or(Or(Or(Or(fA, fB), fC), fD), fE), fF), fG)
    <3> HIDE DEF Or
    <3> QED BY <1>12, <1>13, <1>14, <1>15, <1>16, <1>17, <2>1
  <2>3. \A i \in 0 .. 100, kind \in Kinds : Slot(i, kind) # NoDev /\ Slot(i, kind).kind = kind
    BY SlotClear, ZenonT(60)
  <2>4. /\ Slot(0, "virtio-net") # NoDev /\ Slot(0, "virtio-net").kind = "virtio-net"
        /\ Slot(k, "virtio-blk") # NoDev /\ Slot(k, "virtio-blk").kind = "virtio-blk"
        /\ Slot(k, "virtio-9p") # NoDev /\ Slot(k, "virtio-9p").kind = "virtio-9p"
        /\ Slot(last, "virtio-console") # NoDev /\ Slot(last, "virtio-console").kind = "virtio-console"
        /\ Slot(0, "virtio-mmio") # NoDev /\ Slot(0, "virtio-mmio").kind = "virtio-mmio"
        /\ Slot(1, "virtio-mmio") # NoDev /\ Slot(1, "virtio-mmio").kind = "virtio-mmio"
    <3> HIDE DEF last
    <3>1. k \in 0 .. 100
      OBVIOUS
    <3> QED BY <1>1, <1>3, <2>3, <3>1, ZenonT(60)
  <2>5. /\ fA = IF c.net /\ k = 0 THEN Slot(0, "virtio-net") ELSE NoDev
        /\ fB = IF k > 0 /\ k <= 0 + c.drives THEN Slot(k, "virtio-blk") ELSE NoDev
        /\ fC = IF k > c.drives /\ k <= c.drives + c.shares THEN Slot(k, "virtio-9p") ELSE NoDev
        /\ fD = IF c.console /\ k = last THEN Slot(last, "virtio-console") ELSE NoDev
        /\ fE = IF ~c.net /\ k = 0 THEN Slot(0, "virtio-mmio") ELSE NoDev
        /\ fF = IF slot1_free(c) /\ k = 1 THEN Slot(1, "virtio-mmio") ELSE NoDev
        /\ fG = IF k >= 2 THEN r ELSE NoDev
    <3> HIDE DEF last
    <3> QED BY <1>4, <1>5, <1>6, <1>7, <1>11, Zenon DEF pa, IsSlot, IsRun
  <2> HIDE DEF fA, fB, fC, fD, fE, fF, fG
  <2>6. CASE k = 0
    <3>1. k <= 0 + c.drives /\ ~(k > 0) /\ ~(k > c.drives) /\ k # last /\ k # 1 /\ ~(k >= 2)
      BY <1>1, <2>6
    <3>2. Kind(c, k) = IF c.net THEN "virtio-net" ELSE "virtio-mmio"
      BY <1>1, <2>6 DEF Kind
    <3>3. fB = NoDev /\ fC = NoDev /\ fD = NoDev /\ fF = NoDev /\ fG = NoDev
      BY <2>5, <3>1, Zenon
    <3> QED BY <1>1, <2>2, <2>4, <2>5, <2>6, <3>2, <3>3, ZenonT(60) DEF pa
  <2>7. CASE k > 0 /\ k <= c.drives
    <3>1. fA = NoDev /\ fB = Slot(k, "virtio-blk") /\ Kind(c, k) = "virtio-blk"
      BY <1>1, <2>5, <2>7 DEF Kind
    <3> QED BY <2>2, <2>4, <3>1, Zenon DEF pa
  <2>8. CASE k > c.drives /\ k <= c.drives + c.shares
    <3>1. fA = NoDev /\ fB = NoDev /\ fC = Slot(k, "virtio-9p") /\ Kind(c, k) = "virtio-9p"
      BY <1>1, <2>5, <2>8 DEF Kind
    <3> QED BY <2>2, <2>4, <3>1, Zenon DEF pa
  <2>9. CASE k = last /\ c.console
    <3>1. fA = NoDev /\ fB = NoDev /\ fC = NoDev /\ fD = Slot(last, "virtio-console") /\ Kind(c, k) = "virtio-console"
      BY <1>1, <2>5, <2>9 DEF Kind
    <3> QED BY <2>2, <2>4, <3>1, Zenon DEF pa
  <2>10. CASE k > c.drives + c.shares /\ ~(k = last /\ c.console)
    <3>1. /\ fA = NoDev /\ fB = NoDev /\ fC = NoDev /\ fD = NoDev /\ fE = NoDev /\ Kind(c, k) = "virtio-mmio"
          /\ fF # NoDev => fF = Slot(1, "virtio-mmio")
      BY <1>1, <2>5, <2>10, SMTT(60) DEF Kind
    <3>2. fF # NoDev \/ fG = r
      BY <1>1, <2>4, <2>5, <2>10 DEF slot1_free
    <3> QED BY <1>9, <2>2, <2>4, <3>1, <3>2, <2>5, ZenonT(60) DEF pa
  <2>11. \/ k = 0 \/ (k > 0 /\ k <= c.drives) \/ (k > c.drives /\ k <= c.drives + c.shares)
         \/ k > c.drives + c.shares
    BY <1>1
  <2> HIDE DEF last
  <2> QED BY <2>6, <2>7, <2>8, <2>9, <2>10, <2>11, Zenon
<1> QED BY <1>2, <1>17, <1>18, <1>19, Zenon

\* The fixed devices do not overlap and leave the virtio slots alone.
LEMMA FixedTable ==
  /\ fixed_devices \in Seq(Clear) /\ Len(fixed_devices) = 7
  /\ \A k \in 0 .. 31 : find_dev(fixed_devices, VIRTIO + k) = NoDev
  /\ \A i \in 1 .. 7 : find_dev(fixed_devices, fixed_devices[i].base) = fixed_devices[i]
                      /\ fixed_devices[i].base \in Nat /\ fixed_devices[i] # NoDev
<1> DEFINE d1 == Dev(GICD, 128, "gicd")
           d2 == Dev(GICD + 128, 128, "gicc")
           d3 == Dev(UART, 8, "pl011")
           d4 == Dev(UART + 128, 8, "pl031")
           d5 == Dev(UART + 256, 1, "fw-cfg")
           d6 == Dev(GICD + 256, 8, "gicv2m")
           d7 == Dev(UART + 384, 8, "gpio-stub")
           s == <<d1, d2, d3, d4, d5, d6, d7>>
<1>1. /\ "gicd" \in Kinds /\ "gicc" \in Kinds /\ "pl011" \in Kinds /\ "pl031" \in Kinds /\ "fw-cfg" \in Kinds
      /\ "gicv2m" \in Kinds /\ "gpio-stub" \in Kinds
  BY Zenon DEF Kinds
<1> DEFINE Is(d, b, n) == d \in Clear /\ d # NoDev /\ d.base = b /\ d.size = n
<1>2. ASSUME NEW b \in Nat, NEW n \in 1 .. 128, NEW kind \in Kinds, b + 128 <= SYSRAM
      PROVE  Is(Dev(b, n, kind), b, n)
  <2>1. SYSRAM \in Nat
    BY SMT DEF SYSRAM
  <2>2. n \in Nat \ {0} /\ b + n <= SYSRAM
    BY <1>2, <2>1, SMT
  <2> QED BY <1>2, <2>2, DevClear, SMT
<1>3. /\ Is(d1, GICD, 128) /\ Is(d2, GICD + 128, 128) /\ Is(d3, UART, 8) /\ Is(d4, UART + 128, 8)
      /\ Is(d5, UART + 256, 1) /\ Is(d6, GICD + 256, 8) /\ Is(d7, UART + 384, 8)
  <2>1. /\ GICD \in Nat /\ GICD + 128 \in Nat /\ GICD + 256 \in Nat /\ UART \in Nat /\ UART + 128 \in Nat
        /\ UART + 256 \in Nat /\ UART + 384 \in Nat
        /\ GICD + 128 <= SYSRAM /\ (GICD + 128) + 128 <= SYSRAM /\ (GICD + 256) + 128 <= SYSRAM
        /\ UART + 128 <= SYSRAM /\ (UART + 128) + 128 <= SYSRAM /\ (UART + 256) + 128 <= SYSRAM
        /\ (UART + 384) + 128 <= SYSRAM
    BY SMT DEF GICD, UART, SYSRAM
  <2>2. 128 \in 1 .. 128 /\ 8 \in 1 .. 128 /\ 1 \in 1 .. 128
    BY SMT
  <2> HIDE DEF Is
  <2>3. Is(d1, GICD, 128) /\ Is(d2, GICD + 128, 128)
    BY <1>1, <1>2, <2>1, <2>2, SMTT(60)
  <2>4. Is(d3, UART, 8) /\ Is(d4, UART + 128, 8)
    BY <1>1, <1>2, <2>1, <2>2, SMTT(60)
  <2>5. Is(d5, UART + 256, 1) /\ Is(d6, GICD + 256, 8) /\ Is(d7, UART + 384, 8)
    BY <1>1, <1>2, <2>1, <2>2, SMTT(60)
  <2> QED BY <2>3, <2>4, <2>5, ZenonT(60)
<1> HIDE DEF d1, d2, d3, d4, d5, d6, d7
<1>4. s \in Seq(Clear) /\ s \in Seq(Devs) /\ Len(s) = 7 /\ DOMAIN s = 1 .. 7
  BY <1>3, ClearDevs, SMT
<1>5. /\ Is(s[1], 262144, 128) /\ Is(s[2], 262272, 128) /\ Is(s[3], 294912, 8) /\ Is(s[4], 295040, 8)
      /\ Is(s[5], 295168, 1) /\ Is(s[6], 262400, 8) /\ Is(s[7], 295296, 8)
  <2> HIDE DEF Is
  <2> QED BY <1>3, SMT DEF GICD, UART
<1>6. fixed_devices = s
  BY SMT DEF fixed_devices, d1, d2, d3, d4, d5, d6, d7
<1> HIDE DEF s
<1>7. \A pa \in Nat, j \in 1 .. 7 : j \in Hits(s, pa) <=> pa >= s[j].base /\ pa < s[j].base + s[j].size
  BY <1>4, SMT DEF Hits
<1>8. ASSUME NEW pa PROVE Hits(s, pa) \subseteq 1 .. 7
  BY <1>4, SMT DEF Hits
<1> HIDE DEF Hits
<1>9. ASSUME NEW i \in 1 .. 7
      PROVE  find_dev(s, s[i].base) = s[i] /\ s[i].base \in Nat /\ s[i] # NoDev
  <2>1. i = 1 \/ i = 2 \/ i = 3 \/ i = 4 \/ i = 5 \/ i = 6 \/ i = 7
    BY SMT
  <2>2. s[i].base \in Nat /\ s[i] # NoDev
    BY <1>5, <2>1, SMT
  <2>3. ASSUME NEW j \in 1 .. 7 PROVE s[i].base >= s[j].base /\ s[i].base < s[j].base + s[j].size <=> j = i
    <3>1. j = 1 \/ j = 2 \/ j = 3 \/ j = 4 \/ j = 5 \/ j = 6 \/ j = 7
      BY SMT
    <3>2. CASE j = 1
      BY <1>5, <2>1, <3>2, SMT
    <3>3. CASE j = 2
      BY <1>5, <2>1, <3>3, SMT
    <3>4. CASE j = 3
      BY <1>5, <2>1, <3>4, SMT
    <3>5. CASE j = 4
      BY <1>5, <2>1, <3>5, SMT
    <3>6. CASE j = 5
      BY <1>5, <2>1, <3>6, SMT
    <3>7. CASE j = 6
      BY <1>5, <2>1, <3>7, SMT
    <3>8. CASE j = 7
      BY <1>5, <2>1, <3>8, SMT
    <3> QED BY <3>1, <3>2, <3>3, <3>4, <3>5, <3>6, <3>7, <3>8, Zenon
  <2>4. i \in Hits(s, s[i].base) /\ \A j \in Hits(s, s[i].base) : j = i
    BY <1>7, <1>8, <2>2, <2>3, Zenon
  <2>5. i \in Hits(s, s[i].base) /\ \A j \in Hits(s, s[i].base) : i <= j
    BY <2>4, SMT
  <2> QED BY <1>4, <2>2, <2>5, FindFirst, Zenon
<1>10. ASSUME NEW k \in 0 .. 31 PROVE find_dev(s, VIRTIO + k) = NoDev
  <2>1. VIRTIO + k \in Nat
    BY SMT DEF VIRTIO
  <2>2. ASSUME NEW j \in 1 .. 7 PROVE ~(VIRTIO + k < s[j].base + s[j].size)
    <3>1. j = 1 \/ j = 2 \/ j = 3 \/ j = 4 \/ j = 5 \/ j = 6 \/ j = 7
      BY SMT
    <3> QED BY <1>5, <2>1, <3>1, SMT DEF VIRTIO
  <2>3. Hits(s, VIRTIO + k) = {}
    BY <1>7, <1>8, <2>1, <2>2, Zenon
  <2> QED BY <1>4, <2>1, <2>3, FindNone, Zenon
<1> QED BY <1>4, <1>6, <1>9, <1>10, Zenon

\* The map of every configuration.
LEMMA MapRight ==
  ASSUME NEW c \in Configs
  PROVE  LET s == platform_build(c)
         IN  /\ s \in Seq(Clear) /\ Len(s) <= 31
             /\ \A k \in 0 .. 31 : find_dev(s, VIRTIO + k).kind = Kind(c, k)
             /\ \A i \in 1 .. 7 : find_dev(s, fixed_devices[i].base) = fixed_devices[i]
<1> DEFINE v == virtio_devices(c)
           p == <<Dev(PCIE_PIO, 128, "pcie-pio"), Dev(PCIE, PCIE_PIO - PCIE, "pcie-mmio"),
                  Dev(ECAM, 524288, "pcie-ecam")>>
           f == fixed_devices
           fv == f \o v
           s == fv \o p
<1>1. platform_build(c) = s
  BY SMT DEF platform_build
<1>2. /\ f \in Seq(Clear) /\ Len(f) = 7
      /\ \A k \in 0 .. 31 : find_dev(f, VIRTIO + k) = NoDev
      /\ \A i \in 1 .. 7 : find_dev(f, f[i].base) = f[i] /\ f[i].base \in Nat /\ f[i] # NoDev
  BY FixedTable, Zenon
<1>3. /\ v \in Seq(Clear) /\ Len(v) <= 21
      /\ \A k \in 0 .. 31 : find_dev(v, VIRTIO + k) # NoDev /\ find_dev(v, VIRTIO + k).kind = Kind(c, k)
  BY VirtioTable, Zenon
<1>4. p \in Seq(Clear) /\ Len(p) = 3
  <2>1. /\ PCIE_PIO \in Nat /\ PCIE_PIO + 128 <= SYSRAM /\ PCIE \in Nat /\ PCIE_PIO - PCIE \in Nat \ {0}
        /\ PCIE + (PCIE_PIO - PCIE) <= SYSRAM /\ ECAM \in Nat /\ ECAM >= ECAM
    BY SMT DEF PCIE_PIO, PCIE, SYSRAM, ECAM
  <2>2. 128 \in Nat \ {0} /\ 524288 \in Nat \ {0}
    BY SMT
  <2>3. "pcie-pio" \in Kinds /\ "pcie-mmio" \in Kinds /\ "pcie-ecam" \in Kinds
    BY Zenon DEF Kinds
  <2>4. /\ Dev(PCIE_PIO, 128, "pcie-pio") \in Clear /\ Dev(PCIE, PCIE_PIO - PCIE, "pcie-mmio") \in Clear
        /\ Dev(ECAM, 524288, "pcie-ecam") \in Clear
    BY <2>1, <2>2, <2>3, DevClear, SMT
  <2> QED BY <2>4, SMT
<1> HIDE DEF f, v, p
<1>41. f \in Seq(Clear) /\ v \in Seq(Clear) /\ p \in Seq(Clear)
  BY <1>2, <1>3, <1>4, Zenon
<1>5. /\ fv \in Seq(Clear) /\ Len(fv) = Len(f) + Len(v)
      /\ \A pa \in Nat : find_dev(fv, pa) = IF find_dev(f, pa) # NoDev THEN find_dev(f, pa) ELSE find_dev(v, pa)
  BY <1>41, CatClear, Zenon
<1> HIDE DEF fv
<1>6. /\ s \in Seq(Clear) /\ Len(s) = Len(fv) + Len(p)
      /\ \A pa \in Nat : find_dev(s, pa) = IF find_dev(fv, pa) # NoDev THEN find_dev(fv, pa) ELSE find_dev(p, pa)
  BY <1>41, <1>5, CatClear, Zenon
<1> HIDE DEF s
<1>7. Len(s) <= 31
  <2>1. Len(v) \in Nat /\ Len(v) <= 21
    BY <1>3
  <2>2. Len(s) = 7 + Len(v) + 3
    BY <1>2, <1>4, <1>5, <1>6, Zenon
  <2> QED BY <2>1, <2>2
<1>8. ASSUME NEW k \in 0 .. 31 PROVE find_dev(s, VIRTIO + k).kind = Kind(c, k)
  <2>1. VIRTIO + k \in Nat
    BY SMT DEF VIRTIO
  <2> QED BY <1>2, <1>3, <1>5, <1>6, <2>1, ZenonT(60)
<1>9. ASSUME NEW i \in 1 .. 7 PROVE find_dev(s, f[i].base) = f[i]
  BY <1>2, <1>5, <1>6, Zenon
<1> QED BY <1>1, <1>6, <1>7, <1>8, <1>9, Zenon DEF f
=============================================================================
