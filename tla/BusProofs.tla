------------------------------ MODULE BusProofs ------------------------------
(***************************************************************************)
(* Proofs about the bus, third part: every step of the flash driver, the   *)
(* loader and the running system, power-on and a reset at any point keep   *)
(* BusInv and the bytes under translations, and what follows for every     *)
(* reachable state.                                                        *)
(***************************************************************************)
EXTENDS BusFlash, BusMemory

-----------------------------------------------------------------------------
(* The driver *)

\* What a step establishes.
Good == BusInv' /\ CodeGood(m, m')

\* The start of a flash operation.
LEMMA BeginGood ==
  ASSUME BusInv, NEW todo, NEW after, NEW back, Begin(todo, after, back),
         todo \in Seq(Writes), after \in [FlashBytes -> Byte], back \in SUBSET {0, 1},
         NEW off \in Offsets, todo[1].off = off,
         Done(m, g) => FlashOp(m, g')
  PROVE  Good
<1>1. /\ plan.kind = "flash" /\ g.todo = <<>>
      /\ g' = [g EXCEPT !.todo = todo, !.before = m.flash, !.after = after, !.booting = FALSE,
                        !.arr = @ \ {Bank(off)}, !.back = back]
      /\ plan' = [plan EXCEPT !.ops = @ + 1] /\ m' = m
  BY Zenon DEF Begin
<1>2. m \in Buses /\ g \in Guests /\ FlashGood(m, g) /\ RamGood(m, g) /\ StreamGood(m, g)
  BY Zenon DEF BusInv
<1>3. g' \in Guests
  <2>1. m.flash \in [FlashBytes -> Byte]
    BY <1>2, Zenon DEF Buses
  <2> QED BY <1>1, <1>2, <2>1, ZenonT(60) DEF Guests
<1>4. /\ g'.todo = todo /\ g'.before = m.flash /\ g'.after = after /\ g'.booting = FALSE
      /\ g'.arr = g.arr \ {Bank(off)} /\ g'.sel = g.sel /\ g'.pos = g.pos /\ g'.ram = g.ram
  BY <1>1, <1>2, Zenon DEF Guests
<1>5. Done(m, g)
  <2>1. FlashOp(m, g)
    BY <1>2, Zenon DEF FlashGood
  <2>2. ~(g.todo # <<>>)
    BY <1>1, Zenon
  <2>3. ASSUME NEW o, NEW b, NEW c
        PROVE  /\ ~Asking(m, g, o, c) /\ ~Returning(m, g, o) /\ ~Erase2(m, g, o) /\ ~Erase1(m, g, o)
               /\ ~Word2(m, g, o, b) /\ ~Word1(m, g, o, b) /\ ~Buffer5(m, g, o, b, c) /\ ~Buffer4(m, g, o, b, c)
               /\ ~Buffer3(m, g, o, b, c) /\ ~Buffer2(m, g, o, b, c) /\ ~Buffer1(m, g, o)
    <3>1. \A v, w, x, y, z : /\ <<v>> # <<>> /\ <<v, w>> # <<>> /\ <<v, w, x>> # <<>>
                            /\ <<v, w, x, y>> # <<>> /\ <<v, w, x, y, z>> # <<>>
      BY SMT
    <3>2. ~Asking(m, g, o, c) /\ ~Returning(m, g, o) /\ ~Erase2(m, g, o) /\ ~Erase1(m, g, o)
      BY <1>1, <3>1, Zenon DEF Asking, Returning, Erase2, Erase1, Left
    <3>3. ~Word2(m, g, o, b) /\ ~Word1(m, g, o, b) /\ ~Buffer2(m, g, o, b, c) /\ ~Buffer1(m, g, o)
      BY <1>1, <3>1, Zenon DEF Word2, Word1, Buffer2, Buffer1, Left
    <3>4. ~Buffer5(m, g, o, b, c) /\ ~Buffer4(m, g, o, b, c) /\ ~Buffer3(m, g, o, b, c)
      BY <1>1, SMT DEF Buffer5, Buffer4, Buffer3, Left
    <3> QED BY <3>2, <3>3, <3>4, Zenon
  <2> QED BY <2>1, <2>3, ZenonT(60) DEF FlashOp
<1>6. FlashGood(m, g')
  BY <1>2, <1>4, <1>5, Zenon DEF FlashGood, Torn
<1>7. DOMAIN plan' = {"kind", "ops", "resets"} /\ plan'.kind = plan.kind
  BY <1>1, Zenon DEF BusInv
<1> QED BY <1>1, <1>2, <1>3, <1>4, <1>6, <1>7, ZenonT(60) DEF Good, BusInv, RamGood, StreamGood, BootGood, CodeGood

\* The lists of writes the driver makes.
LEMMA WriteTyped ==
  ASSUME NEW off \in FlashBytes, NEW b \in Byte
  PROVE  W(off, b) \in Writes /\ W(off, b).off = off
BY DEF W, Writes

\* The driver works on flash bytes and writes bytes.
LEMMA Bytes ==
  /\ \A off \in Offsets : off \in FlashBytes /\ off + 1 \in FlashBytes
  /\ DataBytes \subseteq Byte /\ {0} \in Byte /\ Erased \in Byte
  /\ \A c \in {"array", "status", "id", "cfi", "word", "erase", "buffer", "confirm"} : Cmd[c] \in Byte
BY BusAssumption, FlashFits, ZenonT(60) DEF Byte, Erased

\* The contents an operation aims at.
LEMMA AimTyped ==
  ASSUME m \in Buses, NEW off \in Offsets, NEW b, NEW c
  PROVE  /\ m.flash \in [FlashBytes -> Byte] /\ Wiped(m.flash, off) \in [FlashBytes -> Byte]
         /\ Programmed(m.flash, off, <<b>>) \in [FlashBytes -> Byte]
         /\ Programmed(m.flash, off, <<b, c>>) \in [FlashBytes -> Byte]
<1>1. m.flash \in [FlashBytes -> Byte] /\ off \in FlashBytes /\ Erased \in Byte
  BY Bytes, Zenon DEF Buses
<1>2. IsOne(One(m.flash, off, b), m.flash, off, b) /\ IsTwo(Two(m.flash, off, b, c), m.flash, off, b, c)
  BY <1>1, ProgrammedAt, ProgrammedBoth, Zenon
<1>3. \A a \in FlashBytes : One(m.flash, off, b)[a] \in Byte /\ Two(m.flash, off, b, c)[a] \in Byte
  BY <1>1, <1>2, ZenonT(60) DEF IsOne, IsTwo, Byte
<1>4. /\ One(m.flash, off, b) = [a \in FlashBytes |-> One(m.flash, off, b)[a]]
      /\ Two(m.flash, off, b, c) = [a \in FlashBytes |-> Two(m.flash, off, b, c)[a]]
  BY Zenon DEF One, Two, Programmed
<1>5. One(m.flash, off, b) \in [FlashBytes -> Byte] /\ Two(m.flash, off, b, c) \in [FlashBytes -> Byte]
  BY <1>3, <1>4, Zenon
<1>6. Wiped(m.flash, off) \in [FlashBytes -> Byte]
  BY <1>1, Zenon DEF Wiped
<1> QED BY <1>1, <1>5, <1>6, Zenon DEF One, Two

\* What the driver knows when it has begun an operation.
LEMMA BeginsAt ==
  ASSUME BusInv, NEW todo, NEW after, NEW back, Begin(todo, after, back), NEW off, todo[1].off = off
  PROVE  /\ g'.todo = todo /\ g'.back = back /\ g'.before = m.flash /\ g'.after = after
         /\ Bank(off) \notin g'.arr
BY Zenon DEF Begin, BusInv, Guests

\* The driver starts a word program.
LEMMA WriteWordGood == ASSUME BusInv, WriteWord PROVE Good
<1>1. PICK off \in Offsets, b \in DataBytes :
        Begin(<<W(off, Cmd["word"]), W(off, b)>>, Programmed(m.flash, off, <<b>>), {})
  BY Zenon DEF WriteWord
<1> DEFINE todo == <<W(off, Cmd["word"]), W(off, b)>>
           after == Programmed(m.flash, off, <<b>>)
           back == {}
<1>2. todo \in Seq(Writes) /\ todo[1].off = off /\ back \in SUBSET {0, 1}
  BY Bytes, WriteTyped, Banks
<1>3. after \in [FlashBytes -> Byte] /\ Begin(todo, after, back)
  BY <1>1, AimTyped, Zenon DEF BusInv
<1>4. Left(g', todo, back) /\ g'.before = m.flash /\ g'.after = after /\ Bank(off) \notin g'.arr
  <2> HIDE DEF todo, after, back
  <2> QED BY <1>2, <1>3, BeginsAt DEF Left
<1>5. ASSUME Done(m, g) PROVE FlashOp(m, g')
  BY <1>4, <1>5, Zenon DEF FlashOp, Word2, Done
<1> HIDE DEF todo, after, back
<1> QED BY <1>2, <1>3, <1>5, BeginGood, Zenon

\* The driver starts a buffered program.
LEMMA WriteBufferGood == ASSUME BusInv, WriteBuffer PROVE Good
<1>1. PICK off \in Offsets, b, c \in DataBytes :
        Begin(<<W(off, Cmd["buffer"]), W(off, {0}), W(off, b), W(off + 1, c), W(off, Cmd["confirm"])>>,
              Programmed(m.flash, off, <<b, c>>), {})
  BY Zenon DEF WriteBuffer
<1> DEFINE todo == <<W(off, Cmd["buffer"]), W(off, {0}), W(off, b), W(off + 1, c), W(off, Cmd["confirm"])>>
           after == Programmed(m.flash, off, <<b, c>>)
           back == {}
<1>2. todo \in Seq(Writes) /\ todo[1].off = off /\ back \in SUBSET {0, 1}
  BY Bytes, WriteTyped, Banks
<1>3. after \in [FlashBytes -> Byte] /\ Begin(todo, after, back)
  BY <1>1, AimTyped, Zenon DEF BusInv
<1>4. Left(g', todo, back) /\ g'.before = m.flash /\ g'.after = after /\ Bank(off) \notin g'.arr
  <2> HIDE DEF todo, after, back
  <2> QED BY <1>2, <1>3, BeginsAt DEF Left
<1>5. ASSUME Done(m, g) PROVE FlashOp(m, g')
  BY <1>4, <1>5, Zenon DEF FlashOp, Buffer5, Done
<1> HIDE DEF todo, after, back
<1> QED BY <1>2, <1>3, <1>5, BeginGood, Zenon

\* The driver starts an erase.
LEMMA EraseBlockGood == ASSUME BusInv, EraseBlock PROVE Good
<1>1. PICK off \in Offsets :
        Begin(<<W(off, Cmd["erase"]), W(off, Cmd["confirm"])>>, Wiped(m.flash, off), {})
  BY Zenon DEF EraseBlock
<1> DEFINE todo == <<W(off, Cmd["erase"]), W(off, Cmd["confirm"])>>
           after == Wiped(m.flash, off)
           back == {}
<1>2. todo \in Seq(Writes) /\ todo[1].off = off /\ back \in SUBSET {0, 1}
  BY Bytes, WriteTyped, Banks
<1>3. after \in [FlashBytes -> Byte] /\ Begin(todo, after, back)
  BY <1>1, AimTyped, Zenon DEF BusInv
<1>4. Left(g', todo, back) /\ g'.before = m.flash /\ g'.after = after /\ Bank(off) \notin g'.arr
  <2> HIDE DEF todo, after, back
  <2> QED BY <1>2, <1>3, BeginsAt DEF Left
<1>5. ASSUME Done(m, g) PROVE FlashOp(m, g')
  BY <1>4, <1>5, Zenon DEF FlashOp, Erase2, Done
<1> HIDE DEF todo, after, back
<1> QED BY <1>2, <1>3, <1>5, BeginGood, Zenon

\* The driver starts a query.
LEMMA QueryGood == ASSUME BusInv, Query PROVE Good
<1>1. PICK off \in Offsets, c \in {"id", "cfi", "status"} :
        Begin(<<W(off, Cmd[c]), W(off, Cmd["array"])>>, m.flash, {Bank(off)})
  BY Zenon DEF Query
<1> DEFINE todo == <<W(off, Cmd[c]), W(off, Cmd["array"])>>
           after == m.flash
           back == {Bank(off)}
<1>2. todo \in Seq(Writes) /\ todo[1].off = off /\ back \in SUBSET {0, 1}
  BY Bytes, WriteTyped, Banks
<1>3. after \in [FlashBytes -> Byte] /\ Begin(todo, after, back)
  BY <1>1, AimTyped, Zenon DEF BusInv
<1>4. Left(g', todo, back) /\ g'.before = m.flash /\ g'.after = after /\ Bank(off) \notin g'.arr
  <2> HIDE DEF todo, after, back
  <2> QED BY <1>2, <1>3, BeginsAt DEF Left
<1>5. ASSUME Done(m, g) PROVE FlashOp(m, g')
  BY <1>4, <1>5, Zenon DEF FlashOp, Asking, Done
<1> HIDE DEF todo, after, back
<1> QED BY <1>2, <1>3, <1>5, BeginGood, Zenon

\* The driver starts a return to the array.
LEMMA ReadArrayGood == ASSUME BusInv, ReadArray PROVE Good
<1>1. PICK off \in Offsets :
        Begin(<<W(off, Cmd["array"])>>, m.flash, {Bank(off)})
  BY Zenon DEF ReadArray
<1> DEFINE todo == <<W(off, Cmd["array"])>>
           after == m.flash
           back == {Bank(off)}
<1>2. todo \in Seq(Writes) /\ todo[1].off = off /\ back \in SUBSET {0, 1}
  BY Bytes, WriteTyped, Banks
<1>3. after \in [FlashBytes -> Byte] /\ Begin(todo, after, back)
  BY <1>1, AimTyped, Zenon DEF BusInv
<1>4. Left(g', todo, back) /\ g'.before = m.flash /\ g'.after = after /\ Bank(off) \notin g'.arr
  <2> HIDE DEF todo, after, back
  <2> QED BY <1>2, <1>3, BeginsAt DEF Left
<1>5. ASSUME Done(m, g) PROVE FlashOp(m, g')
  BY <1>4, <1>5, Zenon DEF FlashOp, Returning, Done
<1> HIDE DEF todo, after, back
<1> QED BY <1>2, <1>3, <1>5, BeginGood, Zenon

\* The driver's next write, whichever it is (flash_cfi_write).
LEMMA DriverStepGood == ASSUME BusInv, DriverStep PROVE Good
<1> DEFINE k == Ok(m)
<1>1. m \in Buses /\ g \in Guests /\ FlashGood(m, g) /\ RamGood(m, g) /\ StreamGood(m, g) /\ BootGood(m, g)
  BY Zenon DEF BusInv
<1>2. /\ g.todo # <<>> /\ m' = phys_write(m, g.todo[1].off, 1, g.todo[1].val) /\ plan' = plan
      /\ g' = [g EXCEPT !.todo = Tail(@), !.arr = IF Len(g.todo) = 1 THEN @ \cup g.back ELSE @]
  BY Zenon DEF DriverStep
<1>3. Kept(m, k) /\ k.flash = m.flash /\ k.cfi = m.cfi /\ k.code = m.code /\ k \in Buses
  BY <1>1, OkKeeps, Zenon DEF Kept
<1> HIDE DEF k
<1>4. g' \in Guests
  <2>1. Tail(g.todo) \in Seq(Writes)
    BY <1>1, <1>2 DEF Guests
  <2>2. (IF Len(g.todo) = 1 THEN g.arr \cup g.back ELSE g.arr) \in SUBSET {0, 1}
    BY <1>1, Zenon DEF Guests
  <2> QED BY <1>1, <1>2, <2>1, <2>2, Zenon DEF Guests
<1>5. Follows(g, g') /\ g'.ram = g.ram /\ g'.sel = g.sel /\ g'.pos = g.pos /\ g'.booting = g.booting
  BY <1>1, <1>2, Zenon DEF Guests, Follows
<1>6. FlashGood(k, g)
  BY <1>1, <1>3, FlashSame, Zenon DEF SameOp
<1>7. Leads(k, g, Write(k, g), g') /\ \E off \in FlashBytes, b \in Byte : g.todo[1] = W(off, b)
  BY <1>1, <1>2, <1>3, <1>5, <1>6, WriteStep, Zenon
<1>8. m' = Write(k, g)
  <2>1. PICK off \in FlashBytes, b \in Byte : g.todo[1] = W(off, b)
    BY <1>7, Zenon
  <2>2. g.todo[1].off = off /\ g.todo[1].val = <<b>>
    BY <2>1 DEF W
  <2> QED BY <1>2, <2>2, FlashWrite, ZenonT(60) DEF Write, k
<1>9. Kept(m, m') /\ FlashGood(m', g') /\ CodeGood(m, m')
  BY <1>3, <1>7, <1>8, Zenon DEF Leads, Kept, CodeGood
<1>10. ~ g.booting /\ plan.kind = "flash"
  BY <1>1, <1>2, Zenon DEF BootGood, BusInv
<1> QED BY <1>1, <1>2, <1>4, <1>5, <1>9, <1>10, ZenonT(60) DEF Good, BusInv, Kept, RamGood, StreamGood, BootGood

-----------------------------------------------------------------------------
(* The loader *)

\* A step that leaves the flash operation in progress alone.
LEMMA Rest ==
  ASSUME BusInv, m' \in Buses, g' \in Guests, m'.flash = m.flash, m'.cfi = m.cfi, m'.dev = m.dev,
         SameOp(g, g'), plan' = plan, RamGood(m', g'), StreamGood(m', g'), g'.booting = FALSE
  PROVE  Good
<1>1. FlashGood(m', g') /\ CodeGood(m, m')
  BY FlashSame, Zenon DEF BusInv
<1> QED BY <1>1, Zenon DEF Good, BusInv, SameOp, BootGood

\* The device table is one with fw_cfg in it.
LEMMA Loaded ==
  ASSUME BusInv, plan.kind # "map"
  PROVE  \E p \in Plans : m.dev = p.devs /\ p.kind # "map"
BY Zenon DEF BusInv

\* The loader selects an item.
LEMMA SelectItemGood == ASSUME BusInv, SelectItem PROVE Good
<1>1. PICK key \in DOMAIN Items \cup {99} :
        /\ plan.kind = "fwcfg" /\ m' = phys_write(m, FWCFG_BASE + 8, 2, key) /\ g' = Sel(key) /\ plan' = plan
  BY Zenon DEF SelectItem, Loads
<1>2. m' = Select(Ok(m), key)
  <2>1. PICK p \in Plans : m.dev = p.devs /\ p.kind # "map"
    BY <1>1, Loaded, Zenon
  <2>2. m' = fwcfg_write(Ok(m), 8, 2, key)
    BY <1>1, <2>1, FwReg
  <2> QED BY <2>2 DEF fwcfg_write
<1>3. m \in Buses /\ g \in Guests /\ RamGood(m, g)
  BY Zenon DEF BusInv
<1>4. key \in Keys /\ 0 \in 0 .. (OffMod - 1) /\ 0 \in 0 .. MaxPos
  BY BusAssumption, SMTT(60) DEF Keys
<1>5. /\ m' \in Buses /\ m'.flash = m.flash /\ m'.cfi = m.cfi /\ m'.dev = m.dev /\ m'.ram = m.ram
      /\ m'.fw.sel = key /\ m'.fw.off = 0
  BY <1>2, <1>3, <1>4, ZenonT(60) DEF Select, Ok, Buses
<1>6. /\ g' \in Guests /\ SameOp(g, g') /\ g'.ram = g.ram /\ g'.sel = key /\ g'.pos = 0 /\ g'.booting = FALSE
  BY <1>1, <1>3, <1>4, Zenon DEF Sel, Guests, SameOp
<1> QED BY <1>1, <1>3, <1>5, <1>6, Rest, ZenonT(60) DEF RamGood, StreamGood

\* The loader reads the data port.
LEMMA ReadDataGood == ASSUME BusInv, ReadData PROVE Good
<1>1. PICK n \in {1, 2} :
        /\ plan.kind = "fwcfg" /\ g.pos + n <= MaxPos /\ m' = phys_read(m, FWCFG_BASE, n).m
        /\ g' = [g EXCEPT !.pos = @ + n, !.booting = FALSE] /\ plan' = plan
  BY Zenon DEF ReadData, Loads
<1>2. m' = Advance(Ok(m), n)
  <2>1. PICK p \in Plans : m.dev = p.devs /\ p.kind # "map"
    BY <1>1, Loaded, Zenon
  <2>2. FWCFG_BASE + 0 = FWCFG_BASE
    BY BusAssumption
  <2>3. phys_read(m, FWCFG_BASE, n) = fwcfg_read(Ok(m), 0, n)
    BY <2>1, <2>2, FwReg, ZenonT(60)
  <2> QED BY <1>1, <2>3 DEF fwcfg_read, BusRes
<1>3. m \in Buses /\ g \in Guests /\ RamGood(m, g) /\ StreamGood(m, g)
  BY Zenon DEF BusInv
<1>4. /\ g.pos + n \in 0 .. MaxPos /\ (m.fw.off + n) % OffMod = g.pos + n
      /\ (m.fw.off + n) % OffMod \in 0 .. (OffMod - 1)
  <2>1. m.fw.off = g.pos /\ g.pos \in 0 .. MaxPos /\ g.pos + n < OffMod /\ OffMod \in Nat
    BY <1>1, <1>3, Sizes, SMTT(60) DEF StreamGood, Guests
  <2>2. g.pos + n \in 0 .. MaxPos /\ g.pos + n \in 0 .. (OffMod - 1)
    BY <1>1, <2>1
  <2> QED BY <2>1, <2>2, NoWrap, Zenon
<1>5. /\ m' \in Buses /\ m'.flash = m.flash /\ m'.cfi = m.cfi /\ m'.dev = m.dev /\ m'.ram = m.ram
      /\ m'.fw.sel = m.fw.sel /\ m'.fw.off = g.pos + n
  BY <1>2, <1>3, <1>4, Zenon DEF Advance, Ok, Buses
<1>6. /\ g' \in Guests /\ SameOp(g, g') /\ g'.ram = g.ram /\ g'.sel = g.sel /\ g'.pos = g.pos + n
      /\ g'.booting = FALSE
  BY <1>1, <1>3, <1>4, Zenon DEF Guests, SameOp
<1> QED BY <1>1, <1>3, <1>5, <1>6, Rest, Zenon DEF RamGood, StreamGood

\* The loader has a descriptor carried out, with one register write or two.
LEMMA DmaGood == ASSUME BusInv, Dma PROVE Good
<1> DEFINE cell == RAM_SIZE - 1
           ready(d) == [m EXCEPT !.desc[cell] = d]
           hi(d) == phys_write(ready(d), FWCFG_BASE + 16, 4, 0)
<1>1. PICK d \in Descs, whole \in BOOLEAN :
        /\ plan.kind = "fwcfg" /\ (IF d.sel THEN 0 ELSE g.pos) + d.len <= MaxPos
        /\ m' = IF whole THEN phys_write(ready(d), FWCFG_BASE + 16, 8, RAM_BASE + cell)
                         ELSE phys_write(hi(d), FWCFG_BASE + 20, 4, RAM_BASE + cell)
        /\ g' = AfterDma(d) /\ plan' = plan
  BY Zenon DEF Dma, Loads
<1> DEFINE r == ready(d)
           h == [Ok(r) EXCEPT !.fw.hi = 0]
           k == IF whole THEN Ok(r) ELSE Ok(h)
<1>2. m \in Buses /\ g \in Guests /\ RamGood(m, g) /\ StreamGood(m, g)
  BY Zenon DEF BusInv
<1>3. cell \in RamBytes
  BY Descriptor, Sizes DEF RamBytes
<1>4. r \in Buses /\ r.desc[cell] = d /\ Beside(m, r) /\ r.ram = m.ram
  BY <1>2, <1>3, ZenonT(60) DEF Buses, Beside
<1>41. m' = IF whole THEN phys_write(r, FWCFG_BASE + 16, 8, RAM_BASE + cell)
                    ELSE phys_write(phys_write(r, FWCFG_BASE + 16, 4, 0), FWCFG_BASE + 20, 4, RAM_BASE + cell)
  BY <1>1, Zenon
<1> HIDE DEF r
<1>5. Ok(r) \in Buses /\ Beside(r, Ok(r)) /\ Ok(r).ram = r.ram /\ Ok(r).desc = r.desc
  BY <1>4, OkTyped, Zenon DEF Beside
<1>6. /\ h \in Buses /\ h.ram = r.ram /\ h.desc = r.desc /\ h.flash = r.flash /\ h.cfi = r.cfi /\ h.dev = r.dev
      /\ h.fw.sel = r.fw.sel /\ h.fw.off = r.fw.off /\ h.fw.hi = 0
  BY <1>5, ZenonT(60) DEF Buses, Beside
<1> HIDE DEF h
<1>7. /\ k \in Buses /\ k.ram = m.ram /\ k.desc[cell] = d /\ k.flash = m.flash /\ k.cfi = m.cfi /\ k.dev = m.dev
      /\ k.fw.sel = m.fw.sel /\ k.fw.off = m.fw.off
  <2>1. CASE whole
    <3>1. k = Ok(r)
      BY <2>1, Zenon
    <3> QED BY <1>4, <1>5, <3>1, Zenon DEF Beside
  <2>2. CASE ~whole
    <3>1. k = Ok(h)
      BY <2>2, Zenon
    <3>2. Beside(h, Ok(h)) /\ Ok(h).ram = h.ram /\ Ok(h).desc = h.desc
      BY <1>6, OkTyped, Zenon
    <3> QED BY <1>4, <1>6, <3>1, <3>2, ZenonT(60) DEF Beside
  <2> QED BY <2>1, <2>2, Zenon
<1>8. m' = do_dma(k, RAM_BASE + cell)
  <2>1. PICK p \in Plans : m.dev = p.devs /\ p.kind # "map"
    BY <1>1, Loaded, Zenon
  <2>2. r.dev = p.devs /\ h.dev = p.devs
    BY <1>4, <1>6, <2>1, Zenon DEF Beside
  <2>3. CASE whole
    <3>1. m' = fwcfg_write(Ok(r), 16, 8, RAM_BASE + cell)
      BY <1>41, <2>1, <2>2, <2>3, FwReg
    <3>2. k = Ok(r)
      BY <2>3, Zenon
    <3> QED BY <3>1, <3>2 DEF fwcfg_write
  <2>4. CASE ~whole
    <3>1. phys_write(r, FWCFG_BASE + 16, 4, 0) = fwcfg_write(Ok(r), 16, 4, 0)
      BY <2>1, <2>2, FwReg
    <3>2. fwcfg_write(Ok(r), 16, 4, 0) = h
      BY DEF fwcfg_write, h
    <3>3. m' = fwcfg_write(Ok(h), 20, 4, RAM_BASE + cell)
      BY <1>41, <2>1, <2>2, <2>4, <3>1, <3>2, FwReg
    <3>4. Ok(h).fw.hi * HalfAddr + (RAM_BASE + cell) = RAM_BASE + cell
      <4>1. Ok(h).fw.hi = 0
        BY <1>6, Zenon DEF Ok, Buses
      <4> QED BY <1>3, <4>1, Sizes
    <3>5. k = Ok(h)
      BY <2>4, Zenon
    <3>6. fwcfg_write(Ok(h), 20, 4, RAM_BASE + cell) = do_dma(Ok(h), Ok(h).fw.hi * HalfAddr + (RAM_BASE + cell))
      BY DEF fwcfg_write
    <3> QED BY <3>3, <3>4, <3>5, <3>6, Zenon
  <2> QED BY <2>3, <2>4, Zenon
<1> HIDE DEF k
<1> DEFINE f == From(k, d)
           s == IF d.sel THEN Sel(d.key) ELSE [g EXCEPT !.booting = FALSE]
           in(a) == d.op = "read" /\ a + RAM_BASE \in Covered(d.target, d.len)
           R == [a \in RamBytes |-> IF in(a) THEN Padded(s.sel)[s.pos + a + RAM_BASE - d.target + 1] ELSE s.ram[a]]
<1>9. d.len \in {0, 2} /\ d.sel \in BOOLEAN /\ d.key \in Keys
  BY Descriptor, Zenon
<1>10. /\ s \in Guests /\ s.sel = f.sel /\ s.pos = f.off /\ s.ram = g.ram /\ SameOp(g, s) /\ s.booting = FALSE
       /\ s.pos + d.len <= MaxPos /\ f.sel \in Keys /\ f.off \in Nat
  <2>1. 0 \in 0 .. MaxPos
    BY Sizes
  <2>2. CASE d.sel
    <3>1. f.sel = d.key /\ f.off = 0
      BY <2>2, Zenon DEF From
    <3>2. s = Sel(d.key)
      BY <2>2, Zenon
    <3>3. 0 + d.len <= MaxPos
      BY <1>1, <2>2, Zenon
    <3> HIDE DEF f, s
    <3>4. s \in Guests /\ s.sel = d.key /\ s.pos = 0 /\ s.ram = g.ram /\ SameOp(g, s) /\ s.booting = FALSE
      BY <1>2, <1>9, <2>1, <3>2, Zenon DEF Sel, Guests, SameOp
    <3> QED BY <1>9, <3>1, <3>3, <3>4
  <2>3. CASE ~d.sel
    <3>1. f.sel = m.fw.sel /\ f.off = m.fw.off
      BY <1>7, <2>3, Zenon DEF From
    <3>2. s = [g EXCEPT !.booting = FALSE]
      BY <2>3, Zenon
    <3>3. g.pos + d.len <= MaxPos /\ m.fw.sel = g.sel /\ m.fw.off = g.pos
      BY <1>1, <1>2, <2>3, Zenon DEF StreamGood
    <3> HIDE DEF f, s
    <3>4. s \in Guests /\ s.sel = g.sel /\ s.pos = g.pos /\ s.ram = g.ram /\ SameOp(g, s) /\ s.booting = FALSE
      BY <1>2, <3>2, Zenon DEF Guests, SameOp
    <3>5. g.sel \in Keys /\ g.pos \in Nat
      BY <1>2, Sizes DEF Guests
    <3> QED BY <3>1, <3>3, <3>4, <3>5, Zenon
  <2> QED BY <1>9, <2>2, <2>3, Zenon
<1>11. g' = [s EXCEPT !.pos = s.pos + d.len, !.ram = R]
  BY <1>1, Zenon DEF AfterDma
<1> HIDE DEF s
<1>12. ASSUME NEW a \in RamBytes, in(a)
       PROVE  /\ Padded(s.sel)[s.pos + a + RAM_BASE - d.target + 1] = item_byte(f.sel, f.off + a + RAM_BASE - d.target)
              /\ item_byte(f.sel, f.off + a + RAM_BASE - d.target) \in Byte
  <2>1. PICK t \in Targets : d.target = RAM_BASE + t /\ t \in RamBytes
    BY Descriptor, Zenon
  <2> DEFINE o == f.off + a + RAM_BASE - d.target
  <2>2. o \in Nat /\ o < 2 * MaxPos
    BY <1>9, <1>10, <1>12, <2>1, Sizes DEF Covered, RamBytes
  <2> HIDE DEF o
  <2>3. Padded(f.sel)[o + 1] = item_byte(f.sel, o) /\ item_byte(f.sel, o) \in Byte
    BY <1>10, <2>2, ItemByte, Zenon
  <2> QED BY <1>10, <2>3, Zenon DEF o
<1>13. \A a \in RamBytes : R[a] = IF in(a) THEN item_byte(f.sel, f.off + a + RAM_BASE - d.target) ELSE g.ram[a]
  BY <1>10, <1>12, Zenon
<1>14. R \in [RamBytes -> Byte]
  <2>1. g.ram \in [RamBytes -> Byte]
    BY <1>2, Zenon DEF Guests
  <2>2. \A a \in RamBytes : R[a] \in Byte
    <3> HIDE DEF R
    <3> QED BY <1>12, <1>13, <2>1, Zenon
  <2>3. R = [a \in RamBytes |-> R[a]]
    BY Zenon
  <2> HIDE DEF R
  <2> QED BY <2>2, <2>3, Zenon
<1> HIDE DEF R
<1>15. /\ g' \in Guests /\ SameOp(g, g') /\ g'.booting = FALSE /\ g'.sel = f.sel /\ g'.pos = f.off + d.len /\ g'.ram = R
  <2>1. s.pos + d.len \in 0 .. MaxPos
    BY <1>9, <1>10, Sizes
  <2> QED BY <1>10, <1>11, <1>14, <2>1, Zenon DEF Guests, SameOp
<1>16. /\ Cursor(k, m', f.sel, f.off + d.len)
       /\ \A a \in RamBytes \ {cell} : m'.ram[a] =
             IF in(a) THEN item_byte(f.sel, f.off + a + RAM_BASE - d.target) ELSE k.ram[a]
  <2>1. f.off + d.len <= MaxPos
    BY <1>10, Zenon
  <2> QED BY <1>3, <1>7, <1>8, <2>1, DmaDone, ZenonT(60)
<1>17. RamGood(m', g')
  <2> HIDE DEF in
  <2> QED BY <1>2, <1>7, <1>13, <1>15, <1>16, ZenonT(60) DEF RamGood
<1>18. m' \in Buses /\ m'.flash = m.flash /\ m'.cfi = m.cfi /\ m'.dev = m.dev /\ StreamGood(m', g')
  BY <1>7, <1>15, <1>16, Zenon DEF Cursor, StreamGood
<1> QED BY <1>1, <1>15, <1>17, <1>18, Rest, Zenon

\* The system stores to its memory.
LEMMA ScribbleGood == ASSUME BusInv, Scribble PROVE Good
<1>1. PICK t \in Targets \cup {0} :
        /\ plan.kind = "fwcfg" /\ m' = phys_write(m, RAM_BASE + t, 1, <<Erased>>)
        /\ g' = [g EXCEPT !.ram[t] = Erased, !.booting = FALSE] /\ plan' = plan
  BY Zenon DEF Scribble, Loads
<1>2. m \in Buses /\ g \in Guests /\ RamGood(m, g) /\ StreamGood(m, g)
  BY Zenon DEF BusInv
<1>3. t \in RamBytes /\ Erased \in Byte
  <2>1. t \in Nat /\ t < RAM_SIZE
    BY Sizes, BusAssumption
  <2> QED BY <2>1, Sizes DEF RamBytes, Erased, Byte
<1>4. m' = phys_write_dma(m, RAM_BASE + t, <<Erased>>)
  <2>1. InRam(RAM_BASE + t, 1)
    BY <1>2, <1>3, StoredByte, Zenon
  <2> QED BY <1>1, <2>1, Zenon DEF phys_write
<1>5. Beside(m, m') /\ m'.ram = [m.ram EXCEPT ![t] = Erased]
  BY <1>2, <1>3, <1>4, ByteWrite, ZenonT(60)
<1>6. /\ g' \in Guests /\ SameOp(g, g') /\ g'.sel = g.sel /\ g'.pos = g.pos /\ g'.booting = FALSE
      /\ g'.ram = [g.ram EXCEPT ![t] = Erased]
  <2> DEFINE R == [g.ram EXCEPT ![t] = Erased]
  <2>1. R \in [RamBytes -> Byte]
    BY <1>2, <1>3, Zenon DEF Guests
  <2>2. g' = [g EXCEPT !.ram = R, !.booting = FALSE]
    BY <1>1, Zenon
  <2> HIDE DEF R
  <2>3. /\ g' \in Guests /\ SameOp(g, g') /\ g'.sel = g.sel /\ g'.pos = g.pos /\ g'.booting = FALSE
        /\ g'.ram = R
    BY <1>2, <2>1, <2>2, Zenon DEF Guests, SameOp
  <2> QED BY <2>3, Zenon DEF R
<1>7. RamGood(m', g')
  <2>1. m.ram \in [RamBytes -> Byte] /\ g.ram \in [RamBytes -> Byte]
    BY <1>2, Zenon DEF Buses, Guests
  <2> QED BY <1>2, <1>5, <1>6, <2>1, ZenonT(60) DEF RamGood
<1> QED BY <1>1, <1>2, <1>5, <1>6, <1>7, Rest, Zenon DEF Beside, StreamGood

\* The translator takes code from flash.
LEMMA TranslateGood == ASSUME BusInv, Translate PROVE Good
<1>1. PICK a \in Offsets : m' = [m EXCEPT !.code = m.code \cup Pages(a, 1)] /\ g' = g /\ plan' = plan
  BY Zenon DEF Translate
<1>2. Pages(a, 1) \subseteq Nat
  <2>1. a \in Nat /\ PAGE \in Nat \ {0}
    BY BusAssumption, FlashFits DEF FlashBytes
  <2>2. ASSUME NEW c \in Covered(a, 1) PROVE c \div PAGE \in Nat
    <3>1. c \in Nat
      BY <2>1 DEF Covered
    <3> QED BY <2>1, <3>1
  <2> QED BY <2>2, Zenon DEF Pages
<1> DEFINE C == m.code \cup Pages(a, 1)
<1>3. C \in SUBSET Nat /\ m \in Buses
  BY <1>2, Zenon DEF BusInv, Buses
<1> HIDE DEF C
<1>4. m' \in Buses /\ m'.flash = m.flash /\ m'.cfi = m.cfi /\ m'.dev = m.dev /\ m'.ram = m.ram /\ m'.fw = m.fw
  BY <1>1, <1>3, Zenon DEF Buses, C
<1>5. FlashGood(m', g') /\ CodeGood(m, m')
  BY <1>1, <1>4, FlashSame, Zenon DEF BusInv, SameOp
<1> QED BY <1>1, <1>4, <1>5 DEF Good, BusInv, RamGood, StreamGood, BootGood

-----------------------------------------------------------------------------
(* Power-on and reset *)

\* The machine and the firmware's knowledge as a boot finds them.
Booted(k, x) ==
  /\ k \in Buses /\ x \in Guests /\ k.cfi = [b \in {0, 1} |-> Ready] /\ k.fw = [sel |-> 0, off |-> 0, hi |-> 0]
  /\ x.todo = <<>> /\ x.before = k.flash /\ x.after = k.flash /\ x.sel = 0 /\ x.pos = 0
  /\ RamGood(k, x) /\ \A a \in RamBytes : a < Len(DTB) => k.ram[a] = DTB[a + 1]

\* A boot establishes the invariant.
LEMMA BootedGood ==
  ASSUME NEW k, NEW x, Booted(k, x)
  PROVE  FlashGood(k, x) /\ RamGood(k, x) /\ StreamGood(k, x) /\ BootGood(k, x)
<1>1. \A b \in {0, 1} : /\ k.cfi[b].mode = "array" /\ k.cfi[b].prog = "none"
                       /\ k.cfi[b].seen = 0 /\ k.cfi[b].cnt = 0
  BY DEF Booted, Ready
<1>2. FlashOp(k, x)
  BY <1>1, Zenon DEF FlashOp, Done, Quiet, Booted
<1>3. Torn(k, x)
  BY <1>1 DEF Torn, Booted
<1>4. x.arr \subseteq {0, 1}
  BY Zenon DEF Booted, Guests
<1> QED BY <1>1, <1>2, <1>3, <1>4 DEF FlashGood, StreamGood, BootGood, Booted

Fresher(x, n, R) ==
  /\ x \in Guests /\ x.todo = <<>> /\ x.before = n.flash /\ x.after = n.flash /\ x.sel = 0 /\ x.pos = 0
  /\ x.ram = R

\* What the guest knows at a boot.
LEMMA FreshTyped ==
  ASSUME NEW n \in Buses, NEW R \in [RamBytes -> Byte]
  PROVE  Fresher(Fresh(n), n, n.ram) /\ Fresher([Fresh(n) EXCEPT !.ram = R], n, R)
<1>1. /\ <<>> \in Seq(Writes) /\ 0 \in Keys /\ 0 \in 0 .. MaxPos /\ n.flash \in [FlashBytes -> Byte]
      /\ n.ram \in [RamBytes -> Byte]
  BY Sizes DEF Keys, Buses
<1>2. Fresher(Fresh(n), n, n.ram)
  BY <1>1, Zenon DEF Fresh, Guests, Fresher
<1>3. Fresher([Fresh(n) EXCEPT !.ram = R], n, R)
  BY <1>1, Zenon DEF Fresh, Guests, Fresher
<1> QED BY <1>2, <1>3, Zenon

\* A reset between any two writes: both banks leave whatever they were doing and
\* the array is what was reached (flash_cfi_reset, fwcfg_reset, machine_reset).
LEMMA ResetGood == ASSUME BusInv, Reset PROVE Good
<1> DEFINE k == flash_cfi_reset(fwcfg_reset(m))
           R == [a \in RamBytes |-> IF a < Len(DTB) THEN DTB[a + 1] ELSE g.ram[a]]
<1>1. /\ m' = phys_write_blk(k, RAM_BASE, DTB) /\ g' = [Fresh(m') EXCEPT !.ram = R]
      /\ plan' = [plan EXCEPT !.resets = @ + 1]
  BY Zenon DEF Reset, machine_reset
<1>2. m \in Buses /\ g \in Guests /\ RamGood(m, g) /\ DOMAIN plan = {"kind", "ops", "resets"}
  BY Zenon DEF BusInv
<1>3. /\ k \in Buses /\ k.flash = m.flash /\ k.ram = m.ram /\ k.dev = m.dev
      /\ k.cfi = [b \in {0, 1} |-> Ready] /\ k.fw = [sel |-> 0, off |-> 0, hi |-> 0]
  <2> DEFINE F == [sel |-> 0, off |-> 0, hi |-> 0]
             C == [b \in {0, 1} |-> Ready]
  <2>1. C \in [{0, 1} -> Cfis] /\ F \in [sel : Keys, off : 0 .. (OffMod - 1), hi : Nat]
    BY Blank, Zenon
  <2>2. k = [[m EXCEPT !.fw = F] EXCEPT !.cfi = C]
    BY Zenon DEF flash_cfi_reset, fwcfg_reset
  <2> HIDE DEF F, C, k
  <2>3. /\ k \in Buses /\ k.flash = m.flash /\ k.ram = m.ram /\ k.dev = m.dev /\ k.cfi = C /\ k.fw = F
    BY <1>2, <2>1, <2>2, Zenon DEF Buses
  <2> QED BY <2>3, Zenon DEF C, F
<1> HIDE DEF k
<1>4. /\ Beside(k, m')
      /\ \A a \in RamBytes : m'.ram[a] = IF a < Len(DTB) THEN DTB[a + 1] ELSE k.ram[a]
  BY <1>1, <1>3, Placed, Zenon
<1>5. R \in [RamBytes -> Byte] /\ \A a \in RamBytes : R[a] = IF a < Len(DTB) THEN DTB[a + 1] ELSE g.ram[a]
  <2>1. g.ram \in [RamBytes -> Byte] /\ DTB \in Seq(Byte)
    BY <1>2, BusAssumption, Zenon DEF Guests
  <2>2. \A a \in RamBytes : a < Len(DTB) => DTB[a + 1] \in Byte
    BY <2>1, BusAssumption, SMTT(60) DEF RamBytes
  <2> QED BY <2>1, <2>2, Zenon
<1> HIDE DEF R
<1>6. /\ g' \in Guests /\ g'.todo = <<>> /\ g'.before = m'.flash /\ g'.after = m'.flash /\ g'.sel = 0 /\ g'.pos = 0
      /\ g'.ram = R
  BY <1>1, <1>4, <1>5, FreshTyped, ZenonT(60) DEF Beside, Fresher
<1>7. RamGood(m', g')
  BY <1>2, <1>3, <1>4, <1>5, <1>6, SMTT(60) DEF RamGood
<1>8. Booted(m', g')
  BY <1>3, <1>4, <1>6, <1>7, Zenon DEF Booted, Beside
<1>9. plan'.kind = plan.kind /\ DOMAIN plan' = {"kind", "ops", "resets"}
  BY <1>1, <1>2, Zenon
<1>10. m'.flash = m.flash /\ m'.dev = m.dev
  BY <1>3, <1>4, Zenon DEF Beside
<1> QED BY <1>6, <1>8, <1>9, <1>10, BootedGood, ZenonT(60) DEF Good, BusInv, Booted, CodeGood

\* Power-on.
LEMMA InitGood == ASSUME Init PROVE BusInv
<1>1. PICK p \in Plans :
        plan = [kind |-> p.kind, ops |-> 0, resets |-> 0] /\ m = machine_init(p.image, p.devs) /\ g = Fresh(m)
  BY Zenon DEF Init
<1> DEFINE F == [sel |-> 0, off |-> 0, hi |-> 0]
           C == [b \in {0, 1} |-> Ready]
           Z == [a \in RamBytes |-> Zero]
           D == [a \in RamBytes |-> NoDesc]
           k == [ram |-> Z, desc |-> D, flash |-> p.image, cfi |-> C, code |-> {}, dev |-> p.devs,
                 fw |-> F, bus |-> "ok"]
<1>2. m = phys_write_blk(k, RAM_BASE, DTB)
  BY <1>1, Zenon DEF machine_init
<1>3. /\ C \in [{0, 1} -> Cfis] /\ F \in [sel : Keys, off : 0 .. (OffMod - 1), hi : Nat]
      /\ Z \in [RamBytes -> Byte] /\ D \in [RamBytes -> Descs \cup {NoDesc}]
      /\ p.image \in [FlashBytes -> Byte] /\ p.devs \in {q.devs : q \in Plans}
  <2>1. Z \in [RamBytes -> Byte] /\ D \in [RamBytes -> Descs \cup {NoDesc}]
    BY Zenon DEF Zero, Byte
  <2>2. p.image \in [FlashBytes -> Byte]
    BY BusAssumption, Zenon
  <2> QED BY Blank, <2>1, <2>2, Zenon
<1> HIDE DEF F, C, Z, D
<1>4. k \in Buses /\ k.cfi = C /\ k.fw = F /\ k.dev = p.devs
  BY <1>3, Zenon DEF Buses
<1> HIDE DEF k
<1>5. Beside(k, m) /\ \A a \in RamBytes : m.ram[a] = IF a < Len(DTB) THEN DTB[a + 1] ELSE k.ram[a]
  BY <1>2, <1>4, Placed, Zenon
<1>6. m \in Buses /\ m.ram \in [RamBytes -> Byte]
  BY <1>5, Zenon DEF Beside, Buses
<1>8. /\ g \in Guests /\ g.todo = <<>> /\ g.before = m.flash /\ g.after = m.flash /\ g.sel = 0 /\ g.pos = 0
      /\ g.ram = m.ram
  BY <1>1, <1>6, FreshTyped, Zenon DEF Fresher
<1>9. Booted(m, g)
  BY <1>4, <1>5, <1>6, <1>8, Zenon DEF Booted, Beside, RamGood, C, F
<1>10. DOMAIN plan = {"kind", "ops", "resets"} /\ m.dev = p.devs /\ plan.kind = p.kind
  BY <1>1, <1>4, <1>5, Zenon DEF Beside
<1> QED BY <1>6, <1>8, <1>9, <1>10, BootedGood, Zenon DEF BusInv, Booted

-----------------------------------------------------------------------------
(* The theorems *)

\* Every step keeps the invariant and the bytes under translations.
LEMMA NextGood == ASSUME BusInv, [Next]_vars PROVE Good
<1>1. CASE UNCHANGED vars
  <2>1. m' = m /\ g' = g /\ plan' = plan
    BY <1>1, Zenon DEF vars
  <2>2. CodeGood(m, m')
    BY <2>1, FlashSame, Zenon DEF BusInv, SameOp
  <2> QED BY <2>1, <2>2, Zenon DEF Good, BusInv
<1>2. CASE Next
  BY <1>2, WriteWordGood, WriteBufferGood, EraseBlockGood, QueryGood, ReadArrayGood, DriverStepGood, SelectItemGood,
     ReadDataGood, DmaGood, ScribbleGood, ResetGood, TranslateGood, Zenon DEF Next
<1> QED BY <1>1, <1>2, Zenon

\* The invariant of the bus: where the flash operation in progress is, what RAM
\* and the fw_cfg cursor hold, and what a boot finds (memory.c, fwcfg.c,
\* machine_reset), in every reachable state.
THEOREM BusSafe == Spec => []BusInv
<1>1. Init => BusInv
  BY InitGood, Zenon
<1>2. BusInv /\ [Next]_vars => BusInv'
  BY NextGood, Zenon DEF Good
<1> QED BY <1>1, <1>2, PTL DEF Spec

\* A bank in read-array mode reads as the array.
LEMMA ArrayRead ==
  ASSUME BusInv, NEW a \in FlashBytes, NEW n \in {1, 2}, InFlash(a, n), m.cfi[Bank(a)].mode = "array"
  PROVE  phys_read(m, a, n).val = [i \in 1 .. n |-> m.flash[a + i - 1]]
<1>1. ~InRam(a, n)
  BY Sizes DEF InRam, InFlash, FlashBytes
<1>2. flash_cfi_read(m, a, n) = [i \in 1 .. n |-> m.flash[a + i - 1]]
  BY Zenon DEF flash_cfi_read
<1>3. phys_read(m, a, n) = BusRes(Ok(m), flash_cfi_read(m, a, n))
  BY <1>1, Zenon DEF phys_read
<1> QED BY <1>2, <1>3 DEF BusRes

\* Every flash byte is in one of the two banks.
LEMMA BankOf == \A a \in FlashBytes : Bank(a) \in {0, 1}
BY Zenon DEF Bank

\* The invariant gives FlashSound.
LEMMA FlashHolds == ASSUME BusInv PROVE FlashSound
<1>1. m \in Buses /\ FlashGood(m, g)
  BY Zenon DEF BusInv
<1>2. TypeOK
  BY <1>1, Zenon DEF BusInv, TypeOK, FlashGood, Torn
<1>3. FlashExact
  <2>1. g.todo = <<>> => m.flash = g.after
    <3> SUFFICES ASSUME g.todo = <<>> PROVE Done(m, g)
      BY Zenon DEF Done
    <3>1. FlashOp(m, g)
      BY <1>1, Zenon DEF FlashGood
    <3>2. /\ \A u : <<u>> # <<>>
          /\ \A u, v : <<u, v>> # <<>>
          /\ \A u, v, w : <<u, v, w>> # <<>>
          /\ \A u, v, w, x : <<u, v, w, x>> # <<>>
          /\ \A u, v, w, x, y : <<u, v, w, x, y>> # <<>>
      BY Zenon
    <3>3. \A off, c : ~Asking(m, g, off, c)
      BY <3>2, Zenon DEF Asking, Left
    <3>4. \A off : ~Returning(m, g, off) /\ ~Erase2(m, g, off) /\ ~Erase1(m, g, off) /\ ~Buffer1(m, g, off)
      BY <3>2, Zenon DEF Returning, Erase2, Erase1, Buffer1, Left
    <3>5. \A off, b : ~Word2(m, g, off, b) /\ ~Word1(m, g, off, b)
      BY <3>2, Zenon DEF Word2, Word1, Left
    <3>6. \A off, b, c : ~Buffer5(m, g, off, b, c) /\ ~Buffer4(m, g, off, b, c)
      BY <3>2, ZenonT(60) DEF Buffer5, Buffer4, Left
    <3>7. \A off, b, c : ~Buffer3(m, g, off, b, c) /\ ~Buffer2(m, g, off, b, c)
      BY <3>2, ZenonT(60) DEF Buffer3, Buffer2, Left
    <3> QED BY <3>1, <3>3, <3>4, <3>5, <3>6, <3>7, Zenon DEF FlashOp
  <2> QED BY <1>1, <2>1, Zenon DEF FlashExact, FlashGood, Torn
<1>4. OtherBankReads
  BY <1>1, ArrayRead, Zenon DEF OtherBankReads, FlashGood
<1> QED BY <1>2, <1>3, <1>4, Zenon DEF FlashSound

\* The two bytes the data port gives next.
LEMMA PortRead ==
  ASSUME BusInv, plan.kind # "map"
  PROVE  phys_read(m, FWCFG_BASE, 2).val = Expected(g.sel, g.pos, 2)
<1> DEFINE V == [i \in 1 .. 2 |-> item_byte(m.fw.sel, (m.fw.off + i - 1) % OffMod)]
<1>1. phys_read(m, FWCFG_BASE, 2).val = V
  <2>1. PICK p \in Plans : m.dev = p.devs /\ p.kind # "map"
    BY Loaded, Zenon
  <2>2. FWCFG_BASE + 0 = FWCFG_BASE
    BY Sizes
  <2>3. phys_read(m, FWCFG_BASE, 2) = fwcfg_read(Ok(m), 0, 2)
    BY <2>1, <2>2, FwReg, ZenonT(60)
  <2>4. Ok(m).fw = m.fw
    BY Zenon DEF BusInv, Ok, Buses
  <2> QED BY <2>3, <2>4 DEF fwcfg_read, BusRes
<1>2. g.sel \in Keys /\ g.pos \in 0 .. MaxPos /\ m.fw.sel = g.sel /\ m.fw.off = g.pos
  BY Zenon DEF BusInv, Guests, StreamGood
<1>3. ASSUME NEW i \in 1 .. 2
      PROVE  V[i] = Padded(g.sel)[g.pos + i]
  <2> DEFINE o == g.pos + i - 1
  <2>1. o \in 0 .. (OffMod - 1) /\ o \in Nat /\ o < 2 * MaxPos /\ o + 1 = g.pos + i
    BY <1>2, Sizes
  <2>2. V[i] = item_byte(g.sel, o % OffMod)
    BY <1>2, Zenon
  <2> HIDE DEF o, V
  <2>3. o % OffMod = o
    BY <2>1, NoWrap, Zenon
  <2>4. Padded(g.sel)[o + 1] = item_byte(g.sel, o)
    BY <1>2, <2>1, ItemByte, Zenon
  <2> QED BY <2>1, <2>2, <2>3, <2>4, Zenon
<1>4. Expected(g.sel, g.pos, 2) = [i \in 1 .. 2 |-> Padded(g.sel)[g.pos + i]]
  <2> DEFINE P == Padded(g.sel)
  <2>1. (g.pos + 2) - (g.pos + 1) + 1 = 2 /\ \A i \in 1 .. 2 : g.pos + 1 + i - 1 = g.pos + i
    BY <1>2
  <2> HIDE DEF P
  <2>2. SubSeq(P, g.pos + 1, g.pos + 2) = [i \in 1 .. 2 |-> P[g.pos + i]]
    BY <1>2, <2>1
  <2> QED BY <2>2, Zenon DEF Expected, P
<1>5. V = [i \in 1 .. 2 |-> Padded(g.sel)[g.pos + i]]
  <2>1. V = [i \in 1 .. 2 |-> V[i]]
    BY Zenon
  <2> HIDE DEF V
  <2> QED BY <1>3, <2>1, Zenon
<1> QED BY <1>1, <1>4, <1>5, Zenon

\* The invariant gives FirmwareExact.
LEMMA FirmwareHolds == ASSUME BusInv PROVE FirmwareExact
<1>1. m \in Buses /\ g \in Guests /\ BootGood(m, g)
  BY Zenon DEF BusInv
<1>2. StreamExact
  BY PortRead, Zenon DEF StreamExact, Loads, BusInv, RamGood
<1>3. ASSUME g.booting PROVE phys_read(m, RAM_BASE, Len(DTB)).val = DTB
  <2>1. DTB \in Seq(Byte) /\ Len(DTB) \in 1 .. (RAM_SIZE - 1) /\ InRam(RAM_BASE, Len(DTB))
    BY BusAssumption, Sizes DEF InRam
  <2> DEFINE V == [i \in 1 .. Len(DTB) |-> m.ram[RAM_BASE - RAM_BASE + i - 1]]
  <2>2. phys_read(m, RAM_BASE, Len(DTB)) = BusRes(Ok(m), V)
    BY <2>1, Zenon DEF phys_read
  <2>3. ASSUME NEW i \in 1 .. Len(DTB) PROVE m.ram[RAM_BASE - RAM_BASE + i - 1] = DTB[i]
    <3>1. RAM_BASE - RAM_BASE + i - 1 = i - 1 /\ i - 1 \in RamBytes /\ i - 1 < Len(DTB) /\ (i - 1) + 1 = i
      BY <2>1, Sizes DEF RamBytes
    <3> QED BY <1>1, <1>3, <3>1, Zenon DEF BootGood
  <2>4. DTB = [i \in 1 .. Len(DTB) |-> DTB[i]]
    BY <2>1
  <2>5. V = DTB
    BY <2>3, <2>4, Zenon
  <2> QED BY <2>2, <2>5 DEF BusRes
<1>4. ASSUME g.booting, NEW a \in FlashBytes PROVE phys_read(m, a, 1).val = <<m.flash[a]>>
  <2>1. InFlash(a, 1)
    BY FlashFits DEF InFlash, FlashBytes
  <2>2. m.cfi[Bank(a)].mode = "array"
    BY <1>1, <1>4, BankOf, Zenon DEF BootGood
  <2>3. phys_read(m, a, 1).val = [i \in 1 .. 1 |-> m.flash[a + i - 1]]
    BY <2>1, <2>2, ArrayRead, Zenon
  <2>4. a + 1 - 1 = a
    BY DEF FlashBytes
  <2> QED BY <2>3, <2>4
<1>5. ASSUME g.booting, plan.kind # "map" PROVE phys_read(m, FWCFG_BASE, 2).val = Expected(0, 0, 2)
  <2>1. g.sel = 0 /\ g.pos = 0
    BY <1>1, <1>5, Zenon DEF BootGood, BusInv, StreamGood
  <2> QED BY <1>5, <2>1, PortRead, Zenon
<1>6. BootImage
  BY <1>3, <1>4, <1>5, Zenon DEF BootImage
<1>7. SlotsRight
  <2> SUFFICES ASSUME plan.kind = "map" PROVE SlotsRight
    BY Zenon DEF SlotsRight
  <2>1. PICK c \in Configs : m.dev = platform_build(c)
    BY BusAssumption, Zenon DEF BusInv
  <2>2. /\ m.dev \in Seq(Clear) /\ Len(m.dev) <= 31
        /\ \A k \in 0 .. 31 : find_dev(m.dev, VIRTIO + k).kind = Kind(c, k)
        /\ \A i \in 1 .. 7 : find_dev(m.dev, fixed_devices[i].base) = fixed_devices[i]
    BY <2>1, MapRight, Zenon
  <2>21. m.dev \in Seq(Clear) /\ Len(m.dev) <= 31
    BY <2>2, Zenon
  <2>3. Len(m.dev) <= MAX_DEVS
    BY <2>21, SMT DEF MAX_DEVS
  <2>4. virtio_irq(31) < GIC_NUM_IRQS
    BY SMT DEF virtio_irq, GIC_NUM_IRQS
  <2>5. \A i \in DOMAIN m.dev : m.dev[i].base + m.dev[i].size <= SYSRAM \/ m.dev[i].base >= ECAM
    <3>1. \A i \in DOMAIN m.dev : m.dev[i] \in Clear
      BY <2>21
    <3> QED BY <3>1, Zenon DEF Clear
  <2>6. DOMAIN fixed_devices = 1 .. 7
    BY FixedTable
  <2> QED BY <2>1, <2>2, <2>3, <2>4, <2>5, <2>6, Zenon DEF SlotsRight, Kind
<1> QED BY <1>2, <1>6, <1>7, Zenon DEF FirmwareExact

\* The flash keeps every byte old or new whenever a reset strikes, an operation
\* that ends has exactly its effect, and a bank in read-array mode reads as its
\* array whatever the other does (flash_cfi_write, flash_cfi_read,
\* flash_cfi_reset), for any bank, block and page size and any driver offsets.
THEOREM FlashAlwaysSound == Spec => []FlashSound
<1>1. BusInv => FlashSound
  BY FlashHolds, Zenon
<1> QED BY <1>1, BusSafe, PTL

\* The firmware finds the boot image after every reset, the fw_cfg items byte by
\* byte however port reads and DMA are mixed (fwcfg_read, do_dma), and every
\* virtio slot of every configuration answered by its device (platform_build).
THEOREM FirmwareAlwaysExact == Spec => []FirmwareExact
<1>1. BusInv => FirmwareExact
  BY FirmwareHolds, Zenon
<1> QED BY <1>1, BusSafe, PTL

\* No step programs bytes of a flash page and leaves its translations: only an
\* erase changes a page with translations that stay (flash_program).
THEOREM ProgramsDropCode == Spec => ProgramDropsCode
<1> DEFINE P == \A a \in FlashBytes :
          a \div PAGE \in m.code /\ a \div PAGE \in m'.code => m'.flash[a] \in {m.flash[a], Erased}
<1>1. BusInv /\ [Next]_vars => [P]_vars
  BY NextGood, Zenon DEF Good, CodeGood
<1>2. Spec => [][P]_vars
  BY <1>1, BusSafe, PTL DEF Spec
<1> QED BY <1>2, Zenon DEF ProgramDropsCode
=============================================================================
