------------------------------- MODULE BusGuest -------------------------------
(***************************************************************************)
(* Firmware on the bus: a variable-store driver working on the flash the   *)
(* way EDK2 does, or a loader reading fw_cfg items through the data port   *)
(* and by DMA, reset at any point, with the translator taking code from    *)
(* flash pages.  g is what the guest knows:                                *)
(*                                                                         *)
(*   todo      the writes left of the flash operation in progress          *)
(*   arr       the banks it left in read-array mode                        *)
(*   back      the bank the operation in progress returns to that mode     *)
(*   before    the flash before that operation, after what it makes of it  *)
(*   sel, pos  the item selected and the bytes taken from it since         *)
(*   ram       what the guest put into RAM and asked the device to put     *)
(*   booting   nothing has been done since power-on or the last reset      *)
(***************************************************************************)
EXTENDS FwCfg

CONSTANTS
    Plans,      \* [kind, image, devs]: what this machine does
    Offsets,    \* the flash offsets the driver works on
    DataBytes,  \* the bytes it programs
    Targets,    \* the RAM cells the loader has items copied to
    MaxOps,     \* flash operations, MaxPos item bytes, MaxResets resets
    MaxPos,
    MaxResets

\* The driver stays within a bank; RAM lies above the flash and the registers
\* of fw_cfg above RAM; the device tree and what the loader copies fit in RAM,
\* which ends with the cell for its descriptor; no item is read to the offset's
\* limit; the plan "map" has a device table of the platform, the others have
\* fw_cfg in theirs.
ASSUME BusAssumption ==
    /\ 0 \in Bits /\ DataBytes \subseteq Byte
    /\ \A off \in Offsets : {off, off + 1} \subseteq FlashBytes /\ Bank(off + 1) = Bank(off)
    /\ {RAM_BASE, RAM_SIZE, FWCFG_BASE, HalfAddr, MaxOps, MaxPos, MaxResets} \subseteq Nat
    /\ 2 * FLASH_BANK <= RAM_BASE /\ RAM_BASE + RAM_SIZE <= FWCFG_BASE
    /\ DTB \in Seq(Byte) /\ Len(DTB) \in 1 .. RAM_SIZE - 1
    /\ \A t \in Targets : t \in Nat /\ t + 2 < RAM_SIZE
    /\ OffMod \in Nat /\ 2 <= MaxPos /\ MaxPos + 2 < OffMod
    /\ DOMAIN Items \subseteq Nat /\ \A k \in DOMAIN Items : Items[k] \in Seq(Byte)
    /\ \A p \in Plans :
          /\ p.image \in [FlashBytes -> Byte]
          /\ p.kind = "map" => \E c \in Configs : p.devs = platform_build(c)
          /\ p.kind # "map" => \A off \in {0, 8, 16, 20} :
                find_dev(p.devs, FWCFG_BASE + off) = Dev(FWCFG_BASE, 24, "fw-cfg")

VARIABLES m, g, plan

vars == <<m, g, plan>>

Fresh(n) == [todo |-> <<>>, before |-> n.flash, after |-> n.flash, sel |-> 0, pos |-> 0,
             ram |-> n.ram, booting |-> TRUE, arr |-> {0, 1}, back |-> {}]

Init == \E p \in Plans :
    /\ plan = [kind |-> p.kind, ops |-> 0, resets |-> 0]
    /\ m = machine_init(p.image, p.devs)
    /\ g = Fresh(m)

-----------------------------------------------------------------------------
(* The flash driver: a sequence of writes per operation.                   *)

W(off, b) == [off |-> off, val |-> <<b>>]

Programmed(f, off, data) ==
    [a \in FlashBytes |-> IF a \in Covered(off, Len(data)) THEN f[a] \cap data[a - off + 1] ELSE f[a]]
Wiped(f, off) == [a \in FlashBytes |-> IF a \in BlockOf(off) THEN Erased ELSE f[a]]

Begin(todo, after, back) ==
    /\ plan.kind = "flash" /\ plan.ops < MaxOps /\ g.todo = <<>>
    /\ g' = [g EXCEPT !.todo = todo, !.before = m.flash, !.after = after, !.booting = FALSE,
                      !.arr = @ \ {Bank(todo[1].off)}, !.back = back]
    /\ plan' = [plan EXCEPT !.ops = @ + 1]
    /\ UNCHANGED m

WriteWord == \E off \in Offsets, b \in DataBytes :
    Begin(<<W(off, Cmd["word"]), W(off, b)>>, Programmed(m.flash, off, <<b>>), {})

\* Two bytes through the write buffer, its count being one less.
WriteBuffer == \E off \in Offsets, b, c \in DataBytes :
    Begin(<<W(off, Cmd["buffer"]), W(off, {0}), W(off, b), W(off + 1, c), W(off, Cmd["confirm"])>>,
          Programmed(m.flash, off, <<b, c>>), {})

EraseBlock == \E off \in Offsets :
    Begin(<<W(off, Cmd["erase"]), W(off, Cmd["confirm"])>>, Wiped(m.flash, off), {})

\* Reads the identifier, the query table or the status, and returns to the array.
Query == \E off \in Offsets, c \in {"id", "cfi", "status"} :
    Begin(<<W(off, Cmd[c]), W(off, Cmd["array"])>>, m.flash, {Bank(off)})

ReadArray == \E off \in Offsets : Begin(<<W(off, Cmd["array"])>>, m.flash, {Bank(off)})

DriverStep ==
    /\ g.todo # <<>>
    /\ m' = phys_write(m, g.todo[1].off, 1, g.todo[1].val)
    /\ g' = [g EXCEPT !.todo = Tail(@), !.arr = IF Len(g.todo) = 1 THEN @ \cup g.back ELSE @]
    /\ UNCHANGED plan

-----------------------------------------------------------------------------
(* The loader.                                                             *)

Loads == plan.kind = "fwcfg"
Sel(k) == [g EXCEPT !.sel = k, !.pos = 0, !.booting = FALSE]

\* The bytes of item k from pos on, as if it went on in zeros.
Padded(k) == (IF k \in DOMAIN Items THEN Items[k] ELSE <<>>) \o [i \in 1 .. 2 * MaxPos |-> Zero]
Expected(k, pos, n) == SubSeq(Padded(k), pos + 1, pos + n)

SelectItem == \E k \in DOMAIN Items \cup {99} :
    /\ Loads
    /\ m' = phys_write(m, FWCFG_BASE + 8, 2, k) /\ g' = Sel(k) /\ UNCHANGED plan

ReadData == \E n \in {1, 2} :
    /\ Loads /\ g.pos + n <= MaxPos
    /\ m' = phys_read(m, FWCFG_BASE, n).m
    /\ g' = [g EXCEPT !.pos = @ + n, !.booting = FALSE] /\ UNCHANGED plan

\* What a descriptor asks for, as the guest sees it: m.ram at the targets.
AfterDma(d) ==
    LET s == IF d.sel THEN Sel(d.key) ELSE [g EXCEPT !.booting = FALSE]
        in(a) == d.op = "read" /\ a + RAM_BASE \in Covered(d.target, d.len)
    IN  [s EXCEPT !.pos = @ + d.len,
                  !.ram = [a \in RamBytes |-> IF in(a) THEN Padded(s.sel)[s.pos + a + RAM_BASE - d.target + 1]
                                              ELSE @[a]]]

Descs == {[op |-> op, sel |-> s, key |-> k, len |-> n, target |-> RAM_BASE + t] :
              op \in {"read", "skip", "write"}, s \in BOOLEAN, k \in DOMAIN Items, n \in {0, 2}, t \in Targets}

\* Sets up a descriptor in the last cell of RAM and starts the transfer, with
\* one register write or two.
Dma == \E d \in Descs, whole \in BOOLEAN :
    LET cell == RAM_SIZE - 1
        ready == [m EXCEPT !.desc[cell] = d]
        hi == phys_write(ready, FWCFG_BASE + 16, 4, 0)
    IN  /\ Loads /\ (IF d.sel THEN 0 ELSE g.pos) + d.len <= MaxPos
        /\ m' = IF whole THEN phys_write(ready, FWCFG_BASE + 16, 8, RAM_BASE + cell)
                         ELSE phys_write(hi, FWCFG_BASE + 20, 4, RAM_BASE + cell)
        /\ g' = AfterDma(d) /\ UNCHANGED plan

\* The running system reuses its memory.
Scribble == \E t \in Targets \cup {0} :
    /\ Loads
    /\ m' = phys_write(m, RAM_BASE + t, 1, <<Erased>>)
    /\ g' = [g EXCEPT !.ram[t] = Erased, !.booting = FALSE] /\ UNCHANGED plan

-----------------------------------------------------------------------------
Reset ==
    /\ plan.resets < MaxResets
    /\ m' = machine_reset(m)
    /\ g' = [Fresh(m') EXCEPT !.ram = [a \in RamBytes |-> IF a < Len(DTB) THEN DTB[a + 1] ELSE g.ram[a]]]
    /\ plan' = [plan EXCEPT !.resets = @ + 1]

\* The translator takes code from a flash page in read-array mode.
Translate == \E a \in Offsets :
    /\ plan.kind = "flash" /\ m.cfi[Bank(a)].mode = "array"
    /\ m' = [m EXCEPT !.code = @ \cup Pages(a, 1)] /\ UNCHANGED <<g, plan>>

Next == WriteWord \/ WriteBuffer \/ EraseBlock \/ Query \/ ReadArray \/ DriverStep
            \/ SelectItem \/ ReadData \/ Dma \/ Scribble \/ Reset \/ Translate

Spec == Init /\ [][Next]_vars

-----------------------------------------------------------------------------
(* Properties.                                                             *)

Keys == DOMAIN Items \cup {0, 99}

Cfis == [mode : {"array", "status", "id", "cfi"},
         prog : {"none", "word", "erase", "bufcnt", "bufdata", "bufconf"}, cnt : Nat, seen : Nat]

Buses == [ram : [RamBytes -> Byte], desc : [RamBytes -> Descs \cup {NoDesc}],
          flash : [FlashBytes -> Byte], cfi : [{0, 1} -> Cfis], code : SUBSET Nat,
          dev : {p.devs : p \in Plans}, fw : [sel : Keys, off : 0 .. (OffMod - 1), hi : Nat],
          bus : {"ok", "fault"}]

Writes == [off : FlashBytes, val : Seq(Byte)]

Guests == [todo : Seq(Writes), before : [FlashBytes -> Byte], after : [FlashBytes -> Byte],
           sel : Keys, pos : 0 .. MaxPos, ram : [RamBytes -> Byte], booting : BOOLEAN,
           arr : SUBSET {0, 1}, back : SUBSET {0, 1}]

(* Type correctness of the machine, the flash state machines and the       *)
(* fw_cfg cursor included, and of what the guest knows.                    *)
TypeOK ==
    /\ m \in Buses /\ g \in Guests
    /\ \A b \in {0, 1} : m.cfi[b].seen <= m.cfi[b].cnt

(* The variable store survives resets: whatever flash operations are cut   *)
(* off by a reset between two writes, each byte holds its old or its new   *)
(* value and no byte outside the operation changes; an operation that runs *)
(* to its end has exactly its effect, also the first one after a reset     *)
(* that cut another off (memory.c flash_cfi_write, flash_cfi_reset).       *)
FlashExact ==
    /\ \A a \in FlashBytes : m.flash[a] \in {g.before[a], g.after[a]}
    /\ g.todo = <<>> => m.flash = g.after

(* Code runs from one bank while the driver works on the other: a bank the *)
(* guest last put into read-array mode reads as its array at every         *)
(* address, whatever is in progress on the other (memory.c flash_cfi_read).*)
OtherBankReads ==
    \A b \in g.arr, a \in FlashBytes, n \in {1, 2} : Bank(a) = b /\ InFlash(a, n) =>
        phys_read(m, a, n).val = [i \in 1 .. n |-> m.flash[a + i - 1]]

(* After a reset the firmware finds what it found at power-on: the device  *)
(* tree at the base of RAM, both flash banks readable, and fw_cfg at the   *)
(* start of item 0 (platform.c machine_reset).                             *)
BootImage ==
    g.booting =>
        /\ phys_read(m, RAM_BASE, Len(DTB)).val = DTB
        /\ \A a \in FlashBytes : phys_read(m, a, 1).val = <<m.flash[a]>>
        /\ plan.kind # "map" => phys_read(m, FWCFG_BASE, 2).val = Expected(0, 0, 2)

(* However port reads, DMA reads, skips and selections are mixed, the next *)
(* bytes of the data port are those after the ones already taken, zero     *)
(* past the end, and RAM holds exactly what was copied into it             *)
(* (fwcfg.c do_dma, fwcfg_read).                                           *)
StreamExact ==
    /\ Loads => phys_read(m, FWCFG_BASE, 2).val = Expected(g.sel, g.pos, 2)
    /\ \A a \in RamBytes \ {RAM_SIZE - 1} : m.ram[a] = g.ram[a]

(* Every virtio slot of every configuration answers as the device attached *)
(* there or as an empty transport; interrupt numbers stay in range, the    *)
(* table fits MAX_DEVS, and no device is over RAM (platform_build).        *)
SlotsRight ==
    plan.kind = "map" =>
        \E c \in Configs :
            /\ m.dev = platform_build(c)
            /\ Len(m.dev) <= MAX_DEVS
            /\ \A i \in 0 .. 31 : find_dev(m.dev, VIRTIO + i).kind =
                   CASE i = 0 -> IF c.net THEN "virtio-net" ELSE "virtio-mmio"
                     [] i \in 1 .. c.drives -> "virtio-blk"
                     [] i \in c.drives + 1 .. c.drives + c.shares -> "virtio-9p"
                     [] i = c.drives + c.shares + 1 /\ c.console -> "virtio-console"
                     [] OTHER -> "virtio-mmio"
            /\ virtio_irq(31) < GIC_NUM_IRQS
            /\ \A i \in DOMAIN m.dev : m.dev[i].base + m.dev[i].size <= SYSRAM \/ m.dev[i].base >= ECAM
            /\ \A i \in DOMAIN fixed_devices : find_dev(m.dev, fixed_devices[i].base) = fixed_devices[i]

(* A flash page whose bytes are programmed loses its translations in the   *)
(* same step (memory.c flash_program); only an erase leaves them: its      *)
(* memset calls no jit_invalidate_phys_range (memory.c:91).                *)
ProgramDropsCode ==
    [][\A a \in FlashBytes :
          a \div PAGE \in m.code /\ a \div PAGE \in m'.code => m'.flash[a] \in {m.flash[a], Erased}]_vars

(* Both flash banks: their contents and what a read of them returns.       *)
FlashSound == TypeOK /\ FlashExact /\ OtherBankReads

(* What the firmware is given: the boot image, the device map, and the     *)
(* fw_cfg items byte by byte.                                              *)
FirmwareExact == BootImage /\ SlotsRight /\ StreamExact

================================================================================
