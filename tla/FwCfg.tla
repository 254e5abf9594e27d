-------------------------------- MODULE FwCfg ---------------------------------
(***************************************************************************)
(* The physical bus of memory.c and the fw_cfg device of fwcfg.c behind    *)
(* it.  A machine is a record                                              *)
(*                                                                         *)
(*   [ram, desc, flash, cfi, code, dev, fw, bus]                           *)
(*                                                                         *)
(* dev is the table machine_add_device fills, [base, size, kind] entries   *)
(* in the order they were added; fw the device's [sel, off, hi]; bus the   *)
(* last_bus_status; code the pages with translations.  A fw_cfg item is a  *)
(* sequence of bytes.  A DMA descriptor, 16 bytes of guest memory, is one  *)
(* RAM cell here, read through desc: [op, sel, key, len, target], where    *)
(* NoDesc is what a zero control word says.  A register value is the       *)
(* number left once the device has undone the driver's byte swap.          *)
(* Devices other than fw_cfg have their own modules and answer here by     *)
(* their kind.                                                             *)
(***************************************************************************)
EXTENDS Flash

CONSTANTS
    RAM_BASE, RAM_SIZE,     \* where RAM is
    FWCFG_BASE,             \* where the fw_cfg registers are
    Items,                  \* selector key -> the bytes of that item
    OffMod,                 \* 2^32, the range of the item offset
    HalfAddr                \* 2^32, what the high half of a DMA address counts

Zero == {}
NoDesc == [op |-> "none", sel |-> FALSE, key |-> 0, len |-> 0, target |-> 0]
RamBytes == 0 .. RAM_SIZE - 1

BusRes(m, val) == [m |-> m, val |-> val]
Ok(m) == [m EXCEPT !.bus = "ok"]
Fault(m) == [m EXCEPT !.bus = "fault"]

InRam(pa, n) == pa >= RAM_BASE /\ pa + n <= RAM_BASE + RAM_SIZE
InFlash(pa, n) == pa + n <= 2 * FLASH_BANK

NoDev == [base |-> 0, size |-> 0, kind |-> "none"]

\* The first entry of the table whose range has the address.
find_dev(dev, pa) ==
    LET hits == {i \in DOMAIN dev : pa >= dev[i].base /\ pa < dev[i].base + dev[i].size}
    IN  IF hits = {} THEN NoDev ELSE dev[Min(hits)]

\* Bytes in RAM; a descriptor written over is none.
Stored(m, pa, val) ==
    LET hit == {a \in RamBytes : a + RAM_BASE \in Covered(pa, Len(val))}
    IN  [m EXCEPT !.ram = [a \in RamBytes |-> IF a \in hit THEN val[a + RAM_BASE - pa + 1] ELSE @[a]],
                  !.desc = [a \in RamBytes |-> IF a \in hit THEN NoDesc ELSE @[a]]]

-----------------------------------------------------------------------------
(* fw_cfg: the selected item is a byte stream, zero past its end.          *)

item_byte(key, off) == IF key \in DOMAIN Items /\ off < Len(Items[key]) THEN Items[key][off + 1] ELSE Zero

Advance(m, n) == [m EXCEPT !.fw.off = (@ + n) % OffMod]

\* Mutant: selecting an item keeps the position in the old one.
Select_KeepsOffset(m, key) == [m EXCEPT !.fw.sel = key]

Select(m, key) == [m EXCEPT !.fw.sel = key, !.fw.off = 0]

\* The data register hands out as many bytes as the access has.
fwcfg_read(m, off, n) ==
    IF off = 0
    THEN BusRes(Advance(m, n), [i \in 1 .. n |-> item_byte(m.fw.sel, (m.fw.off + i - 1) % OffMod)])
    ELSE BusRes(m, [i \in 1 .. n |-> Zero])

-----------------------------------------------------------------------------
(* The bus.  phys_write reaches a device's handler, and the fw_cfg handler *)
(* writes guest memory again, byte by byte: phys_write_dma is that second  *)
(* level, for targets outside the fw_cfg registers themselves.             *)

phys_write_dma(m, pa, val) ==
    IF InRam(pa, Len(val)) THEN Stored(Ok(m), pa, val)
    ELSE IF InFlash(pa, Len(val)) THEN flash_cfi_write(Ok(m), pa, val)
    ELSE IF find_dev(m.dev, pa) # NoDev THEN Ok(m)
    ELSE Fault(m)

\* A block write goes to RAM, over the flash array past its command set, or
\* byte by byte to whatever is there.
phys_write_blk(m, pa, val) ==
    LET n == jit_invalidate(m, pa, Len(val))
        bytes[i \in 0 .. Len(val)] == IF i = 0 THEN n ELSE phys_write_dma(bytes[i - 1], pa + i - 1, <<val[i]>>)
    IN  IF InRam(pa, Len(val)) THEN Stored(n, pa, val)
        ELSE IF InFlash(pa, Len(val))
             THEN [n EXCEPT !.flash = [a \in FlashBytes |->
                      IF a \in Covered(pa, Len(val)) THEN val[a - pa + 1] ELSE @[a]]]
        ELSE bytes[Len(val)]

\* The descriptor phys_read_blk finds: unmapped memory reads as zeros.
descriptor(m, addr) == IF InRam(addr, 1) THEN m.desc[addr - RAM_BASE] ELSE NoDesc

\* A DMA read goes byte by byte, from the item to the target.
dma_byte(m, d, i) ==
    Advance(phys_write_dma(m, d.target + i - 1, <<item_byte(m.fw.sel, m.fw.off)>>), 1)

dma_read(m, d) ==
    LET copied[i \in 0 .. d.len] == IF i = 0 THEN m ELSE dma_byte(copied[i - 1], d, i)
    IN  copied[d.len]

\* DMA: select, then copy from the item byte by byte, or advance past it
\* (writes to an item are dropped), then clear the control word.
do_dma(m, addr) ==
    LET d == descriptor(m, addr)
        s == IF d.sel THEN Select(m, d.key) ELSE m
        moved == CASE d.op = "read" -> dma_read(s, d)
                   [] d.op \in {"write", "skip"} -> Advance(s, d.len)
                   [] OTHER -> s
    IN  phys_write_blk(moved, addr, <<Zero>>)

\* The selector; the DMA address in one 8-byte write, or its high half kept
\* and the low half starting the transfer.
fwcfg_write(m, off, n, val) ==
    CASE off = 8 -> Select(m, val)
      [] off = 16 /\ n = 8 -> do_dma(m, val)
      [] off = 16 /\ n # 8 -> [m EXCEPT !.fw.hi = val]
      [] off = 20 -> do_dma(m, m.fw.hi * HalfAddr + val)
      [] OTHER -> m

fwcfg_reset(m) == [m EXCEPT !.fw = [sel |-> 0, off |-> 0, hi |-> 0]]

phys_read(m, pa, n) ==
    LET d == find_dev(m.dev, pa)
    IN  IF InRam(pa, n) THEN BusRes(Ok(m), [i \in 1 .. n |-> m.ram[pa - RAM_BASE + i - 1]])
        ELSE IF InFlash(pa, n) THEN BusRes(Ok(m), flash_cfi_read(m, pa, n))
        ELSE IF d.kind = "fw-cfg" THEN fwcfg_read(Ok(m), pa - d.base, n)
        ELSE IF d # NoDev THEN BusRes(Ok(m), [i \in 1 .. n |-> <<d.kind, pa - d.base + i - 1>>])
        ELSE BusRes(Fault(m), [i \in 1 .. n |-> Zero])

\* A guest's store of n bytes: the bytes for memory and flash, a number for a
\* register.
phys_write(m, pa, n, val) ==
    LET d == find_dev(m.dev, pa)
    IN  IF ~InRam(pa, n) /\ ~InFlash(pa, n) /\ d.kind = "fw-cfg"
        THEN fwcfg_write(Ok(m), pa - d.base, n, val)
        ELSE phys_write_dma(m, pa, val)

--------------------------------------------------------------------------------
(***************************************************************************)
(* platform.c: the device table platform_build fills, and the warm reset.  *)
(* The virt memory map is written in units of a virtio-mmio slot, 0x200    *)
(* bytes, which every range of the table starts on and all but fw_cfg's    *)
(* 0x18 bytes fill.  A configuration is [net, drives, shares, console].    *)
(***************************************************************************)
CONSTANTS
    DTB         \* the bytes of the device tree, placed at the base of RAM

MAX_DRIVES == 8
MAX_SHARES == 8
MAX_DEVS == 48
GIC_NUM_IRQS == 256

GICD == 262144      \* 0x08000000
UART == 294912      \* 0x09000000
VIRTIO == 327680    \* 0x0a000000
PCIE == 524288      \* 0x10000000
PCIE_PIO == 2064256 \* 0x3eff0000
SYSRAM == 2097152   \* 0x40000000
ECAM == 537395200   \* 0x4010000000

Configs == [net : BOOLEAN, drives : 0 .. MAX_DRIVES, shares : 0 .. MAX_SHARES, console : BOOLEAN]

Dev(base, size, kind) == [base |-> base, size |-> size, kind |-> kind]
Slot(i, kind) == Dev(VIRTIO + i, 1, kind)
If(c, d) == IF c THEN <<d>> ELSE <<>>

\* The GIC, UART, RTC and fw_cfg, and the stubs of what is not emulated.
fixed_devices == <<Dev(GICD, 128, "gicd"), Dev(GICD + 128, 128, "gicc"), Dev(UART, 8, "pl011"),
                   Dev(UART + 128, 8, "pl031"), Dev(UART + 256, 1, "fw-cfg"),
                   Dev(GICD + 256, 8, "gicv2m"), Dev(UART + 384, 8, "gpio-stub")>>

slot1_free(c) == c.drives = 0 /\ c.shares = 0 /\ ~c.console

\* Slot 0 is the network's; disks, then shares, then the console follow.  Real
\* devices come before the stubs over the same slots.
virtio_devices(c) ==
    If(c.net, Slot(0, "virtio-net"))
        \o [i \in 1 .. c.drives |-> Slot(i, "virtio-blk")]
        \o [i \in 1 .. c.shares |-> Slot(c.drives + i, "virtio-9p")]
        \o If(c.console, Slot(1 + c.drives + c.shares, "virtio-console"))
        \o If(~c.net, Slot(0, "virtio-mmio"))
        \o If(slot1_free(c), Slot(1, "virtio-mmio"))
        \o <<Dev(VIRTIO + 2, 30, "virtio-mmio")>>

platform_build(c) ==
    fixed_devices \o virtio_devices(c)
        \o <<Dev(PCIE_PIO, 128, "pcie-pio"), Dev(PCIE, PCIE_PIO - PCIE, "pcie-mmio"),
             Dev(ECAM, 524288, "pcie-ecam")>>

virtio_irq(slot) == 48 + slot

\* The bus as machine_init leaves it, with a firmware image in flash and the
\* device tree placed.
machine_init(image, devs) ==
    phys_write_blk([ram |-> [a \in RamBytes |-> Zero], desc |-> [a \in RamBytes |-> NoDesc],
                    flash |-> image, cfi |-> [b \in {0, 1} |-> Ready], code |-> {}, dev |-> devs,
                    fw |-> [sel |-> 0, off |-> 0, hi |-> 0], bus |-> "ok"],
                   RAM_BASE, DTB)

\* The bus's part of a warm reboot: fw_cfg and the flash state machines return
\* to power-on, contents stay, and the device tree is placed again.
machine_reset(m) == phys_write_blk(flash_cfi_reset(fwcfg_reset(m)), RAM_BASE, DTB)
================================================================================
