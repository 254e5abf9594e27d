-------------------------------- MODULE Flash ---------------------------------
(***************************************************************************)
(* The NOR flash of memory.c: two banks, each with its own Intel command   *)
(* state machine, over one array.  A byte is the set of its 1 bits, so     *)
(* programming is intersection and the erased byte is Bits; a written      *)
(* value is its sequence of bytes, least significant first, so the command *)
(* is the first of them.  The flash starts at physical address 0, so an    *)
(* offset is an address.                                                   *)
(***************************************************************************)
EXTENDS Integers, Sequences, FiniteSets, FiniteSetsExt

CONSTANTS
    Bits,           \* the bits of a byte
    FLASH_BANK,     \* bytes of a bank
    FL_BLOCK,       \* bytes of an erase block
    PAGE,           \* bytes of a page, the grain of the translated-code map
    Cmd             \* command name -> its code

ASSUME FlashFits ==
    /\ FLASH_BANK \in Nat \ {0} /\ FL_BLOCK \in Nat \ {0} /\ PAGE \in Nat \ {0}
    /\ FLASH_BANK % FL_BLOCK = 0
    /\ DOMAIN Cmd = {"array", "status", "id", "cfi", "word", "erase", "buffer", "confirm"}
    /\ \A c, d \in DOMAIN Cmd : Cmd[c] \subseteq Bits /\ (Cmd[c] = Cmd[d] => c = d)

Byte == SUBSET Bits
Erased == Bits
FlashBytes == 0 .. 2 * FLASH_BANK - 1

Ready == [mode |-> "array", prog |-> "none", cnt |-> 0, seen |-> 0]

Bank(off) == IF off >= FLASH_BANK THEN 1 ELSE 0

\* The number a byte stands for.
Num(b) == MapThenSumSet(LAMBDA i : 2^i, b)

Covered(off, n) == off .. off + n - 1
Pages(off, n) == {a \div PAGE : a \in Covered(off, n)}

\* Translations of the written bytes' pages are dropped.
jit_invalidate(m, off, n) == [m EXCEPT !.code = @ \ Pages(off, n)]

\* Mutant: translations of the programmed bytes stay.
flash_program_KeepsCode(m, off, val) ==
    [m EXCEPT !.flash =
        [a \in FlashBytes |-> IF a \in Covered(off, Len(val)) THEN @[a] \cap val[a - off + 1] ELSE @[a]]]

flash_program(m, off, val) ==
    [jit_invalidate(m, off, Len(val)) EXCEPT !.flash =
        [a \in FlashBytes |-> IF a \in Covered(off, Len(val)) THEN @[a] \cap val[a - off + 1] ELSE @[a]]]

BlockOf(off) == {a \in FlashBytes : a \div FL_BLOCK = off \div FL_BLOCK}

\* The erase wipes the block; it drops no translation.
erase_block(m, off) ==
    [m EXCEPT !.flash = [a \in FlashBytes |-> IF a \in BlockOf(off) THEN Erased ELSE @[a]]]

Phase(m, off, prog, mode) == [m EXCEPT !.cfi[Bank(off)] = [@ EXCEPT !.prog = prog, !.mode = mode]]

last_word(s) == s.seen + 1 >= s.cnt

\* A write while a program or erase is in progress.
data_phase(m, off, val) ==
    LET b == Bank(off)
        s == m.cfi[b]
    IN  CASE s.prog = "word" -> Phase(flash_program(m, off, val), off, "none", "status")
          [] s.prog = "bufcnt" ->
                [m EXCEPT !.cfi[b] = [s EXCEPT !.cnt = Num(val[1]) + 1, !.seen = 0, !.prog = "bufdata"]]
          [] s.prog = "bufdata" ->
                [flash_program(m, off, val) EXCEPT !.cfi[b] =
                    [s EXCEPT !.seen = @ + 1, !.prog = IF last_word(s) THEN "bufconf" ELSE @]]
          [] s.prog = "bufconf" ->
                IF val[1] = Cmd["confirm"] THEN Phase(m, off, "none", "status") ELSE m
          [] s.prog = "erase" ->
                IF val[1] = Cmd["confirm"] THEN Phase(erase_block(m, off), off, "none", "status") ELSE m

\* A write that starts a command; clear-status and unknown codes change nothing
\* (the status register is always ready).
command_phase(m, off, val) ==
    LET cmd == val[1]
        mode(x) == [m EXCEPT !.cfi[Bank(off)] = [@ EXCEPT !.mode = x]]
    IN  CASE cmd = Cmd["array"] -> mode("array")
          [] cmd = Cmd["status"] -> mode("status")
          [] cmd = Cmd["id"] -> mode("id")
          [] cmd = Cmd["cfi"] -> mode("cfi")
          [] cmd = Cmd["word"] -> Phase(m, off, "word", "status")
          [] cmd = Cmd["erase"] -> Phase(m, off, "erase", "status")
          [] cmd = Cmd["buffer"] -> Phase(m, off, "bufcnt", "status")
          [] OTHER -> m

flash_cfi_write(m, off, val) ==
    IF m.cfi[Bank(off)].prog = "none" THEN command_phase(m, off, val) ELSE data_phase(m, off, val)

\* The bytes a read returns outside read-array mode: the status in every even
\* byte of the access, the identifier and query tables in the even bytes of the
\* bank.  The status and the table bytes are named by negative numbers, which
\* no byte of the array has.
cfi_byte(mode, off, i) ==
    CASE mode = "status" -> IF i % 2 = 1 THEN {} ELSE {-1}
      [] mode = "id" -> IF (off + i) % 2 = 1 THEN {} ELSE {-2 - ((off % FLASH_BANK) + i) \div 2}
      [] mode = "cfi" -> IF (off + i) % 2 = 1 THEN {} ELSE {-2 - FLASH_BANK - ((off % FLASH_BANK) + i) \div 2}

flash_cfi_read(m, off, n) ==
    LET mode == m.cfi[Bank(off)].mode
    IN  [i \in 1 .. n |-> IF mode = "array" THEN m.flash[off + i - 1] ELSE cfi_byte(mode, off, i - 1)]

\* Mutant: a program or erase in flight survives the reset.
flash_cfi_reset_KeepsProg(m) == [m EXCEPT !.cfi = [b \in {0, 1} |-> [@[b] EXCEPT !.mode = "array"]]]

flash_cfi_reset(m) == [m EXCEPT !.cfi = [b \in {0, 1} |-> Ready]]
================================================================================
