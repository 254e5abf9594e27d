------------------------------- MODULE BusFlash -------------------------------
(***************************************************************************)
(* Proofs about the bus, first part: the invariant, BusInv, and what a     *)
(* write of the flash driver does to it.  BusInv says where the operation  *)
(* in progress is: which of its writes are left, what the state machine of *)
(* its bank expects next and how much of the array has changed (FlashOp),  *)
(* while the other bank is quiet.  That is what makes the array old or new *)
(* byte by byte when a reset strikes between any two writes (Torn).  The   *)
(* rest relates RAM, the fw_cfg cursor and the state at a boot to what the *)
(* guest knows.                                                            *)
(***************************************************************************)
EXTENDS BusGuest, TLAPS

-----------------------------------------------------------------------------
(* The invariant *)

\* The program or erase in progress: none, or p on the bank of off.
Quiet(k) == \A b \in {0, 1} : k.cfi[b].prog = "none"

At(k, off, p) == k.cfi[Bank(off)].prog = p /\ k.cfi[1 - Bank(off)].prog = "none"

\* The writes left of an operation, with the state the bank is in and what the
\* array holds before the next of them: x is the driver's knowledge.
Left(x, todo, back) == x.todo = todo /\ x.back = back

Done(k, x) == x.todo = <<>> /\ Quiet(k) /\ k.flash = x.after

Asking(k, x, off, c) ==
  /\ Left(x, <<W(off, Cmd[c]), W(off, Cmd["array"])>>, {Bank(off)})
  /\ Quiet(k) /\ k.flash = x.before /\ x.after = x.before

Returning(k, x, off) ==
  /\ Left(x, <<W(off, Cmd["array"])>>, {Bank(off)})
  /\ Quiet(k) /\ k.flash = x.before /\ x.after = x.before

Erase2(k, x, off) ==
  /\ Left(x, <<W(off, Cmd["erase"]), W(off, Cmd["confirm"])>>, {})
  /\ Quiet(k) /\ k.flash = x.before /\ x.after = Wiped(x.before, off)

Erase1(k, x, off) ==
  /\ Left(x, <<W(off, Cmd["confirm"])>>, {})
  /\ At(k, off, "erase") /\ k.flash = x.before /\ x.after = Wiped(x.before, off)

Word2(k, x, off, b) ==
  /\ Left(x, <<W(off, Cmd["word"]), W(off, b)>>, {})
  /\ Quiet(k) /\ k.flash = x.before /\ x.after = Programmed(x.before, off, <<b>>)

Word1(k, x, off, b) ==
  /\ Left(x, <<W(off, b)>>, {})
  /\ At(k, off, "word") /\ k.flash = x.before /\ x.after = Programmed(x.before, off, <<b>>)

Buffer5(k, x, off, b, c) ==
  /\ Left(x, <<W(off, Cmd["buffer"]), W(off, {0}), W(off, b), W(off + 1, c), W(off, Cmd["confirm"])>>, {})
  /\ Quiet(k) /\ k.flash = x.before /\ x.after = Programmed(x.before, off, <<b, c>>)

Buffer4(k, x, off, b, c) ==
  /\ Left(x, <<W(off, {0}), W(off, b), W(off + 1, c), W(off, Cmd["confirm"])>>, {})
  /\ At(k, off, "bufcnt") /\ k.flash = x.before /\ x.after = Programmed(x.before, off, <<b, c>>)

Buffer3(k, x, off, b, c) ==
  /\ Left(x, <<W(off, b), W(off + 1, c), W(off, Cmd["confirm"])>>, {})
  /\ At(k, off, "bufdata") /\ k.cfi[Bank(off)].cnt = 2 /\ k.cfi[Bank(off)].seen = 0
  /\ k.flash = x.before /\ x.after = Programmed(x.before, off, <<b, c>>)

Buffer2(k, x, off, b, c) ==
  /\ Left(x, <<W(off + 1, c), W(off, Cmd["confirm"])>>, {})
  /\ At(k, off, "bufdata") /\ k.cfi[Bank(off)].cnt = 2 /\ k.cfi[Bank(off)].seen = 1
  /\ k.flash = Programmed(x.before, off, <<b>>) /\ x.after = Programmed(x.before, off, <<b, c>>)

Buffer1(k, x, off) ==
  /\ Left(x, <<W(off, Cmd["confirm"])>>, {})
  /\ At(k, off, "bufconf") /\ k.flash = x.after

FlashOp(k, x) ==
  \/ Done(k, x)
  \/ \E off \in Offsets :
       /\ Bank(off) \notin x.arr
       /\ \/ \E c \in {"id", "cfi", "status"} : Asking(k, x, off, c)
          \/ Returning(k, x, off)
          \/ Erase2(k, x, off)
          \/ Erase1(k, x, off)
          \/ \E b \in DataBytes : Word2(k, x, off, b) \/ Word1(k, x, off, b)
          \/ \E b, c \in DataBytes : \/ Buffer5(k, x, off, b, c)
                                    \/ Buffer4(k, x, off, b, c)
                                    \/ Buffer3(k, x, off, b, c)
                                    \/ Buffer2(k, x, off, b, c)
          \/ Buffer1(k, x, off)

\* The parts of the invariant, of a machine k and the guest's knowledge x.
Torn(k, x) ==
  /\ \A a \in FlashBytes : k.flash[a] \in {x.before[a], x.after[a]}
  /\ \A b \in {0, 1} : k.cfi[b].seen <= k.cfi[b].cnt

FlashGood(k, x) ==
  /\ FlashOp(k, x) /\ Torn(k, x)
  /\ \A b \in x.arr : k.cfi[b].mode = "array"

RamGood(k, x) == \A a \in RamBytes \ {RAM_SIZE - 1} : k.ram[a] = x.ram[a]

StreamGood(k, x) == k.fw.sel = x.sel /\ k.fw.off = x.pos

BootGood(k, x) ==
  x.booting => /\ x.todo = <<>>
               /\ \A a \in RamBytes : a < Len(DTB) => k.ram[a] = DTB[a + 1]
               /\ \A b \in {0, 1} : k.cfi[b].mode = "array"
               /\ k.fw.sel = 0 /\ k.fw.off = 0

BusInv ==
  /\ m \in Buses /\ g \in Guests
  /\ DOMAIN plan = {"kind", "ops", "resets"}
  /\ \E p \in Plans : m.dev = p.devs /\ plan.kind = p.kind
  /\ plan.kind # "flash" => g.todo = <<>>
  /\ FlashGood(m, g) /\ RamGood(m, g) /\ StreamGood(m, g) /\ BootGood(m, g)

-----------------------------------------------------------------------------
(* The flash *)

\* What a write to the flash leaves alone.
Kept(k, n) == n \in Buses /\ n.ram = k.ram /\ n.fw = k.fw /\ n.dev = k.dev

\* The other bank's state machine.
Other(k, n, off) == n.cfi[1 - Bank(off)] = k.cfi[1 - Bank(off)]

\* There are two banks, the one of an offset and the other.
LEMMA Banks ==
  ASSUME NEW off
  PROVE  Bank(off) \in {0, 1} /\ 1 - Bank(off) \in {0, 1} /\ Bank(off) # 1 - Bank(off)
         /\ \A b \in {0, 1} : b = Bank(off) \/ b = 1 - Bank(off)
BY DEF Bank

\* A successful access changes only the bus status.
LEMMA OkKeeps ==
  ASSUME NEW k \in Buses
  PROVE  Kept(k, Ok(k)) /\ Ok(k).flash = k.flash /\ Ok(k).cfi = k.cfi /\ Ok(k).code = k.code
         /\ Ok(k).desc = k.desc
BY Zenon DEF Ok, Buses, Kept

\* A write to the flash goes to the command state machine of its bank.
LEMMA FlashWrite ==
  ASSUME NEW k, NEW off \in FlashBytes, NEW b
  PROVE  phys_write(k, off, 1, <<b>>) = flash_cfi_write(Ok(k), off, <<b>>)
<1>1. Len(<<b>>) = 1 /\ InFlash(off, 1) /\ ~InRam(off, 1)
  BY FlashFits, BusAssumption, SMTT(60) DEF FlashBytes, InFlash, InRam
<1> QED BY <1>1, Zenon DEF phys_write, phys_write_dma

\* n differs from k in the state and the mode of one bank.
Moves(k, n, off, p, q) ==
  /\ Kept(k, n) /\ Other(k, n, off) /\ n.flash = k.flash /\ n.code = k.code
  /\ n.cfi[Bank(off)] = [k.cfi[Bank(off)] EXCEPT !.prog = p, !.mode = q]

\* Entering a phase of a command changes only the state machine of the bank.
LEMMA PhaseKeeps ==
  ASSUME NEW k \in Buses, NEW off,
         NEW p \in {"none", "word", "erase", "bufcnt", "bufdata", "bufconf"},
         NEW q \in {"array", "status", "id", "cfi"}
  PROVE  Moves(k, Phase(k, off, p, q), off, p, q)
<1> DEFINE b == Bank(off)
<1>1. b \in {0, 1} /\ 1 - b \in {0, 1} /\ b # 1 - b
  BY Banks, Zenon
<1> HIDE DEF b
<1>2. Phase(k, off, p, q) = [k EXCEPT !.cfi = [k.cfi EXCEPT ![b] = [k.cfi[b] EXCEPT !.prog = p, !.mode = q]]]
  BY <1>1, Zenon DEF Phase, b, Buses, Cfis
<1> DEFINE y == [k.cfi[b] EXCEPT !.prog = p, !.mode = q]
           z == [k.cfi EXCEPT ![b] = y]
<1>3. y \in Cfis
  <2> DEFINE x == k.cfi[b]
  <2>1. x \in Cfis
    BY <1>1, Zenon DEF Buses
  <2> HIDE DEF x
  <2>2. [x EXCEPT !.prog = p, !.mode = q] \in Cfis
    BY <2>1, Zenon DEF Cfis
  <2> QED BY <2>2, Zenon DEF x
<1> HIDE DEF y
<1>4. z \in [{0, 1} -> Cfis] /\ z[b] = y /\ z[1 - b] = k.cfi[1 - b]
  BY <1>1, <1>3, Zenon DEF Buses
<1>5. Phase(k, off, p, q) = [k EXCEPT !.cfi = z]
  BY <1>2, Zenon DEF y
<1> HIDE DEF z
<1> QED BY <1>4, <1>5, ZenonT(60) DEF Moves, Kept, Other, Buses, b, y

\* The state a command leads to.
AfterCmd(c) == CASE c \in {"word", "erase"} -> c [] c = "buffer" -> "bufcnt" [] OTHER -> "none"

ModeAfter(c) == IF c \in {"array", "id", "cfi"} THEN c ELSE "status"

\* The start of a command.
LEMMA CommandWrite ==
  ASSUME NEW k \in Buses, NEW off, k.cfi[Bank(off)].prog = "none",
         NEW c \in {"array", "status", "id", "cfi", "word", "erase", "buffer"}
  PROVE  Moves(k, flash_cfi_write(k, off, <<Cmd[c]>>), off, AfterCmd(c), ModeAfter(c))
<1> DEFINE b == Bank(off)
           val == <<Cmd[c]>>
<1>1. b \in {0, 1} /\ val[1] = Cmd[c]
  BY Banks, Zenon
<1>2. flash_cfi_write(k, off, val) = command_phase(k, off, val)
  BY Zenon DEF flash_cfi_write
<1>3. \A d \in {"array", "status", "id", "cfi", "word", "erase", "buffer"} : val[1] = Cmd[d] <=> c = d
  BY <1>1, FlashFits, ZenonT(60)
<1> HIDE DEF val
<1>4. ASSUME NEW q \in {"array", "status", "id", "cfi"}
      PROVE  [k EXCEPT !.cfi[Bank(off)] = [@ EXCEPT !.mode = q]] = Phase(k, off, "none", q)
  <2> DEFINE x == k.cfi[Bank(off)]
  <2>1. x \in Cfis /\ x.prog = "none"
    BY <1>1, Zenon DEF Buses
  <2> HIDE DEF x
  <2>2. [x EXCEPT !.mode = q] = [x EXCEPT !.prog = "none", !.mode = q]
    BY <2>1, Zenon DEF Cfis
  <2>3. k.cfi[Bank(off)] = x
    BY Zenon DEF x
  <2> QED BY <2>2, <2>3, Zenon DEF Phase
<1>5. command_phase(k, off, val) = Phase(k, off, AfterCmd(c), ModeAfter(c))
  <2>1. CASE c \in {"array", "status", "id", "cfi"}
    <3>1. command_phase(k, off, val) = [k EXCEPT !.cfi[Bank(off)] = [@ EXCEPT !.mode = c]]
      BY <1>3, <2>1, Zenon DEF command_phase
    <3>2. AfterCmd(c) = "none" /\ ModeAfter(c) = c
      BY <2>1, Zenon DEF AfterCmd, ModeAfter
    <3> QED BY <1>4, <2>1, <3>1, <3>2, Zenon
  <2>2. CASE c = "word"
    BY <1>3, <2>2, Zenon DEF command_phase, AfterCmd, ModeAfter
  <2>3. CASE c = "erase"
    BY <1>3, <2>3, Zenon DEF command_phase, AfterCmd, ModeAfter
  <2>4. CASE c = "buffer"
    BY <1>3, <2>4, Zenon DEF command_phase, AfterCmd, ModeAfter
  <2> QED BY <2>1, <2>2, <2>3, <2>4, Zenon
<1>6. /\ AfterCmd(c) \in {"none", "word", "erase", "bufcnt", "bufdata", "bufconf"}
      /\ ModeAfter(c) \in {"array", "status", "id", "cfi"}
  BY Zenon DEF AfterCmd, ModeAfter
<1> QED BY <1>2, <1>5, <1>6, PhaseKeeps, Zenon DEF val

\* Programming a byte clears bits of it and drops the translations of its page.
LEMMA ProgramWrite ==
  ASSUME NEW k \in Buses, NEW off \in FlashBytes, NEW b \in Byte
  PROVE  LET n == flash_program(k, off, <<b>>)
         IN  /\ Kept(k, n) /\ n.cfi = k.cfi /\ n.flash = Programmed(k.flash, off, <<b>>)
             /\ n.code = k.code \ {off \div PAGE}
<1> DEFINE val == <<b>>
           f == Programmed(k.flash, off, val)
           j == jit_invalidate(k, off, Len(val))
<1>1. Len(val) = 1 /\ val[1] = b /\ Covered(off, Len(val)) = {off}
  BY DEF Covered, FlashBytes
<1>2. ASSUME NEW a \in FlashBytes PROVE f[a] = IF a = off THEN k.flash[a] \cap b ELSE k.flash[a]
  <2>1. off - off + 1 = 1 /\ (a \in Covered(off, Len(val)) <=> a = off)
    BY <1>1 DEF FlashBytes
  <2> HIDE DEF val
  <2> QED BY <1>1, <2>1, Zenon DEF Programmed
<1>3. f \in [FlashBytes -> Byte]
  <2>1. \A a \in FlashBytes : k.flash[a] \in Byte
    BY Zenon DEF Buses
  <2>2. \A a \in FlashBytes : f[a] \in Byte
    BY <1>2, <2>1, Zenon DEF Byte
  <2>3. f = [a \in FlashBytes |-> f[a]]
    BY Zenon DEF Programmed
  <2> HIDE DEF f
  <2> QED BY <2>2, <2>3, Zenon
<1>4. j = [k EXCEPT !.code = @ \ Pages(off, 1)] /\ Pages(off, 1) = {off \div PAGE}
  BY <1>1, Zenon DEF jit_invalidate, Pages, Covered
<1>5. j \in Buses /\ Kept(k, j) /\ j.code = k.code \ {off \div PAGE} /\ j.cfi = k.cfi /\ j.flash = k.flash
  BY <1>4, ZenonT(60) DEF Buses, Kept
<1> HIDE DEF j
<1>6. flash_program(k, off, val) = [j EXCEPT !.flash = f]
  BY <1>5, Zenon DEF flash_program, Programmed, j, Buses
<1> HIDE DEF f, val
<1>7. LET n == flash_program(k, off, val)
      IN  /\ Kept(j, n) /\ n.cfi = j.cfi /\ n.flash = f /\ n.code = j.code
  BY <1>3, <1>5, <1>6, ZenonT(60) DEF Buses, Kept
<1> QED BY <1>5, <1>7, Zenon DEF Kept, val, f

\* The count byte 1 is the number 1.
LEMMA NumOne == Num({0}) = 1
<1> DEFINE Ch(s) == CHOOSE x \in s : TRUE
           Sums(G) == G = [s \in SUBSET {0} |-> IF s = {} THEN 0 ELSE 2^Ch(s) + G[s \ {Ch(s)}]]
           G0 == CHOOSE G : Sums(G)
           F == [s \in SUBSET {0} |-> IF s = {} THEN 0 ELSE 1]
<1>1. SUBSET {0} = {{}, {0}} /\ Ch({0}) = 0 /\ {0} \ {0} = {}
  BY Zenon
<1>2. 2^0 = 1
  OBVIOUS
<1>3. Sums(F)
  <2>1. \A s \in SUBSET {0} : s # {} => s = {0}
    BY Zenon
  <2>2. \A s \in SUBSET {0} : s # {} => 2^Ch(s) + F[s \ {Ch(s)}] = 1
    <3>1. F[{0} \ {Ch({0})}] = 0 /\ 2^Ch({0}) = 1
      <4> HIDE DEF Ch
      <4> QED BY <1>1, <1>2, Zenon
    <3>2. 2^Ch({0}) + F[{0} \ {Ch({0})}] = 1
      BY <3>1
    <3> HIDE DEF F, Ch
    <3> QED BY <2>1, <3>2, Zenon
  <2> HIDE DEF Ch
  <2> QED BY <2>2, Zenon
<1>4. Sums(G0)
  <2> HIDE DEF Sums, F
  <2> QED BY <1>3, Zenon
<1>5. Num({0}) = G0[{0}]
  BY Zenon DEF Num, MapThenSumSet, MapThenFoldSet
<1> HIDE DEF G0, Ch
<1>6. G0[{}] = 0 /\ G0[{0}] = 2^Ch({0}) + G0[{0} \ {Ch({0})}]
  BY <1>4, Zenon
<1>7. 2^Ch({0}) = 1 /\ G0[{0} \ {Ch({0})}] = 0
  BY <1>1, <1>2, <1>6
<1> QED BY <1>5, <1>6, <1>7

\* n is k with one byte programmed, its page's translations dropped, and the
\* bank in state c.
Programs(k, n, off, b, c) ==
  /\ Kept(k, n) /\ Other(k, n, off)
  /\ n.flash = Programmed(k.flash, off, <<b>>) /\ n.code = k.code \ {off \div PAGE}
  /\ n.cfi[Bank(off)] = c

\* The data of a word program.
LEMMA WordWrite ==
  ASSUME NEW k \in Buses, NEW off \in FlashBytes, NEW b \in Byte, k.cfi[Bank(off)].prog = "word"
  PROVE  Programs(k, flash_cfi_write(k, off, <<b>>), off, b,
                  [k.cfi[Bank(off)] EXCEPT !.prog = "none", !.mode = "status"])
<1> DEFINE n == flash_program(k, off, <<b>>)
<1>1. Kept(k, n) /\ n.cfi = k.cfi /\ n.flash = Programmed(k.flash, off, <<b>>) /\ n.code = k.code \ {off \div PAGE}
  BY ProgramWrite, Zenon
<1>2. flash_cfi_write(k, off, <<b>>) = Phase(n, off, "none", "status")
  BY Zenon DEF flash_cfi_write, data_phase
<1> HIDE DEF n
<1>3. n \in Buses
  BY <1>1, Zenon DEF Kept
<1>4. Moves(n, Phase(n, off, "none", "status"), off, "none", "status")
  BY <1>3, PhaseKeeps, Zenon
<1> QED BY <1>1, <1>2, <1>4, Zenon DEF Moves, Programs, Kept, Other

\* A new state for one bank.
LEMMA BankSet ==
  ASSUME NEW k \in Buses, NEW off, NEW c \in Cfis
  PROVE  LET n == [k EXCEPT !.cfi[Bank(off)] = c]
         IN  /\ Kept(k, n) /\ Other(k, n, off) /\ n.flash = k.flash /\ n.code = k.code
             /\ n.cfi[Bank(off)] = c
<1>1. Bank(off) \in {0, 1} /\ 1 - Bank(off) \in {0, 1} /\ Bank(off) # 1 - Bank(off)
  BY Banks, Zenon
<1> QED BY <1>1, Zenon DEF Kept, Other, Buses

\* A byte of the write buffer is programmed as it comes in.
LEMMA BufferWrite ==
  ASSUME NEW k \in Buses, NEW off \in FlashBytes, NEW b \in Byte, k.cfi[Bank(off)].prog = "bufdata"
  PROVE  Programs(k, flash_cfi_write(k, off, <<b>>), off, b,
                  [k.cfi[Bank(off)] EXCEPT !.seen = @ + 1,
                      !.prog = IF k.cfi[Bank(off)].seen + 1 >= k.cfi[Bank(off)].cnt THEN "bufconf" ELSE "bufdata"])
<1> DEFINE n == flash_program(k, off, <<b>>)
           x == k.cfi[Bank(off)]
           y == [x EXCEPT !.seen = @ + 1, !.prog = IF x.seen + 1 >= x.cnt THEN "bufconf" ELSE "bufdata"]
<1>0. Bank(off) \in {0, 1}
  BY Banks, Zenon
<1>1. Kept(k, n) /\ n.cfi = k.cfi /\ n.flash = Programmed(k.flash, off, <<b>>) /\ n.code = k.code \ {off \div PAGE}
  BY ProgramWrite, Zenon
<1>2. flash_cfi_write(k, off, <<b>>) =
         [n EXCEPT !.cfi[Bank(off)] = [x EXCEPT !.seen = @ + 1, !.prog = IF last_word(x) THEN "bufconf" ELSE @]]
  BY Zenon DEF flash_cfi_write, data_phase
<1> HIDE DEF n
<1>3. n \in Buses /\ x \in Cfis /\ x.prog = "bufdata"
  BY <1>0, <1>1, Zenon DEF Kept, Buses
<1>4. [x EXCEPT !.seen = @ + 1, !.prog = IF last_word(x) THEN "bufconf" ELSE @] = y
  <2> HIDE DEF x
  <2> QED BY <1>3, Zenon DEF last_word, Cfis
<1>5. y \in Cfis
  <2> DEFINE t == x.seen + 1
             p == IF x.seen + 1 >= x.cnt THEN "bufconf" ELSE "bufdata"
  <2> HIDE DEF x
  <2>1. t \in Nat /\ p \in {"bufconf", "bufdata"}
    BY <1>3 DEF Cfis
  <2>2. y = [x EXCEPT !.seen = t, !.prog = p]
    BY <1>3, Zenon DEF Cfis
  <2> HIDE DEF t, p
  <2>3. [x EXCEPT !.seen = t, !.prog = p] \in Cfis
    BY <1>3, <2>1, Zenon DEF Cfis
  <2> QED BY <2>2, <2>3, Zenon
<1> HIDE DEF y
<1>6. LET z == [n EXCEPT !.cfi[Bank(off)] = y]
      IN  /\ Kept(n, z) /\ Other(n, z, off) /\ z.flash = n.flash /\ z.code = n.code /\ z.cfi[Bank(off)] = y
  BY <1>3, <1>5, BankSet
<1>7. flash_cfi_write(k, off, <<b>>) = [n EXCEPT !.cfi[Bank(off)] = y]
  BY <1>2, <1>4, Zenon
<1>8. Programs(k, [n EXCEPT !.cfi[Bank(off)] = y], off, b, y)
  BY <1>1, <1>6, Zenon DEF Programs, Kept, Other
<1> QED BY <1>7, <1>8, Zenon DEF y

\* The count of a buffered write: two bytes.
LEMMA CountWrite ==
  ASSUME NEW k \in Buses, NEW off, k.cfi[Bank(off)].prog = "bufcnt"
  PROVE  LET n == flash_cfi_write(k, off, <<{0}>>)
         IN  /\ Kept(k, n) /\ Other(k, n, off) /\ n.flash = k.flash /\ n.code = k.code
             /\ n.cfi[Bank(off)] = [k.cfi[Bank(off)] EXCEPT !.cnt = 2, !.seen = 0, !.prog = "bufdata"]
<1> DEFINE x == k.cfi[Bank(off)]
           y == [x EXCEPT !.cnt = 2, !.seen = 0, !.prog = "bufdata"]
<1>0. Bank(off) \in {0, 1} /\ <<{0}>>[1] = {0} /\ Num({0}) + 1 = 2
  BY Banks, NumOne
<1>1. x \in Cfis
  BY <1>0, Zenon DEF Buses
<1>2. flash_cfi_write(k, off, <<{0}>>) = [k EXCEPT !.cfi[Bank(off)] = y]
  <2>1. flash_cfi_write(k, off, <<{0}>>) =
          [k EXCEPT !.cfi[Bank(off)] = [x EXCEPT !.cnt = Num(<<{0}>>[1]) + 1, !.seen = 0, !.prog = "bufdata"]]
    BY <1>0, Zenon DEF flash_cfi_write, data_phase, Buses
  <2> QED BY <1>0, <2>1, Zenon
<1>3. y \in Cfis
  <2> HIDE DEF x
  <2> QED BY <1>1, Zenon DEF Cfis
<1> HIDE DEF y
<1>4. LET n == [k EXCEPT !.cfi[Bank(off)] = y]
      IN  /\ Kept(k, n) /\ Other(k, n, off) /\ n.flash = k.flash /\ n.code = k.code /\ n.cfi[Bank(off)] = y
  BY <1>3, BankSet
<1> QED BY <1>2, <1>4, Zenon DEF y

\* The confirmation that ends a buffered write.
LEMMA ConfirmWrite ==
  ASSUME NEW k \in Buses, NEW off, k.cfi[Bank(off)].prog = "bufconf"
  PROVE  Moves(k, flash_cfi_write(k, off, <<Cmd["confirm"]>>), off, "none", "status")
<1>1. flash_cfi_write(k, off, <<Cmd["confirm"]>>) = Phase(k, off, "none", "status")
  BY Zenon DEF flash_cfi_write, data_phase
<1> QED BY <1>1, PhaseKeeps, Zenon

\* The confirmation of an erase, which wipes the block and drops no translation.
LEMMA EraseWrite ==
  ASSUME NEW k \in Buses, NEW off, k.cfi[Bank(off)].prog = "erase"
  PROVE  LET n == flash_cfi_write(k, off, <<Cmd["confirm"]>>)
         IN  /\ Kept(k, n) /\ Other(k, n, off) /\ n.flash = Wiped(k.flash, off) /\ n.code = k.code
             /\ n.cfi[Bank(off)] = [k.cfi[Bank(off)] EXCEPT !.prog = "none", !.mode = "status"]
<1> DEFINE n == erase_block(k, off)
           f == Wiped(k.flash, off)
<1>1. f \in [FlashBytes -> Byte]
  BY Zenon DEF Wiped, Erased, Byte, Buses
<1>2. n = [k EXCEPT !.flash = f]
  BY Zenon DEF erase_block, Wiped, Buses
<1>3. flash_cfi_write(k, off, <<Cmd["confirm"]>>) = Phase(n, off, "none", "status")
  BY Zenon DEF flash_cfi_write, data_phase
<1> HIDE DEF n, f
<1>4. Kept(k, n) /\ n.flash = f /\ n.cfi = k.cfi /\ n.code = k.code
  BY <1>1, <1>2, Zenon DEF Kept, Buses
<1>5. n \in Buses
  BY <1>4, Zenon DEF Kept
<1>6. Moves(n, Phase(n, off, "none", "status"), off, "none", "status")
  BY <1>5, PhaseKeeps, Zenon
<1> QED BY <1>3, <1>4, <1>6, Zenon DEF Moves, Kept, Other, f

\* The writes of an operation leave its list one by one.
LEMMA Tails ==
  ASSUME NEW a, NEW b, NEW c, NEW d, NEW e
  PROVE  /\ Tail(<<a>>) = <<>> /\ <<a>>[1] = a /\ Len(<<a>>) = 1
         /\ Tail(<<a, b>>) = <<b>> /\ <<a, b>>[1] = a /\ Len(<<a, b>>) = 2
         /\ Tail(<<a, b, c>>) = <<b, c>> /\ <<a, b, c>>[1] = a /\ Len(<<a, b, c>>) = 3
         /\ Tail(<<a, b, c, d>>) = <<b, c, d>> /\ <<a, b, c, d>>[1] = a /\ Len(<<a, b, c, d>>) = 4
         /\ Tail(<<a, b, c, d, e>>) = <<b, c, d, e>> /\ <<a, b, c, d, e>>[1] = a /\ Len(<<a, b, c, d, e>>) = 5
<1>1. Tail(<<a>>) = <<>> /\ <<a>>[1] = a /\ Len(<<a>>) = 1
  OBVIOUS
<1>2. Tail(<<a, b>>) = <<b>> /\ <<a, b>>[1] = a /\ Len(<<a, b>>) = 2
  OBVIOUS
<1>3. Tail(<<a, b, c>>) = <<b, c>> /\ <<a, b, c>>[1] = a /\ Len(<<a, b, c>>) = 3
  OBVIOUS
<1>4. Tail(<<a, b, c, d>>) = <<b, c, d>> /\ <<a, b, c, d>>[1] = a /\ Len(<<a, b, c, d>>) = 4
  OBVIOUS
<1>5. Tail(<<a, b, c, d, e>>) = <<b, c, d, e>> /\ <<a, b, c, d, e>>[1] = a /\ Len(<<a, b, c, d, e>>) = 5
  OBVIOUS
<1> QED BY <1>1, <1>2, <1>3, <1>4, <1>5, Zenon

-----------------------------------------------------------------------------
(* The driver's writes *)

\* The next write of the operation, and what the driver knows after it.
Write(k, x) == flash_cfi_write(k, x.todo[1].off, x.todo[1].val)

Follows(x, y) ==
  /\ y.todo = Tail(x.todo) /\ y.before = x.before /\ y.after = x.after /\ y.back = x.back
  /\ y.arr = IF Len(x.todo) = 1 THEN x.arr \cup x.back ELSE x.arr

\* A translated page that stays translated was not programmed.
CodeGood(k, n) ==
  \A a \in FlashBytes : a \div PAGE \in k.code /\ a \div PAGE \in n.code => n.flash[a] \in {k.flash[a], Erased}

Leads(k, x, n, y) == Kept(k, n) /\ FlashGood(n, y) /\ CodeGood(k, n)

\* A write to a bank leaves what the other is doing as it was.
LEMMA Busy ==
  ASSUME NEW k, NEW n, NEW off, NEW p, Quiet(k) \/ At(k, off, p), Other(k, n, off)
  PROVE  /\ Quiet(k) => k.cfi[Bank(off)].prog = "none"
         /\ At(n, off, n.cfi[Bank(off)].prog)
         /\ n.cfi[Bank(off)].prog = "none" => Quiet(n)
BY Banks DEF Quiet, At, Other

\* A write that reaches the next stage of its operation keeps the flash part of
\* the invariant.
LEMMA Carry ==
  ASSUME NEW k, NEW x \in Guests, NEW n, NEW y, NEW off, FlashGood(k, x), Bank(off) \notin x.arr,
         Other(k, n, off), Follows(x, y), FlashOp(n, y),
         n.cfi[Bank(off)].seen <= n.cfi[Bank(off)].cnt,
         x.back = {} \/ Len(x.todo) # 1 \/ (x.back = {Bank(off)} /\ n.cfi[Bank(off)].mode = "array"),
         \A a \in FlashBytes : n.flash[a] \in {x.before[a], x.after[a]}
  PROVE  FlashGood(n, y)
<1>1. \A b \in {0, 1} : n.cfi[b].seen <= n.cfi[b].cnt
  BY Banks, Zenon DEF FlashGood, Torn, Other
<1>2. ASSUME NEW b \in y.arr PROVE n.cfi[b].mode = "array"
  <2>1. b \in {0, 1}
    BY <1>2, Zenon DEF Follows, Guests
  <2>2. b = 1 - Bank(off) => b \in x.arr
    BY <1>2, Banks, Zenon DEF Follows
  <2>3. b = Bank(off) => n.cfi[b].mode = "array"
    BY <1>2, Zenon DEF Follows
  <2> QED BY <2>1, <2>2, <2>3, Banks, ZenonT(60) DEF FlashGood, Other
<1> QED BY <1>1, <1>2, Zenon DEF FlashGood, Torn, Follows

\* What holds whenever the flash and its translations are left alone.
LEMMA SameFlash ==
  ASSUME NEW k, NEW x, NEW n, FlashGood(k, x), n.flash = k.flash
  PROVE  CodeGood(k, n) /\ \A a \in FlashBytes : n.flash[a] \in {x.before[a], x.after[a]}
BY Zenon DEF FlashGood, Torn, CodeGood

\* A write that starts a command.
LEMMA CommandStep ==
  ASSUME NEW k \in Buses, NEW x, FlashGood(k, x), NEW off,
         NEW c \in {"array", "status", "id", "cfi", "word", "erase", "buffer"},
         x.todo[1] = W(off, Cmd[c]), Quiet(k)
  PROVE  LET n == Write(k, x)
         IN  /\ Kept(k, n) /\ Other(k, n, off) /\ n.flash = k.flash
             /\ n.cfi[Bank(off)].seen <= n.cfi[Bank(off)].cnt
             /\ n.cfi[Bank(off)].mode = ModeAfter(c)
             /\ At(n, off, AfterCmd(c))
             /\ AfterCmd(c) = "none" => Quiet(n)
<1> DEFINE n == Write(k, x)
<1>2. n = flash_cfi_write(k, off, <<Cmd[c]>>)
  BY DEF Write, W
<1> HIDE DEF n
<1>3. k.cfi[Bank(off)].prog = "none" /\ Bank(off) \in {0, 1}
  BY Banks, Zenon DEF Quiet
<1>4. Moves(k, n, off, AfterCmd(c), ModeAfter(c))
  BY <1>2, <1>3, CommandWrite, Zenon
<1>5. /\ n.cfi[Bank(off)].prog = AfterCmd(c) /\ n.cfi[Bank(off)].mode = ModeAfter(c)
      /\ n.cfi[Bank(off)].seen <= n.cfi[Bank(off)].cnt
  BY <1>3, <1>4 DEF Moves, FlashGood, Torn, Buses, Cfis
<1>6. Other(k, n, off)
  BY <1>4, Zenon DEF Moves
<1>7. At(n, off, n.cfi[Bank(off)].prog) /\ (n.cfi[Bank(off)].prog = "none" => Quiet(n))
  BY <1>6, Busy, Zenon
<1> QED BY <1>4, <1>5, <1>7, Zenon DEF Moves, n

\* The identifier, query or status command.
LEMMA AskStep ==
  ASSUME NEW k \in Buses, NEW x \in Guests, NEW y, FlashGood(k, x), Follows(x, y),
         NEW off \in Offsets, Bank(off) \notin x.arr,
         NEW c \in {"id", "cfi", "status"}, Asking(k, x, off, c)
  PROVE  Leads(k, x, Write(k, x), y)
<1> DEFINE n == Write(k, x)
<1>1. x.todo[1] = W(off, Cmd[c]) /\ Len(x.todo) = 2 /\ y.todo = <<W(off, Cmd["array"])>> /\ Quiet(k)
  BY Tails DEF Asking, Left, Follows
<1>2. /\ Kept(k, n) /\ Other(k, n, off) /\ n.flash = k.flash /\ Quiet(n)
      /\ n.cfi[Bank(off)].seen <= n.cfi[Bank(off)].cnt
  BY <1>1, CommandStep DEF AfterCmd
<1> HIDE DEF n
<1>3. Returning(n, y, off) /\ y.arr = x.arr
  BY <1>1, <1>2 DEF Asking, Returning, Left, Follows
<1>4. FlashOp(n, y)
  BY <1>3, Zenon DEF FlashOp
<1> QED BY <1>1, <1>2, <1>4, SameFlash, Carry, SMTT(60) DEF Leads, n

\* The return to the array.
LEMMA ReturnStep ==
  ASSUME NEW k \in Buses, NEW x \in Guests, NEW y, FlashGood(k, x), Follows(x, y),
         NEW off \in Offsets, Bank(off) \notin x.arr, Returning(k, x, off)
  PROVE  Leads(k, x, Write(k, x), y)
<1> DEFINE n == Write(k, x)
<1>1. x.todo[1] = W(off, Cmd["array"]) /\ y.todo = <<>> /\ Quiet(k) /\ x.back = {Bank(off)}
  BY Tails DEF Returning, Left, Follows
<1>2. /\ Kept(k, n) /\ Other(k, n, off) /\ n.flash = k.flash /\ Quiet(n)
      /\ n.cfi[Bank(off)].seen <= n.cfi[Bank(off)].cnt /\ n.cfi[Bank(off)].mode = "array"
  BY <1>1, CommandStep, SMTT(60) DEF AfterCmd, ModeAfter
<1> HIDE DEF n
<1>3. FlashOp(n, y)
  BY <1>1, <1>2, Zenon DEF Returning, Done, Follows, FlashOp
<1> QED BY <1>1, <1>2, <1>3, SameFlash, Carry, SMTT(60) DEF Leads, n

\* The first write of an erase.
LEMMA Erase2Step ==
  ASSUME NEW k \in Buses, NEW x \in Guests, NEW y, FlashGood(k, x), Follows(x, y),
         NEW off \in Offsets, Bank(off) \notin x.arr, Erase2(k, x, off)
  PROVE  Leads(k, x, Write(k, x), y)
<1> DEFINE n == Write(k, x)
<1>1. x.todo[1] = W(off, Cmd["erase"]) /\ y.todo = <<W(off, Cmd["confirm"])>> /\ Quiet(k) /\ Len(x.todo) = 2
  BY Tails DEF Erase2, Left, Follows
<1>2. /\ Kept(k, n) /\ Other(k, n, off) /\ n.flash = k.flash /\ At(n, off, "erase")
      /\ n.cfi[Bank(off)].seen <= n.cfi[Bank(off)].cnt
  BY <1>1, CommandStep, Zenon DEF AfterCmd
<1> HIDE DEF n
<1>3. Erase1(n, y, off) /\ y.arr = x.arr
  BY <1>1, <1>2, Zenon DEF Erase2, Erase1, Left, Follows
<1>4. FlashOp(n, y)
  BY <1>3, Zenon DEF FlashOp
<1> QED BY <1>1, <1>2, <1>4, SameFlash, Carry, SMTT(60) DEF Leads, n

\* The command of a word program.
LEMMA Word2Step ==
  ASSUME NEW k \in Buses, NEW x \in Guests, NEW y, FlashGood(k, x), Follows(x, y),
         NEW off \in Offsets, Bank(off) \notin x.arr, NEW b \in DataBytes, Word2(k, x, off, b)
  PROVE  Leads(k, x, Write(k, x), y)
<1> DEFINE n == Write(k, x)
<1>1. x.todo[1] = W(off, Cmd["word"]) /\ y.todo = <<W(off, b)>> /\ Quiet(k) /\ Len(x.todo) = 2
  BY Tails DEF Word2, Left, Follows
<1>2. /\ Kept(k, n) /\ Other(k, n, off) /\ n.flash = k.flash /\ At(n, off, "word")
      /\ n.cfi[Bank(off)].seen <= n.cfi[Bank(off)].cnt
  BY <1>1, CommandStep, ZenonT(60) DEF AfterCmd
<1> HIDE DEF n
<1>3. Word1(n, y, off, b) /\ y.arr = x.arr
  BY <1>1, <1>2, Zenon DEF Word2, Word1, Left, Follows
<1>4. FlashOp(n, y)
  BY <1>3, Zenon DEF FlashOp
<1> QED BY <1>1, <1>2, <1>4, SameFlash, Carry, SMTT(60) DEF Leads, n

\* The command of a buffered program.
LEMMA Buffer5Step ==
  ASSUME NEW k \in Buses, NEW x \in Guests, NEW y, FlashGood(k, x), Follows(x, y),
         NEW off \in Offsets, Bank(off) \notin x.arr, NEW b \in DataBytes, NEW c \in DataBytes,
         Buffer5(k, x, off, b, c)
  PROVE  Leads(k, x, Write(k, x), y)
<1> DEFINE n == Write(k, x)
<1>1. /\ x.todo[1] = W(off, Cmd["buffer"]) /\ Quiet(k) /\ Len(x.todo) = 5
      /\ y.todo = <<W(off, {0}), W(off, b), W(off + 1, c), W(off, Cmd["confirm"])>>
  BY Tails DEF Buffer5, Left, Follows
<1>2. /\ Kept(k, n) /\ Other(k, n, off) /\ n.flash = k.flash /\ At(n, off, "bufcnt")
      /\ n.cfi[Bank(off)].seen <= n.cfi[Bank(off)].cnt
  BY <1>1, CommandStep, ZenonT(60) DEF AfterCmd
<1> HIDE DEF n
<1>3. Buffer4(n, y, off, b, c) /\ y.arr = x.arr
  BY <1>1, <1>2, Zenon DEF Buffer5, Buffer4, Left, Follows
<1>4. FlashOp(n, y)
  BY <1>3, Zenon DEF FlashOp
<1> QED BY <1>1, <1>2, <1>4, SameFlash, Carry, SMTT(60) DEF Leads, n

\* Programming bytes, one at a time.
One(f, off, b) == Programmed(f, off, <<b>>)

Two(f, off, b, c) == Programmed(f, off, <<b, c>>)

IsOne(p, f, off, b) == \A a \in FlashBytes : p[a] = IF a = off THEN f[a] \cap b ELSE f[a]

IsTwo(p, f, off, b, c) ==
  \A a \in FlashBytes : p[a] = IF a = off THEN f[a] \cap b ELSE IF a = off + 1 THEN f[a] \cap c ELSE f[a]

\* What programming makes of each byte.
LEMMA ProgrammedAt ==
  ASSUME NEW f, NEW off \in FlashBytes, NEW b
  PROVE  IsOne(One(f, off, b), f, off, b)
<1> SUFFICES ASSUME NEW a \in FlashBytes
             PROVE  One(f, off, b)[a] = IF a = off THEN f[a] \cap b ELSE f[a]
  BY Zenon DEF IsOne
<1> DEFINE v == <<b>>
<1>1. (a \in Covered(off, Len(v)) <=> a = off) /\ off - off + 1 = 1 /\ v[1] = b
  BY DEF Covered, FlashBytes
<1> HIDE DEF v
<1>2. Programmed(f, off, v)[a] = IF a = off THEN f[a] \cap b ELSE f[a]
  BY <1>1, Zenon DEF Programmed
<1> QED BY <1>2, Zenon DEF v, One

\* Two bytes programmed, byte by byte.
LEMMA ProgrammedBoth ==
  ASSUME NEW f, NEW off \in FlashBytes, NEW b, NEW c
  PROVE  IsTwo(Two(f, off, b, c), f, off, b, c)
<1> SUFFICES ASSUME NEW a \in FlashBytes
             PROVE  Two(f, off, b, c)[a] =
                       IF a = off THEN f[a] \cap b ELSE IF a = off + 1 THEN f[a] \cap c ELSE f[a]
  BY Zenon DEF IsTwo
<1> DEFINE w == <<b, c>>
<1>1. /\ a \in Covered(off, Len(w)) <=> a = off \/ a = off + 1
      /\ off - off + 1 = 1 /\ (off + 1) - off + 1 = 2 /\ w[1] = b /\ w[2] = c
  BY DEF Covered, FlashBytes
<1> HIDE DEF w
<1>2. Programmed(f, off, w)[a] = IF a = off THEN f[a] \cap b ELSE IF a = off + 1 THEN f[a] \cap c ELSE f[a]
  BY <1>1, Zenon DEF Programmed
<1> QED BY <1>2, Zenon DEF w, Two

\* Programming two bytes is programming the one, then the other.
LEMMA ProgrammedTwice ==
  ASSUME NEW f, NEW off \in FlashBytes, off + 1 \in FlashBytes, NEW b, NEW c
  PROVE  Programmed(Programmed(f, off, <<b>>), off + 1, <<c>>) = Programmed(f, off, <<b, c>>)
<1> DEFINE e == One(f, off, b)
           p == One(e, off + 1, c)
           q == Two(f, off, b, c)
<1>1. IsOne(e, f, off, b) /\ IsTwo(q, f, off, b, c)
  BY ProgrammedAt, ProgrammedBoth, Zenon
<1>2. IsOne(p, e, off + 1, c)
  <2> HIDE DEF e
  <2> QED BY ProgrammedAt, Zenon
<1>4. p = [a \in FlashBytes |-> p[a]] /\ q = [a \in FlashBytes |-> q[a]]
  BY Zenon DEF Programmed, One, Two
<1>5. off # off + 1
  BY DEF FlashBytes
<1> HIDE DEF e, p, q
<1>6. \A a \in FlashBytes : p[a] = q[a]
  BY <1>1, <1>2, <1>5, Zenon DEF IsOne, IsTwo
<1>7. p = q
  BY <1>4, <1>6, Zenon
<1> QED BY <1>7, Zenon DEF p, q, e, One, Two

\* Programming one byte leaves no translation of its page.
LEMMA ProgramCode ==
  ASSUME NEW k, NEW n, NEW off \in FlashBytes, NEW b, NEW c, Programs(k, n, off, b, c)
  PROVE  CodeGood(k, n)
<1>1. n.flash = One(k.flash, off, b)
  BY Zenon DEF Programs, One
<1>2. IsOne(n.flash, k.flash, off, b)
  BY <1>1, ProgrammedAt, Zenon
<1> QED BY <1>2, Zenon DEF CodeGood, Programs, IsOne

\* The confirmation of an erase, which wipes the block.
LEMMA Erase1Step ==
  ASSUME NEW k \in Buses, NEW x \in Guests, NEW y, FlashGood(k, x), Follows(x, y),
         NEW off \in Offsets, Bank(off) \notin x.arr, Erase1(k, x, off)
  PROVE  Leads(k, x, Write(k, x), y)
<1> DEFINE n == Write(k, x)
<1>1. x.todo[1] = W(off, Cmd["confirm"]) /\ y.todo = <<>> /\ At(k, off, "erase") /\ x.back = {}
  BY Tails DEF Erase1, Left, Follows
<1>2. n = flash_cfi_write(k, off, <<Cmd["confirm"]>>) /\ k.cfi[Bank(off)].prog = "erase" /\ Bank(off) \in {0, 1}
  BY <1>1, Banks DEF Write, W, At
<1> HIDE DEF n
<1>3. /\ Kept(k, n) /\ Other(k, n, off) /\ n.flash = Wiped(k.flash, off) /\ n.code = k.code
      /\ n.cfi[Bank(off)] = [k.cfi[Bank(off)] EXCEPT !.prog = "none", !.mode = "status"]
  BY <1>2, EraseWrite, Zenon
<1>4. n.cfi[Bank(off)].prog = "none" /\ n.cfi[Bank(off)].seen <= n.cfi[Bank(off)].cnt
  <2> DEFINE d == k.cfi[Bank(off)]
  <2>1. d \in Cfis /\ d.seen <= d.cnt
    BY <1>2, Zenon DEF FlashGood, Torn, Buses
  <2> HIDE DEF d
  <2>2. n.cfi[Bank(off)] = [d EXCEPT !.prog = "none", !.mode = "status"]
    BY <1>3, Zenon DEF Programs, d
  <2> QED BY <2>1, <2>2, Zenon DEF Cfis
<1>5. Quiet(n)
  BY <1>1, <1>3, <1>4, Busy, Zenon
<1>6. n.flash = x.after /\ y.after = x.after
  BY <1>3, Zenon DEF Erase1, Follows
<1>7. FlashOp(n, y)
  BY <1>1, <1>5, <1>6, Zenon DEF Done, FlashOp
<1>8. CodeGood(k, n)
  BY <1>3, Zenon DEF CodeGood, Wiped
<1> QED BY <1>1, <1>3, <1>4, <1>6, <1>7, <1>8, Carry, Zenon DEF Leads, n

\* The data of a word program.
LEMMA Word1Step ==
  ASSUME NEW k \in Buses, NEW x \in Guests, NEW y, FlashGood(k, x), Follows(x, y),
         NEW off \in Offsets, Bank(off) \notin x.arr, NEW b \in DataBytes, Word1(k, x, off, b)
  PROVE  Leads(k, x, Write(k, x), y)
<1> DEFINE n == Write(k, x)
           c == [k.cfi[Bank(off)] EXCEPT !.prog = "none", !.mode = "status"]
<1>1. x.todo[1] = W(off, b) /\ y.todo = <<>> /\ At(k, off, "word") /\ x.back = {}
  BY Tails, SMTT(60) DEF Word1, Left, Follows
<1>2. /\ n = flash_cfi_write(k, off, <<b>>) /\ k.cfi[Bank(off)].prog = "word" /\ Bank(off) \in {0, 1}
      /\ off \in FlashBytes /\ b \in Byte
  BY <1>1, Banks, BusAssumption DEF Write, W, At
<1> HIDE DEF n
<1>3. Programs(k, n, off, b, c)
  BY <1>2, WordWrite, Zenon
<1>4. n.cfi[Bank(off)].prog = "none" /\ n.cfi[Bank(off)].seen <= n.cfi[Bank(off)].cnt
  <2> DEFINE d == k.cfi[Bank(off)]
  <2>1. d \in Cfis /\ d.seen <= d.cnt
    BY <1>2, Zenon DEF FlashGood, Torn, Buses
  <2> HIDE DEF d
  <2>2. n.cfi[Bank(off)] = [d EXCEPT !.prog = "none", !.mode = "status"]
    BY <1>3, Zenon DEF Programs, d
  <2> QED BY <2>1, <2>2, Zenon DEF Cfis
<1>5. Kept(k, n) /\ Other(k, n, off)
  BY <1>3, Zenon DEF Programs
<1>6. Quiet(n)
  BY <1>1, <1>4, <1>5, Busy, Zenon
<1>7. n.flash = x.after /\ y.after = x.after
  BY <1>3, Zenon DEF Programs, Word1, Follows
<1>8. FlashOp(n, y)
  BY <1>1, <1>6, <1>7, Zenon DEF Done, FlashOp
<1>9. CodeGood(k, n)
  BY <1>2, <1>3, ProgramCode, Zenon
<1> QED BY <1>1, <1>4, <1>5, <1>7, <1>8, <1>9, Carry, Zenon DEF Leads, n

\* The count of a buffered program.
LEMMA Buffer4Step ==
  ASSUME NEW k \in Buses, NEW x \in Guests, NEW y, FlashGood(k, x), Follows(x, y),
         NEW off \in Offsets, Bank(off) \notin x.arr, NEW b \in DataBytes, NEW c \in DataBytes,
         Buffer4(k, x, off, b, c)
  PROVE  Leads(k, x, Write(k, x), y)
<1> DEFINE n == Write(k, x)
           d == k.cfi[Bank(off)]
<1>1. /\ x.todo[1] = W(off, {0}) /\ At(k, off, "bufcnt") /\ Len(x.todo) = 4
      /\ y.todo = <<W(off, b), W(off + 1, c), W(off, Cmd["confirm"])>>
  BY Tails DEF Buffer4, Left, Follows
<1>2. n = flash_cfi_write(k, off, <<{0}>>) /\ k.cfi[Bank(off)].prog = "bufcnt" /\ d \in Cfis
  BY <1>1, Banks DEF Write, W, At, Buses
<1> HIDE DEF n
<1>3. /\ Kept(k, n) /\ Other(k, n, off) /\ n.flash = k.flash
      /\ n.cfi[Bank(off)] = [d EXCEPT !.cnt = 2, !.seen = 0, !.prog = "bufdata"]
  BY <1>2, CountWrite, Zenon
<1> HIDE DEF d
<1>4. n.cfi[Bank(off)].prog = "bufdata" /\ n.cfi[Bank(off)].cnt = 2 /\ n.cfi[Bank(off)].seen = 0
  BY <1>2, <1>3, Zenon DEF Cfis
<1>5. At(n, off, "bufdata")
  <2>1. At(n, off, n.cfi[Bank(off)].prog)
    BY <1>1, <1>3, Busy, Zenon
  <2> QED BY <1>4, <2>1, Zenon
<1>6. Buffer3(n, y, off, b, c) /\ y.arr = x.arr
  BY <1>1, <1>3, <1>4, <1>5 DEF Buffer4, Buffer3, Left, Follows
<1>7. FlashOp(n, y)
  BY <1>6, Zenon DEF FlashOp
<1>8. n.cfi[Bank(off)].seen <= n.cfi[Bank(off)].cnt
  BY <1>4
<1>9. CodeGood(k, n) /\ \A a \in FlashBytes : n.flash[a] \in {x.before[a], x.after[a]}
  BY <1>3, SameFlash, Zenon
<1>10. FlashGood(n, y)
  <2>1. x.back = {} /\ Other(k, n, off)
    BY <1>3, Zenon DEF Buffer4, Left
  <2> QED BY <1>7, <1>8, <1>9, <2>1, Carry, Zenon
<1> QED BY <1>3, <1>9, <1>10, Zenon DEF Leads, n

\* The first data write of a buffered program.
LEMMA Buffer3Step ==
  ASSUME NEW k \in Buses, NEW x \in Guests, NEW y, FlashGood(k, x), Follows(x, y),
         NEW off \in Offsets, Bank(off) \notin x.arr, NEW b \in DataBytes, NEW c \in DataBytes,
         Buffer3(k, x, off, b, c)
  PROVE  Leads(k, x, Write(k, x), y)
<1> DEFINE n == Write(k, x)
           d == k.cfi[Bank(off)]
           e == [d EXCEPT !.seen = @ + 1, !.prog = IF d.seen + 1 >= d.cnt THEN "bufconf" ELSE "bufdata"]
<1>1. /\ x.todo[1] = W(off, b) /\ At(k, off, "bufdata") /\ Len(x.todo) = 3
      /\ y.todo = <<W(off + 1, c), W(off, Cmd["confirm"])>> /\ d.cnt = 2 /\ d.seen = 0
  BY Tails DEF Buffer3, Left, Follows
<1>2. /\ n = flash_cfi_write(k, off, <<b>>) /\ d.prog = "bufdata" /\ d \in Cfis
      /\ off \in FlashBytes /\ off + 1 \in FlashBytes /\ b \in Byte
  <2>1. off \in FlashBytes /\ off + 1 \in FlashBytes /\ b \in Byte
    BY BusAssumption, Zenon
  <2>2. n = flash_cfi_write(k, off, <<b>>)
    BY <1>1 DEF Write, W
  <2>3. d.prog = "bufdata" /\ d \in Cfis
    BY <1>1, Banks, SMTT(60) DEF At, Buses
  <2> QED BY <2>1, <2>2, <2>3, Zenon
<1> HIDE DEF n
<1>3. Programs(k, n, off, b, e)
  BY <1>2, BufferWrite, Zenon
<1> HIDE DEF d
<1>4. e.prog = "bufdata" /\ e.cnt = 2 /\ e.seen = 1
  BY <1>1, <1>2 DEF Cfis
<1> HIDE DEF e
<1>5. /\ Kept(k, n) /\ Other(k, n, off) /\ n.flash = Programmed(x.before, off, <<b>>) /\ n.cfi[Bank(off)] = e
      /\ x.after = Programmed(x.before, off, <<b, c>>)
  BY <1>3, Zenon DEF Programs, Buffer3
<1>6. At(n, off, "bufdata")
  BY <1>1, <1>4, <1>5, Busy, Zenon
<1>7. Buffer2(n, y, off, b, c) /\ y.arr = x.arr
  BY <1>1, <1>4, <1>5, <1>6, Zenon DEF Buffer3, Buffer2, Left, Follows
<1>8. FlashOp(n, y)
  BY <1>7, Zenon DEF FlashOp
<1>9. IsOne(n.flash, x.before, off, b) /\ IsTwo(x.after, x.before, off, b, c)
  BY <1>2, <1>5, ProgrammedAt, ProgrammedBoth, Zenon DEF One, Two
<1>10. \A a \in FlashBytes : n.flash[a] \in {x.before[a], x.after[a]}
  BY <1>9, Zenon DEF IsOne, IsTwo
<1>11. n.cfi[Bank(off)].seen <= n.cfi[Bank(off)].cnt
  BY <1>4, <1>5, SMTT(60)
<1>12. CodeGood(k, n)
  BY <1>2, <1>3, ProgramCode, Zenon
<1>13. FlashGood(n, y)
  <2>1. x.back = {}
    BY Zenon DEF Buffer3, Left
  <2> QED BY <2>1, <1>5, <1>8, <1>10, <1>11, Carry, Zenon
<1> QED BY <1>5, <1>12, <1>13, Zenon DEF Leads, n

\* The second data write of a buffered program.
LEMMA Buffer2Step ==
  ASSUME NEW k \in Buses, NEW x \in Guests, NEW y, FlashGood(k, x), Follows(x, y),
         NEW off \in Offsets, Bank(off) \notin x.arr, NEW b \in DataBytes, NEW c \in DataBytes,
         Buffer2(k, x, off, b, c)
  PROVE  Leads(k, x, Write(k, x), y)
<1> DEFINE n == Write(k, x)
           d == k.cfi[Bank(off)]
           e == [d EXCEPT !.seen = @ + 1, !.prog = IF d.seen + 1 >= d.cnt THEN "bufconf" ELSE "bufdata"]
<1>1. /\ x.todo[1] = W(off + 1, c) /\ At(k, off, "bufdata") /\ Len(x.todo) = 2
      /\ y.todo = <<W(off, Cmd["confirm"])>> /\ d.cnt = 2 /\ d.seen = 1
  <2>1. x.todo = <<W(off + 1, c), W(off, Cmd["confirm"])>> /\ At(k, off, "bufdata") /\ d.cnt = 2 /\ d.seen = 1
    BY Zenon DEF Buffer2, Left
  <2>2. y.todo = Tail(x.todo)
    BY Zenon DEF Follows
  <2> QED BY <2>1, <2>2, SMT
<1>2. /\ n = flash_cfi_write(k, off + 1, <<c>>) /\ d.prog = "bufdata" /\ d \in Cfis
      /\ off \in FlashBytes /\ off + 1 \in FlashBytes /\ c \in Byte /\ Bank(off + 1) = Bank(off)
  <2>1. off \in FlashBytes /\ off + 1 \in FlashBytes /\ c \in Byte /\ Bank(off + 1) = Bank(off)
    BY BusAssumption, Zenon
  <2>2. n = flash_cfi_write(k, off + 1, <<c>>)
    BY <1>1 DEF Write, W
  <2>3. d.prog = "bufdata" /\ d \in Cfis
    BY <1>1, Banks, SMTT(60) DEF At, Buses
  <2> QED BY <2>1, <2>2, <2>3, Zenon
<1> HIDE DEF n
<1>3. Programs(k, n, off + 1, c, e)
  BY <1>2, BufferWrite, Zenon
<1> HIDE DEF d
<1>4. e.prog = "bufconf" /\ e.cnt = 2 /\ e.seen = 2
  BY <1>1, <1>2 DEF Cfis
<1> HIDE DEF e
<1>5. /\ Kept(k, n) /\ Other(k, n, off) /\ n.cfi[Bank(off)] = e
      /\ n.flash = Programmed(Programmed(x.before, off, <<b>>), off + 1, <<c>>)
      /\ x.after = Programmed(x.before, off, <<b, c>>)
  BY <1>2, <1>3, Zenon DEF Programs, Buffer2, Other
<1>6. At(n, off, "bufconf")
  BY <1>1, <1>4, <1>5, Busy, Zenon
<1>7. n.flash = x.after
  BY <1>2, <1>5, ProgrammedTwice, SMTT(60)
<1>8. Buffer1(n, y, off) /\ y.arr = x.arr
  BY <1>1, <1>6, <1>7, SMTT(60) DEF Buffer2, Buffer1, Left, Follows
<1>9. FlashOp(n, y)
  BY <1>8, Zenon DEF FlashOp
<1>10. n.cfi[Bank(off)].seen <= n.cfi[Bank(off)].cnt
  BY <1>4, <1>5
<1>11. CodeGood(k, n)
  BY <1>2, <1>3, ProgramCode, Zenon
<1>12. \A a \in FlashBytes : n.flash[a] \in {x.before[a], x.after[a]}
  BY <1>7, Zenon
<1>13. FlashGood(n, y)
  <2>1. Len(x.todo) # 1
    BY <1>1, SMT
  <2> QED BY <2>1, <1>5, <1>9, <1>10, <1>12, Carry, Zenon
<1> QED BY <1>5, <1>11, <1>13, Zenon DEF Leads, n

\* The confirmation of a buffered program.
LEMMA Buffer1Step ==
  ASSUME NEW k \in Buses, NEW x \in Guests, NEW y, FlashGood(k, x), Follows(x, y),
         NEW off \in Offsets, Bank(off) \notin x.arr, Buffer1(k, x, off)
  PROVE  Leads(k, x, Write(k, x), y)
<1> DEFINE n == Write(k, x)
           d == k.cfi[Bank(off)]
<1>1. x.todo[1] = W(off, Cmd["confirm"]) /\ y.todo = <<>> /\ At(k, off, "bufconf") /\ x.back = {}
  BY Tails DEF Buffer1, Left, Follows
<1>2. /\ n = flash_cfi_write(k, off, <<Cmd["confirm"]>>) /\ d.prog = "bufconf"
      /\ d \in Cfis /\ d.seen <= d.cnt
  <2>1. n = flash_cfi_write(k, off, <<Cmd["confirm"]>>)
    BY <1>1 DEF Write, W
  <2>2. d.prog = "bufconf"
    BY <1>1, Zenon DEF At
  <2>3. d \in Cfis /\ d.seen <= d.cnt
    BY Banks, Zenon DEF Buses, FlashGood, Torn
  <2> QED BY <2>1, <2>2, <2>3, Zenon
<1> HIDE DEF n
<1>3. Moves(k, n, off, "none", "status")
  BY <1>2, ConfirmWrite, Zenon
<1>4. /\ Kept(k, n) /\ Other(k, n, off) /\ n.flash = k.flash
      /\ n.cfi[Bank(off)] = [d EXCEPT !.prog = "none", !.mode = "status"]
  BY <1>3, Zenon DEF Moves
<1> HIDE DEF d
<1>5. n.cfi[Bank(off)].prog = "none" /\ n.cfi[Bank(off)].seen <= n.cfi[Bank(off)].cnt
  BY <1>2, <1>4, Zenon DEF Cfis
<1>6. Quiet(n)
  BY <1>1, <1>4, <1>5, Busy, Zenon
<1>7. FlashOp(n, y)
  BY <1>1, <1>4, <1>6, Zenon DEF Buffer1, Done, Follows, FlashOp
<1>8. CodeGood(k, n) /\ \A a \in FlashBytes : n.flash[a] \in {x.before[a], x.after[a]}
  BY <1>4, SameFlash, Zenon
<1>9. FlashGood(n, y)
  BY <1>1, <1>4, <1>5, <1>7, <1>8, Carry, Zenon
<1> QED BY <1>4, <1>8, <1>9, Zenon DEF Leads, n

\* The write a driver makes next takes its operation one step further.
LEMMA WriteStep ==
  ASSUME NEW k \in Buses, NEW x \in Guests, NEW y, FlashGood(k, x), Follows(x, y), x.todo # <<>>
  PROVE  /\ Leads(k, x, Write(k, x), y)
         /\ \E off \in FlashBytes, b \in Byte : x.todo[1] = W(off, b)
<1>1. FlashOp(k, x) /\ ~Done(k, x)
  BY Zenon DEF FlashGood, Done
<1>2. PICK off \in Offsets :
       /\ Bank(off) \notin x.arr
       /\ \/ \E c \in {"id", "cfi", "status"} : Asking(k, x, off, c)
          \/ Returning(k, x, off)
          \/ Erase2(k, x, off)
          \/ Erase1(k, x, off)
          \/ \E b \in DataBytes : Word2(k, x, off, b) \/ Word1(k, x, off, b)
          \/ \E b, c \in DataBytes : \/ Buffer5(k, x, off, b, c)
                                    \/ Buffer4(k, x, off, b, c)
                                    \/ Buffer3(k, x, off, b, c)
                                    \/ Buffer2(k, x, off, b, c)
          \/ Buffer1(k, x, off)
  BY <1>1, Zenon DEF FlashOp
<1>3. Leads(k, x, Write(k, x), y)
  BY <1>2, AskStep, ReturnStep, Erase2Step, Erase1Step, Word2Step, Word1Step, Buffer5Step, Buffer4Step,
     Buffer3Step, Buffer2Step, Buffer1Step, ZenonT(60)
<1>4. /\ {off, off + 1} \subseteq FlashBytes /\ DataBytes \subseteq Byte /\ {0} \in Byte
      /\ \A c \in {"array", "status", "id", "cfi", "word", "erase", "buffer", "confirm"} : Cmd[c] \in Byte
  BY BusAssumption, FlashFits, Zenon DEF Byte
<1>5. CASE \E c \in {"id", "cfi", "status"} : Asking(k, x, off, c)
  <2>1. PICK c \in {"id", "cfi", "status"} : Asking(k, x, off, c)
    BY <1>5, Zenon
  <2>2. x.todo[1] = W(off, Cmd[c])
    BY <2>1, Tails DEF Asking, Left
  <2> QED BY <1>3, <1>4, <2>2, Zenon
<1>6. CASE Returning(k, x, off)
  <2>1. x.todo[1] = W(off, Cmd["array"])
    BY <1>6, Tails, ZenonT(60) DEF Returning, Left
  <2> QED BY <1>3, <1>4, <2>1, Zenon
<1>7. CASE Erase2(k, x, off)
  <2>1. x.todo[1] = W(off, Cmd["erase"])
    BY <1>7, Tails DEF Erase2, Left
  <2> QED BY <1>3, <1>4, <2>1, Zenon
<1>8. CASE Erase1(k, x, off) \/ Buffer1(k, x, off)
  <2>1. x.todo[1] = W(off, Cmd["confirm"])
    BY <1>8, Tails, ZenonT(60) DEF Erase1, Buffer1, Left
  <2> QED BY <1>3, <1>4, <2>1, Zenon
<1>9. CASE \E b \in DataBytes : Word2(k, x, off, b) \/ Word1(k, x, off, b)
  <2>1. PICK b \in DataBytes : Word2(k, x, off, b) \/ Word1(k, x, off, b)
    BY <1>9, Zenon
  <2>2. x.todo[1] = W(off, Cmd["word"]) \/ x.todo[1] = W(off, b)
    BY <2>1, Tails, SMTT(60) DEF Word2, Word1, Left
  <2> QED BY <1>3, <1>4, <2>2, Zenon
<1>10. CASE \E b, c \in DataBytes : \/ Buffer5(k, x, off, b, c)
                                   \/ Buffer4(k, x, off, b, c)
                                   \/ Buffer3(k, x, off, b, c)
                                   \/ Buffer2(k, x, off, b, c)
  <2>1. PICK b, c \in DataBytes : \/ Buffer5(k, x, off, b, c)
                                  \/ Buffer4(k, x, off, b, c)
                                  \/ Buffer3(k, x, off, b, c)
                                  \/ Buffer2(k, x, off, b, c)
    BY <1>10, Zenon
  <2>2. \/ x.todo[1] = W(off, Cmd["buffer"]) \/ x.todo[1] = W(off, {0})
        \/ x.todo[1] = W(off, b) \/ x.todo[1] = W(off + 1, c)
    <3>1. Buffer5(k, x, off, b, c) => x.todo[1] = W(off, Cmd["buffer"])
      BY SMT DEF Buffer5, Left
    <3>2. Buffer4(k, x, off, b, c) => x.todo[1] = W(off, {0})
      BY SMT DEF Buffer4, Left
    <3>3. Buffer3(k, x, off, b, c) => x.todo[1] = W(off, b)
      BY SMT DEF Buffer3, Left
    <3>4. Buffer2(k, x, off, b, c) => x.todo[1] = W(off + 1, c)
      BY SMT DEF Buffer2, Left
    <3> QED BY <2>1, <3>1, <3>2, <3>3, <3>4, Zenon
  <2> QED BY <1>3, <1>4, <2>2, Zenon
<1> QED BY <1>2, <1>5, <1>6, <1>7, <1>8, <1>9, <1>10, Zenon

\* The flash invariant speaks of the arrays, the state machines and what the
\* driver knows, of nothing else.
SameOp(x, y) ==
  y.todo = x.todo /\ y.back = x.back /\ y.before = x.before /\ y.after = x.after /\ y.arr = x.arr

\* The flash part of the invariant only looks at the array, the state machines
\* and the operation in progress.
LEMMA FlashSame ==
  ASSUME NEW k, NEW n, NEW x, NEW y, FlashGood(k, x), n.flash = k.flash, n.cfi = k.cfi, SameOp(x, y)
  PROVE  FlashGood(n, y) /\ CodeGood(k, n)
<1>1. FlashOp(n, y)
  <2>1. FlashOp(k, x)
    BY Zenon DEF FlashGood
  <2>2. (Quiet(k) => Quiet(n)) /\ \A off, p : At(k, off, p) => At(n, off, p)
    BY Zenon DEF Quiet, At
  <2>3. \A t, b : Left(x, t, b) => Left(y, t, b)
    BY Zenon DEF Left, SameOp
  <2>4. Done(k, x) => Done(n, y)
    BY <2>2, Zenon DEF Done, SameOp
  <2>5. \A off, c : Asking(k, x, off, c) => Asking(n, y, off, c)
    BY <2>2, <2>3, SMTT(60) DEF Asking, SameOp
  <2>6. \A off : Returning(k, x, off) => Returning(n, y, off)
    BY <2>2, <2>3, Zenon DEF Returning, SameOp
  <2>7. \A off : (Erase2(k, x, off) => Erase2(n, y, off)) /\ (Erase1(k, x, off) => Erase1(n, y, off))
    BY <2>2, <2>3, Zenon DEF Erase2, Erase1, SameOp
  <2>8. \A off, b : (Word2(k, x, off, b) => Word2(n, y, off, b)) /\ (Word1(k, x, off, b) => Word1(n, y, off, b))
    BY <2>2, <2>3, Zenon DEF Word2, Word1, SameOp
  <2>9. \A off, b, c : /\ Buffer5(k, x, off, b, c) => Buffer5(n, y, off, b, c)
                       /\ Buffer4(k, x, off, b, c) => Buffer4(n, y, off, b, c)
    <3> TAKE off, b, c
    <3>1. Buffer5(k, x, off, b, c) => Buffer5(n, y, off, b, c)
      BY <2>2, <2>3, Zenon DEF Buffer5, SameOp
    <3>2. Buffer4(k, x, off, b, c) => Buffer4(n, y, off, b, c)
      BY <2>2, <2>3, Zenon DEF Buffer4, SameOp
    <3> QED BY <3>1, <3>2, Zenon
  <2>10. \A off, b, c : /\ Buffer3(k, x, off, b, c) => Buffer3(n, y, off, b, c)
                        /\ Buffer2(k, x, off, b, c) => Buffer2(n, y, off, b, c)
    <3> TAKE off, b, c
    <3>1. Buffer3(k, x, off, b, c) => Buffer3(n, y, off, b, c)
      BY <2>2, <2>3, Zenon DEF Buffer3, SameOp
    <3>2. Buffer2(k, x, off, b, c) => Buffer2(n, y, off, b, c)
      BY <2>2, <2>3, Zenon DEF Buffer2, SameOp
    <3> QED BY <3>1, <3>2, Zenon
  <2>11. \A off : Buffer1(k, x, off) => Buffer1(n, y, off)
    BY <2>2, <2>3, Zenon DEF Buffer1, SameOp
  <2> QED BY <2>1, <2>4, <2>5, <2>6, <2>7, <2>8, <2>9, <2>10, <2>11, ZenonT(60) DEF FlashOp, SameOp
<1>2. Torn(n, y)
  BY Zenon DEF FlashGood, Torn, SameOp
<1>3. \A b \in y.arr : n.cfi[b].mode = "array"
  BY Zenon DEF FlashGood, SameOp
<1> QED BY <1>1, <1>2, <1>3, Zenon DEF FlashGood, CodeGood
=============================================================================
