------------------------------ MODULE VirtioBlk ------------------------------
(***************************************************************************)
(* The block device of src/src/devices/virtio_blk.c.  A disk byte is named *)
(* by its offset: a read fills guest buffers with the offsets it read, a   *)
(* write adds the offsets to host.wrote.  Offsets are computed modulo Word *)
(* as in the code's u64.                                                   *)
(***************************************************************************)
EXTENDS Virtio

CONSTANTS SECTOR_SIZE, BufSize,   \* bytes per sector, bytes per host transfer
          IdLen,                  \* bytes of the GET_ID answer
          Capacity,               \* sectors of the image
          Word                    \* 2^64

ASSUME BlkAssumption ==
  /\ {SECTOR_SIZE, BufSize, IdLen, Capacity} \subseteq Nat \ {0}
  /\ Word > Capacity * SECTOR_SIZE

blk_create(irq, ro) ==
  [kind |-> "blk", irq |-> irq, ro |-> ro, status |-> 0, isr |-> {}, sel |-> 0,
   q |-> [i \in {0} |-> QueueReset]]

blk_reset(s) ==
  [s EXCEPT !.dev = blk_create(s.dev.irq, s.dev.ro),
            !.gic = gic_set_irq(@, s.dev.irq, FALSE)]

\* Host transfers for the data descriptors: each is cut into BufSize pieces.
Pieces(lens) ==
  FlattenSeq([i \in DOMAIN lens |->
    [k \in 1..((lens[i] + BufSize - 1) \div BufSize) |->
       Min({BufSize, lens[i] - (k - 1) * BufSize})]])

OutOfRange(sector, total) ==
  sector > Capacity \/ total > (Capacity - sector) * SECTOR_SIZE

\* Mutant: a read-only image is written.
Refused_NotRo(ro, req, total) ==
  req.type \in {"IN", "OUT"} /\ OutOfRange(req.sector, total)

Refused(ro, req, total) ==
  \/ req.type = "OUT" /\ ro
  \/ req.type \in {"IN", "OUT"} /\ OutOfRange(req.sector, total)

\* A read stops at the first transfer that fails; a write goes on.
BytesRead(pieces, fail) ==
  IF fail \in DOMAIN pieces THEN Sum(SubSeq(pieces, 1, fail - 1)) ELSE Sum(pieces)

\* The answer to a request: status byte, bytes given to the guest, offsets
\* written (a failed write may have happened in part).  fail is the number of
\* the host transfer that fails.
blk_io(ro, req, lens, fail) ==
  LET total  == Sum(lens)
      pieces == Pieces(lens)
      off    == (req.sector * SECTOR_SIZE) % Word
      err    == IF fail \in DOMAIN pieces THEN "IOERR" ELSE "OK"
      none   == [data |-> <<>>, wrote |-> {}]
  IN  CASE Refused(ro, req, total) -> [st |-> "IOERR"] @@ none
        [] req.type = "IN" ->
             [st |-> err, wrote |-> {},
              data |-> [k \in 1..BytesRead(pieces, fail) |-> (off + k - 1) % Word]]
        [] req.type = "OUT" ->
             [st |-> err, data |-> <<>>,
              wrote |-> {(off + k) % Word : k \in 0..total - 1}]
        [] req.type = "GET_ID" ->
             [st |-> "OK", wrote |-> {},
              data |-> IF lens = <<>> THEN <<>>
                       ELSE [k \in 1..Min({lens[1], IdLen}) |-> "id"]]
        [] req.type = "FLUSH" -> [st |-> "OK"] @@ none
        [] OTHER -> [st |-> "UNSUPP"] @@ none

UsedLen(r) == Len(r.data) + 1

\* One request.  The first descriptor holds the header, the last takes the
\* status byte, the others are data.  A chain of one descriptor is consumed
\* without an answer.
blk_request(s, head, fail) ==
  LET m    == s.ram[0]
      num  == s.dev.q[0].num
      c    == Chain(m, num, head)
      n    == Len(c)
      mid  == SubSeq(c, 2, n - 1)
      r    == blk_io(s.dev.ro, m.buf[c[1]][1], Lens(m, mid), fail)
      m1   == Scatter(m, mid, Lens(m, mid), r.data)
      m2   == [m1 EXCEPT !.buf[c[n]] = <<r.st>>]
  IN  IF n < 2 THEN s
      ELSE [s EXCEPT !.ram[0] = push_used(m2, num, head, UsedLen(r)),
                     !.host.wrote = r.wrote]

\* Mutant: the cursor is not advanced past a request.
virtio_blk_process_Stays(s, fail) ==
  LET v == s.dev
      m == s.ram[0]
  IN  IF v.q[0].ready = 0 \/ v.q[0].num = 0 \/ ~Available(v, m, 0) THEN s
      ELSE Raise(blk_request(s, NextHead(v, m, 0), fail), "vring")

\* QueueNotify: every available request, then one interrupt.
virtio_blk_process(s, fail) ==
  LET one(t) == IF ~Available(t.dev, t.ram[0], 0) THEN t
                ELSE [blk_request(t, NextHead(t.dev, t.ram[0], 0), fail)
                        EXCEPT !.dev.q[0].last = (@ + 1) % IdxMod]
  IN  IF s.dev.q[0].ready = 0 \/ s.dev.q[0].num = 0 THEN s
      ELSE RaiseIf(Iterate(one, s, s.dev.q[0].num),
                   Available(s.dev, s.ram[0], 0), "vring")

blk_write(s, reg, val, fail) ==
  CASE reg = "QueueNotify"           -> IF val = 0 THEN virtio_blk_process(s, fail) ELSE s
    [] reg = "InterruptACK"          -> InterruptACK(s, val)
    [] reg = "Status" /\ val = 0     -> blk_reset(s)
    [] OTHER                         -> [s EXCEPT !.dev = queue_write(@, reg, val)]

=============================================================================
