------------------------------- MODULE Virtio -------------------------------
(***************************************************************************)
(* What the virtio-mmio devices (src/src/devices/virtio_blk.c, virtio_net.c*)
(* and virtio_console.c) have in common: the split virtqueue in guest      *)
(* memory and the transport registers.                                     *)
(*                                                                         *)
(* A handler works on the device, the interrupt controller, guest memory   *)
(* and the host at once.  It is an operator from a record                  *)
(*    s = [dev |-> ., gic |-> ., ram |-> ., host |-> .]                    *)
(* to such a record.  ram[q] is the guest memory of queue q: descriptor    *)
(* table, available ring, used ring and the buffers of the descriptors.    *)
(* A buffer is a sequence of units (bytes, pieces of a frame, disk bytes   *)
(* named by their offset); only their identity and number matter.          *)
(*                                                                         *)
(* Left out: feature words (no bit the driver writes is ever tested) and   *)
(* the identification registers.                                           *)
(***************************************************************************)
EXTENDS GICv2, SequencesExt

CONSTANTS IdxMod,         \* 2^16, the range of avail->idx and used->idx
          QUEUE_NUM_MAX   \* largest queue

ASSUME VirtioAssumption ==
  /\ {IdxMod, QUEUE_NUM_MAX} \subseteq Nat \ {0}
  /\ IdxMod % QUEUE_NUM_MAX = 0

Slots  == 0..QUEUE_NUM_MAX - 1
NoNext == QUEUE_NUM_MAX          \* descriptor without VIRTQ_DESC_F_NEXT

\* Guest memory of a queue as a driver initialises it.
EmptyRing ==
  [desc  |-> [i \in Slots |-> [len |-> 0, write |-> FALSE, next |-> NoNext]],
   buf   |-> [i \in Slots |-> <<>>],
   avail |-> [i \in Slots |-> 0], aidx |-> 0,
   used  |-> [i \in Slots |-> [id |-> 0, len |-> 0]], uidx |-> 0]

\* Device registers of a queue after reset.
QueueReset == [num |-> 0, ready |-> 0, rings |-> 0, last |-> 0]

-----------------------------------------------------------------------------
(* The virtqueue. *)

\* The state after n rounds of a loop body.
Iterate(Body(_), s, n) ==
  LET after[k \in 0..n] == IF k = 0 THEN s ELSE Body(after[k - 1]) IN after[n]

\* The descriptors of the chain at head; the walk stops after num of them.
Chain(m, num, head) ==
  LET step(c) == LET next == m.desc[Last(c)].next
                 IN  IF next = NoNext THEN c ELSE Append(c, next)
  IN  Iterate(step, <<head>>, num - 1)

Lens(m, c) == [i \in DOMAIN c |-> m.desc[c[i]].len]
WriteLens(m, c) == [i \in DOMAIN c |-> IF m.desc[c[i]].write THEN m.desc[c[i]].len ELSE 0]
Sum(lens) == FoldSeq(+, 0, lens)

\* The stream is written to the descriptors of chain c in order, lens[i] units
\* at most to the i-th; a buffer nothing is written to keeps its content.
Scatter(m, c, lens, stream) ==
  LET from(i) == Sum(SubSeq(lens, 1, i - 1))
      part(i) == SubSeq(stream, from(i) + 1, Min({from(i) + lens[i], Len(stream)}))
      at(d)   == CHOOSE i \in DOMAIN c : c[i] = d
  IN  [m EXCEPT !.buf = [d \in Slots |->
         IF (\E i \in DOMAIN c : c[i] = d) /\ part(at(d)) # <<>>
         THEN part(at(d)) ELSE m.buf[d]]]

\* The bytes of a chain, read in order.
Gather(m, c) == FlattenSeq([i \in DOMAIN c |-> m.buf[c[i]]])

Available(v, m, q) == v.q[q].last # m.aidx
NextHead(v, m, q)  == m.avail[v.q[q].last % v.q[q].num]

\* push_used: the element, then the index.
push_used(m, num, id, len) ==
  [m EXCEPT !.used[m.uidx % num] = [id |-> id, len |-> len],
            !.uidx = (@ + 1) % IdxMod]

\* isr |= cause; gic_set_irq(1)
Raise(s, cause) ==
  [s EXCEPT !.dev.isr = @ \cup {cause}, !.gic = gic_set_irq(@, s.dev.irq, TRUE)]

RaiseIf(s, did, cause) == IF did THEN Raise(s, cause) ELSE s

-----------------------------------------------------------------------------
(* Transport registers without a device-specific effect. *)

\* virtio-blk has one queue and ignores queue_sel.
Selected(v) == IF v.kind = "blk" THEN 0 ELSE v.sel

\* One register of the selected queue; out of range selects nothing.
SetQueue(v, field, val) ==
  IF Selected(v) \in DOMAIN v.q
  THEN [v EXCEPT !.q[Selected(v)] = [@ EXCEPT ![field] = val]] ELSE v

queue_write(v, reg, val) ==
  CASE reg = "QueueSel"   -> [v EXCEPT !.sel = val]
    [] reg = "QueueNum"   -> SetQueue(v, "num", Min({val, QUEUE_NUM_MAX}))
    [] reg = "QueueReady" -> SetQueue(v, "ready", val)
    [] reg = "QueueAddr"  -> SetQueue(v, "rings", val)
    [] reg = "Status"     -> [v EXCEPT !.status = val]

\* Mutant: the acknowledge leaves the line high.
InterruptACK_KeepsLine(s, causes) == [s EXCEPT !.dev.isr = @ \ causes]

\* isr &= ~causes; the line falls only when no cause is left.
InterruptACK(s, causes) ==
  LET left == s.dev.isr \ causes
  IN  [s EXCEPT !.dev.isr = left,
                !.gic = IF left = {} THEN gic_set_irq(@, s.dev.irq, FALSE) ELSE @]

=============================================================================
