----------------------------- MODULE VirtioGuest -----------------------------
(***************************************************************************)
(* A virtio device (block, console or network) with everything it works    *)
(* with: a guest driver, the interrupt controller, the host side, the      *)
(* background poll of machine_tick and warm reboots.                       *)
(*                                                                         *)
(* The driver is external to the repository.  It follows the virtio        *)
(* handshake: reset, program the queues, DRIVER_OK; it makes chains        *)
(* available and notifies later; its interrupt handler reads the interrupt *)
(* status, acknowledges what it read, and only then looks at the used      *)
(* rings and the configuration.  machine_tick may run between any two of   *)
(* its steps.                                                              *)
(***************************************************************************)
EXTENDS VirtioBlk, VirtioConsole, VirtioNet

CONSTANTS Devices0,    \* initial device records
          RxChains,    \* chains the driver of each kind posts for input: sequences of [len, write]
          TxChains,    \* sequences of buffers the driver posts for output
          Requests,    \* block requests: [type, sector, lens]
          DriverNum,   \* size the driver of each kind of device gives its queues
          MaxPosts,    \* bound on the chains posted, per kind and queue
          MaxIn, MaxTx, MaxSize, MaxBoots,   \* bounds
          UartPrints   \* whether the guest also prints on the UART

INTID == 48

VARIABLES dev, ram, host, drv

vars == <<gic, dev, ram, host, drv>>
sys  == [dev |-> dev, gic |-> gic, ram |-> ram, host |-> host]

\* The handler's effect s becomes the next state.
Becomes(s) == dev' = s.dev /\ gic' = s.gic /\ ram' = s.ram /\ host' = s.host

Queues == DOMAIN dev.q
Num == DriverNum[dev.kind]
\* One MMIO write to the device.
MmioWrite(s, reg, val, fail, ans) ==
  CASE dev.kind = "blk" -> blk_write(s, reg, val, fail)
    [] dev.kind = "con" -> con_write(s, reg, val)
    [] dev.kind = "net" -> net_write(s, reg, val, ans)

\* The driver's view: the step of the handshake, free descriptors, chains it
\* owns, its cursor in each used ring, the interrupt handler.
DriverDown(qs) ==
  [up |-> FALSE, step |-> 1, live |-> FALSE,
   free |-> [q \in qs |-> {}], posts |-> [q \in qs |-> 0], seen |-> [q \in qs |-> 0], kick |-> {},
   irq |-> "idle", causes |-> {}, got |-> <<>>, size |-> 0]

\* The writes of the handshake, in order.
QueueSetup(n, q) ==
  << <<"QueueSel", q>>, <<"QueueNum", n>>, <<"QueueAddr", 1>>, <<"QueueReady", 1>> >>
Handshake(v) ==
  << <<"Status", 0>> >>
  \o FlattenSeq([i \in 1..Cardinality(DOMAIN v.q) |-> QueueSetup(DriverNum[v.kind], i - 1)])
  \o << <<"Status", DRIVER_OK>> >>

HostInit == [tty |-> <<>>, sent |-> <<>>, out |-> <<>>, posted |-> <<>>, wrote |-> {},
             typed |-> 0, size |-> 1, winch |-> FALSE, active |-> FALSE, boots |-> 0]

Init ==
  /\ dev \in Devices0
  /\ gic = gic_create
  /\ ram = [q \in Queues |-> EmptyRing]
  /\ host = HostInit
  /\ drv = DriverDown(Queues)

-----------------------------------------------------------------------------
(* Driver set-up. *)

\* One write of the handshake.  The first one, the device reset, also starts
\* afresh the histories of what was sent and received.  Programming the
\* addresses hands the rings over; the last write is followed by the set-up
\* of the interrupt.
SetUp ==
  LET hs == Handshake(dev)
      w  == hs[drv.step]
      s  == MmioWrite(sys, w[1], w[2], 0, FALSE)
      on == [s.gic EXCEPT !.d_ctlr = TRUE, !.c_ctlr = TRUE, !.pmr = 255,
                          !.enabled = {INTID}, !.cfg_edge = {INTID}]
  IN  /\ ~drv.up
      /\ dev' = s.dev
      /\ gic' = IF drv.step = Len(hs) THEN gic_update(on) ELSE s.gic
      /\ ram' = IF drv.step = 1 THEN [q \in Queues |-> EmptyRing] ELSE ram
      /\ host' = IF drv.step = 1
                 THEN [s.host EXCEPT !.sent = <<>>, !.out = <<>>, !.posted = <<>>]
                 ELSE s.host
      /\ drv' = [drv EXCEPT
           !.step = @ + 1, !.up = (drv.step = Len(hs)), !.live = TRUE,
           !.got = IF drv.step = 1 THEN <<>> ELSE @,
           !.free = IF drv.step = 1 THEN [q \in Queues |-> 0..Num - 1] ELSE @]

-----------------------------------------------------------------------------
(* Driver at work. *)

\* The chain of the given descriptors and buffers made available.  The
\* driver takes its free descriptors from the lowest.
WithChain(m, slots, descs, bufs) ==
  [m EXCEPT
     !.desc = [d \in Slots |->
        IF \E i \in DOMAIN slots : slots[i] = d
        THEN LET i == CHOOSE i \in DOMAIN slots : slots[i] = d
             IN  [len |-> descs[i].len, write |-> descs[i].write,
                  next |-> IF i = Len(slots) THEN NoNext ELSE slots[i + 1]]
        ELSE m.desc[d]],
     !.buf = [d \in Slots |->
        IF \E i \in DOMAIN slots : slots[i] = d
        THEN bufs[CHOOSE i \in DOMAIN slots : slots[i] = d] ELSE m.buf[d]],
     !.avail[m.aidx % Num] = slots[1],
     !.aidx = (@ + 1) % IdxMod]

LowestFree(q, n) == SubSeq(SetToSortSeq(drv.free[q], <), 1, n)

Post(q, descs, bufs) ==
  LET slots == LowestFree(q, Len(descs))
  IN  /\ drv.up /\ drv.irq = "idle" /\ Cardinality(drv.free[q]) >= Len(descs)
      /\ drv.posts[q] < MaxPosts[dev.kind][q]
      /\ ram' = [ram EXCEPT ![q] = WithChain(@, slots, descs, bufs)]
      /\ drv' = [drv EXCEPT !.free[q] = @ \ ToSet(slots), !.kick = @ \cup {q},
                            !.posts[q] = @ + 1]

PostRx ==
  /\ dev.kind # "blk"
  /\ \E c \in RxChains[dev.kind] : Post(0, c, [i \in DOMAIN c |-> <<>>])
  /\ UNCHANGED <<gic, dev, host>>

\* Output.  The driver sends only while it has input chains posted.  A
\* console prints all units of the buffers, a network frame starts behind its
\* header.
PostTx ==
  /\ dev.kind # "blk" /\ drv.free[0] # 0..Num - 1 /\ 0 \notin drv.kick
  /\ \E c \in TxChains :
       LET units == FlattenSeq(c)
           body  == IF dev.kind = "net" THEN Tail(units) ELSE units
       IN  /\ Len(host.posted) + Len(body) <= MaxTx
           /\ Post(1, [i \in DOMAIN c |-> [len |-> Len(c[i]), write |-> FALSE]], c)
           /\ host' = [host EXCEPT !.posted = @ \o body]
  /\ UNCHANGED <<gic, dev>>

PostRequest ==
  /\ dev.kind = "blk"
  /\ \E r \in Requests :
       LET descs == <<[len |-> 1, write |-> FALSE]>>
                    \o [i \in DOMAIN r.lens |-> [len |-> r.lens[i], write |-> r.type # "OUT"]]
                    \o (IF r.type = "short" THEN <<>> ELSE <<[len |-> 1, write |-> TRUE]>>)
       IN  Post(0, descs, <<<<r>>>> \o [i \in 1..Len(descs) - 1 |-> <<>>])
  /\ UNCHANGED <<gic, dev, host>>

\* QueueNotify.  fail: the host transfer of a block request that fails.
Notify(q) ==
  /\ drv.up /\ drv.irq = "idle" /\ q \in drv.kick
  /\ \E fail \in (IF dev.kind = "blk" THEN 0..2 ELSE {0}),
        ans \in (IF dev.kind = "net" /\ q = 1 THEN BOOLEAN ELSE {FALSE}) :
       Becomes(MmioWrite(sys, "QueueNotify", q, fail, ans))
  /\ drv' = [drv EXCEPT !.kick = @ \ {q}]

-----------------------------------------------------------------------------
(* The interrupt handler. *)

TakeIrq ==
  /\ drv.irq = "idle" /\ gic.irq_line
  /\ gic' = GICC_IAR(gic)
  /\ drv' = [drv EXCEPT !.irq = "taken"]
  /\ UNCHANGED <<dev, ram, host>>

ReadStatus ==
  /\ drv.irq = "taken"
  /\ drv' = [drv EXCEPT !.irq = "read", !.causes = dev.isr]
  /\ UNCHANGED <<gic, dev, ram, host>>

AckStatus ==
  /\ drv.irq = "read"
  /\ Becomes(MmioWrite(sys, "InterruptACK", drv.causes, 0, FALSE))
  /\ drv' = [drv EXCEPT !.irq = "acked"]

\* Used elements the driver has not looked at, oldest first.
Unseen(q) ==
  LET n == (ram[q].uidx + IdxMod - drv.seen[q]) % IdxMod
  IN  [k \in 1..n |-> ram[q].used[(drv.seen[q] + k - 1) % Num]]

\* What the used elements carry: the first len units of their chains.
Carried(q) ==
  LET of(u) == LET g == Gather(ram[q], Chain(ram[q], Num, u.id))
               IN  SubSeq(g, 1, u.len)
  IN  FlattenSeq([k \in DOMAIN Unseen(q) |-> of(Unseen(q)[k])])

Freed(q) == UNION {ToSet(Chain(ram[q], Num, Unseen(q)[k].id)) : k \in DOMAIN Unseen(q)}

Work ==
  /\ drv.irq = "acked"
  /\ drv' = [drv EXCEPT
       !.irq = "done", !.causes = {},
       !.size = IF "config" \in drv.causes THEN con_read(dev, "Config") ELSE @,
       !.got = IF "vring" \in drv.causes /\ dev.kind # "blk" THEN @ \o Carried(0) ELSE @,
       !.free = IF "vring" \in drv.causes
                THEN [q \in Queues |-> drv.free[q] \cup Freed(q)] ELSE @,
       !.seen = IF "vring" \in drv.causes THEN [q \in Queues |-> ram[q].uidx] ELSE @]
  /\ UNCHANGED <<gic, dev, ram, host>>

EndIrq ==
  /\ drv.irq = "done"
  /\ gic' = GICC_EOIR(gic, INTID)
  /\ drv' = [drv EXCEPT !.irq = "idle"]
  /\ UNCHANGED <<dev, ram, host>>

Handler == TakeIrq \/ ReadStatus \/ AckStatus \/ Work \/ EndIrq

-----------------------------------------------------------------------------
(* The host and the machine. *)

\* A keystroke, or a frame from the network.
HostSends ==
  /\ dev.kind # "blk" /\ host.typed < MaxIn
  /\ LET n == host.typed + 1
     IN  host' = [host EXCEPT !.typed = n,
                    !.tty = Append(@, IF dev.kind = "net" THEN <<n>> ELSE n)]
  /\ UNCHANGED <<gic, dev, ram, drv>>

\* The window is resized: SIGWINCH.
HostResizes ==
  /\ dev.kind = "con" /\ host.size < MaxSize
  /\ host' = [host EXCEPT !.size = @ + 1, !.winch = TRUE]
  /\ UNCHANGED <<gic, dev, ram, drv>>

\* machine_tick's choice of the console that gets the input.
con_polled(s) == vcon_driver_ok(s.dev) /\ s.host.active

\* The host-IO part of machine_tick.  Input the console does not take goes to
\* the UART.
Poll ==
  /\ \/ dev.kind = "con" /\ con_polled(sys) /\ Becomes(virtio_console_poll(sys))
     \/ dev.kind = "con" /\ ~con_polled(sys) /\ Becomes([sys EXCEPT !.host.tty = <<>>])
     \/ dev.kind = "net" /\ Becomes(virtio_net_poll(sys))
  /\ UNCHANGED drv

\* The guest prints on the UART: input goes there from now on.
PrintUart ==
  /\ dev.kind = "con" /\ host.active /\ UartPrints
  /\ host' = [host EXCEPT !.active = FALSE]
  /\ UNCHANGED <<gic, dev, ram, drv>>

\* Mutant: the devices are left alone.
device_reset_None(s) == s

\* The part of machine_reset a virtio device sees: the block device is not
\* reset.
device_reset(s) ==
  CASE s.dev.kind = "net" -> net_reset(s)
    [] s.dev.kind = "con" -> con_reset(s)
    [] OTHER -> s

Reboot ==
  /\ host.boots < MaxBoots
  /\ LET s == device_reset([sys EXCEPT !.gic = gic_reset(gic)])
     IN  Becomes([s EXCEPT !.gic.irq_line = FALSE, !.host.boots = @ + 1])
  /\ drv' = DriverDown(Queues)

Next ==
  \/ SetUp
  \/ PostRx \/ PostTx \/ PostRequest
  \/ \E q \in Queues : Notify(q)
  \/ Handler
  \/ HostSends \/ HostResizes \/ Poll
  \/ PrintUart \/ Reboot

\* A guest that is not stopped takes its interrupts and finishes its handlers.
HandlerFairness == WF_vars(Handler)

Spec == Init /\ [][Next]_vars
FairSpec == Spec /\ HandlerFairness

-----------------------------------------------------------------------------
(* Properties. *)

\* Types of the queue registers and rings of virtio_blk.c, virtio_net.c and
\* virtio_console.c: every index stays within its ring.
TypeOK ==
  /\ dev.kind \in {"blk", "con", "net"} /\ dev.isr \subseteq {"vring", "config"}
  /\ \A q \in Queues :
       /\ dev.q[q].num \in 0..QUEUE_NUM_MAX /\ dev.q[q].last \in 0..IdxMod - 1
       /\ ram[q].uidx \in 0..IdxMod - 1 /\ ram[q].aidx \in 0..IdxMod - 1
       /\ drv.free[q] \subseteq Slots
  /\ dev.kind = "con" => {dev.head, dev.tail} \subseteq 0..RX_FIFO_SIZE - 1
  /\ dev.kind = "net" => {dev.head, dev.tail} \subseteq 0..RX_RING_SIZE - 1
  /\ drv.irq \in {"idle", "taken", "read", "acked", "done"}

\* Input arrives once, in order and whole: what the device has taken from the
\* host since it was reset (con_read_tty, net_deliver_frame) is what the
\* driver has got, followed by the used elements it has not looked at and by
\* what waits in the FIFO of virtio_console.c or the ring of virtio_net.c.
InputExact ==
  dev.kind # "blk" /\ drv.live =>
    host.sent = drv.got \o Carried(0)
                \o (IF dev.kind = "con" THEN rx_fifo_content(dev)
                    ELSE FlattenSeq(rx_ring_content(dev)))

\* Output leaves in the order the driver posted it, and all of it once the
\* device's cursor has caught up (con_tx_process, net_tx_process).
OutputExact ==
  dev.kind # "blk" /\ drv.up =>
    /\ IsPrefix(host.out, host.posted)
    /\ dev.q[1].last = ram[1].aidx => host.out = host.posted

\* Chains the driver has posted and the device has not taken.
Waiting(q) ==
  LET n == (ram[q].aidx + IdxMod - dev.q[q].last) % IdxMod
  IN  [k \in 1..n |-> ram[q].avail[(dev.q[q].last + k - 1) % Num]]

\* Header chains of one descriptor, which blk_request drops (n < 2).
Dropped(q) ==
  {d \in (0..Num - 1) \ drv.free[q] :
     /\ dev.kind = "blk" /\ d \notin ToSet(Waiting(q))
     /\ ~ram[q].desc[d].write /\ ram[q].desc[d].next = NoNext}

\* Every descriptor the driver has handed over is in exactly one chain that
\* still waits or was returned through the used ring, whatever the order of
\* posts, notifications, polls and wrap-arounds of the indices; only a block
\* chain without a status descriptor is swallowed.
ChainsAccounted ==
  drv.up => \A q \in Queues :
    LET heads == Waiting(q) \o [k \in DOMAIN Unseen(q) |-> Unseen(q)[k].id]
        of(h) == ToSet(Chain(ram[q], Num, h))
    IN  /\ \A j, k \in DOMAIN heads : j # k => of(heads[j]) \cap of(heads[k]) = {}
        /\ (0..Num - 1) \ drv.free[q] = UNION {of(heads[k]) : k \in DOMAIN heads} \cup Dropped(q)

\* A block request is answered with what the disk holds: the answer's length
\* counts the data and the status byte, data bytes are those of the requested
\* offsets in order, all of them inside the image, and OK means none is
\* missing (blk_request).
ReplyExact ==
  dev.kind = "blk" /\ drv.up => \A k \in DOMAIN Unseen(0) :
    LET m    == ram[0]
        u    == Unseen(0)[k]
        c    == Chain(m, Num, u.id)
        req  == m.buf[u.id][1]
        data == Gather(m, SubSeq(c, 2, Len(c) - 1))
    IN  /\ u.len = Len(data) + 1
        /\ req.type = "IN" =>
             /\ \A i \in DOMAIN data : data[i] = req.sector * SECTOR_SIZE + i - 1
             /\ \A i \in DOMAIN data : data[i] < Capacity * SECTOR_SIZE
             /\ m.buf[Last(c)] = <<"OK">> => Len(data) = Sum(req.lens)

\* Writes stay inside the image and never touch a read-only one.
DiskSafe ==
  /\ host.wrote \subseteq 0..Capacity * SECTOR_SIZE - 1
  /\ dev.kind = "blk" /\ dev.ro => host.wrote = {}

\* After a reboot the background poll writes nothing to the memory the old
\* driver's rings were in, until a new driver takes the device over.
NoStaleDma == [][~drv.live /\ ~drv'.live => ram' = ram]_vars

\* What a block or network device has put in a used ring is seen by the
\* driver: the interrupt is never lost, although status, acknowledge and the
\* edge of the line are three steps that the poll may come between.
Behind == dev.kind # "con" /\ drv.up /\ \E q \in Queues : drv.seen[q] # ram[q].uidx
UsedSeen == Behind ~> ~Behind

\* The rings are well formed and no descriptor is lost or used twice
\* (the queue code the devices share, virtq_push_used).
RingsSound == TypeOK /\ ChainsAccounted

\* Console and network carry their streams exactly, in both directions.
StreamsExact == InputExact /\ OutputExact

\* Block requests are answered exactly and stay inside the image.
RequestsExact == ReplyExact /\ DiskSafe

=============================================================================
