------------------------------ MODULE VirtioNet ------------------------------
(***************************************************************************)
(* The network device of src/src/devices/virtio_net.c between the guest's  *)
(* queues and the user-mode network, which is external here: it hands over *)
(* frames (host.tty holds the ones on their way, oldest first) and takes   *)
(* the guest's (host.out).  A frame is a sequence of units behind a header *)
(* of NET_HDR_LEN units.                                                   *)
(***************************************************************************)
EXTENDS Virtio

CONSTANTS RX_RING_SIZE,   \* software ring of frames for the guest
          MAX_ETH_FRAME   \* units of the largest frame

ASSUME NetAssumption == RX_RING_SIZE \in Nat \ {0, 1} /\ MAX_ETH_FRAME \in Nat

NET_QUEUE_RX == 0
NET_QUEUE_TX == 1
NET_HDR_LEN  == 1

net_create(irq) ==
  [kind |-> "net", irq |-> irq, status |-> 0, isr |-> {}, sel |-> 0,
   q |-> [i \in {NET_QUEUE_RX, NET_QUEUE_TX} |-> QueueReset],
   rx |-> [i \in 0..RX_RING_SIZE - 1 |-> <<>>], head |-> 0, tail |-> 0]

\* usernet_guest_reset drops what is on its way to the guest.
net_reset(s) ==
  [s EXCEPT !.dev = [net_create(s.dev.irq) EXCEPT !.rx = s.dev.rx],
            !.host.tty = <<>>,
            !.gic = gic_set_irq(@, s.dev.irq, FALSE)]

rx_next(i) == (i + 1) % RX_RING_SIZE

net_ring_full(v) == rx_next(v.tail) = v.head

rx_ring_content(v) ==
  [k \in 1..((v.tail + RX_RING_SIZE - v.head) % RX_RING_SIZE) |->
     v.rx[(v.head + k - 1) % RX_RING_SIZE]]

\* net_deliver_frame: an oversized frame is dropped, a full ring refuses
\* (the frame stays with the sender).
net_deliver_frame(s) ==
  LET f == Head(s.host.tty)
      v == s.dev
  IN  IF s.host.tty = <<>> THEN s
      ELSE IF Len(f) > MAX_ETH_FRAME THEN [s EXCEPT !.host.tty = Tail(@)]
      ELSE IF net_ring_full(v) THEN s
      ELSE [s EXCEPT !.dev.rx[v.tail] = <<"hdr">> \o f,
                     !.dev.tail = rx_next(@),
                     !.host.tty = Tail(@), !.host.sent = @ \o <<"hdr">> \o f]

\* One frame into one RX chain; what does not fit is cut off.
net_rx_one(s) ==
  LET v    == s.dev
      m    == s.ram[NET_QUEUE_RX]
      num  == v.q[NET_QUEUE_RX].num
      hd   == NextHead(v, m, NET_QUEUE_RX)
      c    == Chain(m, num, hd)
      lens == WriteLens(m, c)
      f    == v.rx[v.head]
      n    == Min({Len(f), Sum(lens)})
  IN  IF v.head = v.tail \/ ~Available(v, m, NET_QUEUE_RX) THEN s
      ELSE [s EXCEPT
             !.ram[NET_QUEUE_RX] = push_used(Scatter(m, c, lens, SubSeq(f, 1, n)), num, hd, n),
             !.dev.q[NET_QUEUE_RX].last = (@ + 1) % IdxMod,
             !.dev.head = rx_next(@)]

net_flush_rx(s) ==
  LET q == s.dev.q[NET_QUEUE_RX]
  IN  IF q.ready = 0 \/ q.num = 0 THEN s
      ELSE RaiseIf(Iterate(net_rx_one, s, q.num),
             s.dev.head # s.dev.tail /\ Available(s.dev, s.ram[NET_QUEUE_RX], NET_QUEUE_RX),
             "vring")

\* Mutant: the virtio header is left on the frame.
net_payload_WithHdr(pkt) == pkt

net_payload(pkt) == SubSeq(pkt, NET_HDR_LEN + 1, Len(pkt))

\* One TX chain: gathered up to the size of a frame, header stripped, given
\* to the backend, which may answer at once with a frame of its own (ans).
net_tx_one(s, ans) ==
  LET v   == s.dev
      m   == s.ram[NET_QUEUE_TX]
      num == v.q[NET_QUEUE_TX].num
      hd  == NextHead(v, m, NET_QUEUE_TX)
      raw == Gather(m, Chain(m, num, hd))
      pkt == SubSeq(raw, 1, Min({Len(raw), NET_HDR_LEN + MAX_ETH_FRAME}))
      t   == [s EXCEPT !.ram[NET_QUEUE_TX] = push_used(m, num, hd, 0),
                       !.dev.q[NET_QUEUE_TX].last = (@ + 1) % IdxMod]
  IN  IF ~Available(v, m, NET_QUEUE_TX) THEN s
      ELSE IF Len(pkt) <= NET_HDR_LEN THEN t
      ELSE LET u == [t EXCEPT !.host.out = @ \o net_payload(pkt)]
           IN  IF ans THEN net_deliver_frame(u) ELSE u

net_tx_process(s, ans) ==
  LET q == s.dev.q[NET_QUEUE_TX]
      one(t) == net_tx_one(t, ans)
  IN  IF q.ready = 0 \/ q.num = 0 THEN s
      ELSE RaiseIf(Iterate(one, s, q.num),
                   Available(s.dev, s.ram[NET_QUEUE_TX], NET_QUEUE_TX), "vring")

\* virtio_net_poll: the backend hands over what it has, then the flush.
virtio_net_poll(s) == net_flush_rx(Iterate(net_deliver_frame, s, RX_RING_SIZE))

net_write(s, reg, val, ans) ==
  CASE reg = "QueueNotify" /\ val = NET_QUEUE_TX -> net_tx_process(s, ans)
    [] reg = "QueueNotify" /\ val = NET_QUEUE_RX -> net_flush_rx(s)
    [] reg = "InterruptACK"                      -> InterruptACK(s, val)
    [] reg = "Status" /\ val = 0                 -> net_reset(s)
    [] OTHER -> [s EXCEPT !.dev = queue_write(@, reg, val)]

=============================================================================
