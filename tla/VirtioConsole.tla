---------------------------- MODULE VirtioConsole ----------------------------
(***************************************************************************)
(* The console of src/src/devices/virtio_console.c.  The window geometry is*)
(* one value.  host.tty is what the user has typed and the device has not  *)
(* read, host.size the size of the host window, host.winch the flag the    *)
(* SIGWINCH handler sets, host.out what the guest has printed and          *)
(* host.active the machine's console_active_virtio.                        *)
(***************************************************************************)
EXTENDS Virtio

CONSTANT RX_FIFO_SIZE

ASSUME FifoAssumption == RX_FIFO_SIZE \in Nat \ {0, 1}

CON_QUEUE_RX == 0
CON_QUEUE_TX == 1
DRIVER_OK    == 4

con_create(irq, size) ==
  [kind |-> "con", irq |-> irq, status |-> 0, isr |-> {}, sel |-> 0,
   q |-> [i \in {CON_QUEUE_RX, CON_QUEUE_TX} |-> QueueReset],
   size |-> size, synced |-> FALSE,
   fifo |-> [i \in 0..RX_FIFO_SIZE - 1 |-> 0], head |-> 0, tail |-> 0]

\* con_update_winsize: refresh the geometry in config space.
con_update_winsize(s) == [s EXCEPT !.dev.size = s.host.size]

con_reset(s) ==
  LET v == [con_create(s.dev.irq, s.host.size) EXCEPT !.fifo = s.dev.fifo]
  IN  [s EXCEPT !.dev = v, !.gic = gic_set_irq(@, v.irq, FALSE)]

vcon_driver_ok(v) == v.status >= DRIVER_OK /\ v.q[CON_QUEUE_RX].ready # 0

\* The initial size: one config-change interrupt once the driver is up.
con_sync_size(s) ==
  IF s.dev.synced \/ ~vcon_driver_ok(s.dev) THEN s
  ELSE Raise(con_update_winsize([s EXCEPT !.dev.synced = TRUE]), "config")

rx_fifo_empty(v) == v.head = v.tail
rx_fifo_full(v)  == (v.tail + 1) % RX_FIFO_SIZE = v.head
rx_fifo_push(v, ch) ==
  IF rx_fifo_full(v) THEN v
  ELSE [v EXCEPT !.fifo[v.tail] = ch, !.tail = (@ + 1) % RX_FIFO_SIZE]

rx_fifo_len(v) == (v.tail + RX_FIFO_SIZE - v.head) % RX_FIFO_SIZE
rx_fifo_content(v) ==
  [k \in 1..rx_fifo_len(v) |-> v.fifo[(v.head + k - 1) % RX_FIFO_SIZE]]

\* What fits of the FIFO into the writable descriptors of a chain.
rx_written(v, lens) == Min({rx_fifo_len(v), Sum(lens)})

\* One available RX chain filled from the FIFO.
con_rx_one(s) ==
  LET v    == s.dev
      m    == s.ram[CON_QUEUE_RX]
      num  == v.q[CON_QUEUE_RX].num
      hd   == NextHead(v, m, CON_QUEUE_RX)
      c    == Chain(m, num, hd)
      lens == WriteLens(m, c)
      n    == rx_written(v, lens)
      m1   == Scatter(m, c, lens, SubSeq(rx_fifo_content(v), 1, n))
  IN  IF rx_fifo_empty(v) \/ ~Available(v, m, CON_QUEUE_RX) THEN s
      ELSE [s EXCEPT !.ram[CON_QUEUE_RX] = push_used(m1, num, hd, n),
                     !.dev.q[CON_QUEUE_RX].last = (@ + 1) % IdxMod,
                     !.dev.head = (@ + n) % RX_FIFO_SIZE]

con_flush_rx(s) ==
  LET q == s.dev.q[CON_QUEUE_RX]
  IN  IF q.ready = 0 \/ q.num = 0 THEN s
      ELSE RaiseIf(Iterate(con_rx_one, s, q.num),
             ~rx_fifo_empty(s.dev) /\ Available(s.dev, s.ram[CON_QUEUE_RX], CON_QUEUE_RX),
             "vring")

\* One TX chain: every descriptor goes to stdout, whatever its flags.
con_tx_one(s) ==
  LET v   == s.dev
      m   == s.ram[CON_QUEUE_TX]
      num == v.q[CON_QUEUE_TX].num
      hd  == NextHead(v, m, CON_QUEUE_TX)
  IN  IF ~Available(v, m, CON_QUEUE_TX) THEN s
      ELSE [s EXCEPT !.host.out = @ \o Gather(m, Chain(m, num, hd)),
                     !.ram[CON_QUEUE_TX] = push_used(m, num, hd, 0),
                     !.dev.q[CON_QUEUE_TX].last = (@ + 1) % IdxMod]

\* Host input follows the console that printed last.
con_tx_process(s) ==
  LET q   == s.dev.q[CON_QUEUE_TX]
      did == Available(s.dev, s.ram[CON_QUEUE_TX], CON_QUEUE_TX)
      t   == Iterate(con_tx_one, s, q.num)
  IN  IF q.ready = 0 \/ q.num = 0 THEN s
      ELSE RaiseIf([t EXCEPT !.host.active = @ \/ did], did, "vring")

\* A pending SIGWINCH whose size is news.
con_take_winch(s) ==
  IF s.host.winch /\ s.host.size # s.dev.size
  THEN Raise(con_update_winsize([s EXCEPT !.host.winch = FALSE]), "config")
  ELSE [s EXCEPT !.host.winch = FALSE]

\* One keystroke into the FIFO, while there is room for it.
con_read_tty(s) ==
  IF rx_fifo_full(s.dev) \/ s.host.tty = <<>> THEN s
  ELSE [s EXCEPT !.dev = rx_fifo_push(@, Head(s.host.tty)),
                 !.host.tty = Tail(@), !.host.sent = Append(@, Head(s.host.tty))]

virtio_console_poll(s) ==
  con_flush_rx(Iterate(con_read_tty, con_take_winch(con_sync_size(s)), RX_FIFO_SIZE))

con_write(s, reg, val) ==
  CASE reg = "QueueNotify" /\ val = CON_QUEUE_TX -> con_tx_process(s)
    [] reg = "QueueNotify" /\ val = CON_QUEUE_RX -> con_sync_size(con_flush_rx(s))
    [] reg = "InterruptACK"                      -> InterruptACK(s, val)
    [] reg = "Status" /\ val = 0                 -> con_reset(s)
    [] OTHER -> [s EXCEPT !.dev = queue_write(@, reg, val)]

\* con_read: the registers the driver's interrupt handler uses.
con_read(v, reg) ==
  CASE reg = "InterruptStatus" -> v.isr
    [] reg = "Status"          -> v.status
    [] reg = "Config"          -> v.size

=============================================================================
