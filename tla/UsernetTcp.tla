------------------------------ MODULE UsernetTcp ------------------------------
(***************************************************************************)
(* The TCP proxy of src/src/net/usernet_tcp.c: one address pair, on which  *)
(* connections may follow one another.                                     *)
(*                                                                         *)
(* A handler is an operator from s = [c, rx, host, iss] to such a record:  *)
(*   c     the connection (TcpConn), Free when there is none;              *)
(*   rx    the segments in the device's RX ring, not yet taken by the      *)
(*         guest; the ring refuses a frame when it is full;                *)
(*   host  the host socket: q the bytes to read, eof and err (the peer     *)
(*         closed, reset), out the bytes the kernel holds for the peer,    *)
(*         shut (we closed our direction), open, conn (the state of a      *)
(*         connect in progress), and what the peer has sent and got;       *)
(*   iss   the initial sequence number of the next connection.             *)
(* A byte of a stream is its position, 1, 2, ...  Sequence numbers are     *)
(* modulo SeqSpace.  A timer is "off", "armed" or, once its time has come,   *)
(* "due".  The segment size option is the constant MSS.                    *)
(***************************************************************************)
EXTENDS Integers, Sequences, SequencesExt

CONSTANTS SeqSpace,             \* 2^32
          UN_TCP_H2G, UN_TCP_G2H, MSS, UN_TCP_RTO_SHOTS,
          TmpSize,            \* bytes per read() of the host socket
          KernelBuf,          \* bytes the host kernel takes from us
          RxRing,             \* frames the device's RX ring holds
          IssStep             \* distance of the initial sequence numbers

ASSUME TcpAssumption ==
  /\ {UN_TCP_H2G, UN_TCP_G2H, MSS, UN_TCP_RTO_SHOTS, TmpSize, KernelBuf, RxRing}
       \subseteq Nat \ {0}
  /\ SeqSpace \in Nat /\ SeqSpace > 2 * (UN_TCP_H2G + UN_TCP_G2H + MSS) /\ SeqSpace % 2 = 0
  /\ IssStep \in Nat

-----------------------------------------------------------------------------
(* Sequence numbers and rings. *)

Plus(a, n)  == (a + n) % SeqSpace
Minus(a, b) == (a - b) % SeqSpace
seq_lt(a, b) == Minus(a, b) >= SeqSpace \div 2

Least(a, b) == IF a < b THEN a ELSE b

\* Mutant: the write position is not wrapped.
ring_put_NoWrap(buf, cap, head, len, src) ==
  [i \in 0..cap - 1 |-> IF i - (head + len) \in 0..Len(src) - 1
                        THEN src[i - (head + len) + 1] ELSE buf[i]]

ring_put(buf, cap, head, len, src) ==
  LET at(i) == (i - head - len) % cap
  IN  [i \in 0..cap - 1 |-> IF at(i) < Len(src) THEN src[at(i) + 1] ELSE buf[i]]

ring_get(buf, cap, pos, n) == [k \in 1..n |-> buf[(pos + k - 1) % cap]]

-----------------------------------------------------------------------------
(* Connections. *)

Free == [state |-> "FREE"]
IsFree(s) == s.c.state = "FREE"

\* A connection as calloc and the assignments of guest_open or un_tcp_accept
\* leave it.
NewConn(iss, state, fwd, rcv_nxt, wnd) ==
  [state |-> state, is_hostfwd |-> fwd, fd |-> TRUE,
   iss |-> iss, snd_una |-> iss, snd_nxt |-> iss,
   rcv_nxt |-> rcv_nxt, peer_wnd |-> wnd, synack_sent |-> FALSE, fin_sent |-> FALSE,
   fin_acked |-> FALSE, guest_fin_rcvd |-> FALSE, host_eof |-> FALSE, host_wr_shut |-> FALSE,
   h2g |-> [i \in 0..UN_TCP_H2G - 1 |-> 0], h2g_head |-> 0, h2g_len |-> 0,
   g2h |-> [i \in 0..UN_TCP_G2H - 1 |-> 0], g2h_head |-> 0, g2h_len |-> 0,
   rto |-> "off", rto_shots |-> 0, expire |-> "armed"]

\* A new host socket; id names the connection it belongs to.
NewSocket(id, conn) ==
  [id |-> id, q |-> <<>>, eof |-> FALSE, err |-> FALSE, out |-> <<>>, shut |-> FALSE,
   open |-> TRUE, conn |-> conn, sent |-> 0, got |-> <<>>]

\* The connection takes the next initial sequence number.
Opened(s, state, fwd, rcv_nxt, wnd, conn) ==
  [s EXCEPT !.c = NewConn(s.iss, state, fwd, rcv_nxt, wnd),
            !.host = NewSocket(s.iss, conn), !.iss = Plus(@, IssStep)]

HostClosed(s) == [s EXCEPT !.host.open = FALSE, !.host.q = <<>>]

\* Mutant: the socket is not closed.
conn_free_Leak(s) == [s EXCEPT !.c = Free]

conn_free(s) == [(IF s.c.fd THEN HostClosed(s) ELSE s) EXCEPT !.c = Free]

\* Whether the RX ring takes a frame: the result of tcp_emit.
Accepts(s) == Len(s.rx) < RxRing

Segment(fl, seq, ack, wnd, data) ==
  [fl |-> fl, seq |-> seq, ack |-> ack, wnd |-> wnd, data |-> data]

Output(s, seg) == IF Accepts(s) THEN [s EXCEPT !.rx = Append(@, seg)] ELSE s

tcp_emit(s, fl, seq, data) ==
  Output(s, Segment(fl, seq, IF "ACK" \in fl THEN s.c.rcv_nxt ELSE 0,
                    UN_TCP_G2H - s.c.g2h_len, data))

EmitAck(s) == tcp_emit(s, {"ACK"}, s.c.snd_nxt, <<>>)

tcp_rst_raw(s, seq, ack, with_ack) ==
  Output(s, Segment(IF with_ack THEN {"RST", "ACK"} ELSE {"RST"}, seq,
                    IF with_ack THEN ack ELSE 0, 0, <<>>))

conn_abort(s) ==
  conn_free(CASE s.c.state \in {"SYN_RCVD", "EST", "SYN_SENT"} ->
                   tcp_emit(s, {"RST", "ACK"}, s.c.snd_nxt, <<>>)
              [] s.c.state = "SYN_WAIT" -> tcp_rst_raw(s, 0, s.c.rcv_nxt, TRUE)
              [] OTHER -> s)

try_send_synack(s) ==
  IF ~Accepts(s) THEN s
  ELSE [tcp_emit(s, {"SYN", "ACK"}, s.c.iss, <<>>) EXCEPT
          !.c.synack_sent = TRUE, !.c.snd_nxt = Plus(s.c.iss, 1), !.c.rto = "armed"]

conn_linger(s) ==
  [HostClosed(EmitAck(s)) EXCEPT
     !.c.fd = FALSE, !.c.state = "LINGER", !.c.expire = "armed", !.c.rto = "off"]

maybe_finish(s) ==
  IF s.c.state = "EST" /\ s.c.guest_fin_rcvd /\ s.c.fin_sent /\ s.c.fin_acked
     /\ s.c.g2h_len = 0
  THEN conn_linger(s) ELSE s

-----------------------------------------------------------------------------
(* The host socket. *)

\* What send() takes: the loop goes on until the kernel's buffer is full.
Sendable(s) == Least(s.c.g2h_len, KernelBuf - Len(s.host.out))

\* Bytes moved from the staging ring to the kernel, then the window update.
g2h_sent(s) ==
  LET n == Sendable(s)
      t == [s EXCEPT
             !.host.out = @ \o ring_get(s.c.g2h, UN_TCP_G2H, s.c.g2h_head, n),
             !.c.g2h_head = (@ + n) % UN_TCP_G2H, !.c.g2h_len = @ - n]
  IN  IF n > 0 /\ s.c.state = "EST" THEN EmitAck(t) ELSE t

\* The guest's FIN is passed on only behind its last byte.
may_shut(c) == c.g2h_len = 0 /\ c.guest_fin_rcvd /\ ~c.host_wr_shut

drain_g2h(s) ==
  LET t == g2h_sent(s)
  IN  IF s.host.err /\ s.c.g2h_len > 0 THEN conn_abort(s)
      ELSE maybe_finish(
             IF may_shut(t.c) /\ t.c.fd
             THEN [t EXCEPT !.host.shut = TRUE, !.c.host_wr_shut = TRUE] ELSE t)

\* One round of host_read's loop; more says whether the loop goes on.
host_read_one(st) ==
  LET s    == st.s
      want == Least(TmpSize, UN_TCP_H2G - s.c.h2g_len)
      n    == Least(want, Len(s.host.q))
  IN  IF ~st.more \/ s.c.host_eof \/ want = 0 THEN [st EXCEPT !.more = FALSE]
      ELSE IF s.host.err THEN [s |-> conn_abort(s), more |-> FALSE]
      ELSE IF n = 0
      THEN [s |-> [s EXCEPT !.c.host_eof = s.host.eof], more |-> FALSE]
      ELSE [s |-> [s EXCEPT
              !.c.h2g = ring_put(@, UN_TCP_H2G, s.c.h2g_head, s.c.h2g_len,
                                 SubSeq(s.host.q, 1, n)),
              !.c.h2g_len = @ + n, !.host.q = SubSeq(@, n + 1, Len(@))],
            more |-> n = want]

Iterate(Body(_), x, n) ==
  LET after[k \in 0..n] == IF k = 0 THEN x ELSE Body(after[k - 1]) IN after[n]

host_read(s) ==
  Iterate(host_read_one, [s |-> s, more |-> TRUE], UN_TCP_H2G + 1).s

-----------------------------------------------------------------------------
(* Output to the guest. *)

\* Mutant: the guest's window is not looked at.
window_room_Ignored(c, off) == UN_TCP_H2G

\* What the guest's window leaves for bytes not yet sent.
window_room(c, off) == IF c.peer_wnd <= off THEN 0 ELSE c.peer_wnd - off

\* Mutant: the timer is left alone.
arm_Never(rto) == rto

\* if (!c->rto_at) c->rto_at = now + RTO
arm(rto) == IF rto = "off" THEN "armed" ELSE rto

\* One segment of unsent data.
emit_data_one(s) ==
  LET c   == s.c
      off == Minus(c.snd_nxt, c.snd_una)
      n   == Least(Least(MSS, c.h2g_len - off), window_room(c, off))
  IN  IF off >= c.h2g_len \/ window_room(c, off) = 0 \/ ~Accepts(s) THEN s
      ELSE [tcp_emit(s, {"ACK", "PSH"}, c.snd_nxt,
                     ring_get(c.h2g, UN_TCP_H2G, c.h2g_head + off, n)) EXCEPT
              !.c.snd_nxt = Plus(@, n),
              !.c.rto = arm(@)]

\* The FIN follows the last byte, whatever the window.
may_fin(c) == c.host_eof /\ Minus(c.snd_nxt, c.snd_una) = c.h2g_len

emit_conn(s) ==
  LET t == Iterate(emit_data_one, s, UN_TCP_H2G)
  IN  CASE s.c.state = "SYN_RCVD" /\ ~s.c.synack_sent -> try_send_synack(s)
        [] s.c.state # "EST"                          -> s
        [] s.c.state = "EST" /\ s.c.fin_sent          -> s
        [] OTHER ->
             IF ~may_fin(t.c) \/ ~Accepts(t) THEN t
             ELSE [tcp_emit(t, {"FIN", "ACK"}, t.c.snd_nxt, <<>>) EXCEPT
                     !.c.fin_sent = TRUE, !.c.snd_nxt = Plus(@, 1),
                     !.c.rto = arm(@)]

-----------------------------------------------------------------------------
(* Input from the guest. *)

\* how: socket or connect fail ("fail"), the connect is done at once ("now"),
\* is in progress ("later"), or there is no memory ("nomem").
guest_open(s, t, how) ==
  LET new(state, conn) == Opened(s, state, FALSE, Plus(t.seq, 1), t.wnd, conn)
  IN  CASE how = "fail"  -> tcp_rst_raw(s, 0, Plus(t.seq, 1), TRUE)
        [] how = "nomem" -> s
        [] how = "now"   -> try_send_synack(new("SYN_RCVD", "ok"))
        [] how = "later" -> new("SYN_WAIT", "pending")

\* No connection on the pair.
no_conn_input(s, t, how) ==
  CASE "RST" \in t.fl -> s
    [] "RST" \notin t.fl /\ "SYN" \in t.fl /\ "ACK" \notin t.fl -> guest_open(s, t, how)
    [] "RST" \notin t.fl /\ "ACK" \in t.fl -> tcp_rst_raw(s, t.ack, 0, FALSE)
    [] OTHER -> tcp_rst_raw(s, 0, Plus(t.seq, Len(t.data) + (IF "FIN" \in t.fl THEN 1 ELSE 0)),
                            TRUE)

fin_acked_by(c, ack) == c.fin_sent /\ ack = c.snd_nxt

\* A new acknowledgement frees the ring and reads on from the host.
ack_input(s, t) ==
  LET c    == s.c
      data == Least(Minus(t.ack, c.snd_una), c.h2g_len)
      u    == [s EXCEPT
                !.c.h2g_head = (@ + data) % UN_TCP_H2G, !.c.h2g_len = @ - data,
                !.c.snd_una = t.ack, !.c.rto_shots = 0,
                !.c.rto = IF c.snd_nxt # t.ack THEN "armed" ELSE "off",
                !.c.fin_acked = @ \/ fin_acked_by(c, t.ack)]
  IN  IF "ACK" \in t.fl /\ seq_lt(c.snd_una, t.ack) /\ ~seq_lt(c.snd_nxt, t.ack)
      THEN (IF ~u.c.host_eof THEN host_read(u) ELSE u)
      ELSE s

\* In-order data; a prefix already received is skipped.
data_input(s, t) ==
  LET skip == Minus(s.c.rcv_nxt, t.seq)
      n    == Least(Len(t.data) - skip, UN_TCP_G2H - s.c.g2h_len)
  IN  IF skip >= Len(t.data) THEN s
      ELSE [s EXCEPT
              !.c.g2h = ring_put(@, UN_TCP_G2H, s.c.g2h_head, s.c.g2h_len,
                                 SubSeq(t.data, skip + 1, skip + n)),
              !.c.g2h_len = @ + n, !.c.rcv_nxt = Plus(@, n)]

fin_input(s, t) ==
  IF "FIN" \in t.fl /\ ~s.c.guest_fin_rcvd /\ Plus(t.seq, Len(t.data)) = s.c.rcv_nxt
  THEN [s EXCEPT !.c.guest_fin_rcvd = TRUE, !.c.rcv_nxt = Plus(@, 1)] ELSE s

est_input(s, t) ==
  LET a == ack_input(s, t)
      f == fin_input(data_input(a, t), t)
      dirty == f.c.g2h_len > 0 \/ f.c.guest_fin_rcvd
      g == IF dirty THEN drain_g2h(f) ELSE f
      answer == f.c.rcv_nxt # a.c.rcv_nxt \/ t.data # <<>>
  IN  IF IsFree(a) THEN a
      ELSE IF t.data # <<>> /\ seq_lt(a.c.rcv_nxt, t.seq) THEN EmitAck(a)
      ELSE IF dirty /\ (IsFree(g) \/ g.c.state # "EST") THEN g
      ELSE maybe_finish(emit_conn(IF answer THEN EmitAck(g) ELSE g))

\* The guest's SYN-ACK to our SYN.
syn_sent_input(s, t) ==
  IF {"SYN", "ACK"} \subseteq t.fl /\ s.c.snd_nxt = Plus(s.c.iss, 1) /\ t.ack = s.c.snd_nxt
  THEN EmitAck([s EXCEPT !.c.rcv_nxt = Plus(t.seq, 1), !.c.snd_una = t.ack,
                         !.c.rto = "off", !.c.rto_shots = 0, !.c.state = "EST"])
  ELSE s

syn_rcvd_input(s, t) ==
  CASE "SYN" \in t.fl ->
         IF s.c.synack_sent THEN tcp_emit(s, {"SYN", "ACK"}, s.c.iss, <<>>) ELSE try_send_synack(s)
    [] "SYN" \notin t.fl /\ "ACK" \in t.fl /\ s.c.synack_sent /\ t.ack = s.c.snd_nxt ->
         est_input([s EXCEPT !.c.snd_una = t.ack, !.c.rto = "off", !.c.rto_shots = 0,
                             !.c.state = "EST"], t)
    [] OTHER -> s

un_tcp_input(s0, t, how) ==
  LET s == IF s0.c.state = "LINGER" /\ "SYN" \in t.fl /\ "ACK" \notin t.fl
           THEN conn_free(s0) ELSE s0
      w == [s EXCEPT !.c.peer_wnd = t.wnd]
  IN  IF IsFree(s) THEN no_conn_input(s, t, how)
      ELSE IF "RST" \in t.fl THEN conn_free(s)
      ELSE CASE w.c.state = "SYN_WAIT" -> w
             [] w.c.state = "SYN_SENT" -> syn_sent_input(w, t)
             [] w.c.state = "SYN_RCVD" -> syn_rcvd_input(w, t)
             [] w.c.state = "LINGER"   -> EmitAck(w)
             [] w.c.state = "EST"      -> est_input(w, t)

-----------------------------------------------------------------------------
(* The poll. *)

\* un_tcp_accept: a connection to a forwarded port.
un_tcp_accept(s) ==
  LET t == Opened(s, "SYN_SENT", TRUE, 0, 0, "ok")
      u == tcp_emit(t, {"SYN"}, t.c.iss, <<>>)
  IN  IF ~IsFree(s) THEN s
      ELSE [u EXCEPT !.c.rto = "armed",
                     !.c.snd_nxt = IF Accepts(t) THEN Plus(t.c.iss, 1) ELSE t.c.iss]

\* The events un_tcp_fill asks for; without one the socket is not polled.
fill_in(c)  == c.state = "EST" /\ ~c.host_eof /\ c.h2g_len < UN_TCP_H2G
fill_out(c) == c.state = "SYN_WAIT" \/ (c.state = "EST" /\ c.g2h_len > 0)
un_tcp_fill(c) == c.state \in {"SYN_WAIT", "EST"} /\ c.fd /\ (fill_in(c) \/ fill_out(c))

est_event(s) ==
  LET r == IF fill_in(s.c) /\ (s.host.q # <<>> \/ s.host.eof) THEN host_read(s) ELSE s
  IN  IF s.host.err THEN conn_abort(s)
      ELSE IF IsFree(r) \/ ~fill_out(s.c) \/ Len(s.host.out) = KernelBuf THEN r
      ELSE drain_g2h(r)

un_tcp_event(s) ==
  CASE s.c.state = "SYN_WAIT" /\ s.host.conn = "refused" -> conn_abort(s)
    [] s.c.state = "SYN_WAIT" /\ s.host.conn = "ok" ->
         try_send_synack([s EXCEPT !.c.state = "SYN_RCVD"])
    [] s.c.state = "EST" -> est_event(s)
    [] OTHER -> s

shots_spent(shots) == shots > UN_TCP_RTO_SHOTS

\* A retransmission timeout in SYN_RCVD or EST: one segment from snd_una.
retransmit(s) ==
  LET c == s.c
      u == [s EXCEPT !.c.rto_shots = @ + 1, !.c.rto = "armed"]
  IN  CASE shots_spent(u.c.rto_shots) -> conn_abort(s)
        [] ~shots_spent(u.c.rto_shots) /\ c.state = "SYN_RCVD" ->
             tcp_emit(u, {"SYN", "ACK"}, s.c.iss, <<>>)
        [] ~shots_spent(u.c.rto_shots) /\ c.state = "EST" ->
             IF c.snd_nxt = c.snd_una THEN u
             ELSE IF c.h2g_len > 0
             THEN tcp_emit(u, {"ACK", "PSH"}, c.snd_una,
                           ring_get(c.h2g, UN_TCP_H2G, c.h2g_head, Least(MSS, c.h2g_len)))
             ELSE IF c.fin_sent /\ ~c.fin_acked
             THEN tcp_emit(u, {"FIN", "ACK"}, Minus(c.snd_nxt, 1), <<>>)
             ELSE u

expired(c) == c.expire = "due"

un_tcp_tick(s) ==
  LET c == s.c
      resyn == tcp_emit(s, {"SYN"}, s.c.iss, <<>>)
  IN  CASE c.state \in {"SYN_WAIT", "SYN_SENT"} /\ expired(c) -> conn_abort(s)
        [] c.state = "SYN_SENT" /\ ~expired(c) /\ c.rto = "due" ->
             [resyn EXCEPT !.c.snd_nxt = IF Accepts(s) THEN Plus(s.c.iss, 1) ELSE @,
                           !.c.rto = "armed"]
        [] c.state = "LINGER" /\ expired(c) -> conn_free(s)
        [] c.state \in {"SYN_RCVD", "EST"} /\ c.rto = "due" -> retransmit(s)
        [] OTHER -> s

un_tcp_emit_all(s) == IF IsFree(s) THEN s ELSE maybe_finish(emit_conn(s))

\* usernet_poll on the pair.
usernet_poll(s) ==
  LET t == un_tcp_tick(s)
  IN  un_tcp_emit_all(IF ~IsFree(t) /\ un_tcp_fill(t.c) THEN un_tcp_event(t) ELSE t)

\* un_tcp_reset, on usernet_guest_reset.
un_tcp_reset(s) == IF IsFree(s) THEN s ELSE conn_free(s)

=============================================================================
