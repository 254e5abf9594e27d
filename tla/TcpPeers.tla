------------------------------- MODULE TcpPeers -------------------------------
(***************************************************************************)
(* The TCP proxy between its two peers.                                    *)
(*                                                                         *)
(* Both peers are external.  The guest is a TCP endpoint: it opens (or, on *)
(* a forwarded port, accepts) a connection, sends its bytes and a FIN      *)
(* within the window it is given, acknowledges what it takes from the RX   *)
(* ring, probes a closed window with one byte, retransmits what is not     *)
(* acknowledged, and may lose a segment it has taken from the ring.  The   *)
(* host peer writes its bytes, reads, closes, resets.                      *)
(*                                                                         *)
(* A frame the guest sends is handled by un_tcp_input in the same step;    *)
(* usernet_poll and the passing of time come between any two steps.        *)
(***************************************************************************)
EXTENDS UsernetTcp

CONSTANTS Plans,       \* [fwd, host, guest, drops, aborts, conns]: whether connections come
                       \* from the host, the lengths of the two streams, and bounds
          GuestWindow, \* receive buffer of the guest
          Iss0         \* first initial sequence number

VARIABLES net,   \* the proxy: [c, rx, host, iss]
          g,     \* the guest's endpoint
          plan   \* the plan of this behaviour, never changed

vars == <<net, g, plan>>

\* Initial sequence number of the guest's n-th connection.
GuestIss(n) == Plus(Iss0, n * IssStep)

Closed(n, drops, aborts) ==
  [st |-> "closed", una |-> 0, nxt |-> 0, rcv |-> 0, peer |-> -1, got |-> <<>>, unread |-> 0,
   wnd |-> 0, edge |-> 0, ack |-> FALSE, finR |-> FALSE, conns |-> n, drops |-> drops,
   aborts |-> aborts]

Init ==
  /\ net = [c |-> Free, rx |-> <<>>, iss |-> Iss0,
            host |-> [NewSocket(-1, "none") EXCEPT !.open = FALSE]]
  /\ g = Closed(0, 0, 0)
  /\ plan \in Plans

\* A further socket is within the bound of the plan.
MayOpen == Minus(net.iss, Iss0) < plan.conns * IssStep

-----------------------------------------------------------------------------
(* The guest's endpoint. *)

First(h) == Plus(GuestIss(h.conns), 1)          \* sequence number of byte 1
SentBytes(h) == Least(Minus(h.nxt, First(h)), plan.guest)
FinSent(h) == h.st = "est" /\ Minus(h.nxt, First(h)) = plan.guest + 1
FinAcked(h) == FinSent(h) /\ h.una = h.nxt
Window(h) == GuestWindow - h.unread

GuestSegment(h, fl, seq, data) == Segment(fl, seq, h.rcv, Window(h), data)

\* The guest sends: the frame reaches un_tcp_input at once.  Its window's
\* right edge is remembered.
Sends(h, seg, how) ==
  /\ net' = un_tcp_input(net, seg, how)
  /\ g' = [h EXCEPT !.ack = FALSE, !.edge = Plus(h.rcv, Window(h))]
  /\ UNCHANGED plan

Syn(h) == GuestSegment(h, {"SYN"}, GuestIss(h.conns), <<>>)

GuestConnects ==
  /\ ~plan.fwd /\ g.st = "closed" /\ g.conns < plan.conns
  /\ LET h == [Closed(g.conns + 1, g.drops, g.aborts) EXCEPT
                 !.st = "synsent", !.una = GuestIss(g.conns + 1),
                 !.nxt = Plus(GuestIss(g.conns + 1), 1)]
     IN  \E how \in (IF MayOpen THEN {"fail", "nomem", "now", "later"} ELSE {"fail"}) :
           Sends(h, Syn(h), how)

\* The bytes from sequence number seq on.
Payload(h, seq, n) == [k \in 1..n |-> Minus(seq, First(h)) + k]

GuestSends ==
  /\ g.st = "est"
  /\ \E n \in 1..MSS :
       /\ SentBytes(g) + n <= plan.guest /\ Minus(g.nxt, g.una) + n <= g.wnd
       /\ Sends([g EXCEPT !.nxt = Plus(@, n)],
                GuestSegment(g, {"ACK"}, g.nxt, Payload(g, g.nxt, n)), "fail")

\* A byte into a closed window; it counts as sent once acknowledged.
Probe(h) == GuestSegment(h, {"ACK"}, h.nxt, Payload(h, h.nxt, 1))
CanProbe(h) == h.st = "est" /\ SentBytes(h) < plan.guest /\ h.wnd = 0 /\ h.una = h.nxt

GuestCloses ==
  /\ g.st = "est" /\ SentBytes(g) = plan.guest /\ ~FinSent(g)
  /\ Sends([g EXCEPT !.nxt = Plus(@, 1)], GuestSegment(g, {"FIN", "ACK"}, g.nxt, <<>>), "fail")

GuestAborts ==
  /\ g.st \in {"synrcvd", "est"} /\ g.aborts < plan.aborts
  /\ Sends(Closed(g.conns, g.drops, g.aborts + 1), GuestSegment(g, {"RST"}, g.nxt, <<>>), "fail")

\* The oldest segment not acknowledged.
Oldest(h) ==
  CASE h.st = "synsent" -> Syn(h)
    [] h.st = "synrcvd" -> GuestSegment(h, {"SYN", "ACK"}, GuestIss(h.conns), <<>>)
    [] h.st = "est" ->
         LET left == SentBytes(h) - Minus(h.una, First(h))
         IN  IF left > 0
             THEN GuestSegment(h, {"ACK"}, h.una, Payload(h, h.una, Least(left, MSS)))
             ELSE GuestSegment(h, {"FIN", "ACK"}, h.una, <<>>)

Outstanding(h) == h.st # "closed" /\ h.una # h.nxt

GuestResends ==
  /\ Outstanding(g)
  /\ \E how \in (IF MayOpen THEN {"fail", "now"} ELSE {"fail"}) : Sends(g, Oldest(g), how)

GuestProbes == CanProbe(g) /\ Sends(g, Probe(g), "fail")
GuestAcks == g.ack /\ Sends(g, GuestSegment(g, {"ACK"}, g.nxt, <<>>), "fail")

\* The application reads everything: the window opens.
GuestReads ==
  /\ g.unread > 0
  /\ LET h == [g EXCEPT !.unread = 0]
     IN  Sends(h, GuestSegment(h, {"ACK"}, h.nxt, <<>>), "fail")

\* Acknowledgement of what was sent, a probe's byte included.
Acked(h, t) ==
  LET n == Minus(t.ack, h.una)
  IN  IF "ACK" \in t.fl /\ n <= Minus(h.nxt, h.una) + (IF CanProbe(h) THEN 1 ELSE 0)
      THEN [h EXCEPT !.una = t.ack, !.wnd = t.wnd,
                     !.nxt = IF n > Minus(h.nxt, h.una) THEN t.ack ELSE @]
      ELSE h

\* In-order data as far as the window goes, then the FIN.
Taken(h, t) ==
  LET skip == Minus(h.rcv, t.seq)
      n    == Least(Len(t.data) - skip, Window(h))
      d    == IF skip > Len(t.data) \/ n <= 0 THEN h
              ELSE [h EXCEPT !.got = @ \o SubSeq(t.data, skip + 1, skip + n),
                             !.unread = @ + n, !.rcv = Plus(@, n)]
      f    == "FIN" \in t.fl /\ ~h.finR /\ Plus(t.seq, Len(t.data)) = d.rcv
      e    == IF f THEN [d EXCEPT !.finR = TRUE, !.rcv = Plus(@, 1)] ELSE d
  IN  [e EXCEPT !.ack = @ \/ t.data # <<>> \/ "FIN" \in t.fl]

\* The next segment of the RX ring, by the state of the endpoint.  A closed
\* endpoint is modelled as silent.
Received(h, t) ==
  CASE "RST" \in t.fl ->
         IF h.st = "synsent" => "ACK" \in t.fl /\ t.ack = h.nxt
         THEN Closed(h.conns, h.drops, h.aborts) ELSE h
    [] h.st = "closed" /\ "SYN" \in t.fl /\ plan.fwd /\ h.conns < plan.conns ->
         [Closed(h.conns + 1, h.drops, h.aborts) EXCEPT
            !.st = "synrcvd", !.una = GuestIss(h.conns + 1),
            !.nxt = Plus(GuestIss(h.conns + 1), 1), !.rcv = Plus(t.seq, 1), !.peer = t.seq]
    [] h.st = "synsent" /\ {"SYN", "ACK"} \subseteq t.fl /\ t.ack = h.nxt ->
         [Acked(h, t) EXCEPT !.st = "est", !.rcv = Plus(t.seq, 1), !.peer = t.seq, !.ack = TRUE]
    [] h.st = "synrcvd" /\ "SYN" \in t.fl -> [h EXCEPT !.ack = FALSE]
    [] h.st = "synrcvd" /\ "ACK" \in t.fl /\ t.ack = h.nxt /\ "SYN" \notin t.fl ->
         Taken([Acked(h, t) EXCEPT !.st = "est"], t)
    [] h.st = "est" /\ "SYN" \in t.fl -> [h EXCEPT !.ack = TRUE]
    [] h.st = "est" /\ "SYN" \notin t.fl -> Taken(Acked(h, t), t)
    [] OTHER -> h

\* Both directions are closed: the endpoint is gone, but for a last ACK.
Settled(h) == FinAcked(h) /\ h.finR /\ ~h.ack

GuestTakes ==
  /\ net.rx # <<>> /\ ~g.ack
  /\ net' = [net EXCEPT !.rx = Tail(@)]
  /\ g' = Received(g, Head(net.rx))
  /\ UNCHANGED plan

GuestDrops ==
  /\ net.rx # <<>> /\ ~g.ack /\ g.drops < plan.drops
  /\ net' = [net EXCEPT !.rx = Tail(@)]
  /\ g' = [g EXCEPT !.drops = @ + 1]
  /\ UNCHANGED plan

GuestForgets ==
  /\ Settled(g) /\ net.rx = <<>>
  /\ g' = Closed(g.conns, g.drops, g.aborts)
  /\ UNCHANGED <<net, plan>>

-----------------------------------------------------------------------------
(* The host peer, time, and the machine. *)

HostWrites ==
  /\ net.host.open /\ net.host.conn = "ok" /\ ~net.host.eof /\ ~net.host.err
  /\ net.host.sent < plan.host
  /\ net' = [net EXCEPT !.host.sent = @ + 1, !.host.q = Append(@, net.host.sent + 1)]
  /\ UNCHANGED <<g, plan>>

HostCloses ==
  /\ net.host.open /\ net.host.conn = "ok" /\ ~net.host.eof /\ ~net.host.err
  /\ net' = [net EXCEPT !.host.eof = TRUE]
  /\ UNCHANGED <<g, plan>>

HostReads ==
  /\ net.host.out # <<>>
  /\ net' = [net EXCEPT !.host.got = @ \o net.host.out, !.host.out = <<>>]
  /\ UNCHANGED <<g, plan>>

\* The peer resets the connection; a connect in progress is refused.
HostResets ==
  /\ net.host.open /\ ~net.host.err /\ g.aborts < plan.aborts
  /\ net' = [net EXCEPT !.host.err = TRUE, !.host.q = <<>>,
                        !.host.conn = IF @ = "pending" THEN "refused" ELSE @]
  /\ g' = [g EXCEPT !.aborts = @ + 1]
  /\ UNCHANGED plan

HostConnects ==
  /\ net.host.open /\ net.host.conn = "pending"
  /\ net' = [net EXCEPT !.host.conn = "ok"]
  /\ UNCHANGED <<g, plan>>

\* A connection to the forwarded port, taken up by the next poll.
HostOpens ==
  /\ plan.fwd /\ MayOpen /\ IsFree(net)
  /\ net' = un_tcp_accept(net)
  /\ UNCHANGED <<g, plan>>

\* Time passes.
RtoElapses ==
  /\ ~IsFree(net) /\ net.c.rto = "armed"
  /\ net' = [net EXCEPT !.c.rto = "due"]
  /\ UNCHANGED <<g, plan>>

ExpiryElapses ==
  /\ ~IsFree(net) /\ net.c.state \in {"SYN_WAIT", "SYN_SENT", "LINGER"}
  /\ net.c.expire = "armed"
  /\ net' = [net EXCEPT !.c.expire = "due"]
  /\ UNCHANGED <<g, plan>>

Poll == net' = usernet_poll(net) /\ UNCHANGED <<g, plan>>

\* The machine is reset: net_reset drops the ring and every connection.
Reboot ==
  /\ g.aborts < plan.aborts
  /\ net' = [un_tcp_reset(net) EXCEPT !.rx = <<>>]
  /\ g' = Closed(g.conns, g.drops, g.aborts + 1)
  /\ UNCHANGED plan

Guest == GuestConnects \/ GuestSends \/ GuestProbes \/ GuestCloses \/ GuestAborts
         \/ GuestResends \/ GuestAcks \/ GuestReads \/ GuestTakes \/ GuestDrops \/ GuestForgets
Host  == HostWrites \/ HostCloses \/ HostReads \/ HostResets \/ HostConnects \/ HostOpens
Next  == Guest \/ Host \/ RtoElapses \/ ExpiryElapses \/ Poll \/ Reboot

Spec == Init /\ [][Next]_vars

-----------------------------------------------------------------------------
(* Fairness.  A step is owed when it is possible for ever and would change *)
(* something.  machine_tick polls for ever and time passes; a guest that   *)
(* runs takes its frames, acknowledges, reads and, when nothing else is to *)
(* do, retransmits; the host kernel's peer reads.                          *)

PollIdle == usernet_poll(net) = net
PollFairness == []<>PollIdle \/ []<><<Poll>>_vars

GuestTurn ==
  \/ GuestAcks
  \/ GuestTakes
  \/ net.rx = <<>> /\ ~g.ack /\ GuestReads
  \/ net.rx = <<>> /\ ~g.ack /\ g.unread = 0 /\ (GuestResends \/ GuestProbes)

GuestIdle ==
  /\ ~g.ack /\ net.rx = <<>> /\ g.unread = 0
  /\ Outstanding(g) =>
       un_tcp_input(net, Oldest(g), "fail") = net
  /\ CanProbe(g) => un_tcp_input(net, Probe(g), "fail") = net
GuestFairness == []<>GuestIdle \/ []<><<GuestTurn>>_vars

Fairness ==
  /\ PollFairness /\ GuestFairness
  /\ WF_vars(HostReads) /\ WF_vars(RtoElapses) /\ WF_vars(ExpiryElapses)

FairSpec == Spec /\ Fairness

-----------------------------------------------------------------------------
(* Properties. *)

\* Types of TcpConn: lengths and heads within their rings, a timer armed or
\* not, sequence numbers of 32 bits.
TypeOK ==
  /\ Len(net.rx) <= RxRing /\ net.iss \in 0..SeqSpace - 1
  /\ ~IsFree(net) =>
       /\ net.c.h2g_len \in 0..UN_TCP_H2G /\ net.c.h2g_head \in 0..UN_TCP_H2G - 1
       /\ net.c.g2h_len \in 0..UN_TCP_G2H /\ net.c.g2h_head \in 0..UN_TCP_G2H - 1
       /\ {net.c.snd_una, net.c.snd_nxt, net.c.rcv_nxt} \subseteq 0..SeqSpace - 1
       /\ net.c.rto \in {"off", "armed", "due"} /\ net.c.rto_shots \in 0..UN_TCP_RTO_SHOTS

\* The guest and the host socket belong to the same connection.
SameConn == g.peer = net.host.id /\ g.st # "closed"

\* Both streams arrive whole, once and in order, across retransmissions,
\* refused frames, partial windows and ring wrap-arounds (ring_put, ring_get,
\* the trimming of un_tcp_input, the acknowledgement accounting).
StreamsExact ==
  /\ \A k \in DOMAIN g.got : g.got[k] = k
  /\ SameConn => Len(g.got) <= net.host.sent
  /\ LET all == net.host.got \o net.host.out IN \A k \in DOMAIN all : all[k] = k

\* A direction is closed only behind its last byte: the guest sees the FIN
\* after all the host peer sent (emit_conn), the host peer sees the end of
\* the stream after all the guest sent (drain_g2h).
FinLast ==
  /\ SameConn /\ g.finR => net.host.eof /\ Len(g.got) = net.host.sent
  /\ net.host.shut => Len(net.host.got) + Len(net.host.out) = plan.guest

\* A connection lingers only when it is over: both streams complete, both
\* FINs acknowledged (maybe_finish).
LingerClean ==
  ~IsFree(net) /\ net.c.state = "LINGER" =>
    /\ net.host.shut /\ ~net.c.fd /\ net.c.g2h_len = 0
    /\ SameConn => g.finR /\ FinSent(g)

\* The socket is closed exactly when no connection holds it: no descriptor is
\* leaked or used after close (conn_free, conn_linger, guest_open).
SocketOwned == net.host.open <=> (~IsFree(net) /\ net.c.fd)

\* New data goes out only within the guest's window (emit_conn).
NewDataInWindow ==
  [][~IsFree(net) /\ net'.c.state = "EST" /\ net.c.state = "EST"
     /\ net'.c.snd_nxt # net.c.snd_nxt /\ ~net'.c.fin_sent
     => Minus(net'.c.snd_nxt, net'.c.snd_una) <= net'.c.peer_wnd]_vars

\* What the host peer sent reaches the guest, or the connection ends.
Owed == SameConn /\ g.st = "est" /\ net.host.open /\ Len(g.got) < net.host.sent
HostDataArrives == Owed ~> ~Owed

\* A connection both peers have closed is freed.
Over == ~IsFree(net) /\ net.host.eof /\ FinSent(g)
Settles == Over ~> ~Over

\* Both streams arrive exactly, and a FIN only behind their last byte.
StreamsWhole == StreamsExact /\ FinLast

\* A connection's rings, timers and socket agree with its state
\* (conn_free, conn_linger, maybe_finish).
ConnSound == TypeOK /\ SocketOwned /\ LingerClean

\* Data arrives and connections end (usernet_poll's timers and retries).
Progresses == HostDataArrives /\ Settles

=============================================================================
