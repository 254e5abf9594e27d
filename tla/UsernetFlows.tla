----------------------------- MODULE UsernetFlows -----------------------------
(***************************************************************************)
(* The connectionless half of the user-mode network: ARP, DHCP, the UDP    *)
(* NAT table, relayed pings, the UDP port forward and the poll table       *)
(* (src/src/net/usernet_core.c, usernet_udp.c).                            *)
(*                                                                         *)
(* A handler is an operator from s to s, a record of the fields of UserNet *)
(* that it reads or writes and of what surrounds it:                       *)
(*   udp, icmp         the flow tables: slot -> flow;                      *)
(*   udp_sweep, icmp_sweep, now, dns_ip, dns_check, ping_unavail;          *)
(*   rx                the frames in the device's RX ring, not yet taken;  *)
(*   socks             the host kernel: descriptor -> socket, its queue    *)
(*                     being the datagrams that wait to be read;           *)
(*   resolv            the name server of /etc/resolv.conf;                *)
(*   sent              the datagrams a handler has given to the kernel.    *)
(* Time is in ticks; a deadline of n milliseconds is a constant.  A slot   *)
(* that is not in use is NoFlow: its other fields are not read again.      *)
(***************************************************************************)
EXTENDS Integers, Sequences, FiniteSets, SequencesExt, FiniteSetsExt

CONSTANTS
    UN_UDP_MAX, UN_ICMP_MAX,    \* sizes of the flow tables
    UN_POLL_MAX,                \* size of the poll table
    UN_UDP_TTL, UN_DNS_TTL, UN_ICMP_TTL,    \* idle times before a flow dies
    SWEEP, DNS_RECHECK,         \* least time between sweeps; age of dns_ip
    UDP_BURST, ICMP_BURST,      \* datagrams read from a socket in one poll
    RxRing,                     \* capacity of the device's RX ring
    MaxFd                       \* descriptors the host grants

ASSUME TablesFit == UN_UDP_MAX <= UN_POLL_MAX

(* Addresses: the guest's, the virtual gateway and name server, another    *)
(* on-link address, one outside, the host's loopback, two name servers the *)
(* host may be configured with, and the broadcast address.                 *)
UN_IP_GUEST == "10.0.2.15"
UN_IP_HOST == "10.0.2.2"
UN_IP_DNS == "10.0.2.3"
Neighbour == "10.0.2.9"
Outside == "192.0.2.1"
Loopback == "127.0.0.1"
Broadcast == "255.255.255.255"
NoIp == "0.0.0.0"
OnSubnet(ip) == ip \in {UN_IP_GUEST, UN_IP_HOST, UN_IP_DNS, Neighbour}
DnsPort == 53

NoFd == 0
FwdFd == 1                      \* the socket of the one UDP forwarding rule
Fds == 1..MaxFd
Closed == [use |-> "closed", key |-> <<>>, peer |-> NoIp, q |-> <<>>]

NoFlow == [in_use |-> FALSE, key |-> <<>>, is_dns |-> FALSE, fd |-> NoFd, last |-> 0]

usernet_new(ns) ==
    [udp |-> [i \in 1..UN_UDP_MAX |-> NoFlow],
     icmp |-> [i \in 1..UN_ICMP_MAX |-> NoFlow],
     udp_sweep |-> 0, icmp_sweep |-> 0, now |-> 0,
     dns_ip |-> NoIp, dns_check |-> 0, ping_unavail |-> FALSE,
     rx |-> <<>>, sent |-> <<>>, resolv |-> ns,
     socks |-> [fd \in Fds |-> Closed]]

\* The UDP rule of -netfwd: a socket bound to the host's port.
usernet_add_hostfwd(s) ==
    [s EXCEPT !.socks[FwdFd] = [Closed EXCEPT !.use = "fwd"]]

-----------------------------------------------------------------------------
(* Sockets (external: the host kernel) and the RX ring.                    *)

CanOpen(s) == \E fd \in Fds : s.socks[fd] = Closed
NextFd(s) == Min({fd \in Fds : s.socks[fd] = Closed})
Opened(s, use, key, peer) ==
    [s EXCEPT !.socks[NextFd(s)] = [use |-> use, key |-> key, peer |-> peer, q |-> <<>>]]
ClosedFd(s, fd) == [s EXCEPT !.socks[fd] = Closed]
Sent(s, fd, to) == [s EXCEPT !.sent = Append(@, [fd |-> fd, to |-> to])]

Accepts(s) == Len(s.rx) < RxRing
un_output(s, frame) == IF Accepts(s) THEN [s EXCEPT !.rx = Append(@, frame)] ELSE s

-----------------------------------------------------------------------------
(* Frames the stack answers itself.                                        *)

\* Every on-link address but the guest's own is the gateway's.
proxied(tpa) == OnSubnet(tpa) /\ tpa # UN_IP_GUEST

arp_input(s, tpa) ==
    IF proxied(tpa) THEN un_output(s, [kind |-> "arp", src |-> tpa, dst |-> UN_IP_GUEST,
                                       tag |-> <<>>])
    ELSE s

\* A request carries its type, option 50, ciaddr and the broadcast flag.
dhcp_requested(m) == IF m.opt50 # NoIp THEN m.opt50 ELSE m.ciaddr
dhcp_reply_type(m) ==
    IF m.type = "discover" THEN "offer"
    ELSE IF dhcp_requested(m) \notin {NoIp, UN_IP_GUEST} THEN "nak" ELSE "ack"

dhcp_dst(m) ==
    IF m.ciaddr # NoIp /\ dhcp_reply_type(m) = "ack" THEN m.ciaddr
    ELSE IF m.bcast \/ dhcp_reply_type(m) = "nak" THEN Broadcast ELSE UN_IP_GUEST

dhcp_input(s, m) ==
    IF m.type \in {"discover", "request"}
    THEN un_output(s, [kind |-> dhcp_reply_type(m), src |-> UN_IP_HOST, dst |-> dhcp_dst(m),
                       tag |-> <<>>])
    ELSE s

-----------------------------------------------------------------------------
(* The name server: cached, and read again when the copy has aged.         *)

un_dns_server(s) ==
    IF s.dns_ip # NoIp /\ s.now - s.dns_check < DNS_RECHECK THEN s
    ELSE [s EXCEPT !.dns_ip = s.resolv, !.dns_check = s.now]

-----------------------------------------------------------------------------
(* The UDP flow table.  A key is <<guest port, remote address, port>>.     *)

flow_close_Leak(s, i) == [s EXCEPT !.udp[i] = NoFlow]     \* Mutant: no close()

flow_close(s, i) ==
    LET t == IF s.udp[i].fd # NoFd THEN ClosedFd(s, s.udp[i].fd) ELSE s
    IN  [t EXCEPT !.udp[i] = NoFlow]

flow_lookup(s, key) == {i \in DOMAIN s.udp : s.udp[i].in_use /\ s.udp[i].key = key}

\* The first of the least recently used.
oldest(table) ==
    LET age == {table[i].last : i \in DOMAIN table}
    IN  Min({i \in DOMAIN table : table[i].last = Min(age)})

free_slots(table) == {i \in DOMAIN table : ~table[i].in_use}

victim_First(s) == 1        \* Mutant: the first slot whatever its age

victim(s) == oldest(s.udp)

is_dns(key) == key[2] = UN_IP_DNS /\ key[3] = DnsPort
target(s, key) ==
    IF is_dns(key) THEN s.dns_ip ELSE IF key[2] = UN_IP_HOST THEN Loopback ELSE key[2]

(* flow_create: find or evict a slot, resolve the target, open and connect *)
(* a socket; ans is the kernel's answer.  The slot is not in use when the  *)
(* kernel refuses.  The result is [s, slot], slot 0 for NULL.              *)
flow_create(s, key, ans) ==
    LET full == free_slots(s.udp) = {}
        i == IF full THEN victim(s) ELSE Min(free_slots(s.udp))
        t == IF full THEN flow_close(s, i) ELSE s
        u == IF is_dns(key) THEN un_dns_server(t) ELSE t
        fd == NextFd(u)
    IN  IF ans = "refused" \/ ~CanOpen(u) THEN [s |-> u, slot |-> 0]
        ELSE [s |-> [Opened(u, "udp", key, target(u, key)) EXCEPT !.udp[i] =
                        [in_use |-> TRUE, key |-> key, is_dns |-> is_dns(key),
                         fd |-> fd, last |-> u.now]],
              slot |-> i]

\* A guest datagram from a forwarded port leaves by the rule's own socket.
fwd_peer(dst) == IF dst = UN_IP_HOST THEN Loopback ELSE dst
fwd_from(peer) == IF peer = Loopback THEN UN_IP_HOST ELSE peer

un_udp_input(s, key, fwd_port, ans) ==
    IF key[1] = fwd_port THEN Sent(s, FwdFd, fwd_peer(key[2]))
    ELSE IF key[2] = Broadcast THEN s
    ELSE LET found == flow_lookup(s, key)
             r == IF found # {} THEN [s |-> s, slot |-> Min(found)]
                  ELSE flow_create(s, key, ans)
         IN  IF r.slot = 0 THEN r.s
             ELSE LET fd == r.s.udp[r.slot].fd
                  IN  Sent([r.s EXCEPT !.udp[r.slot].last = r.s.now], fd, r.s.socks[fd].peer)

-----------------------------------------------------------------------------
(* Pings: answered here for the virtual hosts, relayed for outside.        *)

\* The slot of a ping that has none: a spare one, else the oldest, closed.
icmp_slot(s) ==
    IF free_slots(s.icmp) # {} THEN Min(free_slots(s.icmp)) ELSE oldest(s.icmp)

icmp_close(s, i) ==
    IF s.icmp[i].in_use THEN [ClosedFd(s, s.icmp[i].fd) EXCEPT !.icmp[i] = NoFlow] ELSE s

icmp_relay(s, key, ans) ==
    LET found == {i \in DOMAIN s.icmp : s.icmp[i].in_use /\ s.icmp[i].key = key}
        i == IF found # {} THEN Min(found) ELSE icmp_slot(s)
        t == icmp_close(s, i)
        fd == NextFd(t)
    IN  IF s.ping_unavail THEN s
        ELSE IF found # {} THEN Sent([s EXCEPT !.icmp[i].last = s.now], s.icmp[i].fd, key[2])
        ELSE IF ans = "denied" THEN [t EXCEPT !.ping_unavail = TRUE]
        ELSE IF ans = "refused" \/ ~CanOpen(t) THEN t
        ELSE Sent([Opened(t, "icmp", key, key[2]) EXCEPT
                       !.icmp[i] = [NoFlow EXCEPT !.in_use = TRUE, !.key = key, !.fd = fd,
                                                  !.last = t.now]],
                  fd, key[2])

icmp_input(s, key, ans) ==
    IF key[2] \in {UN_IP_HOST, UN_IP_DNS}
    THEN un_output(s, [kind |-> "echo", src |-> key[2], dst |-> UN_IP_GUEST, tag |-> <<key, key>>])
    ELSE IF OnSubnet(key[2]) THEN s
    ELSE icmp_relay(s, key, ans)

-----------------------------------------------------------------------------
(* What arrives at the sockets.  A frame's tag is the key it is addressed  *)
(* by and, behind it, the key its socket was opened for.                   *)

Least(a, b) == IF a < b THEN a ELSE b
Reads(s, fd, n) == [s EXCEPT !.socks[fd].q = SubSeq(@, n + 1, Len(@))]

(* Datagrams are read until the queue is empty or the ring refuses one,    *)
(* which is lost: taken from the queue, delivered nowhere.                 *)
un_udp_readable(s, i) ==
    LET f == s.udp[i]
        waiting == Least(UDP_BURST, Len(s.socks[f.fd].q))
        fit == Least(waiting, RxRing - Len(s.rx))
        frame == [kind |-> "udp", src |-> f.key[2], dst |-> UN_IP_GUEST,
                  tag |-> <<f.key, s.socks[f.fd].key>>]
    IN  IF waiting = 0 THEN s
        ELSE [Reads(s, f.fd, IF fit < waiting THEN fit + 1 ELSE fit) EXCEPT
                 !.rx = @ \o [k \in 1..fit |-> frame],
                 !.udp[i].last = s.now]

\* Mutant: the identifier the kernel put in is left there.
restored_Not(f) == <<0, f.key[2]>>

\* The guest's identifier is put back in the reply.
restored(f) == f.key

(* Of the messages on a ping socket only echo replies are passed on; one   *)
(* that the ring refuses ends the burst.                                   *)
icmp_readable(s, i) ==
    LET f == s.icmp[i]
        q == s.socks[f.fd].q
        waiting == Least(ICMP_BURST, Len(q))
        replies == SelectSeq(SubSeq(q, 1, waiting), LAMBDA m : m = "reply")
        fit == Least(Len(replies), RxRing - Len(s.rx))
        \* messages taken: up to the first reply that does not fit, inclusive
        taken == IF fit = Len(replies) THEN waiting
                 ELSE CHOOSE n \in 1..waiting :
                        /\ q[n] = "reply"
                        /\ Cardinality({m \in 1..n : q[m] = "reply"}) = fit + 1
        frame == [kind |-> "echo", src |-> f.key[2], dst |-> UN_IP_GUEST,
                  tag |-> <<restored(f), s.socks[f.fd].key>>]
    IN  [Reads(s, f.fd, taken) EXCEPT
            !.rx = @ \o [k \in 1..fit |-> frame],
            !.icmp[i].last = IF replies = <<>> THEN @ ELSE s.now]

\* Datagrams at the forwarded port: the queue holds their senders.
un_udp_fwd_readable(s) ==
    LET q == s.socks[FwdFd].q
        waiting == Least(UDP_BURST, Len(q))
        fit == Least(waiting, RxRing - Len(s.rx))
        frame(k) == [kind |-> "fwd", src |-> fwd_from(q[k]), dst |-> UN_IP_GUEST,
                     tag |-> <<q[k]>>]
    IN  [Reads(s, FwdFd, IF fit < waiting THEN fit + 1 ELSE fit) EXCEPT
            !.rx = @ \o [k \in 1..fit |-> frame(k)]]

-----------------------------------------------------------------------------
(* usernet_poll: sweep, rebuild the poll table, serve what is readable.    *)

ttl(f) == IF f.is_dns THEN UN_DNS_TTL ELSE UN_UDP_TTL

udp_expired(s, i) == s.udp[i].in_use /\ s.now - s.udp[i].last > ttl(s.udp[i])

un_udp_tick(s) ==
    IF s.now - s.udp_sweep < SWEEP THEN s
    ELSE FoldSet(LAMBDA i, t : flow_close(t, i), [s EXCEPT !.udp_sweep = s.now],
                 {i \in DOMAIN s.udp : udp_expired(s, i)})

icmp_tick(s) ==
    IF s.now - s.icmp_sweep < SWEEP THEN s
    ELSE FoldSet(LAMBDA i, t : icmp_close(t, i), [s EXCEPT !.icmp_sweep = s.now],
                 {i \in DOMAIN s.icmp : s.now - s.icmp[i].last > UN_ICMP_TTL})

un_udp_fill(s) == [k \in 1..Cardinality(DOMAIN s.udp \ free_slots(s.udp)) |->
    [kind |-> "udp", slot |-> SetToSortSeq(DOMAIN s.udp \ free_slots(s.udp), <)[k]]]
icmp_fill(s) == [k \in 1..Cardinality(DOMAIN s.icmp \ free_slots(s.icmp)) |->
    [kind |-> "icmp", slot |-> SetToSortSeq(DOMAIN s.icmp \ free_slots(s.icmp), <)[k]]]

\* Mutant: the listeners and the pings first.
poll_table_Last(s, n_tcp) ==
    LET all == <<[kind |-> "fwd", slot |-> 0]>> \o icmp_fill(s)
               \o [k \in 1..n_tcp |-> [kind |-> "tcp", slot |-> k]] \o un_udp_fill(s)
    IN  SubSeq(all, 1, Least(UN_POLL_MAX, Len(all)))

(* The table in the order it is filled, n_tcp connections between the UDP  *)
(* flows and the pings; un_poll_add drops what does not fit.               *)
poll_table(s, n_tcp) ==
    LET all == un_udp_fill(s) \o [k \in 1..n_tcp |-> [kind |-> "tcp", slot |-> k]]
               \o icmp_fill(s) \o <<[kind |-> "fwd", slot |-> 0]>>
    IN  SubSeq(all, 1, Least(UN_POLL_MAX, Len(all)))

serve(s, e) ==
    CASE e.kind = "udp" -> un_udp_readable(s, e.slot)
      [] e.kind = "icmp" -> icmp_readable(s, e.slot)
      [] e.kind = "fwd" -> un_udp_fwd_readable(s)
      [] OTHER -> s

usernet_poll(s, n_tcp) ==
    LET t == icmp_tick(un_udp_tick(s))
    IN  FoldLeft(serve, t, poll_table(t, n_tcp))

usernet_guest_reset(s) ==
    LET t == FoldSet(LAMBDA i, u : flow_close(u, i), s, DOMAIN s.udp \ free_slots(s.udp))
    IN  FoldSet(LAMBDA i, u : icmp_close(u, i), t, DOMAIN t.icmp)
=============================================================================
