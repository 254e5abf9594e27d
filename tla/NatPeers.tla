------------------------------- MODULE NatPeers -------------------------------
(***************************************************************************)
(* The connectionless stack between a guest and a host: the guest sends    *)
(* datagrams, pings, ARP and DHCP requests and empties its RX ring; the    *)
(* host answers, writes to the forwarded port, changes its name server and *)
(* refuses sockets; TCP connections take poll-table entries; time passes;  *)
(* the machine reboots.                                                    *)
(***************************************************************************)
EXTENDS UsernetFlows

CONSTANTS
    Plans,          \* what guest and host do, chosen at the start:
                    \*   keys     <<guest port, remote address, remote port>> it uses
                    \*   pings    <<identifier, address>> it pings
                    \*   requests the DHCP requests it makes
                    \*   asked    the addresses it asks for with ARP
                    \*   peers    hosts that write to the forwarded port
                    \*   servers  name servers the host may have
                    \*   tcp      the most TCP connections at a time
    FwdPort,        \* the guest port of the forwarding rule
    SockQ,          \* datagrams a socket queues
    MaxTime         \* bound on the s.now

VARIABLES
    s,              \* the stack and the kernel's sockets; s.now is the host's
                    \* time, which every entry point reads before it is used
    n_tcp,          \* TCP connections in the poll table
    former,         \* [ip, until]: the name server before the present one
    plan

vars == <<s, n_tcp, former, plan>>

Init ==
    /\ plan \in Plans
    /\ \E ns \in plan.servers :
          /\ s = usernet_add_hostfwd(usernet_new(ns))
          /\ former = [ip |-> ns, until |-> 0]
    /\ n_tcp = 0

\* A frame of the guest: usernet_input takes the time and hands it on.
usernet_input(t) == s' = [t EXCEPT !.sent = <<>>] /\ UNCHANGED <<n_tcp, former, plan>>

GuestSends == \E k \in plan.keys, ans \in {"ok", "refused"} :
    usernet_input(un_udp_input(s, k, FwdPort, ans))
GuestPings == \E k \in plan.pings, ans \in {"ok", "refused", "denied"} :
    usernet_input(icmp_input(s, k, ans))
GuestAsksArp == \E tpa \in plan.asked : usernet_input(arp_input(s, tpa))
GuestAsksDhcp == \E m \in plan.requests : usernet_input(dhcp_input(s, m))

\* The guest's driver empties the RX ring.
GuestTakes ==
    /\ s.rx # <<>>
    /\ s' = [s EXCEPT !.rx = <<>>]
    /\ UNCHANGED <<n_tcp, former, plan>>

Poll ==
    /\ s' = usernet_poll(s, n_tcp)
    /\ UNCHANGED <<n_tcp, former, plan>>

Reboot ==
    /\ s' = [usernet_guest_reset(s) EXCEPT !.rx = <<>>]
    /\ n_tcp' = 0
    /\ UNCHANGED <<former, plan>>

\* A datagram for socket fd from the host it is connected to.
HostAnswers == \E fd \in Fds, m \in {"reply", "other"} :
    /\ s.socks[fd].use \in {"udp", "icmp"}
    /\ m = "other" => s.socks[fd].use = "icmp"
    /\ Len(s.socks[fd].q) < SockQ
    /\ s' = [s EXCEPT !.socks[fd].q = Append(@, m)]
    /\ UNCHANGED <<n_tcp, former, plan>>

HostForwards == \E p \in plan.peers :
    /\ Len(s.socks[FwdFd].q) < SockQ
    /\ s' = [s EXCEPT !.socks[FwdFd].q = Append(@, p)]
    /\ UNCHANGED <<n_tcp, former, plan>>

HostChangesServer == \E ns \in plan.servers \ {s.resolv} :
    /\ s' = [s EXCEPT !.resolv = ns]
    /\ former' = [ip |-> s.resolv, until |-> s.now]
    /\ UNCHANGED <<n_tcp, plan>>

TcpChanges == \E n \in 0..plan.tcp :
    /\ n # n_tcp
    /\ n_tcp' = n
    /\ UNCHANGED <<s, former, plan>>

Elapse ==
    /\ s.now < MaxTime
    /\ s' = [s EXCEPT !.now = @ + 1]
    /\ UNCHANGED <<n_tcp, former, plan>>

Next ==
    \/ GuestSends \/ GuestPings \/ GuestAsksArp \/ GuestAsksDhcp \/ GuestTakes
    \/ Poll \/ Reboot
    \/ HostAnswers \/ HostForwards \/ HostChangesServer
    \/ TcpChanges \/ Elapse

Spec == Init /\ [][Next]_vars

-----------------------------------------------------------------------------
(* Properties.                                                             *)

Flows(table) == {table[i] : i \in DOMAIN table \ free_slots(table)}
LiveFlows == Flows(s.udp) \cup Flows(s.icmp)

(* Type correctness.                                                       *)
TypeOK ==
    /\ \A i \in DOMAIN s.udp : s.udp[i].fd \in Fds \cup {NoFd} /\ s.udp[i].last \in 0..s.now
    /\ \A i \in DOMAIN s.icmp : s.icmp[i].fd \in Fds \cup {NoFd} /\ s.icmp[i].last \in 0..s.now
    /\ \A fd \in Fds : Len(s.socks[fd].q) <= SockQ
    /\ Len(s.rx) <= RxRing
    /\ s.now \in 0..MaxTime /\ s.udp_sweep \in 0..s.now /\ s.icmp_sweep \in 0..s.now
    /\ s.dns_ip \in plan.servers \cup {NoIp} /\ n_tcp \in 0..plan.tcp

(* Descriptors: every live flow owns an open socket, opened for its own    *)
(* addresses and shared with no other flow, and every open socket belongs  *)
(* to a live flow or to the forwarding rule.  flow_close, the eviction in  *)
(* flow_create and icmp_relay, the sweeps and the reset close what they    *)
(* drop, also when the kernel then refuses the new socket and although it  *)
(* hands the same descriptor out again.                                    *)
SocketsOwned ==
    /\ \A f \in LiveFlows : f.fd # NoFd /\ s.socks[f.fd].key = f.key
    /\ \A fd \in Fds \ {FwdFd} : s.socks[fd] # Closed =>
          Cardinality({<<"udp", i>> : i \in {j \in DOMAIN s.udp :
                                             s.udp[j].in_use /\ s.udp[j].fd = fd}}
                 \cup {<<"icmp", i>> : i \in {j \in DOMAIN s.icmp :
                                             s.icmp[j].in_use /\ s.icmp[j].fd = fd}}) = 1

(* Address translation is exact: a reply that reaches the guest carries    *)
(* the addresses of the conversation whose socket it came in on, and no    *)
(* two live flows stand for one conversation.                              *)
NatExact ==
    /\ \A k \in DOMAIN s.rx : s.rx[k].kind \in {"udp", "echo"} => s.rx[k].tag[1] = s.rx[k].tag[2]
    /\ \A i, j \in DOMAIN s.udp :
          s.udp[i].in_use /\ s.udp[j].in_use /\ s.udp[i].key = s.udp[j].key => i = j

(* What is put in the RX ring is for this guest: unicast to its address or *)
(* broadcast, never a claim to the guest's own address (arp_input leaves   *)
(* it to the guest) and never from the host's loopback; and the reply to a *)
(* forwarded datagram goes back to whoever sent it                         *)
(* (un_udp_fwd_readable against un_udp_fwd_input).                         *)
Addressed == \A k \in DOMAIN s.rx :
    /\ s.rx[k].dst \in {UN_IP_GUEST, Broadcast}
    /\ s.rx[k].src \notin {UN_IP_GUEST, Loopback}
    /\ s.rx[k].kind = "fwd" => fwd_peer(s.rx[k].src) = s.rx[k].tag[1]

(* Whatever the guest sends next leaves by an open socket connected where  *)
(* its destination points: the virtual gateway is the host's loopback, the *)
(* virtual name server one that the host has or had, the rest themselves;  *)
(* the socket is the one of that conversation, found or made in            *)
(* un_udp_input and icmp_input.                                            *)
SentRight ==
    /\ \A k \in plan.keys : LET t == un_udp_input(s, k, FwdPort, "ok") IN
          \A n \in DOMAIN t.sent : t.sent[n].fd # FwdFd =>
             /\ t.socks[t.sent[n].fd].key = k
             /\ t.sent[n].to = t.socks[t.sent[n].fd].peer
             /\ IF is_dns(k) THEN t.sent[n].to \in plan.servers
                ELSE t.sent[n].to = IF k[2] = UN_IP_HOST THEN Loopback ELSE k[2]
    /\ \A k \in plan.pings : LET t == icmp_input(s, k, "ok") IN
          \A n \in DOMAIN t.sent :
             t.socks[t.sent[n].fd].key = k /\ t.sent[n].to = t.socks[t.sent[n].fd].peer

(* A name server is never older than DNS_RECHECK when a flow is connected  *)
(* to it (un_dns_server), whatever was cached.                             *)
DnsFresh == \A fd \in Fds \ {FwdFd} :
    LET new == s'.socks[fd]
    IN  (s.socks[fd] # new /\ new.use = "udp" /\ new.q = <<>> /\ is_dns(new.key)
            /\ s.socks[fd].key # new.key) =>
           \/ new.peer = s.resolv
           \/ new.peer = former.ip /\ s.now - former.until < DNS_RECHECK

(* A conversation is dropped only for cause: it has been idle longer than  *)
(* its lifetime (the sweep), it was the least recently used of a full      *)
(* table (flow_create), or the machine was reset.                          *)
DroppedForCause == \A f \in Flows(s.udp) :
    \/ \E g \in Flows(s'.udp) : g.key = f.key
    \/ s.now - f.last > ttl(f)
    \/ free_slots(s.udp) = {} /\ \A g \in Flows(s.udp) : f.last <= g.last
    \/ Flows(s'.udp) \cup Flows(s'.icmp) = {} /\ s'.rx = <<>>

(* A poll leaves no flow that has been idle longer than its lifetime plus  *)
(* the time between two sweeps, whenever the polls come.                   *)
IdleBounded == Poll =>
    /\ \A f \in Flows(s'.udp) : s.now - f.last <= ttl(f) + SWEEP
    /\ \A f \in Flows(s'.icmp) : s.now - f.last <= UN_ICMP_TTL + SWEEP

(* A poll reads every live UDP flow, however many TCP connections share    *)
(* the poll table: the UDP flows come first in it and their table is no    *)
(* larger.  What is left unread is left because the RX ring is full.       *)
UdpServed == Poll => \A f \in Flows(s'.udp) :
    s'.socks[f.fd].q = <<>> \/ ~Accepts(s') \/ Len(s.socks[f.fd].q) > UDP_BURST

(* The flow tables are well formed and own their descriptors.              *)
FlowsSound == TypeOK /\ SocketsOwned

(* Datagrams go where their addresses say, in both directions.             *)
Translated == NatExact /\ Addressed /\ SentRight

(* A flow starts with a fresh name server and ends only for cause.         *)
FlowLifecycle == [][DnsFresh /\ DroppedForCause]_vars

(* A poll reads every UDP flow and leaves no expired one.                  *)
PollSound == [][UdpServed /\ IdleBounded]_vars

=============================================================================
