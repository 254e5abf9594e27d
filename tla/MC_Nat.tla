-------------------------------- MODULE MC_Nat --------------------------------
(* Model values for the connectionless stack.                              *)
EXTENDS NatPeers

Quiet == [keys |-> {}, pings |-> {}, requests |-> {}, asked |-> {}, peers |-> {},
          servers |-> {"ns1"}, tcp |-> 0]
Request(type, opt50, ciaddr, bcast) ==
    [type |-> type, opt50 |-> opt50, ciaddr |-> ciaddr, bcast |-> bcast]
DhcpRequests == {Request("discover", NoIp, NoIp, TRUE), Request("discover", NoIp, NoIp, FALSE),
               Request("request", UN_IP_GUEST, NoIp, FALSE), Request("request", Neighbour, NoIp, FALSE),
               Request("request", NoIp, UN_IP_GUEST, FALSE), Request("request", NoIp, Neighbour, FALSE),
               Request("release", NoIp, UN_IP_GUEST, FALSE)}

\* A crowded flow table; a changing name server; pings and the forward
\* beside TCP connections; the frames answered locally.
MCPlans ==
    {[Quiet EXCEPT !.keys = {<<1, Outside, 7>>, <<1, Outside, 8>>, <<2, UN_IP_HOST, 7>>}],
     [Quiet EXCEPT !.keys = {<<1, UN_IP_DNS, 53>>, <<1, Outside, 53>>}, !.servers = {"ns1", "ns2"}],
     [Quiet EXCEPT !.pings = {<<1, Outside>>, <<2, Outside>>, <<1, UN_IP_DNS>>, <<1, Neighbour>>},
                   !.tcp = 1],
     [Quiet EXCEPT !.keys = {<<9, UN_IP_HOST, 7>>, <<1, Broadcast, 7>>}, !.peers = {Loopback, Outside},
                   !.asked = {UN_IP_GUEST, Neighbour, Outside}, !.requests = DhcpRequests]}
=============================================================================
