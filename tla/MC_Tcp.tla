-------------------------------- MODULE MC_Tcp --------------------------------
(* Instances of TcpPeers for TLC. *)
EXTENDS TcpPeers

Plan(fwd, host, guest, drops, aborts, conns) ==
  [fwd |-> fwd, host |-> host, guest |-> guest, drops |-> drops, aborts |-> aborts,
   conns |-> conns]
MCPlans == {Plan(FALSE, 3, 0, 1, 0, 1), Plan(FALSE, 0, 4, 0, 0, 1), Plan(TRUE, 1, 1, 0, 0, 1),
            Plan(FALSE, 1, 1, 0, 1, 1), Plan(FALSE, 0, 0, 0, 0, 2), Plan(TRUE, 0, 0, 0, 1, 2)}
=============================================================================
