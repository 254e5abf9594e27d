------------------------------ MODULE MC_Virtio ------------------------------
(* Instances of VirtioGuest for TLC. *)
EXTENDS VirtioGuest

MCDevices == {blk_create(INTID, FALSE), blk_create(INTID, TRUE),
              con_create(INTID, 1), net_create(INTID)}
W(n) == [len |-> n, write |-> TRUE]
R(n) == [len |-> n, write |-> FALSE]
MCRxChains == [con |-> {<<W(2)>>, <<W(1), W(1)>>}, net |-> {<<W(2)>>, <<R(1), W(2)>>}]
MCDriverNum == [blk |-> 4, con |-> 2, net |-> 2]
MCMaxPosts == [blk |-> (0 :> 3), con |-> (0 :> 3 @@ 1 :> 2), net |-> (0 :> 3 @@ 1 :> 2)]
MCTxChains == {<<<<"a">>>>, <<<<"h">>, <<"b">>>>}

Req(type, sector, lens) == [type |-> type, sector |-> sector, lens |-> lens]
MCRequests ==
  {Req("IN", 0, <<1, 2>>), Req("IN", 1, <<2>>), Req("IN", 7, <<4>>), Req("OUT", 1, <<2>>),
   Req("OUT", 1, <<3>>), Req("OUT", 7, <<4>>), Req("FLUSH", 0, <<>>), Req("GET_ID", 0, <<2>>),
   Req("other", 0, <<>>), Req("short", 0, <<>>)}
=============================================================================
