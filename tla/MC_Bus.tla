-------------------------------- MODULE MC_Bus --------------------------------
(* Two banks of four bytes with blocks of two, pages of two; every         *)
(* configuration of the platform.                                          *)
EXTENDS BusGuest, TLC

MCBits == 0 .. 3
MCCmd == [array |-> {0, 1, 2, 3}, status |-> {0, 1, 2}, id |-> {0, 3}, cfi |-> {1, 3}, word |-> {2},
          erase |-> {1}, buffer |-> {1, 2, 3}, confirm |-> {2, 3}]
MCItems == (0 :> <<{0}, {1}, {2}>>) @@ (1 :> <<{3}>>) @@ (5 :> <<>>)
MCDTB == <<{1, 2}>>
MCData == {{2, 3}, {0, 1, 2}}

Image == [a \in FlashBytes |-> IF a < 2 THEN {0, 1} ELSE Erased]
Small == <<[base |-> 40, size |-> 24, kind |-> "fw-cfg"]>>
MCPlans == {[kind |-> k, image |-> Image, devs |-> Small] : k \in {"flash", "fwcfg"}}
             \cup {[kind |-> "map", image |-> Image, devs |-> platform_build(c)] : c \in Configs}
================================================================================
