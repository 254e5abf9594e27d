------------------------------- MODULE MC_Jit -------------------------------
(* Small guests for the code cache: two virtual pages of two slots. *)
EXTENDS Jit

Op(name, o) == [op |-> name, dp |-> 0, off |-> o]
V0 == <<0, 0>>

MCInsns == {Op(n, o) : n \in {"str", "tlbi"}, o \in {0, 1}}
           \cup {Op(n, 0) : n \in {"b", "br", "msr", "strx", "fwdma", "erase", "dma", "ic", "eret", "daif"}}

\* Memory in which the first slot of page 1 holds one instruction and every
\* other slot one of some instructions.
Mems(first, others) ==
  {m \in [Frames -> [Offs -> {first} \cup others]] :
     m[1][0] = first /\ \A o \in Offs : m[3][o] = first}
Ident == [p \in Pages |-> p + 1]
WithFlash == [p \in Pages |-> IF p = 0 THEN 1 ELSE 3]
OnFlash == [p \in Pages |-> IF p = 0 THEN 3 ELSE 1]
Guest(mems, map, written) == [mems |-> mems, map |-> map, written |-> written]

\* Code that is stored to, executed, and entered by direct and indirect jumps.
Smc == {Op("b", 0), Op("br", 0)}
SmcGuest == Guest(Mems(Op("str", 1), Smc), Ident, {Op("str", 1)} \cup Smc)

\* Code that changes translations and contexts.
MapMems == {m \in Mems(Op("tlbi", 1), {Op("br", 0), Op("msr", 0)}) :
              m[1][1] # Op("tlbi", 1) /\ m[2][1] = Op("br", 0)}
MapGuest == Guest(MapMems, Ident, {})

\* The other ways to write memory, to invalidate and to leave a block.
Filled(s0, s1) == {[f \in Frames |-> [o \in Offs |-> IF o = 0 THEN Op(s0, 0) ELSE Op(s1, 0)]]}
DmaGuest(map, ops) == Guest(Filled("dma", "dma"), map, {Op(n, 0) : n \in ops \cup {"dma"}})
DmaGuests == {DmaGuest(WithFlash, {"strx", "fwdma"}), DmaGuest(WithFlash, {"str", "daif"}),
              DmaGuest(OnFlash, {"erase", "ic"})}
EretGuest == Guest(Filled("eret", "ic"), WithFlash, {})

MCPlans == {SmcGuest, MapGuest, EretGuest} \cup DmaGuests
=============================================================================
