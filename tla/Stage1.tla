------------------------------- MODULE Stage1 -------------------------------
(***************************************************************************)
(* What the guest may rely on in address translation (EL1&0, stage 1),     *)
(* whatever the emulator caches.                                           *)
(*                                                                         *)
(* An access through the MMU uses the descriptor the tables hold now, or   *)
(* one they held since the last TLB invalidation that covers the page.  It *)
(* faults only if the tables deny it now: a descriptor that the guest      *)
(* makes more permissive in place takes effect without a TLBI.             *)
(***************************************************************************)
EXTENDS PageTables

VARIABLES on,     \* SCTLR_EL1.M
          pt,     \* the translation tables in memory
          stale,  \* <<page, descriptor>>: replaced, and not yet invalidated
          out     \* the last access and its outcome

-----------------------------------------------------------------------------
(* The outcomes an access may have. *)

Usable(p) == {pt[p]} \cup {s[2] : s \in {t \in stale : t[1] = p}}

Outcomes(p, acc, el0) ==
  IF ~on THEN {Bus(p)}
  ELSE {Bus(leaf(p, d)) : d \in {e \in Usable(p) : permits(e, acc, el0)}}
         \cup (IF permits(pt[p], acc, el0) THEN {} ELSE {Fault})

-----------------------------------------------------------------------------
Replaced(tab) == {<<p, pt[p]>> : p \in {q \in Pages : pt[q].valid /\ tab[q] # pt[q]}}

\* What a TLBI by address leaves behind: the entry of another page, unless it
\* comes from the block that contains the address.
Survives(s, p) == s[1] # p /\ ~(s[2].blk /\ s[1] \in Block(p))

Init ==
  /\ on = FALSE /\ pt \in Tables /\ stale = {}
  /\ out = [page |-> 0, acc |-> "EXEC", el0 |-> FALSE, res |-> Fault]

Access ==
  \E p \in Pages, acc \in Accs, el0 \in BOOLEAN : \E r \in Outcomes(p, acc, el0) :
    /\ out' = [page |-> p, acc |-> acc, el0 |-> el0, res |-> r]
    /\ UNCHANGED <<on, pt, stale>>

\* The guest stores to its tables.
RewriteTables ==
  \E tab \in Tables :
    /\ pt' = tab /\ stale' = stale \cup Replaced(tab)
    /\ UNCHANGED <<on, out>>

\* A write to SCTLR, TTBR or TCR.
ChangeRegime ==
  \E tab \in Tables, b \in BOOLEAN :
    /\ pt' = tab /\ on' = b /\ stale' = {}
    /\ UNCHANGED out

InvalidatePage ==
  \E p \in Pages :
    /\ stale' = {s \in stale : Survives(s, p)}
    /\ UNCHANGED <<on, pt, out>>

InvalidateAll == stale' = {} /\ UNCHANGED <<on, pt, out>>

\* A warm reboot switches the MMU off and invalidates nothing.
Reboot == on' = FALSE /\ UNCHANGED <<pt, stale, out>>

Next == Access \/ RewriteTables \/ ChangeRegime \/ InvalidatePage \/ InvalidateAll \/ Reboot

Spec == Init /\ [][Next]_<<on, pt, stale, out>>

=============================================================================
