----------------------------- MODULE PageTables -----------------------------
(***************************************************************************)
(* Translation tables and what one of their leaf descriptors grants        *)
(* (walk and perm_ok_el in src/src/mmu.c).                                 *)
(*                                                                         *)
(* The tables are a function from pages to leaf descriptors: the levels    *)
(* above, the address-range checks and the access flag decide only whether *)
(* there is a valid leaf.  A block descriptor maps an aligned group of     *)
(* BlockPages pages (the code has two sizes, 2 MB and 1 GB).               *)
(***************************************************************************)
EXTENDS Integers, FiniteSets

CONSTANTS Pages,       \* virtual pages
          Frames,      \* physical pages
          Hole,        \* physical pages with nothing on the bus
          BlockPages,  \* pages mapped by one block descriptor
          Tables       \* translation tables the guest builds

Accs == {"READ", "WRITE", "EXEC"}
Fault == -1

\* Leaf descriptors: output page, AP[2:1], execute-never bits, block or page.
Descs == [valid : BOOLEAN, pa : Frames, ap : 0..3, uxn : BOOLEAN, pxn : BOOLEAN, blk : BOOLEAN]

Block(p) == {q \in Pages : q \div BlockPages = p \div BlockPages}

\* A block descriptor is the same one for all pages of the group.
WellFormed(tab) ==
  /\ tab \in [Pages -> Descs]
  /\ \A p \in Pages : tab[p].blk =>
       \A q \in Block(p) : tab[q] = tab[p] /\ tab[p].pa + (q % BlockPages) \in Frames

ASSUME PageTablesAssumption ==
  /\ Pages \subseteq Nat /\ Pages \subseteq Frames
  /\ Frames \subseteq Nat /\ Hole \subseteq Frames
  /\ BlockPages \in Nat \ {0}
  /\ \A tab \in Tables : WellFormed(tab)

-----------------------------------------------------------------------------
perm_ok_el(acc, d, el0) ==
  LET can_read  == d.ap \in {1, 3} \/ ~el0
      can_write == d.ap = 1 \/ (d.ap = 0 /\ ~el0)
  IN  CASE acc = "READ"  -> can_read
        [] acc = "WRITE" -> can_write
        [] acc = "EXEC"  -> can_read /\ (IF el0 THEN ~d.uxn ELSE ~d.pxn)

permits(d, acc, el0) == d.valid /\ perm_ok_el(acc, d, el0)

leaf(p, d) == IF d.blk THEN d.pa + (p % BlockPages) ELSE d.pa

\* An access to a page with nothing behind it is an external abort.
Bus(f) == IF f \in Hole THEN Fault ELSE f

=============================================================================
