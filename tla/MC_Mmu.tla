------------------------------- MODULE MC_Mmu -------------------------------
(* Tables of a small guest: two pages that form one block. *)
EXTENDS Mmu

MCPages == {0, 1}
MCFrames == 0..4

Leaf(pa, ap) == [valid |-> TRUE, pa |-> pa, ap |-> ap, uxn |-> FALSE, pxn |-> FALSE, blk |-> FALSE]
Unmapped == [valid |-> FALSE, pa |-> 0, ap |-> 0, uxn |-> TRUE, pxn |-> TRUE, blk |-> FALSE]
BlockLeaf(pa) == [valid |-> TRUE, pa |-> pa, ap |-> 1, uxn |-> FALSE, pxn |-> FALSE, blk |-> TRUE]

\* A kernel page that becomes writable in place, a user page, a page
\* that moves to flash.
PageTabs == {[p \in MCPages |-> IF p = 0 THEN Leaf(2, 2) ELSE Leaf(3, 1)],
             [p \in MCPages |-> IF p = 0 THEN Leaf(2, 0) ELSE Leaf(3, 1)],
             [p \in MCPages |-> IF p = 0 THEN Leaf(4, 0) ELSE Unmapped]}

\* A block, and the page tables it is split into.
BlockTabs == {[p \in MCPages |-> BlockLeaf(3)],
              [p \in MCPages |-> IF p = 0 THEN Leaf(3, 1) ELSE Leaf(2, 1)]}

\* out records the outcome of the last access and enables nothing.
CacheView == <<mmu, pt, stale>>
=============================================================================
