--------------------------- MODULE MCIndexedHeap ---------------------------
(* IndexedHeap with room for six entries: the fewest for which the last entry *)
(* can belong above the place delete_node moves it to, in the other subtree.  *)
EXTENDS IndexedHeap, TLC

\* The latest call matters until it has taken effect.
Heap == <<slot, size, index, op.pc, op.idx,
          IF op.pc \in {"append", "index"} THEN op.call ELSE [name |-> "none"]>>

Symmetry == Permutations(Ids)

MCKeys == -2 .. 0
=============================================================================
