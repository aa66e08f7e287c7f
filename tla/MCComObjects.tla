---------------------------- MODULE MCComObjects ----------------------------
(* ComObjects for TLC: threads, blocks and pointers are interchangeable. *)
EXTENDS ComObjects, TLC

Symmetry ==
  Permutations(Threads) \cup Permutations(Blocks) \cup Permutations(Ptrs)
=============================================================================
