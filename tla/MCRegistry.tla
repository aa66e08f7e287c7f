----------------------------- MODULE MCRegistry -----------------------------
(* Registry for TLC: one key of the service's, one elsewhere. *)
EXTENDS Registry, TLC

CONSTANTS t1, t2, b1, b2, b3, sw, wow, v1, d1

SubsSoftware == {<<sw>>}
PathSoftware == <<sw, wow>>

Symmetry == Permutations(Blocks)
=============================================================================
