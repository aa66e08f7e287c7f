---------------------------- MODULE MCFakeDevice ----------------------------
(* FakeDevice for TLC: a unicast frame and a broadcast frame, or two       *)
(* unicast frames of which each filter rejects one.                        *)
EXTENDS FakeDevice, TLC

CONSTANTS c1, f1, f2, m1, m2, t1, t2, b1, b2, o1, o2, p1, p2, all

DstUniBroad == f1 :> m1 @@ f2 :> all
DstTwoUni == f1 :> m1 @@ f2 :> m2

Symmetry == Permutations(Threads) \cup Permutations(Blocks)
            \cup Permutations(Ovs) \cup Permutations(Ports)
=============================================================================
