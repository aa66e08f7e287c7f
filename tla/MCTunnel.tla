------------------------------ MODULE MCTunnel ------------------------------
(* Tunnel for TLC: a frame in each direction, and a runt from the service. *)
EXTENDS Tunnel, TLC

CONSTANTS t1, t2, b1, o1, o2, p1, p2, p3, s1, h1, runt, m1, all

Dst == [f \in Frames |-> all]

LinkCommands == {[op |-> "up"]}

Symmetry == Permutations(Ports) \cup Permutations(Ovs)
=============================================================================
