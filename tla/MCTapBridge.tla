----------------------------- MODULE MCTapBridge -----------------------------
(* TapBridge for TLC: two addresses to configure and every other command. *)
EXTENDS TapBridge, TLC

CONSTANTS p1, p2, p3, f1, runt, a1, a2, g1, n1, n2, v6, m1

AllCommands ==
  {[op |-> "ipv4", ip |-> a1, prefix |-> n1],
   [op |-> "ipv4", ip |-> a2, prefix |-> n2],
   [op |-> "gw", gw |-> g1],
   [op |-> "ipv6", ip6 |-> v6],
   [op |-> "mac", mac |-> m1],
   [op |-> "up"],
   [op |-> "down"]}

LinkCommands == {[op |-> "up"], [op |-> "down"]}

Symmetry == Permutations(Ports)
=============================================================================
