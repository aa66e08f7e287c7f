----------------------------- MODULE MCSession -----------------------------
(* Session for TLC: an IPv4 address besides the default one, two IPv6      *)
(* addresses.                                                              *)
EXTENDS Session

CONSTANTS a1, a2, x1, x2

Short == [addr |-> x1, len |-> NIL]
Other == [addr |-> x2, len |-> NIL]
IPv6 == {Short, Other}

Class == PrefixToMask(2)
Narrow == PrefixToMask(3)

Cmd(a, m, l) == [addr |-> a, mask |-> m, link |-> l]

\* A complete command, one with only an address, IPv6 addresses, the link.
Cmds ==
  {Cmd(a2, Narrow, "up"), Cmd(a1, NIL, "same"),
   Cmd(Short, NIL, "same"), Cmd(Other, NIL, "same"),
   Cmd(NIL, NIL, "down")}

\* Bound: what the service makes of the adapter, and leaves at the bridge, is
\* followed only with every function hooked, while all three processes run
\* and the launcher watches them.
Fresh ==
  /\ cmd = NoCommand /\ shown = <<{}, {}, {}>>
  /\ bridge.v4 = NewBridge.v4 /\ bridge.v6 = {}

Followed ==
  Fresh \/ (launcher = "watch" /\ up = Procs /\ iat \cup entry = Funcs)
=============================================================================
