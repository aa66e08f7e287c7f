------------------------------ MODULE Loopback ------------------------------
(***************************************************************************)
(* The UDP sockets on 127.0.0.1 between the injected library and the       *)
(* linux_tap bridge, as the code of both sides uses them: one socket of    *)
(* the bridge, and one ephemeral port for every socket the library opens.  *)
(***************************************************************************)
EXTENDS Naturals, Sequences, FiniteSets

CONSTANTS
  Ports,     (* ephemeral ports the operating system hands out             *)
  Frames,    (* Ethernet frames, each a distinct transmission              *)
  Commands,  (* control commands sent by tap_client_udp.c                  *)
  InLimit,   (* datagrams the bridge's socket buffers                      *)
  RxLimit,   (* datagrams a socket of the library buffers                  *)
  Faults     (* which failures may occur: a set of strings                 *)

ASSUME FaultsAssumption ==
  Faults \subseteq {"loss", "socket", "recv", "exit", "tap", "ioctl"}
ASSUME LimitsAssumption == InLimit \in Nat /\ RxLimit \in Nat \ {0}

VARIABLES
  up,     (* the bridge is running, its socket bound                       *)
  inq,    (* datagrams waiting at the bridge's socket                      *)
  open,   (* ports with an open socket in the library's process            *)
  rx      (* rx[p]: frames waiting at the library's socket on port p       *)

\* The payload of a datagram: a frame (type byte 0x00), a control command
\* (0x01), or a control command the bridge does not know: the registration
\* {0x01, 0xFF} that Hook_ReadFile sends.
Payloads == {[type |-> "frame", frame |-> f] : f \in Frames}
            \cup {[type |-> "control", cmd |-> c] : c \in Commands}
            \cup {[type |-> "register"]}

Datagrams == [from : Ports, data : Payloads]

\* send() of one datagram to the bridge.  Nobody looks at its result: the
\* datagram is lost when the bridge is down or its buffer is full.
Send(d) ==
  \/ up /\ Len(inq) < InLimit /\ inq' = Append(inq, d)
  \/ (~up \/ "loss" \in Faults) /\ inq' = inq

\* n copies of the frame f sent to one port: what fits in its buffer stays.
Arrive(s, f, n) ==
  [i \in 1..(IF Len(s) + n > RxLimit THEN RxLimit ELSE Len(s) + n) |->
     IF i <= Len(s) THEN s[i] ELSE f]

LoopbackTypeOK ==
  /\ up \in BOOLEAN
  /\ inq \in Seq(Datagrams) /\ Len(inq) <= InLimit /\ (up \/ inq = <<>>)
  /\ open \in SUBSET Ports
  /\ rx \in [Ports -> Seq(Frames)]
  /\ \A p \in Ports : Len(rx[p]) <= RxLimit /\ (p \notin open => rx[p] = <<>>)
=============================================================================
