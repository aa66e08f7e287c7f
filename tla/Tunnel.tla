------------------------------- MODULE Tunnel -------------------------------
(***************************************************************************)
(* The emulated device and the linux_tap bridge together, joined by the    *)
(* UDP sockets of Loopback, between the VPN service that reads and writes  *)
(* the device and the host whose network uses the TAP interface.           *)
(*                                                                         *)
(* sent, atHost and atService are auxiliary: they record that a frame was *)
(* put into the tunnel, and how often it came out at the host's network    *)
(* and how often it completed a read of the service.                       *)
(***************************************************************************)
EXTENDS FakeDevice

CONSTANTS
  FromService,   (* frames the VPN service writes                          *)
  FromHost,      (* frames the host's network sends                        *)
  MaxClients, Runts, TapLimit, Unset

ASSUME TunnelAssumption ==
  /\ Frames = FromService \cup FromHost
  /\ FromService \cap FromHost = {}
  /\ MaxClients \in Nat \ {0}
  /\ TapLimit \in Nat
  /\ Runts \subseteq Frames

VARIABLES
  clients, turn, tapq, iface, age,   (* of TapBridge                       *)
  sent, atHost, atService            (* auxiliary                          *)

Bridge == INSTANCE TapBridge

bridge == <<clients, turn, tapq, iface, age>>
tunnel == <<vars, bridge, sent, atHost, atService>>

TunnelInit ==
  /\ Init
  /\ Bridge!Init
  /\ sent = {}
  /\ atHost = [f \in Frames |-> 0]
  /\ atService = [f \in Frames |-> 0]

\* Thread t completes its read with the frame f.
Completes(t, f) ==
  /\ pc[t] = "result_recv"
  /\ pc'[t] = "result_done"
  /\ Head(rx[arg[t].req.sock]) = f

DeviceStep ==
  /\ DeviceNext
  /\ atService' = [f \in Frames |->
                     atService[f] + Cardinality({t \in Threads : Completes(t, f)})]
  /\ UNCHANGED <<bridge, sent, atHost>>

\* Every WriteFile is a transmission of its own.
ServiceSends(f) ==
  /\ f \in FromService \ sent
  /\ ServiceWrites(f)
  /\ sent' = sent \cup {f}
  /\ UNCHANGED <<bridge, atHost, atService>>

HostSends(f) ==
  /\ f \in FromHost \ sent
  /\ Bridge!HostSends(f)
  /\ sent' = sent \cup {f}
  /\ UNCHANGED <<device, atHost, atService>>

BridgeStep ==
  /\ Bridge!BridgeStep \/ Bridge!BridgeStarts
  /\ atHost' = [f \in Frames |-> atHost[f] + IF Bridge!Written(f) THEN 1 ELSE 0]
  /\ UNCHANGED <<device, sent, atService>>

TunnelNext ==
  \/ DeviceStep
  \/ BridgeStep
  \/ \E f \in Frames : ServiceSends(f) \/ HostSends(f)

TunnelSpec == TunnelInit /\ [][TunnelNext]_tunnel

-----------------------------------------------------------------------------
(* Properties *)

\* The frames at the bridge's socket, and at the TAP interface.
Carries(d, f) == d.data.type = "frame" /\ d.data.frame = f
ToHost == {f \in Frames : \E i \in 1..Len(inq) : Carries(inq[i], f)}
ToService == {tapq[i] : i \in 1..Len(tapq)}

\* The reads that a hook has a frame for and has only to report.
Completed ==
  {arg[t].ov : t \in {u \in Threads : pc[u] \in {"result_done", "result_close"}}}

Reads == {o \in Ovs : issued[o] # 0} \ Completed

\* The frames in the socket of the read on o.
Received(o) ==
  {f \in Frames : \E r \in Reqs :
     /\ r.ov = o /\ r.sock # NONE
     /\ \E i \in 1..Len(rx[r.sock]) : rx[r.sock][i] = f}

Due == [o \in Ovs |-> IF o \in Reads THEN Received(o) ELSE {}]

\* The tunnel is a pipe for Ethernet frames (docs/How driver works.md:21): it
\* invents none, none comes out at the end it went in, each frame of the
\* service comes out at most once, and a frame of the host completes only
\* reads that were outstanding when the bridge took it from the TAP
\* interface, each of them once - the duplication README.md:68 admits to.
Pipe == INSTANCE EthernetPipe WITH
          toHost <- ToHost, toService <- ToService, reads <- Reads, due <- Due
PipeSpec == Pipe!Spec

\* The sockets of the reads that wait for a frame.
Waiting == open \ orphans

\* Every waiting read is known to the bridge, or will be when the datagram
\* it registered with is handled: otherwise no frame ever wakes it.
WaitingReadsAreKnown ==
  \A p \in Waiting :
    p \in Bridge!Clients \/ \E i \in 1..Len(inq) : inq[i].from = p
=============================================================================
