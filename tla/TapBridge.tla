------------------------------ MODULE TapBridge ------------------------------
(***************************************************************************)
(* linux_tap.c: the single-threaded process between the TAP interface and  *)
(* the UDP socket.  One turn of its loop polls both descriptors, copies at *)
(* most one frame from the TAP interface to every client it knows and      *)
(* handles at most one datagram, whose sender becomes a client first.      *)
(***************************************************************************)
EXTENDS Loopback

CONSTANTS
  MaxClients,   (* MAX_CLIENTS                                             *)
  Runts,        (* frames shorter than an Ethernet header                  *)
  TapLimit,     (* bound: frames waiting at the TAP interface              *)
  Unset         (* an address nobody has configured                        *)

ASSUME BridgeAssumption ==
  /\ MaxClients \in Nat \ {0}
  /\ TapLimit \in Nat
  /\ Runts \subseteq Frames

VARIABLES
  clients,   (* clients[0 .. nclients - 1], as a sequence                  *)
  turn,      (* what the current turn of the loop has still to serve       *)
  tapq,      (* frames the TAP interface has for the bridge                *)
  iface,     (* the addresses and the link state of the TAP interface      *)
  age        (* auxiliary: the new clients since a port became one, up to  *)
             (*   MaxClients, which also stands for never                  *)

bridge == <<clients, turn, tapq, iface, age>>
vars == <<bridge, up, inq, open, rx>>

Polling == [tap |-> FALSE, udp |-> FALSE]

NoAddresses == [ip |-> Unset, mask |-> Unset, gw |-> Unset, ip6 |-> Unset,
                mac |-> Unset, link |-> FALSE]

Init ==
  /\ clients = <<>>
  /\ turn = Polling
  /\ tapq = <<>>
  /\ iface = NoAddresses
  /\ age = [p \in Ports |-> MaxClients]

-----------------------------------------------------------------------------
(* Helpers *)

Clients == {clients[i] : i \in 1..Len(clients)}

\* How many entries of the client list are the port p.
Entries(p) == Cardinality({i \in 1..Len(clients) : clients[i] = p})

\* break: the process ends, the TAP interface and its addresses with it.
Dies ==
  /\ up' = FALSE
  /\ inq' = <<>>
  /\ clients' = <<>>
  /\ turn' = Polling
  /\ tapq' = <<>>
  /\ iface' = NoAddresses
  /\ age' = [p \in Ports |-> MaxClients]

\* How the ages change when p becomes a client.
Younger(p) ==
  [r \in Ports |-> IF r = p THEN 0
                   ELSE IF age[r] < MaxClients THEN age[r] + 1
                   ELSE MaxClients]

\* Faulty variants: no test of the array's size; no search for the sender;
\* the newest client is overwritten.
RegisterUnbounded(p) ==
  IF p \in Clients THEN UNCHANGED <<clients, age>>
  ELSE clients' = Append(clients, p) /\ age' = Younger(p)

RegisterAlways(p) ==
  /\ clients' = Append(IF Len(clients) < MaxClients
                      THEN clients ELSE Tail(clients), p)
  /\ age' = Younger(p)

RegisterOverNewest(p) ==
  IF p \in Clients THEN UNCHANGED <<clients, age>>
  ELSE /\ clients' = IF Len(clients) < MaxClients THEN Append(clients, p)
                     ELSE [clients EXCEPT ![MaxClients] = p]
       /\ age' = Younger(p)

\* The sender of a datagram becomes the last client, at the expense of the
\* first one when the array is full.
Register(p) ==
  IF p \in Clients THEN UNCHANGED <<clients, age>>
  ELSE /\ clients' = Append(IF Len(clients) < MaxClients
                            THEN clients ELSE Tail(clients), p)
       /\ age' = Younger(p)

\* Faulty variant: the mask is set before the address.
SetIPv4MaskFirst(c) ==
  \/ iface' = [iface EXCEPT !.ip = c.ip, !.mask = c.prefix]
  \/ "ioctl" \in Faults /\ iface' = [iface EXCEPT !.mask = c.prefix]

\* The interface after a control command.  A handler whose socket, ioctl or
\* shell command fails leaves the rest undone, and nobody is told.
SetIPv4(c) ==      \* SIOCSIFADDR of a new address sets its class's mask
  \/ iface' = [iface EXCEPT !.ip = c.ip, !.mask = c.prefix]
  \/ /\ "ioctl" \in Faults
     /\ c.ip # iface.ip
     /\ iface' = [iface EXCEPT !.ip = c.ip, !.mask = "class"]

SetIPv4Gw(c) ==    \* no route while the link is down or has no address
  iface.link /\ iface.ip # Unset /\ iface' = [iface EXCEPT !.gw = c.gw]

SetIPv6(c) == iface' = [iface EXCEPT !.ip6 = c.ip6]

SetMac(c) == iface' = [iface EXCEPT !.mac = c.mac]

LinkUp == iface' = [iface EXCEPT !.link = TRUE]

LinkDown ==        \* the kernel drops the routes and the IPv6 addresses
  iface' = [iface EXCEPT !.link = FALSE, !.gw = Unset, !.ip6 = Unset]

Control(c) ==
  \/ c.op = "ipv4" /\ SetIPv4(c)
  \/ c.op = "gw" /\ SetIPv4Gw(c)
  \/ c.op = "ipv6" /\ SetIPv6(c)
  \/ c.op = "mac" /\ SetMac(c)
  \/ c.op = "up" /\ LinkUp
  \/ c.op = "down" /\ LinkDown
  \/ /\ "ioctl" \in Faults \/ (c.op = "gw" /\ (~iface.link \/ iface.ip = Unset))
     /\ UNCHANGED iface

-----------------------------------------------------------------------------
(* The loop *)

\* Faulty variant: a datagram is looked at only when no frame is waiting.
PollTapOnly ==
  /\ up
  /\ turn = Polling
  /\ tapq # <<>> \/ inq # <<>>
  /\ turn' = [tap |-> tapq # <<>>, udp |-> tapq = <<>>]
  /\ UNCHANGED <<up, clients, tapq, iface, age, inq, open, rx>>

Poll ==
  /\ up
  /\ turn = Polling
  /\ tapq # <<>> \/ inq # <<>>
  /\ turn' = [tap |-> tapq # <<>>, udp |-> inq # <<>>]
  /\ UNCHANGED <<up, clients, tapq, iface, age, inq, open, rx>>

\* A frame goes to every entry of the client list; a port nobody has open
\* any more swallows it.
TapRead ==
  /\ turn.tap
  /\ turn' = [turn EXCEPT !.tap = FALSE]
  /\ tapq' = Tail(tapq)
  /\ rx' = [p \in Ports |->
              IF p \in open THEN Arrive(rx[p], Head(tapq), Entries(p))
              ELSE rx[p]]
  /\ UNCHANGED <<up, clients, iface, age, inq, open>>

\* EIO or ENETDOWN: continue, which skips the datagram of this turn.
TapReadFails ==
  /\ "tap" \in Faults
  /\ turn.tap
  /\ turn' = Polling
  /\ UNCHANGED <<up, clients, tapq, iface, age, inq, open, rx>>

\* Any other error of read or poll, or the end of file.
BridgeDies ==
  /\ "exit" \in Faults
  /\ up
  /\ Dies
  /\ UNCHANGED <<open, rx>>

\* An error of recvfrom: the datagram, if there still is one, waits.
UdpReadFails ==
  /\ "recv" \in Faults
  /\ turn.udp /\ ~turn.tap
  /\ turn' = Polling
  /\ UNCHANGED <<up, clients, tapq, iface, age, inq, open, rx>>

\* The datagram's sender is registered whatever the datagram says.
Receives(type) ==
  /\ turn.udp /\ ~turn.tap
  /\ Head(inq).data.type = type

UdpControl ==
  /\ Receives("control")
  /\ inq' = Tail(inq)
  /\ Register(Head(inq).from)
  /\ Control(Head(inq).data.cmd)
  /\ turn' = Polling
  /\ UNCHANGED <<up, tapq, open, rx>>

\* Command 0xFF of Hook_ReadFile is unknown, and only registers.
UdpUnknown ==
  /\ Receives("register")
  /\ inq' = Tail(inq)
  /\ Register(Head(inq).from)
  /\ turn' = Polling
  /\ UNCHANGED <<up, tapq, iface, open, rx>>

\* Faulty variant: the datagram is left in the socket.
UdpFramePeeks ==
  /\ Receives("frame")
  /\ Head(inq).data.frame \notin Runts
  /\ Register(Head(inq).from)
  /\ turn' = Polling
  /\ UNCHANGED <<up, tapq, iface, inq, open, rx>>

\* write() to the TAP interface: EIO while the link is down.
UdpFrame ==
  /\ Receives("frame")
  /\ Head(inq).data.frame \notin Runts
  /\ inq' = Tail(inq)
  /\ Register(Head(inq).from)
  /\ turn' = Polling
  /\ UNCHANGED <<up, tapq, iface, open, rx>>

\* write() refuses a frame without an Ethernet header with EINVAL: break.
UdpRunt ==
  /\ Receives("frame")
  /\ Head(inq).data.frame \in Runts
  /\ Dies
  /\ UNCHANGED <<open, rx>>

\* The frame UdpFrame hands to the host's network, if it does.
Written(f) == UdpFrame /\ iface.link /\ Head(inq).data.frame = f

-----------------------------------------------------------------------------
(* The world around the bridge *)

\* Started again by hand, with no client and no address.
BridgeStarts ==
  /\ ~up
  /\ up' = TRUE
  /\ UNCHANGED <<clients, turn, tapq, iface, age, inq, open, rx>>

\* The host's network sends a frame out of the TAP interface.
HostSends(f) ==
  /\ up /\ iface.link
  /\ Len(tapq) < TapLimit
  /\ tapq' = Append(tapq, f)
  /\ UNCHANGED <<up, clients, turn, iface, age, inq, open, rx>>

\* A datagram is taken from the socket.
Served == UdpControl \/ UdpUnknown \/ UdpFrame \/ UdpRunt

BridgeStep ==
  Poll \/ TapRead \/ TapReadFails \/ BridgeDies \/ UdpReadFails \/ Served

BridgeNext ==
  \/ BridgeStep
  \/ BridgeStarts
  \/ \E f \in Frames \ Runts : HostSends(f)

\* Alone, the bridge sees any datagram from any port, and sends to sockets
\* nobody reads.
Datagram(d) ==
  /\ Send(d)
  /\ UNCHANGED <<bridge, up, open, rx>>

AloneInit ==
  /\ Init
  /\ up = TRUE
  /\ inq = <<>>
  /\ open \in {{}, Ports}
  /\ rx = [p \in Ports |-> <<>>]

Next ==
  \/ BridgeNext
  \/ \E d \in Datagrams : Datagram(d)

\* The operating system runs a process that can run, and errors of read and
\* recvfrom that do not end the process are passing ones.
Fairness ==
  /\ WF_vars(Poll)
  /\ SF_vars(TapRead)
  /\ SF_vars(Served)

Spec == AloneInit /\ [][Next]_vars /\ Fairness

-----------------------------------------------------------------------------
(* Properties *)

TypeOK ==
  /\ LoopbackTypeOK
  /\ clients \in Seq(Ports) /\ Len(clients) <= MaxClients
  /\ turn \in [tap : BOOLEAN, udp : BOOLEAN]
  /\ turn.tap => tapq # <<>>
  /\ turn.udp => inq # <<>>
  /\ tapq \in Seq(Frames) /\ Len(tapq) <= TapLimit
  /\ DOMAIN iface = DOMAIN NoAddresses /\ iface.link \in BOOLEAN
  /\ age \in [Ports -> 0..MaxClients]

\* The main loop sends one copy of a frame per entry, so a port listed twice
\* would receive every frame twice.
ClientsDistinct ==
  \A i, j \in 1..Len(clients) : clients[i] = clients[j] => i = j

\* A port that has sent a datagram receives the frames of the TAP interface
\* until MAX_CLIENTS new senders have come after it, and no longer
\* (linux_tap.c:312-314).  Sending again does not postpone that.
ClientUntilDisplaced ==
  \A p \in Ports : p \in Clients <=> age[p] < MaxClients

\* handle_set_ipv4 in two ioctls: whichever of them fails, the interface
\* never combines the address of one command with the mask of another.
AddressHasItsMask ==
  iface.mask \in {Unset, "class"} \/
    \E c \in Commands : /\ c.op = "ipv4"
                        /\ iface.ip = c.ip /\ iface.mask = c.prefix

\* However many frames the host sends and whatever reads fail, the bridge
\* keeps taking datagrams from its socket, which is first in, first out,
\* unless none is left: a turn of the loop serves both descriptors.
DatagramsAreServed ==
  []<>(inq = <<>>) \/ []<><<Len(inq') < Len(inq)>>_vars
=============================================================================
