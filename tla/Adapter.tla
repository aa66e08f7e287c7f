------------------------------ MODULE Adapter ------------------------------
(***************************************************************************)
(* The network adapter that exists only in hooklib.dll's memory: what the  *)
(* service's netsh commands make of it, what the library tells the bridge, *)
(* and what the hooked functions report.                                   *)
(*                                                                         *)
(* The bridge is here what its control commands set (TapBridge has the     *)
(* whole of it).  A control datagram is handled or lost; the loopback does *)
(* not reorder them.  Left out are what only the library's memory holds,   *)
(* the display name and the gateway, which the bridge is never told, and   *)
(* whether the bridge's link is up, which nothing reports: the functions   *)
(* that report the adapter call it connected always.  Left out also is the *)
(* prefix length GetAdaptersAddresses reports of the IPv4 address: it is   *)
(* counted in the mask with its octets in reverse order                    *)
(* (emulate_driver_running.c:5302-5307), and so seldom the mask's.         *)
(***************************************************************************)
EXTENDS Naturals, Sequences, FiniteSets

CONSTANTS
  Width,       (* bits of an IPv4 address                                  *)
  Addrs4,      (* IPv4 addresses                                           *)
  Texts6,      (* IPv6 addresses as written in a command: [addr, len], len *)
               (*   is NIL if no prefix length follows                     *)
  Commands,    (* the netsh commands of the service                        *)
  Guids,       (* what CoCreateGuid may return, or the real registry hold  *)
  ZeroGuid,
  DeviceIDs,   (* DeviceIDs in paths of WMI objects, NIL for a path without*)
  NIL          (* absent                                                   *)

\* The mask of a prefix length, as handle_set_ipv4 of linux_tap.c makes it.
PrefixToMask(n) == [i \in 1..Width |-> IF i <= n THEN 1 ELSE 0]

\* A subnet mask is ones followed by zeros.
Masks == {PrefixToMask(n) : n \in 0..Width}

IsV4(a) == a \in Addrs4
IsV6(a) == a \in Texts6

ASSUME AdapterAssumption ==
  /\ Width \in Nat
  /\ Commands \subseteq
       [addr : Addrs4 \cup Texts6 \cup {NIL}, mask : Masks \cup {NIL},
        link : {"up", "down", "same"}]
  /\ NIL \notin Addrs4 \cup Texts6 /\ NIL \notin Masks
  /\ Addrs4 \cap Texts6 = {}
  /\ ZeroGuid \notin Guids
  /\ \A a \in Texts6 : a.len \in Nat \cup {NIL}

CONSTANTS
  DefaultAddr, DefaultMask   (* of the library, before any command         *)

ASSUME DefaultAssumption == DefaultAddr \in Addrs4 /\ DefaultMask \in Masks

VARIABLES
  mem,       (* the fake_ variables of emulate_driver_running.c            *)
  cmd,       (* the command being parsed: its step, and datagrams to send  *)
  bridge,    (* what the bridge's interface is set to                      *)
  doubt,     (* auxiliary: settings the bridge may not have: a datagram was*)
             (*   lost or never sent, the bridge's system call failed, or  *)
             (*   the bridge is new                                        *)
  wmi,       (* GUIDs of the Win32_NetworkAdapter objects made             *)
  named,     (* auxiliary: those the service gave itself                   *)
  seen       (* auxiliary: GUIDs and MACs the service has been shown       *)

shown == <<wmi, named, seen>>
adapter == <<mem, cmd, bridge, doubt, shown>>

\* The MAC of the initialisation, and the one InitFakeMac makes from rand(),
\* which nothing seeds: it is the same in every process.
FixedMac == "02-00-00-00-00-01"
MadeMac == "02-50-xx-xx-xx-xx"

DefaultMem ==
  [addr |-> DefaultAddr, mask |-> DefaultMask, six |-> NIL,
   mac |-> FixedMac, guid |-> ZeroGuid, initialized |-> FALSE,
   settled |-> FALSE]

NoCommand == [step |-> "none", of |-> NIL, out |-> <<>>]

NewBridge == [v4 |-> <<NIL, NIL>>, v6 |-> {}, mac |-> NIL]

Settings == {"v4", "v6", "mac"}

AdapterInit ==
  /\ mem = DefaultMem /\ cmd = NoCommand
  /\ bridge = NewBridge /\ doubt = Settings
  /\ wmi = {} /\ named = {} /\ seen = {}

-----------------------------------------------------------------------------
(* Control datagrams of tap_client_udp.c and their handling *)

SetIPv4(a, n) == [op |-> "v4", addr |-> a, prefix |-> n]
SetIPv6(a, n) == [op |-> "v6", addr |-> a, prefix |-> n]
SetMAC(m) == [op |-> "mac", mac |-> m]
LinkUp == [op |-> "up"]
LinkDown == [op |-> "down"]

Sure(x) == doubt' = doubt \ {x}

Unsure(x) == doubt' = doubt \cup ({x} \cap Settings)

\* The address and its mask are set one after the other: a new address has
\* the mask of its class (NIL here) until its own is set, if it is.
HandleIPv4(d) ==
  \/ bridge' = [bridge EXCEPT !.v4 = <<d.addr, d.prefix>>] /\ Sure("v4")
  \/ /\ bridge.v4[1] # d.addr
     /\ bridge' = [bridge EXCEPT !.v4 = <<d.addr, NIL>>]
     /\ Unsure("v4")

\* "ip -6 addr replace" replaces only the same address: others stay.  What it
\* makes of an address with another prefix length is the kernel's business.
HandleIPv6(d) ==
  LET new == <<d.addr, d.prefix>>
  IN  /\ \A x \in bridge.v6 : x[1] = d.addr => x = new
      /\ bridge' = [bridge EXCEPT !.v6 = @ \cup {new}]
      /\ Sure("v6")

HandleMAC(d) == bridge' = [bridge EXCEPT !.mac = d.mac] /\ Sure("mac")

\* Taking the link down drops the IPv6 addresses, and taking it up again does
\* not bring them back.
HandleLinkDown == bridge' = [bridge EXCEPT !.v6 = {}] /\ Unsure("v6")

Told(d) ==
  \/ d.op = "v4" /\ HandleIPv4(d)
  \/ d.op = "v6" /\ HandleIPv6(d)
  \/ d.op = "mac" /\ HandleMAC(d)
  \/ d.op = "down" /\ HandleLinkDown

\* send_control: the result of the send is not looked at.  The bridge handles
\* the datagram, or it is lost, or its first system call fails.
Send(d) == Told(d) \/ (bridge' = bridge /\ Unsure(d.op))

-----------------------------------------------------------------------------
(* Identity *)

\* Faulty variant: whether there is a MAC already is not looked at.
InitFakeMacAgain(m) ==
  {[m EXCEPT !.initialized = TRUE, !.settled = TRUE,
             !.mac = MadeMac, !.guid = g] : g \in Guids}

\* InitFakeMac, which every start of the library calls, and every function
\* that reports a MAC.
InitFakeMac(m) ==
  IF m.initialized THEN {m}
  ELSE {[m EXCEPT !.initialized = TRUE, !.settled = TRUE,
                  !.mac = MadeMac, !.guid = g] : g \in Guids}

\* SettingID of Win32_NetworkAdapterConfiguration: what the real registry has,
\* if it has an AdapterId, unless InitFakeMac has been called.
InitSettingID(m) ==
  IF m.settled THEN {m}
  ELSE {[m EXCEPT !.settled = TRUE, !.guid = g] : g \in Guids \cup {m.guid}}

\* At the start the MAC is sent to the bridge.
StartIdentity ==
  /\ mem' \in InitFakeMac(mem)
  /\ Send(SetMAC(mem'.mac))
  /\ UNCHANGED <<cmd, shown>>

-----------------------------------------------------------------------------
(* What the hooked functions report of the adapter in memory m.            *)

\* A text with a prefix length is no address to inet_pton: nothing is set.
Reported6(m) ==
  IF m.six # NIL /\ m.six.len = NIL THEN <<m.six.addr, 64>> ELSE NIL

\* Win32_NetworkAdapterConfiguration
WbemClassGet(m) ==
  [guid |-> m.guid, mac |-> m.mac, addr |-> m.addr, mask |-> m.mask]

\* Win32_NetworkAdapter: an object made with the GUID g, which it keeps.
NetAdapterGet(g, m) ==
  [guid |-> g, settingID |-> m.guid, mac |-> m.mac]

\* INetConnection::GetProperties
ConnGetProperties(m) == [guid |-> m.guid]

GetAdaptersInfo(m) ==
  [guid |-> m.guid, mac |-> m.mac, addr |-> m.addr, mask |-> m.mask]

\* Faulty variant: one too few.
MaskToPrefixBelow(m) ==
  Cardinality({n \in 1..(Width - 1) : \A i \in 1..n+1 : m[i] = 1})

\* The leading ones of the mask.
MaskToPrefix(mask) ==
  Cardinality({n \in 1..Width : \A i \in 1..n : mask[i] = 1})

GetAdaptersAddresses(m) ==
  [guid |-> m.guid, mac |-> m.mac, addr |-> m.addr, six |-> Reported6(m)]

\* The service asks for the adapter's object by path, with a DeviceID or
\* without: the object has the GUID of the path, or the one of zeros.
GetNetAdapter(id) ==
  LET g == IF id = NIL THEN ZeroGuid ELSE id
  IN  /\ wmi' = wmi \cup {g} /\ named' = named \cup {g}
      /\ UNCHANGED <<mem, cmd, bridge, doubt, seen>>

\* ... or by a query, without a GUID or with the adapter's own: a query with
\* another one finds nothing.
ExecQuery ==
  /\ wmi' = wmi \cup {mem.guid}
  /\ UNCHANGED <<mem, cmd, bridge, doubt, named, seen>>

\* The functions that report a MAC wait for InitFakeMac.
ReportMac ==
  /\ mem' \in InitFakeMac(mem)
  /\ \/ seen' = seen \cup {WbemClassGet(mem').mac}
     \/ \E g \in wmi : seen' = seen \cup {NetAdapterGet(g, mem').mac}
     \/ \E r \in {GetAdaptersInfo(mem'), GetAdaptersAddresses(mem')} :
          seen' = seen \cup {r.guid, r.mac}
  /\ IF mem.initialized THEN UNCHANGED <<bridge, doubt>>
     ELSE Send(SetMAC(mem'.mac))
  /\ UNCHANGED <<cmd, wmi, named>>

\* Others report a GUID without.
ReportGuid ==
  /\ \/ /\ mem' \in InitSettingID(mem)
        /\ seen' = seen \cup {WbemClassGet(mem').guid}
     \/ /\ mem' = mem
        /\ \/ \E g \in wmi :
               \/ seen' = seen \cup {NetAdapterGet(g, mem).guid}
               \/ seen' = seen \cup {NetAdapterGet(g, mem).settingID}
           \/ seen' = seen \cup {ConnGetProperties(mem).guid}
  /\ UNCHANGED <<cmd, bridge, doubt, wmi, named>>

\* The service asks for the adapter.
Report ==
  \/ \E id \in DeviceIDs : GetNetAdapter(id)
  \/ ExecQuery \/ ReportMac \/ ReportGuid

-----------------------------------------------------------------------------
(* Hook_CreateProcessW: a netsh command for the adapter is parsed, and a   *)
(* command that does nothing is run in its place.  Commands follow one     *)
(* another: the service waits for each (assumed).                          *)

\* An address without a prefix length has 64.
Prefix6(a) == IF a.len = NIL THEN 64 ELSE a.len

\* ParseNetshCommand stores the address where it finds it in the line ...
ParseAddress(c) ==
  /\ cmd.step = "none"
  /\ mem' = IF IsV4(c.addr) THEN [mem EXCEPT !.addr = c.addr]
            ELSE IF IsV6(c.addr) THEN [mem EXCEPT !.six = c.addr]
            ELSE mem
  /\ cmd' = [NoCommand EXCEPT !.step = "store", !.of = c]
  /\ doubt' = doubt \cup (IF IsV4(c.addr) \/ c.mask # NIL THEN {"v4"} ELSE {})
                    \cup (IF IsV6(c.addr) THEN {"v6"} ELSE {})
  /\ UNCHANGED <<bridge, shown>>

\* What the bridge is to be told of c: an IPv4 address only with its mask, a
\* gateway never.
ToSend(c) ==
  (IF IsV4(c.addr) /\ c.mask # NIL
   THEN <<SetIPv4(c.addr, MaskToPrefix(c.mask))>>
   ELSE IF IsV6(c.addr)
   THEN <<SetIPv6(c.addr.addr, Prefix6(c.addr)), LinkUp>> ELSE <<>>)
  \o (IF c.link = "up" THEN <<LinkUp>>
      ELSE IF c.link = "down" THEN <<LinkDown>> ELSE <<>>)

\* Faulty variant: whether the line has a mask is not looked at.
StoreRestAlways ==
  LET c == cmd.of IN
  /\ cmd.step = "store"
  /\ mem' = [mem EXCEPT !.mask = c.mask]
  /\ cmd' = [cmd EXCEPT !.step = "send", !.out = ToSend(c)]
  /\ UNCHANGED <<bridge, doubt, shown>>

\* ... the mask when the line has been read ...
StoreRest ==
  LET c == cmd.of IN
  /\ cmd.step = "store"
  /\ mem' = [mem EXCEPT !.mask = IF c.mask = NIL THEN @ ELSE c.mask]
  /\ cmd' = [cmd EXCEPT !.step = "send", !.out = ToSend(c)]
  /\ UNCHANGED <<bridge, doubt, shown>>

\* ... and tells the bridge.
SendNext ==
  /\ cmd.step = "send" /\ cmd.out # <<>>
  /\ Send(Head(cmd.out))
  /\ cmd' = [cmd EXCEPT !.out = Tail(@)]
  /\ UNCHANGED <<mem, shown>>

CommandDone ==
  /\ cmd.step = "send" /\ cmd.out = <<>>
  /\ cmd' = NoCommand
  /\ UNCHANGED <<mem, bridge, doubt, shown>>

Netsh == (\E c \in Commands : ParseAddress(c))
         \/ StoreRest \/ SendNext \/ CommandDone

-----------------------------------------------------------------------------
\* The end of the service's process, and a new process of the bridge, which
\* knows nothing: nobody tells it again what was told before.
LibraryGone ==
  /\ mem' = DefaultMem /\ cmd' = NoCommand
  /\ wmi' = {} /\ named' = {} /\ seen' = {}
  /\ doubt' = Settings
  /\ UNCHANGED bridge

BridgeRestarts ==
  /\ bridge' = NewBridge /\ doubt' = Settings
  /\ UNCHANGED <<mem, cmd, shown>>

-----------------------------------------------------------------------------
(* Properties *)

AdapterTypeOK ==
  /\ mem \in [addr : Addrs4, mask : Masks, six : Texts6 \cup {NIL},
              mac : {FixedMac, MadeMac},
              guid : Guids \cup {ZeroGuid}, initialized : BOOLEAN,
              settled : BOOLEAN]
  /\ cmd.step \in {"none", "store", "send"} /\ cmd.of \in Commands \cup {NIL}
  /\ cmd.out \in Seq([op : {"v4", "v6"}, addr : Addrs4 \cup
                        {x.addr : x \in Texts6}, prefix : Nat]
                     \cup [op : {"up", "down"}])
  /\ doubt \in SUBSET Settings
  /\ wmi \in SUBSET (Guids \cup DeviceIDs \cup {ZeroGuid})
  /\ named \in SUBSET (DeviceIDs \cup {ZeroGuid})
  /\ seen \in SUBSET ({FixedMac, MadeMac} \cup wmi \cup Guids \cup {ZeroGuid})

\* The service is never shown another GUID or MAC than before, although
\* some functions report them without waiting for InitFakeMac.  Left out are
\* the GUIDs it named itself: an object that it asks for by path reports the
\* GUID of the path, or that of zeros.
IdentityStable == seen \subseteq {mem.guid, mem.mac} \cup named

\* What the bridge has configured is what the service is shown: address and
\* mask, the MAC, and of the IPv6 addresses the last one (earlier ones may
\* stay), once the datagrams of a complete command arrived, the bridge's
\* system calls succeeded, and as long as neither process is new.  The prefix
\* length of GetAdaptersAddresses is no part of it.
BridgeAgrees ==
  /\ "v4" \notin doubt =>
       /\ bridge.v4[1] = GetAdaptersInfo(mem).addr
       /\ PrefixToMask(bridge.v4[2]) = WbemClassGet(mem).mask
  /\ "v6" \notin doubt /\ mem.six.len = NIL =>
       GetAdaptersAddresses(mem).six \in bridge.v6
  /\ "mac" \notin doubt => bridge.mac = WbemClassGet(mem).mac
=============================================================================
