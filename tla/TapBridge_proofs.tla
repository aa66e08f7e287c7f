-------------------------- MODULE TapBridge_proofs --------------------------
(* The invariants of TapBridge, for any number of ports and MAX_CLIENTS. *)
EXTENDS TapBridge, FiniteSetTheorems, TLAPS

(***************************************************************************)
(* ClientUntilDisplaced is not inductive: it does not say which client is  *)
(* the first of the array, and so which one a newcomer displaces.  Ages    *)
(* does: the age of a client is the number of clients listed after it.     *)
(***************************************************************************)
Ages ==
  /\ \A i \in 1..Len(clients) : age[clients[i]] = Len(clients) - i
  /\ \A p \in Ports : age[p] < MaxClients => p \in Clients

IInv == TypeOK /\ Ages /\ AddressHasItsMask

-----------------------------------------------------------------------------


\* Arrive fills a socket's buffer with frames, never beyond its limit.
LEMMA ArriveType ==
  ASSUME NEW s \in Seq(Frames), Len(s) <= RxLimit, NEW f \in Frames,
         NEW n \in Nat
  PROVE  Arrive(s, f, n) \in Seq(Frames) /\ Len(Arrive(s, f, n)) <= RxLimit
<1> DEFINE m == IF Len(s) + n > RxLimit THEN RxLimit ELSE Len(s) + n
<1>1. m \in Nat /\ m <= RxLimit /\ Len(s) <= m
  BY LimitsAssumption
<1>2. \A i \in 1..m : (IF i <= Len(s) THEN s[i] ELSE f) \in Frames
  BY <1>1
<1>3. Arrive(s, f, n) = [i \in 1..m |-> IF i <= Len(s) THEN s[i] ELSE f]
  BY DEF Arrive
<1> HIDE DEF m
<1>4. Arrive(s, f, n) \in [1..m -> Frames]
  BY <1>2, <1>3
<1>5. Arrive(s, f, n) \in Seq(Frames) /\ Len(Arrive(s, f, n)) = m
  BY <1>1, <1>3, <1>4
<1> QED BY <1>1, <1>5

\* Registering a sender keeps the array typed, within MAX_CLIENTS and in
\* the order of age.
LEMMA RegisterKeepsAges ==
  ASSUME clients \in Seq(Ports), Len(clients) <= MaxClients,
         age \in [Ports -> 0..MaxClients], Ages,
         NEW p \in Ports, Register(p)
  PROVE  /\ clients' \in Seq(Ports) /\ Len(clients') <= MaxClients
         /\ age' \in [Ports -> 0..MaxClients]
         /\ Ages'
<1> USE BridgeAssumption
<1>1. CASE p \in Clients
  BY <1>1 DEF Register, Ages, Clients
<1>2. CASE p \notin Clients /\ Len(clients) < MaxClients
  <2>1. /\ clients' = Append(clients, p)
        /\ age' = [r \in Ports |-> IF r = p THEN 0
                                   ELSE IF age[r] < MaxClients THEN age[r] + 1
                                   ELSE MaxClients]
    BY <1>2 DEF Register, Younger
  <2>2. /\ clients' \in Seq(Ports)
        /\ Len(clients') = Len(clients) + 1
        /\ \A i \in 1..Len(clients) : clients'[i] = clients[i]
        /\ clients'[Len(clients) + 1] = p
    BY <2>1
  <2>3. age' \in [Ports -> 0..MaxClients]
    BY <2>1
  <2>4. \A i \in 1..Len(clients') : age'[clients'[i]] = Len(clients') - i
    <3> TAKE i \in 1..Len(clients')
    <3>1. CASE i = Len(clients) + 1
      BY <3>1, <2>1, <2>2
    <3>2. CASE i \in 1..Len(clients)
      <4>1. clients[i] \in Ports /\ clients[i] # p
        BY <3>2, <1>2 DEF Clients
      <4>2. age[clients[i]] = Len(clients) - i
        BY <3>2 DEF Ages
      <4> QED BY <4>1, <4>2, <3>2, <2>1, <2>2, <1>2
    <3> QED BY <3>1, <3>2, <2>2
  <2>5. \A r \in Ports : age'[r] < MaxClients => r \in Clients'
    <3> TAKE r \in Ports
    <3> HAVE age'[r] < MaxClients
    <3>1. CASE r = p
      BY <3>1, <2>2 DEF Clients
    <3>2. CASE r # p
      <4>1. age[r] < MaxClients
        BY <3>2, <2>1
      <4>2. PICK i \in 1..Len(clients) : clients[i] = r
        BY <4>1 DEF Ages, Clients
      <4> QED BY <4>2, <2>2 DEF Clients
    <3> QED BY <3>1, <3>2
  <2> QED BY <1>2, <2>2, <2>3, <2>4, <2>5 DEF Ages
<1>3. CASE p \notin Clients /\ ~(Len(clients) < MaxClients)
  <2>1. /\ clients' = Append(Tail(clients), p)
        /\ age' = [r \in Ports |-> IF r = p THEN 0
                                   ELSE IF age[r] < MaxClients THEN age[r] + 1
                                   ELSE MaxClients]
    BY <1>3 DEF Register, Younger
  <2>2. Len(clients) = MaxClients /\ clients # <<>>
    BY <1>3
  <2>3. /\ Tail(clients) \in Seq(Ports)
        /\ Len(Tail(clients)) = MaxClients - 1
        /\ \A i \in 1..(MaxClients - 1) : Tail(clients)[i] = clients[i + 1]
    BY <2>2
  <2>4. /\ clients' \in Seq(Ports)
        /\ Len(clients') = MaxClients
        /\ \A i \in 1..(MaxClients - 1) : clients'[i] = clients[i + 1]
        /\ clients'[MaxClients] = p
    BY <2>1, <2>3
  <2>5. age' \in [Ports -> 0..MaxClients]
    BY <2>1
  <2>6. \A i \in 1..Len(clients') : age'[clients'[i]] = Len(clients') - i
    <3> TAKE i \in 1..Len(clients')
    <3>1. CASE i = MaxClients
      BY <3>1, <2>1, <2>4
    <3>2. CASE i \in 1..(MaxClients - 1)
      <4>1. i + 1 \in 1..Len(clients)
        BY <3>2, <2>2
      <4>2. clients[i + 1] \in Ports /\ clients[i + 1] # p
        BY <4>1, <1>3 DEF Clients
      <4>3. age[clients[i + 1]] = MaxClients - (i + 1)
        BY <4>1, <2>2 DEF Ages
      <4> QED BY <4>2, <4>3, <3>2, <2>1, <2>4
    <3> QED BY <3>1, <3>2, <2>4
  <2>7. \A r \in Ports : age'[r] < MaxClients => r \in Clients'
    <3> TAKE r \in Ports
    <3> HAVE age'[r] < MaxClients
    <3>1. CASE r = p
      BY <3>1, <2>4 DEF Clients
    <3>2. CASE r # p
      <4>1. age[r] \in Nat /\ age[r] < MaxClients - 1 /\ age[r] < MaxClients
        BY <3>2, <2>1
      <4>2. PICK i \in 1..Len(clients) : clients[i] = r
        BY <4>1 DEF Ages, Clients
      <4>3. age[r] = MaxClients - i
        BY <4>2, <2>2 DEF Ages
      <4>4. i - 1 \in 1..(MaxClients - 1)
        BY <4>1, <4>2, <4>3, <2>2
      <4>5. clients'[i - 1] = r
        BY <4>2, <4>4, <2>4
      <4> QED BY <4>4, <4>5, <2>4 DEF Clients
    <3> QED BY <3>1, <3>2
  <2> QED BY <2>4, <2>5, <2>6, <2>7 DEF Ages
<1> QED BY <1>1, <1>2, <1>3

\* The datagram at the head of the socket names a port and, by its type, a
\* command or a frame.
LEMMA HeadOfSocket ==
  ASSUME inq \in Seq(Datagrams), inq # <<>>
  PROVE  /\ Head(inq).from \in Ports
         /\ Head(inq).data.type = "control" => Head(inq).data.cmd \in Commands
         /\ Tail(inq) \in Seq(Datagrams)
         /\ Len(Tail(inq)) = Len(inq) - 1
<1>1. Head(inq) \in Datagrams
  OBVIOUS
<1>2. Head(inq).from \in Ports /\ Head(inq).data \in Payloads
  BY <1>1 DEF Datagrams
<1>3. Head(inq).data.type = "control" => Head(inq).data.cmd \in Commands
  <2>1. \A d \in {[type |-> "frame", frame |-> f] : f \in Frames} :
          d.type = "frame"
    OBVIOUS
  <2>2. \A d \in {[type |-> "control", cmd |-> c] : c \in Commands} :
          d.cmd \in Commands
    OBVIOUS
  <2>3. [type |-> "register"].type = "register"
    OBVIOUS
  <2> QED BY <1>2, <2>1, <2>2, <2>3 DEF Payloads
<1> QED BY <1>2, <1>3

\* A control command leaves the interface typed, and an address never
\* with the mask of another command.
LEMMA ControlKeepsMask ==
  ASSUME DOMAIN iface = DOMAIN NoAddresses, iface.link \in BOOLEAN,
         AddressHasItsMask, NEW c \in Commands, Control(c)
  PROVE  /\ DOMAIN iface' = DOMAIN NoAddresses /\ iface'.link \in BOOLEAN
         /\ AddressHasItsMask'
<1>0. DOMAIN iface = {"ip", "mask", "gw", "ip6", "mac", "link"}
  BY DEF NoAddresses
<1>1. CASE c.op = "ipv4" /\ SetIPv4(c)
  <2>1. CASE iface' = [iface EXCEPT !.ip = c.ip, !.mask = c.prefix]
    BY <1>0, <1>1, <2>1 DEF AddressHasItsMask
  <2>2. CASE iface' = [iface EXCEPT !.ip = c.ip, !.mask = "class"]
    BY <1>0, <2>2 DEF AddressHasItsMask
  <2> QED BY <1>1, <2>1, <2>2 DEF SetIPv4
<1>2. CASE c.op = "gw" /\ SetIPv4Gw(c)
  BY <1>0, <1>2 DEF SetIPv4Gw, AddressHasItsMask
<1>3. CASE c.op = "ipv6" /\ SetIPv6(c)
  BY <1>0, <1>3 DEF SetIPv6, AddressHasItsMask
<1>4. CASE c.op = "mac" /\ SetMac(c)
  BY <1>0, <1>4 DEF SetMac, AddressHasItsMask
<1>5. CASE c.op = "up" /\ LinkUp
  BY <1>0, <1>5 DEF LinkUp, AddressHasItsMask
<1>6. CASE c.op = "down" /\ LinkDown
  BY <1>0, <1>6 DEF LinkDown, AddressHasItsMask
<1>7. CASE UNCHANGED iface
  BY <1>7 DEF AddressHasItsMask
<1> QED BY <1>1, <1>2, <1>3, <1>4, <1>5, <1>6, <1>7 DEF Control

LEMMA InitIInv == AloneInit => IInv
<1> SUFFICES ASSUME AloneInit PROVE IInv
  OBVIOUS
<1> USE BridgeAssumption, LimitsAssumption DEF AloneInit, Init
<1>1. TypeOK
  BY DEF TypeOK, LoopbackTypeOK, Polling, NoAddresses
<1>2. Ages
  BY DEF Ages
<1>3. AddressHasItsMask
  BY DEF AddressHasItsMask, NoAddresses
<1> QED BY <1>1, <1>2, <1>3 DEF IInv

\* The state after the process has ended is as good as a new one.
LEMMA DiesKeeps ==
  ASSUME TypeOK, Dies, UNCHANGED <<open, rx>>
  PROVE  IInv'
<1> USE BridgeAssumption, LimitsAssumption DEF Dies
<1>0. LoopbackTypeOK'
  <2>1. up' \in BOOLEAN /\ inq' = <<>>
    OBVIOUS
  <2>2. inq' \in Seq(Datagrams) /\ Len(inq') <= InLimit
    BY <2>1
  <2> QED BY <2>1, <2>2 DEF TypeOK, LoopbackTypeOK
<1>1. TypeOK'
  <2>1. /\ turn' \in [tap : BOOLEAN, udp : BOOLEAN]
        /\ ~turn'.tap /\ ~turn'.udp
    BY DEF Polling
  <2> QED BY <1>0, <2>1 DEF TypeOK, NoAddresses
<1>2. Ages'
  BY DEF Ages, Clients
<1>3. AddressHasItsMask'
  BY DEF AddressHasItsMask, NoAddresses
<1> QED BY <1>1, <1>2, <1>3 DEF IInv

\* A step of the loop that takes a datagram, registers its sender and does
\* at most a control command.
LEMMA ReceiveKeeps ==
  ASSUME IInv, turn.udp, Register(Head(inq).from), inq' = Tail(inq),
         turn' = Polling, UNCHANGED <<up, tapq, open, rx>>,
         \/ UNCHANGED iface
         \/ Head(inq).data.type = "control" /\ Control(Head(inq).data.cmd)
  PROVE  IInv'
<1>1. TypeOK /\ LoopbackTypeOK /\ inq # <<>>
  BY DEF IInv, TypeOK
<1>2. /\ Head(inq).from \in Ports
      /\ Head(inq).data.type = "control" => Head(inq).data.cmd \in Commands
      /\ Tail(inq) \in Seq(Datagrams)
      /\ Len(Tail(inq)) = Len(inq) - 1
  BY <1>1, HeadOfSocket DEF LoopbackTypeOK
<1>3. /\ clients' \in Seq(Ports) /\ Len(clients') <= MaxClients
      /\ age' \in [Ports -> 0..MaxClients]
      /\ Ages'
  BY <1>1, <1>2, RegisterKeepsAges DEF IInv, TypeOK
<1>4. /\ DOMAIN iface' = DOMAIN NoAddresses /\ iface'.link \in BOOLEAN
      /\ AddressHasItsMask'
  <2>1. CASE UNCHANGED iface
    BY <1>1, <2>1 DEF IInv, TypeOK, AddressHasItsMask
  <2>2. CASE Head(inq).data.type = "control" /\ Control(Head(inq).data.cmd)
    BY <1>1, <1>2, <2>2, ControlKeepsMask DEF IInv, TypeOK
  <2> QED BY <2>1, <2>2
<1>5. LoopbackTypeOK'
  <2>1. inq' \in Seq(Datagrams) /\ Len(inq') <= InLimit /\ up'
    BY <1>1, <1>2, LimitsAssumption DEF LoopbackTypeOK
  <2> QED BY <1>1, <2>1 DEF LoopbackTypeOK
<1>6. TypeOK'
  BY <1>1, <1>3, <1>4, <1>5 DEF TypeOK, Polling
<1> QED BY <1>3, <1>4, <1>6 DEF IInv

LEMMA NextIInv == IInv /\ [Next]_vars => IInv'
<1> SUFFICES ASSUME IInv, [Next]_vars PROVE IInv'
  OBVIOUS
<1> USE BridgeAssumption, LimitsAssumption
<1>0. TypeOK /\ LoopbackTypeOK /\ Ages /\ AddressHasItsMask
  BY DEF IInv, TypeOK
\* Most steps touch neither the clients nor the interface.
<1>a. ASSUME UNCHANGED <<clients, age, iface>>
      PROVE  Ages' /\ AddressHasItsMask'
  BY <1>0, <1>a DEF Ages, Clients, AddressHasItsMask
<1>1. CASE Poll
  <2>1. TypeOK'
    BY <1>0, <1>1 DEF Poll, TypeOK, LoopbackTypeOK
  <2> QED BY <1>1, <1>a, <2>1 DEF IInv, Poll
<1>2. CASE TapRead
  <2>1. tapq \in Seq(Frames) /\ tapq # <<>>
    BY <1>0, <1>2 DEF TapRead, TypeOK
  <2>2. \A p \in Ports : /\ rx'[p] \in Seq(Frames) /\ Len(rx'[p]) <= RxLimit
                         /\ p \notin open => rx'[p] = <<>>
    <3> TAKE p \in Ports
    <3>1. Entries(p) \in Nat
      <4>1. IsFiniteSet({i \in 1..Len(clients) : clients[i] = p})
        <5>1. IsFiniteSet(1..Len(clients))
          BY <1>0, FS_Interval DEF TypeOK
        <5> QED BY <5>1, FS_Subset
      <4> QED BY <4>1, FS_CardinalityType DEF Entries
    <3>2. rx[p] \in Seq(Frames) /\ Len(rx[p]) <= RxLimit
          /\ (p \notin open => rx[p] = <<>>)
      BY <1>0 DEF LoopbackTypeOK
    <3>3. Head(tapq) \in Frames
      BY <2>1
    <3>4. /\ Arrive(rx[p], Head(tapq), Entries(p)) \in Seq(Frames)
          /\ Len(Arrive(rx[p], Head(tapq), Entries(p))) <= RxLimit
      BY <3>1, <3>2, <3>3, ArriveType
    <3>5. rx'[p] = IF p \in open THEN Arrive(rx[p], Head(tapq), Entries(p))
                   ELSE rx[p]
      BY <1>2 DEF TapRead
    <3> QED BY <3>2, <3>4, <3>5
  <2>3. rx' \in [Ports -> Seq(Frames)]
    BY <1>2, <2>2 DEF TapRead
  <2>4. LoopbackTypeOK'
    BY <1>0, <1>2, <2>2, <2>3 DEF TapRead, LoopbackTypeOK
  <2>5. Tail(tapq) \in Seq(Frames) /\ Len(Tail(tapq)) = Len(tapq) - 1
    BY <2>1
  <2>6. TypeOK'
    <3>1. turn' \in [tap : BOOLEAN, udp : BOOLEAN]
          /\ ~turn'.tap /\ turn'.udp = turn.udp
      BY <1>0, <1>2 DEF TapRead, TypeOK
    <3>2. tapq' \in Seq(Frames) /\ Len(tapq') <= TapLimit
      BY <1>0, <1>2, <2>5 DEF TapRead, TypeOK
    <3> QED BY <1>0, <1>2, <2>4, <3>1, <3>2 DEF TapRead, TypeOK
  <2> QED BY <1>2, <1>a, <2>6 DEF IInv, TapRead
<1>3. CASE TapReadFails \/ UdpReadFails
  <2>0. LoopbackTypeOK'
    BY <1>0, <1>3 DEF TapReadFails, UdpReadFails, LoopbackTypeOK
  <2>1. TypeOK'
    <3>1. /\ turn' \in [tap : BOOLEAN, udp : BOOLEAN]
          /\ ~turn'.tap /\ ~turn'.udp
      <4>1. turn' = Polling
        BY <1>3 DEF TapReadFails, UdpReadFails
      <4> QED BY <4>1 DEF Polling
    <3> QED BY <1>0, <1>3, <2>0, <3>1 DEF TapReadFails, UdpReadFails, TypeOK
  <2> QED BY <1>3, <1>a, <2>1 DEF IInv, TapReadFails, UdpReadFails
<1>4. CASE BridgeDies \/ UdpRunt
  BY <1>0, <1>4, DiesKeeps DEF BridgeDies, UdpRunt
<1>5. CASE UdpControl
  BY <1>5, ReceiveKeeps DEF UdpControl, Receives
<1>6. CASE UdpUnknown
  BY <1>6, ReceiveKeeps DEF UdpUnknown, Receives
<1>7. CASE UdpFrame
  BY <1>7, ReceiveKeeps DEF UdpFrame, Receives
<1>8. CASE BridgeStarts
  <2>1. TypeOK'
    BY <1>0, <1>8 DEF BridgeStarts, TypeOK, LoopbackTypeOK
  <2> QED BY <1>8, <1>a, <2>1 DEF IInv, BridgeStarts
<1>9. ASSUME NEW f \in Frames, HostSends(f)
      PROVE  IInv'
  <2>1. tapq' \in Seq(Frames) /\ Len(tapq') = Len(tapq) + 1 /\ tapq' # <<>>
    BY <1>0, <1>9 DEF HostSends, TypeOK
  <2>0. LoopbackTypeOK'
    BY <1>0, <1>9 DEF HostSends, LoopbackTypeOK
  <2>2. TypeOK'
    <3>1. Len(tapq') <= TapLimit
      BY <1>0, <1>9, <2>1 DEF HostSends, TypeOK
    <3>2. UNCHANGED <<clients, turn, inq, iface, age>>
      BY <1>9 DEF HostSends
    <3> QED BY <1>0, <2>0, <2>1, <3>1, <3>2 DEF TypeOK
  <2> QED BY <1>9, <1>a, <2>2 DEF IInv, HostSends
<1>10. ASSUME NEW d \in Datagrams, Datagram(d)
       PROVE  IInv'
  <2>1. UNCHANGED <<bridge, up, open, rx>>
    BY <1>10 DEF Datagram
  <2>2. CASE up /\ Len(inq) < InLimit /\ inq' = Append(inq, d)
    <3>1. inq' \in Seq(Datagrams) /\ Len(inq') = Len(inq) + 1 /\ inq' # <<>>
      BY <1>0, <2>2 DEF LoopbackTypeOK
    <3>2. TypeOK'
      BY <1>0, <2>1, <2>2, <3>1 DEF bridge, TypeOK, LoopbackTypeOK
    <3> QED BY <1>a, <2>1, <3>2 DEF IInv, bridge
  <2>3. CASE inq' = inq
    <3>1. TypeOK'
      BY <1>0, <2>1, <2>3 DEF bridge, TypeOK, LoopbackTypeOK
    <3> QED BY <1>a, <2>1, <3>1 DEF IInv, bridge
  <2> QED BY <1>10, <2>2, <2>3 DEF Datagram, Send
<1>11. CASE UNCHANGED vars
  <2>1. TypeOK'
    BY <1>0, <1>11 DEF vars, bridge, TypeOK, LoopbackTypeOK
  <2> QED BY <1>11, <1>a, <2>1 DEF IInv, vars, bridge
<1> QED
  BY <1>1, <1>2, <1>3, <1>4, <1>5, <1>6, <1>7, <1>8, <1>9, <1>10, <1>11
  DEF Next, BridgeNext, BridgeStep, Served

-----------------------------------------------------------------------------

\* The bridge never leaves the invariant: its lists, queues and addresses
\* keep their types and bounds (the nclients < MAX_CLIENTS test of
\* linux_tap.c:309), whatever fails and however often it is restarted.
THEOREM BridgeInvariance == Spec => []IInv
<1>1. AloneInit => IInv
  BY InitIInv
<1>2. IInv /\ [Next]_vars => IInv'
  BY NextIInv
<1> QED BY <1>1, <1>2, PTL DEF Spec

\* The type invariant, for every size of the client array.
THEOREM BridgeTypes == Spec => []TypeOK
<1>1. IInv => TypeOK
  BY DEF IInv
<1> QED BY <1>1, BridgeInvariance, PTL

\* The main loop never sends a port two copies of one frame: registration
\* looks the whole array up before it writes (linux_tap.c:301-317).
THEOREM NoClientTwice == Spec => []ClientsDistinct
<1>1. IInv => ClientsDistinct
  <2> SUFFICES ASSUME IInv, NEW i \in 1..Len(clients),
                      NEW j \in 1..Len(clients), clients[i] = clients[j]
               PROVE  i = j
    BY DEF ClientsDistinct
  <2>1. Len(clients) - i = Len(clients) - j
    BY DEF IInv, Ages
  <2> QED BY <2>1 DEF IInv, TypeOK
<1> QED BY <1>1, BridgeInvariance, PTL

\* A sender stays a client until exactly MAX_CLIENTS new senders have come
\* after it (linux_tap.c:308-316), for the 32 of the code and any other.
THEOREM ClientsLast == Spec => []ClientUntilDisplaced
<1>1. IInv => ClientUntilDisplaced
  <2> SUFFICES ASSUME IInv, NEW p \in Ports
               PROVE  p \in Clients <=> age[p] < MaxClients
    BY DEF ClientUntilDisplaced
  <2>1. ASSUME p \in Clients PROVE age[p] < MaxClients
    <3>1. PICK i \in 1..Len(clients) : clients[i] = p
      BY <2>1 DEF Clients
    <3>2. age[p] = Len(clients) - i
      BY <3>1 DEF IInv, Ages
    <3> QED BY <3>2, BridgeAssumption DEF IInv, TypeOK
  <2> QED BY <2>1 DEF IInv, Ages
<1> QED BY <1>1, BridgeInvariance, PTL

\* Whichever ioctl of handle_set_ipv4 fails, the interface never combines
\* the address of one command with the mask of another (linux_tap.c:94-103).
THEOREM MaskOfItsAddress == Spec => []AddressHasItsMask
<1>1. IInv => AddressHasItsMask
  BY DEF IInv
<1> QED BY <1>1, BridgeInvariance, PTL
=============================================================================
