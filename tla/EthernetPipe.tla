---------------------------- MODULE EthernetPipe ----------------------------
(***************************************************************************)
(* What the whole emulator promises about Ethernet frames, seen from its   *)
(* two ends: the VPN service, which writes frames and keeps reads          *)
(* outstanding, and the host's network.  A frame that is put in at one end *)
(* can only come out at the other.  The host sees a frame of the service   *)
(* at most once.  A frame of the host may be copied for several reads, but *)
(* only for reads outstanding when it is handed out, and a read takes one  *)
(* frame and is over.  Anything may be lost: a pipe that delivers nothing  *)
(* is a pipe.                                                              *)
(***************************************************************************)
EXTENDS Naturals

CONSTANTS
  FromService,   (* frames the VPN service writes                          *)
  FromHost,      (* frames the host's network sends                        *)
  Ovs            (* the reads the service can have outstanding             *)

VARIABLES
  sent,        (* frames put into the pipe                                 *)
  toHost,      (* frames of the service on their way                       *)
  toService,   (* frames of the host that no read has been offered         *)
  reads,       (* the outstanding reads                                    *)
  due,         (* due[o]: the frames that may complete the read o          *)
  atHost,      (* how often each frame has come out at the host            *)
  atService    (* how often each frame has completed a read                *)

vars == <<sent, toHost, toService, reads, due, atHost, atService>>

Nowhere == [f \in FromService \cup FromHost |-> 0]

Init ==
  /\ sent = {} /\ toHost = {} /\ toService = {}
  /\ reads = {} /\ due = [o \in Ovs |-> {}]
  /\ atHost = Nowhere /\ atService = Nowhere

ServicePut(f) ==
  /\ f \in FromService \ sent
  /\ sent' = sent \cup {f}
  /\ toHost' \in {toHost, toHost \cup {f}}
  /\ UNCHANGED <<toService, reads, due, atHost, atService>>

HostPut(f) ==
  /\ f \in FromHost \ sent
  /\ sent' = sent \cup {f}
  /\ toService' = toService \cup {f}
  /\ UNCHANGED <<toHost, reads, due, atHost, atService>>

\* A frame of the service leaves the pipe.
Carry(f) ==
  /\ f \in toHost
  /\ toHost' = toHost \ {f}
  /\ atHost' = [atHost EXCEPT ![f] = @ + 1]
  /\ UNCHANGED <<sent, toService, reads, due, atService>>

\* A frame of the host is offered to some of the outstanding reads.
HandOut(f) ==
  /\ f \in toService
  /\ toService' = toService \ {f}
  /\ \E R \in SUBSET reads :
       due' = [o \in Ovs |-> IF o \in R THEN due[o] \cup {f} ELSE due[o]]
  /\ UNCHANGED <<sent, toHost, reads, atHost, atService>>

Begin(o) ==
  /\ o \notin reads
  /\ reads' = reads \cup {o}
  /\ UNCHANGED <<sent, toHost, toService, due, atHost, atService>>

\* The reads R are over, and what they were offered is gone.
End(R) ==
  /\ reads' = reads \ R
  /\ due' = [o \in Ovs |-> IF o \in R THEN {} ELSE due[o]]
  /\ UNCHANGED <<sent, toHost, toService, atHost>>

Complete(o, f) ==
  /\ o \in reads /\ f \in due[o]
  /\ End({o})
  /\ atService' = [atService EXCEPT ![f] = @ + 1]

\* The handle of the reads is closed, or the service ends.
Cancel(R) == End(R) /\ UNCHANGED atService

Lose ==
  /\ toHost' \subseteq toHost
  /\ toService' \subseteq toService
  /\ due' \in [Ovs -> SUBSET UNION {due[o] : o \in Ovs}]
  /\ \A o \in Ovs : due'[o] \subseteq due[o]
  /\ UNCHANGED <<sent, reads, atHost, atService>>

Next ==
  \/ \E f \in FromService : ServicePut(f)
  \/ \E f \in FromHost : HostPut(f)
  \/ \E f \in toHost : Carry(f)
  \/ \E f \in toService : HandOut(f)
  \/ \E o \in Ovs : Begin(o)
  \/ \E o \in reads : \E f \in due[o] : Complete(o, f)
  \/ \E R \in SUBSET reads : Cancel(R)
  \/ Lose

Spec == Init /\ [][Next]_vars
=============================================================================
