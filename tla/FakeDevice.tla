----------------------------- MODULE FakeDevice -----------------------------
(***************************************************************************)
(* The emulated device \\.\RVPNNETMP of inject.c: the hooks of CreateFileW,*)
(* CloseHandle, ReadFile, WriteFile, DeviceIoControl and                   *)
(* GetOverlappedResult, run concurrently by the threads of the VPN         *)
(* service.  A step of a thread is one critical section of                 *)
(* g_HandleListLock, one socket operation or one write of shared memory.   *)
(*                                                                         *)
(* GetHandleContext returns a pointer and drops the lock, so a hook works  *)
(* on a heap block that CloseHandle may free, and AddFakeHandle hand out   *)
(* again, under it: contexts are blocks, and a thread keeps the block.     *)
(***************************************************************************)
EXTENDS Loopback

CONSTANTS
  Threads,      (* threads of the VPN service                              *)
  MaxHandles,   (* bound: handles created by one run of the process        *)
  Blocks,       (* heap blocks for HANDLE_CONTEXTs                         *)
  Ovs,          (* OVERLAPPED structures of the service                    *)
  Macs,         (* unicast MAC addresses                                   *)
  Multicast,    (* any address with the group bit set                      *)
  dst,          (* dst[f]: the destination address of a frame              *)
  NONE,         (* no socket, or no MAC address                            *)
  SharedOv,     (* a thread woken by an OVERLAPPED's event polls it while  *)
                (*   the ReadFile or the poll of another has not returned  *)
  QuietClose    (* the service closes a handle no other call is using      *)

Torn == <<NONE>>   \* a MAC read half way through a memcpy: no frame has it

ASSUME DeviceAssumption ==
  /\ MaxHandles \in Nat
  /\ dst \in [Frames -> Macs \cup {Multicast}]
  /\ NONE \notin Ports \cup Macs \cup {Multicast} \cup Ovs
  /\ IsFiniteSet(Ovs)
  /\ SharedOv \in BOOLEAN /\ QuietClose \in BOOLEAN

Handles == 1..MaxHandles
Requests == [ov : Ovs, sock : Ports \cup {NONE}]
NoRequest == [ov |-> NONE, sock |-> NONE]

VARIABLES
  active,    (* g_isAnyTAPDriverActive                                     *)
  created,   (* g_NextHandleId - 0x1000                                    *)
  list,      (* the blocks linked in g_HandleList                          *)
  ctx,       (* the contents of every block, stale in a freed one          *)
  internal,  (* lpOverlapped->Internal is STATUS_PENDING                   *)
  issued,    (* auxiliary: the handle of the read the service believes     *)
             (*   outstanding on an OVERLAPPED, 0 for none                 *)
  orphans,   (* auxiliary: sockets of reads dropped by CloseHandle         *)
  pc,        (* the next step of each thread                               *)
  arg        (* the arguments and locals of its call                       *)

device == <<active, created, list, ctx, internal, issued, orphans, pc, arg>>
vars == <<device, up, inq, open, rx>>

\* mac is NONE until IOCTL 0x228014 sets mac_set.
NewContext(h) == [h |-> h, mac |-> NONE, pending |-> <<>>]

Idle == [b |-> NONE, h |-> 0, ov |-> NONE, mac |-> NONE, req |-> NoRequest]

Init ==
  /\ active = FALSE
  /\ created = 0
  /\ list = {}
  /\ ctx = [b \in Blocks |-> NewContext(0)]
  /\ internal = [o \in Ovs |-> FALSE]
  /\ issued = [o \in Ovs |-> 0]
  /\ orphans = {}
  /\ pc = [t \in Threads |-> "idle"]
  /\ arg = [t \in Threads |-> Idle]
  /\ up = TRUE
  /\ inq = <<>>
  /\ open = {}
  /\ rx = [p \in Ports |-> <<>>]

-----------------------------------------------------------------------------
(* Helpers *)

\* The sequence without its i-th element.
Without(s, i) == [j \in 1..(Len(s) - 1) |-> IF j < i THEN s[j] ELSE s[j + 1]]

\* Thread t goes from one step of its hook to the next.
Goto(t, from, to) ==
  /\ pc[t] = from
  /\ pc' = [pc EXCEPT ![t] = to]

\* Thread t returns from its hook.
Return(t, from) ==
  /\ Goto(t, from, "idle")
  /\ arg' = [arg EXCEPT ![t] = Idle]

\* Thread t enters a hook on handle h and GetHandleContext finds a block.
Enter(t, to, h, o, m) ==
  /\ Goto(t, "idle", to)
  /\ \E b \in list :
       /\ ctx[b].h = h
       /\ arg' = [arg EXCEPT ![t] = [b |-> b, h |-> h, ov |-> o, mac |-> m,
                                     req |-> NoRequest]]

\* What the service promises about handles: with QuietClose, that it starts
\* no call on a handle it is closing and closes none in use.
MayUse(h) == QuietClose => \A t \in Threads : pc[t] = "close" => arg[t].h # h
MayClose(h) == QuietClose => \A t \in Threads : arg[t].h # h

\* ... and about OVERLAPPEDs: one in a call is left alone by other threads.
Unused(o) == \A t \in Threads : arg[t].ov # o

\* WSAEventSelect: data on the socket of a read sets its OVERLAPPED's event.
Signalled(o) ==
  \E p \in open :
    /\ rx[p] # <<>>
    /\ \/ \E t \in Threads : arg[t].req = [ov |-> o, sock |-> p]
       \/ \E b \in list : \E i \in 1..Len(ctx[b].pending) :
            ctx[b].pending[i] = [ov |-> o, sock |-> p]

\* is_mac_match: an unset filter rejects everything.
IsMacMatch(f, c) == c.mac # NONE /\ dst[f] \in {c.mac, Multicast}

-----------------------------------------------------------------------------
(* Start-up, CreateFileW and CloseHandle *)

\* InitDriver: the hooks are already installed and may have been called.
InitDriver ==
  /\ ~active
  /\ active' = TRUE
  /\ UNCHANGED <<created, list, ctx, internal, issued, orphans, pc, arg,
                 inq, open, rx>>

\* AddFakeHandle: a new identifier, a zeroed block, pushed on the list.
CreateFileW(t) ==
  /\ pc[t] = "idle"
  /\ created < MaxHandles
  /\ created' = created + 1
  /\ \/ \E b \in Blocks \ list :
          /\ ctx' = [ctx EXCEPT ![b] = NewContext(created + 1)]
          /\ list' = list \cup {b}
     \/ Blocks \subseteq list /\ UNCHANGED <<ctx, list>>   \* out of memory
  /\ UNCHANGED <<active, internal, issued, orphans, pc, arg, inq, open, rx>>

CloseHandle(t, h) ==
  /\ MayClose(h)
  /\ Enter(t, "close", h, NONE, NONE)
  /\ UNCHANGED <<active, created, list, ctx, internal, issued, orphans,
                 inq, open, rx>>

\* Faulty variant: frees the first context of the list, whoever's it is.
CloseRemoveFirst(t) ==
  /\ Return(t, "close")
  /\ \E b \in list : list' = list \ {b}
  /\ issued' = [o \in Ovs |-> IF issued[o] = arg[t].h THEN 0 ELSE issued[o]]
  /\ UNCHANGED <<active, created, ctx, internal, orphans, inq, open, rx>>

\* RemoveFakeHandle: unlink and free.  The pending reads are not freed and
\* their sockets stay open; the service takes them for cancelled.  A second
\* close of the handle finds nothing.
CloseRemove(t) ==
  /\ Return(t, "close")
  /\ LET found == {b \in list : ctx[b].h = arg[t].h} IN
       /\ list' = list \ found
       /\ orphans' = orphans \cup
            {p \in Ports : \E b \in found : \E i \in 1..Len(ctx[b].pending) :
                             ctx[b].pending[i].sock = p}
  /\ issued' = [o \in Ovs |-> IF issued[o] = arg[t].h THEN 0 ELSE issued[o]]
  /\ UNCHANGED <<active, created, ctx, internal, inq, open, rx>>

-----------------------------------------------------------------------------
(* ReadFile.  The calls that return an error before the allocation -       *)
(* driver not active, no OVERLAPPED, no memory - change nothing.           *)

ReadFile(t, h, o) ==
  /\ active
  /\ issued[o] = 0 /\ Unused(o) /\ MayUse(h)
  /\ Enter(t, "read_socket", h, o, NONE)
  /\ issued' = [issued EXCEPT ![o] = h]
  /\ UNCHANGED <<active, created, list, ctx, internal, orphans,
                 inq, open, rx>>

\* socket, connect, WSAEventSelect and the registration datagram; a read
\* whose socket could not be had is queued without one.
ReadSocket(t) ==
  /\ Goto(t, "read_socket", "read_enqueue")
  /\ \/ \E p \in Ports \ open :
          /\ open' = open \cup {p}
          /\ arg' = [arg EXCEPT ![t].req = [ov |-> arg[t].ov, sock |-> p]]
          /\ Send([from |-> p, data |-> [type |-> "register"]])
     \/ /\ "socket" \in Faults \/ Ports \subseteq open
        /\ arg' = [arg EXCEPT ![t].req = [ov |-> arg[t].ov, sock |-> NONE]]
        /\ UNCHANGED <<inq, open>>
  /\ UNCHANGED <<active, created, list, ctx, internal, issued, orphans, rx>>

\* Append the request of thread t to the pending reads of its block.
Append2Pending(t) ==
  ctx' = [ctx EXCEPT ![arg[t].b].pending = Append(@, arg[t].req)]

ReadEnqueue(t) ==
  /\ Goto(t, "read_enqueue", "read_pending")
  /\ Append2Pending(t)
  /\ arg' = [arg EXCEPT ![t].req = NoRequest]
  /\ UNCHANGED <<active, created, list, internal, issued, orphans,
                 inq, open, rx>>

\* Faulty variant: Internal is left as it was.
ReadPendingUnset(t) ==
  /\ Return(t, "read_pending")
  /\ UNCHANGED <<active, created, list, ctx, internal, issued, orphans,
                 inq, open, rx>>

\* lpOverlapped->Internal is set only now, outside the lock.
ReadPending(t) ==
  /\ Return(t, "read_pending")
  /\ internal' = [internal EXCEPT ![arg[t].ov] = TRUE]
  /\ UNCHANGED <<active, created, list, ctx, issued, orphans, inq, open, rx>>

-----------------------------------------------------------------------------
(* GetOverlappedResult *)

GetOverlappedResult(t, h, o) ==
  /\ issued[o] = h
  /\ Unused(o) \/ (SharedOv /\ Signalled(o))
  /\ MayUse(h)
  /\ Enter(t, "result_check", h, o, NONE)
  /\ UNCHANGED <<active, created, list, ctx, internal, issued, orphans,
                 inq, open, rx>>

\* "Already completed?": anything but STATUS_PENDING is a success.
ResultAlready(t) ==
  /\ Return(t, "result_check")
  /\ ~internal[arg[t].ov]
  /\ issued' = [issued EXCEPT ![arg[t].ov] = 0]
  /\ UNCHANGED <<active, created, list, ctx, internal, orphans,
                 inq, open, rx>>

ResultPending(t) ==
  /\ Goto(t, "result_check", "result_unlink")
  /\ internal[arg[t].ov]
  /\ UNCHANGED <<active, created, list, ctx, internal, issued, orphans, arg,
                 inq, open, rx>>

\* Faulty variant: the request stays in the queue while it is worked on.
ResultUnlinkPeeks(t) ==
  LET s == ctx[arg[t].b].pending IN
  /\ pc[t] = "result_unlink"
  /\ \E i \in 1..Len(s) :
       /\ s[i].ov = arg[t].ov
       /\ Goto(t, "result_unlink", "result_recv")
       /\ arg' = [arg EXCEPT ![t].req = s[i]]
  /\ UNCHANGED <<active, created, list, ctx, internal, issued, orphans,
                 inq, open, rx>>

\* Find the request by its OVERLAPPED and take it out of the queue; when
\* there is none the call fails with ERROR_INVALID_PARAMETER.
ResultUnlink(t) ==
  LET b == arg[t].b
      s == ctx[b].pending
      hits == {i \in 1..Len(s) : s[i].ov = arg[t].ov}
  IN
  /\ pc[t] = "result_unlink"
  /\ \/ \E i \in hits :
          /\ \A j \in hits : i <= j
          /\ Goto(t, "result_unlink", "result_recv")
          /\ ctx' = [ctx EXCEPT ![b].pending = Without(s, i)]
          /\ arg' = [arg EXCEPT ![t].req = s[i]]
     \/ /\ hits = {}
        /\ Return(t, "result_unlink")
        /\ UNCHANGED ctx
  /\ UNCHANGED <<active, created, list, internal, issued, orphans,
                 inq, open, rx>>

\* Faulty variant: a frame that the filter rejects stays in the socket.
ResultRecvPeeks(t) ==
  LET p == arg[t].req.sock IN
  /\ pc[t] = "result_recv"
  /\ p # NONE
  /\ rx[p] # <<>>
  /\ IsMacMatch(Head(rx[p]), ctx[arg[t].b])
  /\ Goto(t, "result_recv", "result_done")
  /\ rx' = [rx EXCEPT ![p] = Tail(@)]
  /\ UNCHANGED <<active, created, list, ctx, internal, issued, orphans, arg,
                 inq, open>>

\* One turn of the receive loop: a frame that passes the filter completes
\* the read, any other is thrown away.
ResultRecv(t) ==
  LET p == arg[t].req.sock IN
  /\ pc[t] = "result_recv"
  /\ p # NONE
  /\ rx[p] # <<>>
  /\ Goto(t, "result_recv", IF IsMacMatch(Head(rx[p]), ctx[arg[t].b])
                            THEN "result_done" ELSE "result_recv")
  /\ rx' = [rx EXCEPT ![p] = Tail(@)]
  /\ UNCHANGED <<active, created, list, ctx, internal, issued, orphans, arg,
                 inq, open>>

\* No socket, WSAEWOULDBLOCK or another error of recv ends the loop.
ResultNoFrame(t) ==
  LET p == arg[t].req.sock IN
  /\ Goto(t, "result_recv", "result_reinsert")
  /\ (p # NONE /\ "recv" \notin Faults) => rx[p] = <<>>
  /\ UNCHANGED <<active, created, list, ctx, internal, issued, orphans, arg,
                 inq, open, rx>>

\* Faulty variant: the request is dropped.
ResultReinsertDropped(t) ==
  /\ Return(t, "result_reinsert")
  /\ UNCHANGED <<active, created, list, ctx, internal, issued, orphans,
                 inq, open, rx>>

\* ERROR_IO_INCOMPLETE: the request goes back to the end of the queue.
ResultReinsert(t) ==
  /\ Return(t, "result_reinsert")
  /\ Append2Pending(t)
  /\ UNCHANGED <<active, created, list, internal, issued, orphans,
                 inq, open, rx>>

ResultDone(t) ==
  /\ Goto(t, "result_done", "result_close")
  /\ internal' = [internal EXCEPT ![arg[t].ov] = FALSE]
  /\ UNCHANGED <<active, created, list, ctx, issued, orphans, arg,
                 inq, open, rx>>

\* Faulty variant: the socket stays open.
ResultCloseLeaks(t) ==
  /\ Return(t, "result_close")
  /\ issued' = [issued EXCEPT ![arg[t].ov] = 0]
  /\ UNCHANGED <<active, created, list, ctx, internal, orphans,
                 inq, open, rx>>

\* closesocket drops what else the socket had received; return TRUE.
ResultClose(t) ==
  LET p == arg[t].req.sock IN
  /\ Return(t, "result_close")
  /\ open' = open \ {p}
  /\ rx' = [rx EXCEPT ![p] = <<>>]
  /\ issued' = [issued EXCEPT ![arg[t].ov] = 0]
  /\ UNCHANGED <<active, created, list, ctx, internal, orphans, inq>>

-----------------------------------------------------------------------------
(* WriteFile and DeviceIoControl complete at once, on an OVERLAPPED with no *)
(* read outstanding.                                                        *)

\* A frame leaves through a temporary socket of its own port; whatever
\* fails on the way, and whatever the header says, the write is
\* acknowledged.
WriteFile(t, h, f, o) ==
  /\ pc[t] = "idle"
  /\ issued[o] = 0 /\ Unused(o) /\ MayUse(h)
  /\ \E b \in list : ctx[b].h = h
  /\ \/ /\ active
        /\ \E p \in Ports \ open :
             Send([from |-> p, data |-> [type |-> "frame", frame |-> f]])
     \/ /\ ~active \/ "socket" \in Faults \/ Ports \subseteq open
        /\ UNCHANGED inq
  /\ internal' = [internal EXCEPT ![o] = FALSE]
  /\ UNCHANGED <<active, created, list, ctx, issued, orphans, pc, arg,
                 open, rx>>

\* IOCTL 0x228014.  The other codes report constants or the adapter's MAC
\* and change nothing here.
DeviceIoControl(t, h, m) ==
  /\ MayUse(h)
  /\ Enter(t, "ioctl_copy", h, NONE, m)
  /\ UNCHANGED <<active, created, list, ctx, internal, issued, orphans,
                 inq, open, rx>>

\* memcpy of ctx->mac without the lock: a concurrent reader of a filter
\* that was already set may see half of each address.
IoctlCopy(t) ==
  /\ Goto(t, "ioctl_copy", "ioctl_set")
  /\ ctx' = [ctx EXCEPT ![arg[t].b].mac =
                IF @ \in {NONE, arg[t].mac} THEN @ ELSE Torn]
  /\ UNCHANGED <<active, created, list, internal, issued, orphans, arg,
                 inq, open, rx>>

IoctlSet(t) ==
  /\ Return(t, "ioctl_set")
  /\ ctx' = [ctx EXCEPT ![arg[t].b].mac = arg[t].mac]
  /\ UNCHANGED <<active, created, list, internal, issued, orphans,
                 inq, open, rx>>

\* send_control of tap_client_udp.c, called by the adapter-configuration
\* hooks; before InitDriver it has no address to send to.
TapClientControl(c) ==
  /\ active
  /\ \E p \in Ports \ open :
       Send([from |-> p, data |-> [type |-> "control", cmd |-> c]])
  /\ UNCHANGED <<device, open, rx>>

-----------------------------------------------------------------------------
(* The process and its environment *)

\* The service exits, or crashes on a freed block, and is started again:
\* the operating system closes its sockets and everything starts afresh.
ServiceRestart ==
  /\ "exit" \in Faults
  /\ created > 0
  /\ active' = FALSE /\ created' = 0 /\ list' = {}
  /\ ctx' = [b \in Blocks |-> NewContext(0)]
  /\ internal' = [o \in Ovs |-> FALSE]
  /\ issued' = [o \in Ovs |-> 0]
  /\ orphans' = {}
  /\ pc' = [t \in Threads |-> "idle"]
  /\ arg' = [t \in Threads |-> Idle]
  /\ open' = {}
  /\ rx' = [p \in Ports |-> <<>>]
  /\ UNCHANGED inq

\* One step inside a hook already entered.
HookStep(t) ==
  \/ CloseRemove(t)
  \/ ReadSocket(t) \/ ReadEnqueue(t) \/ ReadPending(t)
  \/ ResultAlready(t) \/ ResultPending(t) \/ ResultUnlink(t)
  \/ ResultRecv(t) \/ ResultNoFrame(t) \/ ResultReinsert(t)
  \/ ResultDone(t) \/ ResultClose(t)
  \/ IoctlCopy(t) \/ IoctlSet(t)

\* A call of the service, other than WriteFile.
Call(t) ==
  \/ CreateFileW(t)
  \/ \E h \in Handles :
       \/ CloseHandle(t, h)
       \/ \E o \in Ovs : ReadFile(t, h, o) \/ GetOverlappedResult(t, h, o)
       \/ \E m \in Macs : DeviceIoControl(t, h, m)

DeviceNext ==
  /\ \/ InitDriver
     \/ \E t \in Threads : Call(t) \/ HookStep(t)
     \/ \E c \in Commands : TapClientControl(c)
     \/ ServiceRestart
  /\ UNCHANGED up

ServiceWrites(f) ==
  /\ \E t \in Threads, h \in Handles, o \in Ovs : WriteFile(t, h, f, o)
  /\ UNCHANGED up

\* Alone, the device sees a bridge that sends it any frame at any time.
BridgeSends(p, f) ==
  /\ p \in open
  /\ rx' = [rx EXCEPT ![p] = Arrive(@, f, 1)]
  /\ UNCHANGED <<device, up, inq, open>>

Next ==
  \/ DeviceNext
  \/ \E f \in Frames : ServiceWrites(f)
  \/ \E p \in Ports, f \in Frames : BridgeSends(p, f)

\* Threads that can run do, recv does not fail for ever on one read's socket,
\* and the service polls a read whose event is set.
Fairness ==
  /\ \A t \in Threads : WF_vars(HookStep(t) /\ UNCHANGED up)
  /\ \A o \in Ovs :
       /\ SF_vars(\E t \in Threads :
                    arg[t].ov = o /\ ResultRecv(t) /\ UNCHANGED up)
       /\ SF_vars(/\ Signalled(o)
                  /\ \E t \in Threads, h \in Handles :
                       GetOverlappedResult(t, h, o) /\ UNCHANGED up)

Spec == Init /\ [][Next]_vars

FairSpec == Spec /\ Fairness

-----------------------------------------------------------------------------
(* Properties *)

Steps == {"idle", "close", "read_socket", "read_enqueue", "read_pending",
          "result_check", "result_unlink", "result_recv", "result_reinsert",
          "result_done", "result_close", "ioctl_copy", "ioctl_set"}

Filters == Macs \cup {NONE, Torn}

TypeOK ==
  /\ LoopbackTypeOK
  /\ active \in BOOLEAN
  /\ created \in 0..MaxHandles
  /\ list \in SUBSET Blocks
  /\ ctx \in [Blocks -> [h : 0..MaxHandles, mac : Filters,
                         pending : Seq(Requests)]]
  /\ \A b \in list : Len(ctx[b].pending) <= Cardinality(Ovs)
  /\ internal \in [Ovs -> BOOLEAN]
  /\ issued \in [Ovs -> 0..MaxHandles]
  /\ orphans \in SUBSET Ports
  /\ pc \in [Threads -> Steps]
  /\ arg \in [Threads -> [b : Blocks \cup {NONE}, h : 0..MaxHandles,
                          ov : Ovs \cup {NONE}, mac : Macs \cup {NONE},
                          req : Requests \cup {NoRequest}]]

\* The requests reachable from a handle's queue, as <<block, place>>.
Pending == {x \in list \X (1..Cardinality(Ovs)) :
              x[2] <= Len(ctx[x[1]].pending)}
At(x) == ctx[x[1]].pending[x[2]]

\* A hook that is running works on the live context of the handle it was
\* called with: GetHandleContext gives out a pointer without a reference
\* count, and nothing but the caller's discipline keeps the block.
ContextIsTheHandles ==
  \A t \in Threads :
    pc[t] # "idle" => arg[t].b \in list /\ ctx[arg[t].b].h = arg[t].h

\* The thread is past the system calls that gave its request a socket.
HoldsRequest(t) ==
  pc[t] \in {"read_enqueue", "result_recv", "result_reinsert",
             "result_done", "result_close"}

\* The requests that exist: queued, or in the hands of a running hook.
Queue(b) == {ctx[b].pending[i] : i \in 1..Len(ctx[b].pending)}
Held == {arg[t].req : t \in {u \in Threads : HoldsRequest(u)}}
Reqs == (UNION {Queue(b) : b \in list}) \cup Held

\* Every open socket belongs to exactly one request: one waiting in the
\* queue of a handle, or one that a running hook has taken out, or one
\* that CloseHandle dropped.  No other socket leaks, none is shared.
SocketsHaveOneOwner ==
  \A p \in Ports :
    LET waiting == {x \in Pending : At(x).sock = p}
        working == {t \in Threads : HoldsRequest(t) /\ arg[t].req.sock = p}
        dropped == {p} \cap orphans
    IN  Cardinality(waiting) + Cardinality(working) + Cardinality(dropped)
          = IF p \in open THEN 1 ELSE 0

\* A read the service believes outstanding is not lost and not doubled: its
\* request is in the queue of its own handle or in the hands of the one
\* hook working on it.  So GetOverlappedResult finds it, and never answers
\* ERROR_INVALID_PARAMETER for it.
OutstandingReadIsKept ==
  \A o \in Ovs :
    LET waiting == {x \in Pending : At(x).ov = o}
        working == {t \in Threads : arg[t].ov = o /\
                      (HoldsRequest(t) \/ pc[t] = "read_socket")}
    IN  /\ Cardinality(waiting) + Cardinality(working)
             = IF issued[o] = 0 THEN 0 ELSE 1
        /\ \A x \in waiting : ctx[x[1]].h = issued[o]

\* "Already completed?" (inject.c:583) is answered yes only when a frame
\* was received for the read.  With SharedOv it may not be: a thread woken
\* between inject.c:342 and 372 finds Internal as the caller left it.
NoFalseCompletion ==
  \A t \in Threads :
    pc[t] = "result_check" /\ issued[arg[t].ov] # 0 => internal[arg[t].ov]

\* The filter of the handle h is the address m.
FilterIs(h, m) == \E b \in list : ctx[b].h = h /\ ctx[b].mac = m

\* The read on o waits in the queue of a handle with the filter m, and its
\* socket holds a frame which that filter accepts.
Ready(o, m) ==
  \E x \in Pending :
    /\ At(x).ov = o
    /\ ctx[x[1]].mac = m
    /\ At(x).sock # NONE
    /\ \E i \in 1..Len(rx[At(x).sock]) :
         IsMacMatch(rx[At(x).sock][i], ctx[x[1]])

\* A read for which an acceptable frame has arrived completes, or ends because
\* the service closes the handle or gives it another filter: frames for other
\* addresses before and behind that one, failing calls of recv and the polls
\* of other reads only put it off (the receive loop, inject.c:621-646).
ReadyReadsComplete ==
  \A o \in Ovs, m \in Macs :
    Ready(o, m) ~> issued[o] = 0 \/ ~FilterIs(issued[o], m)
=============================================================================
