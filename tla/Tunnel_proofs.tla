---------------------------- MODULE Tunnel_proofs ----------------------------
(* The emulated device and the bridge implement the Ethernet pipe, for any *)
(* number of threads, handles, OVERLAPPEDs, ports and clients, buffers of  *)
(* any size, and any faults.                                               *)
EXTENDS Tunnel, FakeDevice_proofs

-----------------------------------------------------------------------------
(* The inductive invariant                                                 *)

Elems(s) == {s[i] : i \in 1..Len(s)}
Distinct(s) == \A i, j \in 1..Len(s) : s[i] = s[j] => i = j

\* What the bridge keeps of its own: a turn of the loop serves only a
\* descriptor that has something.
BridgeSound ==
  /\ clients \in Seq(Ports) /\ tapq \in Seq(Frames)
  /\ turn \in [tap : BOOLEAN, udp : BOOLEAN]
  /\ turn.tap => tapq # <<>>
  /\ turn.udp => inq # <<>>

Counts ==
  /\ sent \in SUBSET Frames
  /\ atHost \in [Frames -> Nat] /\ atService \in [Frames -> Nat]

\* A frame of the service waits at the bridge's socket, if anywhere, once: when
\* the bridge has taken it, it is not there any more.
ServiceFrames ==
  /\ \A i \in 1..Len(inq), f \in Frames : Carries(inq[i], f) => f \in sent
  /\ \A i, j \in 1..Len(inq), f \in Frames :
       Carries(inq[i], f) /\ Carries(inq[j], f) => i = j

\* A frame of the host waits at the TAP interface, if anywhere, once.
HostFrames == Distinct(tapq) /\ ToService \subseteq sent

TunnelInv == IInv /\ BridgeSound /\ Counts /\ ServiceFrames /\ HostFrames

LEMMA InvParts ==
  ASSUME TunnelInv
  PROVE  /\ IInv /\ Types /\ LoopbackTypeOK /\ BridgeSound /\ Counts
         /\ ServiceFrames /\ HostFrames
BY DEF TunnelInv, IInv, Types

-----------------------------------------------------------------------------
(* Queues                                                                  *)

LEMMA TailDistinct ==
  ASSUME NEW S, NEW s \in Seq(S), s # <<>>, Distinct(s)
  PROVE  /\ Tail(s) \in Seq(S) /\ Distinct(Tail(s))
         /\ Head(s) \in Elems(s) /\ Head(s) \in S
         /\ Elems(Tail(s)) \subseteq Elems(s)
         /\ Head(s) \notin Elems(Tail(s))
<1> DEFINE n == Len(s)
           w == Tail(s)
<1>1. /\ n \in Nat /\ n > 0 /\ Head(s) = s[1] /\ s[1] \in S
      /\ w \in Seq(S) /\ Len(w) = n - 1
      /\ \A i \in 1..(n - 1) : w[i] = s[i + 1]
  OBVIOUS
<1>2. \A i, j \in 1..n : s[i] = s[j] => i = j
  BY DEF Distinct
<1> HIDE DEF n, w
<1>3. 1 \in 1..n /\ \A i \in 1..(n - 1) : i \in Nat /\ i + 1 \in 1..n /\ i + 1 # 1
  BY <1>1
<1>4. \A i, j \in 1..(n - 1) : w[i] = w[j] => i = j
  BY <1>1, <1>2, <1>3
<1>5. \A i \in 1..(n - 1) : w[i] \in {s[j] : j \in 1..n} /\ w[i] # s[1]
  BY <1>1, <1>2, <1>3
<1>6. s[1] \in {s[j] : j \in 1..n}
  BY <1>3
<1> QED BY <1>1, <1>4, <1>5, <1>6 DEF n, w, Distinct, Elems

LEMMA AppendDistinct ==
  ASSUME NEW S, NEW s \in Seq(S), NEW x \in S, Distinct(s), x \notin Elems(s)
  PROVE  /\ Append(s, x) \in Seq(S) /\ Distinct(Append(s, x))
         /\ Elems(Append(s, x)) = Elems(s) \cup {x}
<1> DEFINE n == Len(s)
           a == Append(s, x)
<1>1. /\ n \in Nat /\ a \in Seq(S) /\ Len(a) = n + 1 /\ a[n + 1] = x
      /\ \A i \in 1..n : a[i] = s[i]
  OBVIOUS
<1>2. /\ \A i, j \in 1..n : s[i] = s[j] => i = j
      /\ \A i \in 1..n : s[i] # x
  BY DEF Distinct, Elems
<1>3. Elems(a) = Elems(s) \cup {x}
  BY AppendElements DEF Elems
<1> HIDE DEF n, a
<1>4. \A i \in 1..(n + 1) : i = n + 1 \/ i \in 1..n
  BY <1>1
<1>5. \A i, j \in 1..(n + 1) : a[i] = a[j] => i = j
  BY <1>1, <1>2, <1>4
<1>6. Distinct(a)
  BY <1>1, <1>5 DEF Distinct
<1> QED BY <1>1, <1>3, <1>6 DEF a

\* What copies of a frame add to a socket's buffer.
LEMMA ArriveElems ==
  ASSUME NEW S, NEW s \in Seq(S), NEW f \in S, NEW n \in Nat, Len(s) <= RxLimit
  PROVE  /\ Elems(s) \subseteq Elems(Arrive(s, f, n))
         /\ Elems(Arrive(s, f, n)) \subseteq Elems(s) \cup {f}
<1> DEFINE m == IF Len(s) + n > RxLimit THEN RxLimit ELSE Len(s) + n
           a == Arrive(s, f, n)
           k == Len(s)
<1>1. m \in Nat /\ k \in Nat /\ k <= m
  BY LimitsAssumption
<1>2. a = [i \in 1..m |-> IF i <= k THEN s[i] ELSE f]
  BY DEF Arrive
<1> HIDE DEF m, a, k
<1>3. Len(a) = m /\ \A i \in 1..m : a[i] = IF i <= k THEN s[i] ELSE f
  BY <1>1, <1>2
<1>4. \A i \in 1..m : i <= k => i \in 1..k
  BY <1>1
<1>5. \A i \in 1..k : i <= k /\ i \in 1..m
  BY <1>1
<1>6. \A i \in 1..m : a[i] \in {s[j] : j \in 1..k} \cup {f}
  BY <1>3, <1>4
<1>7. \A i \in 1..k : s[i] = a[i] /\ i \in 1..m
  BY <1>3, <1>5
<1>8. /\ {s[j] : j \in 1..k} \subseteq Elems(a)
      /\ Elems(a) \subseteq {s[j] : j \in 1..k} \cup {f}
  BY <1>3, <1>6, <1>7 DEF Elems
<1> QED BY <1>8 DEF a, k, Elems

-----------------------------------------------------------------------------
(* What a step of the device does to the reads                             *)

\* A read is completed with a frame.
Completion == \E t \in Threads, f \in Frames : Completes(t, f)

Fewer ==
  /\ Reads' = Reads
  /\ \A o \in Ovs : Received(o)' \subseteq Received(o)

Begins == \E o \in Ovs \ Reads : Reads' = Reads \cup {o} /\ Due' = Due

Ends(R) ==
  /\ Reads' = Reads \ R
  /\ Due' = [o \in Ovs |-> IF o \in R THEN {} ELSE Due[o]]

\* Thread t ends the read o with the frame f.
Finishes(t, o, f) ==
  /\ o \in Reads /\ f \in Due[o] /\ Ends({o})
  /\ Completes(t, f)
  /\ \A u \in Threads, g \in Frames : Completes(u, g) => u = t /\ g = f

Effect ==
  \/ ~Completion /\ (Fewer \/ Begins \/ \E R \in SUBSET Reads : Ends(R))
  \/ \E t \in Threads, o \in Ovs, f \in Frames : Finishes(t, o, f)

\* The datagrams the device sends without the service writing a frame.
Registers == inq' = inq \/ \E d \in Datagrams :
               d.data.type # "frame" /\ inq' = Append(inq, d)

LEMMA NoCompletion ==
  ASSUME IInv, NEW t \in Threads, NEW from, NEW to, Goto(t, from, to),
         from # "result_recv" \/ to # "result_done"
  PROVE  ~Completion
BY DEF IInv, Types, Goto, Completion, Completes

LEMMA NoEntryCompletes ==
  ASSUME IInv, NEW t \in Threads, NEW to, NEW h, NEW o, NEW m,
         Enter(t, to, h, o, m)
  PROVE  ~Completion
BY NoCompletion DEF Enter

LEMMA NoReturnCompletes ==
  ASSUME IInv, NEW t \in Threads, NEW from, Return(t, from)
  PROVE  ~Completion
BY NoCompletion DEF Return

Done == {"result_done", "result_close"}

\* Only thread t moves.
Alone(t) == \A u \in Threads \ {t} : pc'[u] = pc[u] /\ arg'[u] = arg[u]

LEMMA CompletedStays ==
  ASSUME NEW t \in Threads, Alone(t), pc[t] \in Done <=> pc'[t] \in Done,
         pc[t] \in Done => arg'[t].ov = arg[t].ov
  PROVE  Completed' = Completed
<1>1. \A u \in Threads : pc'[u] \in Done <=> pc[u] \in Done
  BY DEF Alone
<1>2. \A u \in Threads : pc[u] \in Done => arg'[u].ov = arg[u].ov
  BY DEF Alone
<1> QED BY <1>1, <1>2 DEF Completed, Done

\* Every request was one before.
LEMMA FewerRequests ==
  ASSUME \A b \in list' : Queue(b)' \subseteq Reqs,
         \A u \in Threads : HoldsRequest(u)' => arg'[u].req \in Reqs
  PROVE  Reqs' \subseteq Reqs
<1>1. Held' \subseteq Reqs
  BY DEF Held
<1> QED BY <1>1 DEF Reqs

LEMMA HeldByOthers ==
  ASSUME NEW t \in Threads, Alone(t), HoldsRequest(t)' => arg'[t].req \in Reqs
  PROVE  \A u \in Threads : HoldsRequest(u)' => arg'[u].req \in Reqs
<1>1. \A u \in Threads : HoldsRequest(u) => arg[u].req \in Reqs
  BY DEF Reqs, Held
<1> QED BY <1>1 DEF Alone, HoldsRequest

LEMMA QueuesStay ==
  ASSUME list' = list, \A b \in list : ctx'[b].pending = ctx[b].pending
  PROVE  \A b \in list' : Queue(b)' \subseteq Reqs
<1>1. \A b \in list : Queue(b)' = Queue(b)
  BY DEF Queue
<1> QED BY <1>1 DEF Reqs

LEMMA FewerReceived ==
  ASSUME Reqs' \subseteq Reqs, rx' = rx
  PROVE  \A o \in Ovs : Received(o)' \subseteq Received(o)
BY DEF Received

\* A step of a hook on no socket, that reports no completed read.
LEMMA QuietEffect ==
  ASSUME NEW t \in Threads, Alone(t), Reqs' \subseteq Reqs,
         UNCHANGED <<issued, rx>>, pc[t] \in Done <=> pc'[t] \in Done,
         pc[t] \in Done => arg'[t].ov = arg[t].ov
  PROVE  Fewer
BY CompletedStays, FewerReceived DEF Fewer, Reads

\* Where thread t is, and what it holds, when it goes on or returns.
LEMMA MovesAlone ==
  ASSUME IInv, NEW t \in Threads, NEW from, NEW to,
         Goto(t, from, to),
         \A u \in Threads \ {t} : arg'[u] = arg[u]
  PROVE  pc[t] = from /\ pc'[t] = to /\ Alone(t)
BY DEF IInv, Types, Goto, Alone

LEMMA ReturnsAlone ==
  ASSUME IInv, NEW t \in Threads, NEW from, Return(t, from)
  PROVE  /\ pc[t] = from /\ pc'[t] = "idle" /\ arg'[t] = Idle /\ Alone(t)
         /\ ~HoldsRequest(t)'
<1>1. \A u \in Threads \ {t} : arg'[u] = arg[u]
  BY DEF IInv, Types, Return
<1>2. arg'[t] = Idle
  BY DEF IInv, Types, Return
<1> QED BY <1>1, <1>2, MovesAlone DEF Return, HoldsRequest

LEMMA EntersAlone ==
  ASSUME IInv, NEW t \in Threads, NEW to, NEW h, NEW o, NEW m,
         Enter(t, to, h, o, m)
  PROVE  pc[t] = "idle" /\ pc'[t] = to /\ Alone(t)
BY MovesAlone DEF IInv, Types, Enter

\* A thread's request goes to the end of its handle's queue.
LEMMA EnqueuedIsHeld ==
  ASSUME IInv, NEW t \in Threads, HoldsRequest(t), Append2Pending(t),
         ~HoldsRequest(t)', Alone(t), list' = list
  PROVE  Reqs' \subseteq Reqs
<1>1. PICK b, r : b = arg[t].b /\ r = arg[t].req
  OBVIOUS
<1>2. Types /\ Sound(t)
  BY DEF IInv, Locals
<1>3. /\ b \in list /\ b \in Blocks /\ ctx[b].pending \in Seq(Requests)
      /\ r \in Requests /\ r \in Reqs
  BY <1>1, <1>2 DEF Sound, HoldsRequest, Types, Reqs, Held
<1>4. /\ ctx'[b].pending = Append(ctx[b].pending, r)
      /\ \A c \in Blocks \ {b} : ctx'[c] = ctx[c]
  BY <1>1, <1>2, <1>3 DEF Append2Pending, Types
<1>5. Queue(b)' = Queue(b) \cup {r}
  <2>1. Queue(b)' = {Append(ctx[b].pending, r)[i] :
                       i \in 1..Len(Append(ctx[b].pending, r))}
    BY <1>4 DEF Queue
  <2>2. {Append(ctx[b].pending, r)[i] :
           i \in 1..Len(Append(ctx[b].pending, r))}
          = {ctx[b].pending[i] : i \in 1..Len(ctx[b].pending)} \cup {r}
    BY <1>3, AppendElements
  <2> QED BY <2>1, <2>2 DEF Queue
<1>6. \A c \in list \ {b} : Queue(c)' = Queue(c)
  BY <1>2, <1>4 DEF Queue, Types
<1>7. \A c \in list' : Queue(c)' \subseteq Reqs
  BY <1>3, <1>5, <1>6 DEF Reqs
<1> QED BY <1>7, HeldByOthers, FewerRequests

\* ... and comes back to the thread that finds it.
LEMMA UnlinkedWasQueued ==
  ASSUME IInv, NEW t \in Threads, pc[t] = "result_unlink", Alone(t),
         NEW b, b = arg[t].b, NEW i \in 1..Len(ctx[b].pending),
         ctx' = [ctx EXCEPT ![b].pending = Without(ctx[b].pending, i)],
         arg' = [arg EXCEPT ![t].req = ctx[b].pending[i]], list' = list
  PROVE  Reqs' \subseteq Reqs
<1>1. Types /\ Sound(t)
  BY DEF IInv, Locals
<1>2. b \in list /\ b \in Blocks /\ ctx[b].pending \in Seq(Requests)
  BY <1>1 DEF Sound, Types
<1>3. /\ ctx'[b].pending = Without(ctx[b].pending, i)
      /\ \A c \in Blocks \ {b} : ctx'[c] = ctx[c]
      /\ arg'[t].req = ctx[b].pending[i]
  BY <1>1, <1>2 DEF Types
<1>4. Queue(b)' \subseteq Queue(b) /\ ctx[b].pending[i] \in Queue(b)
  <2>1. Queue(b)' = {Without(ctx[b].pending, i)[j] :
                       j \in 1..Len(Without(ctx[b].pending, i))}
    BY <1>3 DEF Queue
  <2>2. {ctx[b].pending[j] : j \in 1..Len(ctx[b].pending)}
          = {Without(ctx[b].pending, i)[j] :
               j \in 1..Len(Without(ctx[b].pending, i))} \cup {ctx[b].pending[i]}
    BY <1>2, WithoutElements
  <2> QED BY <2>1, <2>2 DEF Queue
<1>5. \A c \in list \ {b} : Queue(c)' = Queue(c)
  BY <1>1, <1>3 DEF Queue, Types
<1>6. \A c \in list' : Queue(c)' \subseteq Reqs
  BY <1>2, <1>4, <1>5 DEF Reqs
<1>7. arg'[t].req \in Reqs
  BY <1>2, <1>3, <1>4 DEF Reqs
<1> QED BY <1>6, <1>7, HeldByOthers, FewerRequests

\* The request of thread t is one of the outstanding read on its OVERLAPPED,
\* and nobody else's has that socket.
LEMMA HeldRequest ==
  ASSUME IInv, NEW t \in Threads, HoldsRequest(t)
  PROVE  /\ arg[t].req \in Reqs /\ arg[t].req.ov = arg[t].ov
         /\ arg[t].ov \in Ovs /\ issued[arg[t].ov] # 0
         /\ \A r \in Reqs : r.sock # NONE /\ r.sock = arg[t].req.sock
                              => r = arg[t].req
         /\ arg[t].req.sock # NONE =>
              arg[t].req.sock \in open /\ arg[t].req.sock \in Ports
<1>1. Sound(t) /\ Types
  BY DEF IInv, Locals
<1>2. arg[t].req \in Reqs
  BY DEF Reqs, Held
<1>3. /\ arg[t].req.ov = arg[t].ov /\ arg[t].ov \in Ovs
      /\ issued[arg[t].ov] = arg[t].h /\ arg[t].b \in list
      /\ ctx[arg[t].b].h = arg[t].h
  BY <1>1 DEF Sound, HoldsRequest, ReadSteps
<1> QED BY <1>1, <1>2, <1>3, HandleNotZero
        DEF IInv, Sockets, Types, LoopbackTypeOK

\* Only thread t works on its read.
LEMMA OneThread ==
  ASSUME IInv, NEW t \in Threads, pc[t] \in ReadSteps
  PROVE  \A u \in Threads : arg[u].ov = arg[t].ov => u = t
<1>1. arg[t].ov \in Ovs
  BY DEF IInv, Locals, Sound
<1> QED BY <1>1, DeviceAssumption DEF IInv, Apart

LEMMA ReadSocketEffect ==
  ASSUME IInv, NEW t \in Threads, ReadSocket(t)
  PROVE  Fewer
<1>1. Types /\ Sound(t)
  BY DEF IInv, Locals
<1>2. /\ pc[t] = "read_socket" /\ pc'[t] = "read_enqueue" /\ Alone(t)
      /\ UNCHANGED <<list, ctx, issued, rx>>
  <2>1. \A u \in Threads \ {t} : arg'[u] = arg[u]
    BY <1>1 DEF ReadSocket, Types
  <2> QED BY <2>1, MovesAlone DEF ReadSocket
<1>3. arg'[t].req.sock = NONE \/
        (arg'[t].req.sock \in Ports /\ arg'[t].req.sock \notin open)
  <2>1. PICK p \in (Ports \ open) \cup {NONE} :
          arg' = [arg EXCEPT ![t].req = [ov |-> arg[t].ov, sock |-> p]]
    BY DEF ReadSocket
  <2>2. arg'[t].req = [ov |-> arg[t].ov, sock |-> p]
    BY <1>1, <2>1 DEF Types
  <2> QED BY <2>2
<1>4. arg'[t].req.sock # NONE => rx[arg'[t].req.sock] = <<>>
  BY <1>1, <1>3 DEF Types, LoopbackTypeOK
<1>5. Reqs' \subseteq Reqs \cup {arg'[t].req}
  <2>1. Held' \subseteq Held \cup {arg'[t].req}
    BY <1>2 DEF Held, Alone, HoldsRequest
  <2>2. \A b \in list' : Queue(b)' \subseteq Reqs
    BY <1>2, QueuesStay
  <2> QED BY <2>1, <2>2 DEF Reqs
<1>6. \A o \in Ovs : Received(o)' \subseteq Received(o)
  <2> SUFFICES ASSUME NEW o \in Ovs, NEW f \in Received(o)'
               PROVE  f \in Received(o)
    OBVIOUS
  <2>1. PICK r \in Reqs' : /\ r.ov = o /\ r.sock # NONE /\ f \in Frames
                           /\ \E i \in 1..Len(rx[r.sock]) : rx[r.sock][i] = f
    BY <1>2 DEF Received
  <2>2. r # arg'[t].req
    <3> SUFFICES ASSUME r = arg'[t].req PROVE FALSE
      OBVIOUS
    <3>1. rx[r.sock] = <<>>
      BY <1>4, <2>1
    <3> QED BY <2>1, <3>1
  <2> QED BY <1>5, <2>1, <2>2 DEF Received
<1>7. Reads' = Reads
  BY <1>2, CompletedStays DEF Done, Reads
<1> QED BY <1>6, <1>7 DEF Fewer

LEMMA ResultCloseEffect ==
  ASSUME IInv, NEW t \in Threads, ResultClose(t)
  PROVE  Fewer
<1>1. Types /\ Sound(t)
  BY DEF IInv, Locals
<1>2. /\ pc[t] = "result_close" /\ pc'[t] = "idle" /\ arg'[t] = Idle
      /\ Alone(t) /\ ~HoldsRequest(t)' /\ UNCHANGED <<list, ctx>>
      /\ rx' = [rx EXCEPT ![arg[t].req.sock] = <<>>]
      /\ issued' = [issued EXCEPT ![arg[t].ov] = 0]
  BY ReturnsAlone DEF ResultClose
<1>3. \A o \in Ovs : Received(o)' \subseteq Received(o)
  <2>1. Reqs' \subseteq Reqs
    BY <1>2, QueuesStay, HeldByOthers, FewerRequests
  <2>2. rx \in [Ports -> Seq(Frames)]
    BY <1>1 DEF Types, LoopbackTypeOK
  <2>3. \A p \in Ports : rx'[p] = rx[p] \/ rx'[p] = <<>>
    BY <1>2, <2>2
  <2>4. \A r \in Reqs : r.sock # NONE => r.sock \in Ports
    BY RequestTypes, RequestPlace DEF Requests
  <2> SUFFICES ASSUME NEW o \in Ovs, NEW f \in Received(o)'
               PROVE  f \in Received(o)
    OBVIOUS
  <2>5. PICK r \in Reqs : /\ r.ov = o /\ r.sock # NONE /\ f \in Frames
                          /\ \E i \in 1..Len(rx'[r.sock]) : rx'[r.sock][i] = f
    BY <2>1 DEF Received
  <2>6. rx'[r.sock] # <<>>
    BY <2>5
  <2>7. rx'[r.sock] = rx[r.sock]
    BY <2>3, <2>4, <2>5, <2>6
  <2> QED BY <2>5, <2>7 DEF Received
<1>4. Reads' = Reads
  <2>1. \A u \in Threads : arg[u].ov = arg[t].ov => u = t
    BY <1>2, OneThread DEF ReadSteps
  <2>2. arg[t].ov \in Ovs /\ arg[t].ov \notin Reads
    BY <1>1, <1>2 DEF Sound, ReadSteps, Reads, Completed
  <2>3. \A o \in Ovs : o # arg[t].ov => (o \in Completed' <=> o \in Completed)
    BY <1>2 DEF Completed, Alone
  <2>4. issued'[arg[t].ov] = 0
        /\ \A o \in Ovs : o # arg[t].ov => issued'[o] = issued[o]
    BY <1>1, <1>2, <2>2 DEF Types
  <2> QED BY <2>2, <2>3, <2>4 DEF Reads
<1> QED BY <1>3, <1>4 DEF Fewer

LEMMA ResultRecvEffect ==
  ASSUME IInv, NEW t \in Threads, ResultRecv(t)
  PROVE  Effect
<1>1. PICK p, o, f : p = arg[t].req.sock /\ o = arg[t].ov /\ f = Head(rx[p])
  OBVIOUS
<1>2. /\ Types /\ pc[t] = "result_recv" /\ HoldsRequest(t) /\ p # NONE
      /\ rx[p] # <<>>
  BY <1>1 DEF IInv, ResultRecv, HoldsRequest
<1>3. /\ arg[t].req \in Reqs /\ arg[t].req.ov = o /\ p \in Ports
      /\ o \in Ovs /\ issued[o] # 0
      /\ \A r \in Reqs : r.sock # NONE /\ r.sock = p => r.ov = o
  BY <1>1, <1>2, HeldRequest
<1>4. \A u \in Threads : arg[u].ov = o => u = t
  BY <1>1, <1>2, OneThread DEF ReadSteps
<1>5. PICK w : w = Tail(rx[p])
  OBVIOUS
<1>6. /\ f \in Frames /\ w \in Seq(Frames)
      /\ \E i \in 1..Len(rx[p]) : rx[p][i] = f
      /\ \A i \in 1..Len(w) : \E j \in 1..Len(rx[p]) : w[i] = rx[p][j]
  <2>1. rx[p] \in Seq(Frames)
    BY <1>2, <1>3 DEF Types, LoopbackTypeOK
  <2>2. 1 \in 1..Len(rx[p]) /\ rx[p][1] = Head(rx[p]) /\ rx[p][1] \in Frames
    BY <1>2, <2>1
  <2>3. w \in Seq(Frames) /\ Len(w) = Len(rx[p]) - 1
        /\ \A i \in 1..Len(w) : w[i] = rx[p][i + 1]
    BY <1>2, <1>5, <2>1
  <2>4. \A i \in 1..Len(w) : i + 1 \in 1..Len(rx[p])
    BY <2>1, <2>3
  <2> QED BY <1>1, <2>2, <2>3, <2>4
<1>7. /\ UNCHANGED <<list, ctx, issued, arg>>
      /\ rx' = [rx EXCEPT ![p] = w]
      /\ \A u \in Threads \ {t} : pc'[u] = pc[u]
      /\ pc'[t] \in {"result_done", "result_recv"}
  BY <1>1, <1>2, <1>5 DEF ResultRecv, Goto, Types
<1>8. Alone(t)
  BY <1>7 DEF Alone
<1>9. Reqs' = Reqs
  <2>1. \A u \in Threads : HoldsRequest(u)' <=> HoldsRequest(u)
    BY <1>2, <1>7 DEF HoldsRequest
  <2>2. Held' = Held
    BY <1>7, <2>1 DEF Held
  <2>3. \A b : Queue(b)' = Queue(b)
    BY <1>7 DEF Queue
  <2> QED BY <1>7, <2>2, <2>3 DEF Reqs
<1>10. rx'[p] = w /\ \A q \in Ports \ {p} : rx'[q] = rx[q]
  BY <1>2, <1>3, <1>7 DEF Types, LoopbackTypeOK
<1>11. \A r \in Reqs : r.sock # NONE => r.sock \in Ports
  BY RequestTypes, RequestPlace DEF Requests
<1>12. \A v \in Ovs : Received(v)' \subseteq Received(v)
  <2> SUFFICES ASSUME NEW v \in Ovs, NEW g \in Received(v)'
               PROVE  g \in Received(v)
    OBVIOUS
  <2>1. PICK r \in Reqs : /\ r.ov = v /\ r.sock # NONE /\ g \in Frames
                          /\ \E i \in 1..Len(rx'[r.sock]) : rx'[r.sock][i] = g
    BY <1>9 DEF Received
  <2>2. \E i \in 1..Len(rx[r.sock]) : rx[r.sock][i] = g
    BY <1>6, <1>10, <1>11, <2>1
  <2> QED BY <2>1, <2>2 DEF Received
<1>13. \A v \in Ovs \ {o} : Received(v)' = Received(v)
  <2>1. \A v \in Ovs \ {o}, r \in Reqs :
          r.ov = v /\ r.sock # NONE => rx'[r.sock] = rx[r.sock]
    BY <1>3, <1>10, <1>11
  <2> QED BY <1>9, <2>1 DEF Received
<1>14. f \in Received(o) /\ o \in Reads
  <2>1. f \in Received(o)
    BY <1>1, <1>2, <1>3, <1>6 DEF Received
  <2>2. o \notin Completed
    BY <1>2, <1>4 DEF Completed
  <2> QED BY <1>3, <2>1, <2>2 DEF Reads
<1>15. \A u \in Threads, g \in Frames : Completes(u, g) => u = t /\ g = f
  BY <1>1, <1>7 DEF Completes
<1>16. CASE pc'[t] = "result_recv"
  <2>1. ~Completion
    BY <1>15, <1>16 DEF Completion, Completes
  <2>2. Reads' = Reads
    BY <1>2, <1>7, <1>8, <1>16, CompletedStays DEF Done, Reads
  <2> QED BY <1>12, <2>1, <2>2 DEF Effect, Fewer
<1>17. CASE pc'[t] = "result_done"
  <2>1. Completed' = Completed \cup {o}
    <3>1. \A u \in Threads \ {t} : pc'[u] \in Done <=> pc[u] \in Done
      BY <1>7
    <3>2. pc[t] \notin Done /\ pc'[t] \in Done
      BY <1>2, <1>17 DEF Done
    <3> QED BY <1>1, <1>7, <3>1, <3>2 DEF Completed, Done
  <2>2. Reads' = Reads \ {o}
    BY <1>7, <2>1 DEF Reads
  <2>3. Due' = [v \in Ovs |-> IF v \in {o} THEN {} ELSE Due[v]]
    BY <1>13, <2>2 DEF Due
  <2>4. Completes(t, f)
    BY <1>1, <1>2, <1>17 DEF Completes
  <2>5. f \in Due[o]
    BY <1>3, <1>14 DEF Due
  <2> QED BY <1>3, <1>6, <1>14, <1>15, <2>2, <2>3, <2>4, <2>5
          DEF Effect, Finishes, Ends
<1> QED BY <1>7, <1>16, <1>17

\* RemoveFakeHandle ends the reads of the handle, and no other read.
LEMMA CloseRemoveEffect ==
  ASSUME IInv, NEW t \in Threads, CloseRemove(t)
  PROVE  \E R \in SUBSET Reads : Ends(R)
<1>1. PICK h : h = arg[t].h
  OBVIOUS
<1>2. /\ Types /\ pc[t] = "close" /\ pc'[t] = "idle" /\ Alone(t)
      /\ ~HoldsRequest(t) /\ ~HoldsRequest(t)'
      /\ list' = list \ {b \in list : ctx[b].h = h}
      /\ issued' = [o \in Ovs |-> IF issued[o] = h THEN 0 ELSE issued[o]]
      /\ UNCHANGED <<ctx, rx>>
  BY <1>1, ReturnsAlone DEF CloseRemove, IInv, HoldsRequest
<1>3. PICK R : R = {o \in Reads : issued[o] = h}
  OBVIOUS
<1>4. Completed' = Completed
  BY <1>2, CompletedStays DEF Done
<1>5. Reads' = Reads \ R
  BY <1>2, <1>3, <1>4 DEF Reads
<1>6. Reqs' \subseteq Reqs
  <2>1. \A b \in list' : b \in list /\ Queue(b)' = Queue(b)
    BY <1>2 DEF Queue
  <2>2. \A b \in list' : Queue(b)' \subseteq Reqs
    BY <2>1 DEF Reqs
  <2> QED BY <1>2, <2>2, HeldByOthers, FewerRequests
<1>7. ASSUME NEW r \in Reqs, r.ov \in Ovs, issued[r.ov] # h
      PROVE  r \in Reqs'
  <2>1. CASE \E u \in Threads : HoldsRequest(u) /\ r = arg[u].req
    <3>1. PICK u \in Threads : HoldsRequest(u) /\ r = arg[u].req
      BY <2>1
    <3>2. HoldsRequest(u)' /\ r = arg'[u].req
      BY <1>2, <3>1 DEF Alone, HoldsRequest
    <3>3. r \in Held'
      BY <3>2 DEF Held
    <3> QED BY <3>3 DEF Reqs
  <2>2. ASSUME NEW b \in list, NEW i \in Nat,
               Waits(r.ov, b, i), r = ctx[b].pending[i]
        PROVE  r \in Reqs'
    <3>1. ctx[b].h = issued[r.ov] /\ i \in 1..Len(ctx[b].pending)
      BY <1>7, <2>2 DEF IInv, Places, Waits
    <3>2. b \in list'
      BY <1>2, <1>7, <3>1
    <3>3. r \in Queue(b)'
      BY <1>2, <2>2, <3>1 DEF Queue
    <3> QED BY <3>2, <3>3 DEF Reqs
  <2> QED BY <2>1, <2>2, RequestPlace
<1>8. \A o \in Reads' : Received(o)' = Received(o)
  <2>1. \A o \in Reads' : o \in Ovs /\ issued[o] # h
    BY <1>3, <1>5 DEF Reads
  <2>2. \A o \in Reads' : \A r : r.ov = o => (r \in Reqs' <=> r \in Reqs)
    BY <1>6, <1>7, <2>1
  <2> QED BY <1>2, <2>2 DEF Received
<1>9. Due' = [o \in Ovs |-> IF o \in R THEN {} ELSE Due[o]]
  BY <1>5, <1>8 DEF Due
<1>10. R \in SUBSET Reads
  BY <1>3
<1> QED BY <1>5, <1>9, <1>10 DEF Ends

\* ReadFile makes an OVERLAPPED a read with no frame.
LEMMA ReadFileEffect ==
  ASSUME IInv, NEW t \in Threads, NEW h \in Handles, NEW o \in Ovs,
         ReadFile(t, h, o)
  PROVE  Begins
<1>1. /\ Types /\ pc[t] = "idle" /\ pc'[t] = "read_socket" /\ Alone(t)
      /\ ~HoldsRequest(t) /\ ~HoldsRequest(t)'
      /\ issued[o] = 0 /\ issued' = [issued EXCEPT ![o] = h]
      /\ \A u \in Threads : arg[u].ov # o
      /\ UNCHANGED <<list, ctx, rx>>
  BY EntersAlone DEF ReadFile, IInv, HoldsRequest, Unused
<1>2. Completed' = Completed /\ o \notin Completed
  <2>1. o \notin Completed
    BY <1>1 DEF Completed
  <2> QED BY <1>1, <2>1, CompletedStays DEF Done
<1>3. o \notin Reads /\ Reads' = Reads \cup {o}
  <2>1. /\ issued'[o] # 0
        /\ \A v \in Ovs : v # o => issued'[v] = issued[v]
    BY <1>1 DEF Types, Handles
  <2> QED BY <1>1, <1>2, <2>1 DEF Reads
<1>4. Reqs' = Reqs
  <2>1. \A u \in Threads : HoldsRequest(u)' <=> HoldsRequest(u)
    BY <1>1 DEF HoldsRequest, Alone
  <2>2. \A u \in Threads : HoldsRequest(u) => arg'[u] = arg[u]
    BY <1>1 DEF Alone
  <2>3. Held' = Held
    BY <2>1, <2>2 DEF Held
  <2>4. \A b : Queue(b)' = Queue(b)
    BY <1>1 DEF Queue
  <2> QED BY <1>1, <2>3, <2>4 DEF Reqs
<1>5. \A v \in Ovs : Received(v)' = Received(v)
  BY <1>1, <1>4 DEF Received
<1>6. \A r \in Reqs : r.ov # o
  <2> SUFFICES ASSUME NEW r \in Reqs, r.ov = o PROVE FALSE
    OBVIOUS
  <2>1. ASSUME NEW b \in list, NEW i \in Nat, Waits(o, b, i) PROVE FALSE
    <3>1. issued[o] = ctx[b].h
      BY <2>1 DEF IInv, Places
    <3> QED BY <1>1, <3>1, HandleNotZero
  <2>2. \A u \in Threads : ~Working(u, o)
    BY <1>1 DEF Working
  <2> QED BY <2>1, <2>2, RequestPlace
<1>7. Received(o) = {}
  BY <1>6 DEF Received
<1>8. Due' = Due
  <2>1. \A v \in Ovs : Due'[v] = Due[v]
    BY <1>3, <1>5, <1>7 DEF Due
  <2> QED BY <2>1 DEF Due
<1> QED BY <1>3, <1>8 DEF Begins

LEMMA HookEffect ==
  ASSUME IInv, NEW t \in Threads, HookStep(t), up' = up
  PROVE  Registers /\ Effect
<1>1. Types /\ LoopbackTypeOK
  BY DEF IInv, Types
<1>2. CASE CloseRemove(t)
  <2>1. ~Completion
    BY <1>2, NoReturnCompletes DEF CloseRemove
  <2>2. Registers
    BY <1>2 DEF CloseRemove, Registers
  <2> QED BY <1>2, <2>1, <2>2, CloseRemoveEffect DEF Effect
<1>3. CASE ReadSocket(t)
  <2>1. ~Completion
    BY <1>3, NoCompletion DEF ReadSocket
  <2>2. ASSUME NEW p \in Ports,
               Send([from |-> p, data |-> [type |-> "register"]])
        PROVE  Registers
    <3>1. [from |-> p, data |-> [type |-> "register"]] \in Datagrams
      BY DEF Datagrams, Payloads
    <3> QED BY <2>2, <3>1 DEF Registers, Send
  <2>3. Registers
    BY <1>3, <2>2 DEF ReadSocket, Registers
  <2> QED BY <1>3, <2>1, <2>3, ReadSocketEffect DEF Effect
<1>4. CASE ReadEnqueue(t) \/ ResultReinsert(t)
  <2>1. /\ ~Completion /\ Registers /\ Append2Pending(t) /\ Alone(t)
        /\ UNCHANGED <<list, issued, rx>>
        /\ HoldsRequest(t) /\ ~HoldsRequest(t)'
        /\ pc[t] \notin Done /\ pc'[t] \notin Done
    <3>1. CASE ReadEnqueue(t)
      <4>1. \A u \in Threads \ {t} : arg'[u] = arg[u]
        BY <1>1, <3>1 DEF ReadEnqueue, Types
      <4>2. pc[t] = "read_enqueue" /\ pc'[t] = "read_pending" /\ Alone(t)
        BY <3>1, <4>1, MovesAlone DEF ReadEnqueue
      <4>3. ~Completion
        BY <3>1, NoCompletion DEF ReadEnqueue
      <4> QED BY <3>1, <4>2, <4>3 DEF ReadEnqueue, Registers, HoldsRequest, Done
    <3>2. CASE ResultReinsert(t)
      BY <3>2, ReturnsAlone, NoReturnCompletes
         DEF ResultReinsert, Registers, HoldsRequest, Done
    <3> QED BY <1>4, <3>1, <3>2
  <2>2. Fewer
    BY <2>1, EnqueuedIsHeld, QuietEffect
  <2> QED BY <2>1, <2>2 DEF Effect
<1>5. CASE ReadPending(t) \/ IoctlSet(t)
  <2>1. /\ ~Completion /\ Registers /\ Alone(t)
        /\ UNCHANGED <<list, issued, rx>>
        /\ \A b \in list : ctx'[b].pending = ctx[b].pending
        /\ ~HoldsRequest(t)'
        /\ pc[t] \notin Done /\ pc'[t] \notin Done
    <3>1. CASE ReadPending(t)
      BY <3>1, ReturnsAlone, NoReturnCompletes DEF ReadPending, Registers, Done
    <3>2. CASE IoctlSet(t)
      <4>1. \A b \in list : ctx'[b].pending = ctx[b].pending
        BY <1>1, <3>2 DEF IoctlSet, Types
      <4> QED BY <3>2, <4>1, ReturnsAlone, NoReturnCompletes
              DEF IoctlSet, Registers, Done
    <3> QED BY <1>5, <3>1, <3>2
  <2>2. Fewer
    BY <2>1, QueuesStay, HeldByOthers, FewerRequests, QuietEffect
  <2> QED BY <2>1, <2>2 DEF Effect
<1>6. CASE ResultAlready(t)
  <2>1. /\ pc[t] = "result_check" /\ ~internal[arg[t].ov]
        /\ issued[arg[t].ov] = arg[t].h /\ arg[t].ov \in Ovs
        /\ arg[t].b \in list /\ ctx[arg[t].b].h = arg[t].h
    BY <1>6 DEF ResultAlready, Return, Goto, IInv, Locals, Sound, ReadSteps
  <2>2. issued[arg[t].ov] # 0
    BY <2>1, HandleNotZero
  <2>3. \A u \in Threads : arg[u].ov = arg[t].ov => u = t
    BY <2>1, OneThread DEF ReadSteps
  <2> QED BY <2>1, <2>2, <2>3 DEF IInv, Internals
<1>7. CASE ResultPending(t) \/ ResultNoFrame(t) \/ ResultDone(t) \/ IoctlCopy(t)
  <2>1. /\ ~Completion /\ Registers
        /\ UNCHANGED <<list, issued, rx, arg>>
        /\ \A b \in list : ctx'[b].pending = ctx[b].pending
    <3>1. CASE ResultPending(t) \/ ResultNoFrame(t) \/ ResultDone(t)
      BY <3>1, NoCompletion DEF ResultPending, ResultNoFrame, ResultDone, Registers
    <3>2. CASE IoctlCopy(t)
      <4>1. \A b \in list : ctx'[b].pending = ctx[b].pending
        BY <1>1, <3>2 DEF IoctlCopy, Types
      <4> QED BY <3>2, <4>1, NoCompletion DEF IoctlCopy, Registers
    <3> QED BY <1>7, <3>1, <3>2
  <2>2. /\ Alone(t)
        /\ HoldsRequest(t)' => HoldsRequest(t)
        /\ pc[t] \in Done => pc'[t] \in Done
        /\ pc'[t] \in Done => pc[t] \in Done
    BY <1>7, <2>1, MovesAlone
       DEF ResultPending, ResultNoFrame, ResultDone, IoctlCopy, Done, HoldsRequest
  <2>3. Reqs' \subseteq Reqs
    <3>1. HoldsRequest(t)' => arg'[t].req \in Reqs
      BY <2>1, <2>2 DEF Reqs, Held
    <3> QED BY <2>1, <2>2, <3>1, QueuesStay, HeldByOthers, FewerRequests
  <2>4. Fewer
    BY <2>1, <2>2, <2>3, QuietEffect
  <2> QED BY <2>1, <2>4 DEF Effect
<1>8. CASE ResultUnlink(t)
  <2>1. ~Completion
    BY <1>8, NoCompletion, NoReturnCompletes DEF ResultUnlink
  <2>2. Registers /\ pc[t] = "result_unlink" /\ UNCHANGED <<list, issued, rx>>
    BY <1>8 DEF ResultUnlink, Registers
  <2>3. CASE Return(t, "result_unlink") /\ UNCHANGED ctx
    <3>1. /\ Alone(t) /\ ~HoldsRequest(t)' /\ pc[t] \notin Done
          /\ pc'[t] \notin Done
      BY <2>2, <2>3, ReturnsAlone DEF Done
    <3>2. Fewer
      BY <2>2, <2>3, <3>1, QueuesStay, HeldByOthers, FewerRequests, QuietEffect
    <3> QED BY <2>1, <2>2, <3>2 DEF Effect
  <2>4. ASSUME NEW i \in 1..Len(ctx[arg[t].b].pending),
               Goto(t, "result_unlink", "result_recv"),
               ctx' = [ctx EXCEPT ![arg[t].b].pending =
                         Without(ctx[arg[t].b].pending, i)],
               arg' = [arg EXCEPT ![t].req = ctx[arg[t].b].pending[i]]
        PROVE  Fewer
    <3>1. \A u \in Threads \ {t} : arg'[u] = arg[u]
      BY <1>1, <2>4 DEF Types
    <3>2. Alone(t) /\ pc[t] \notin Done /\ pc'[t] \notin Done
      BY <2>4, <3>1, MovesAlone DEF Done
    <3> QED BY <2>2, <2>4, <3>2, UnlinkedWasQueued, QuietEffect
  <2> QED BY <1>8, <2>1, <2>2, <2>3, <2>4 DEF Effect, ResultUnlink
<1>9. CASE ResultRecv(t)
  BY <1>9, ResultRecvEffect DEF ResultRecv, Registers
<1>10. CASE ResultClose(t)
  <2>1. ~Completion /\ Registers
    BY <1>10, NoReturnCompletes DEF ResultClose, Registers
  <2> QED BY <1>10, <2>1, ResultCloseEffect DEF Effect
<1> QED BY <1>2, <1>3, <1>4, <1>5, <1>6, <1>7, <1>8, <1>9, <1>10 DEF HookStep

\* A call that enters a hook and changes no read.
LEMMA EntryEffect ==
  ASSUME IInv, NEW t \in Threads, NEW to, NEW h, NEW o, NEW m,
         Enter(t, to, h, o, m),
         to \in {"close", "result_check", "ioctl_copy"},
         UNCHANGED <<list, ctx, issued, rx, inq>>
  PROVE  Registers /\ Effect
<1>1. ~Completion
  BY NoEntryCompletes
<1>2. /\ Alone(t) /\ ~HoldsRequest(t)' /\ pc[t] \notin Done /\ pc'[t] \notin Done
  BY EntersAlone DEF HoldsRequest, Done
<1>3. Fewer
  BY <1>2, QueuesStay, HeldByOthers, FewerRequests, QuietEffect
<1> QED BY <1>1, <1>3 DEF Registers, Effect

LEMMA CreateFileWEffect ==
  ASSUME IInv, NEW t \in Threads, CreateFileW(t)
  PROVE  Registers /\ Effect
<1>1. Types /\ UNCHANGED <<issued, orphans, pc, arg, inq, rx>>
  BY DEF CreateFileW, IInv
<1>2. \A b \in list' : Queue(b)' \subseteq Reqs
  <2>1. CASE UNCHANGED <<ctx, list>>
    BY <2>1, QueuesStay
  <2>2. ASSUME NEW b \in Blocks \ list, list' = list \cup {b},
               ctx' = [ctx EXCEPT ![b] = NewContext(created + 1)]
        PROVE  \A c \in list' : Queue(c)' \subseteq Reqs
    <3>1. ctx'[b].pending = <<>> /\ \A c \in list : ctx'[c] = ctx[c]
      BY <1>1, <2>2 DEF NewContext, Types
    <3>2. Queue(b)' = {} /\ \A c \in list : Queue(c)' = Queue(c)
      BY <3>1 DEF Queue
    <3> QED BY <2>2, <3>2 DEF Reqs
  <2> QED BY <2>1, <2>2 DEF CreateFileW
<1>3. Reqs' \subseteq Reqs
  <2>1. \A u \in Threads : HoldsRequest(u)' => arg'[u].req \in Reqs
    BY <1>1 DEF HoldsRequest, Reqs, Held
  <2> QED BY <1>2, <2>1, FewerRequests
<1>4. Completed' = Completed
  BY <1>1 DEF Completed
<1>5. Fewer
  BY <1>1, <1>3, <1>4, FewerReceived DEF Fewer, Reads
<1>6. ~Completion
  <2>1. \A u \in Threads : ~Completes(u, 0) /\ pc'[u] = pc[u]
    BY <1>1 DEF Completes
  <2> QED BY <2>1 DEF Completion, Completes
<1> QED BY <1>1, <1>5, <1>6 DEF Registers, Effect

\* Nothing of the device changes but the state of the driver.
LEMMA SameEffect ==
  ASSUME UNCHANGED <<list, ctx, issued, pc, arg, rx>>
  PROVE  /\ Reads' = Reads /\ Due' = Due /\ Fewer /\ ~Completion
<1>1. Reqs' = Reqs
  BY DEF Reqs, Queue, Held, HoldsRequest
<1>2. Completed' = Completed
  BY DEF Completed
<1>3. Reads' = Reads /\ \A o \in Ovs : Received(o)' = Received(o)
  BY <1>1, <1>2 DEF Reads, Received
<1>4. ~Completion
  BY DEF Completion, Completes
<1> QED BY <1>3, <1>4 DEF Fewer, Due

LEMMA ServiceRestartEffect ==
  ASSUME IInv, ServiceRestart
  PROVE  Registers /\ Effect
<1>1. Reads' = {}
  BY DEF ServiceRestart, Reads
<1>2. Due' = [o \in Ovs |-> IF o \in Reads THEN {} ELSE Due[o]]
  BY <1>1 DEF Due
<1>3. Ends(Reads)
  BY <1>1, <1>2 DEF Ends
<1>4. ~Completion
  BY DEF ServiceRestart, Completion, Completes
<1> QED BY <1>3, <1>4 DEF ServiceRestart, Registers, Effect

LEMMA DeviceEffect ==
  ASSUME IInv, DeviceNext
  PROVE  Registers /\ Effect
<1> USE DEF DeviceNext
<1>1. CASE InitDriver
  <2>1. Fewer /\ ~Completion
    BY <1>1, SameEffect DEF InitDriver
  <2> QED BY <1>1, <2>1 DEF InitDriver, Registers, Effect
<1>2. ASSUME NEW t \in Threads, Call(t)
      PROVE  Registers /\ Effect
  <2>1. CASE CreateFileW(t)
    BY <2>1, CreateFileWEffect
  <2>2. ASSUME NEW h \in Handles, CloseHandle(t, h)
        PROVE  Registers /\ Effect
    BY <2>2, EntryEffect DEF CloseHandle
  <2>3. ASSUME NEW h \in Handles, NEW o \in Ovs, ReadFile(t, h, o)
        PROVE  Registers /\ Effect
    <3>1. ~Completion /\ Registers
      BY <2>3, NoEntryCompletes DEF ReadFile, Registers
    <3> QED BY <2>3, <3>1, ReadFileEffect DEF Effect
  <2>4. ASSUME NEW h \in Handles, NEW o \in Ovs, GetOverlappedResult(t, h, o)
        PROVE  Registers /\ Effect
    BY <2>4, EntryEffect DEF GetOverlappedResult
  <2>5. ASSUME NEW h \in Handles, NEW m \in Macs, DeviceIoControl(t, h, m)
        PROVE  Registers /\ Effect
    BY <2>5, EntryEffect DEF DeviceIoControl
  <2> QED BY <1>2, <2>1, <2>2, <2>3, <2>4, <2>5 DEF Call
<1>3. ASSUME NEW t \in Threads, HookStep(t)
      PROVE  Registers /\ Effect
  BY <1>3, HookEffect
<1>4. ASSUME NEW c \in Commands, TapClientControl(c)
      PROVE  Registers /\ Effect
  <2>1. Fewer /\ ~Completion
    BY <1>4, SameEffect DEF TapClientControl, device
  <2>2. PICK p \in Ports :
          Send([from |-> p, data |-> [type |-> "control", cmd |-> c]])
    BY <1>4 DEF TapClientControl
  <2>3. [from |-> p, data |-> [type |-> "control", cmd |-> c]] \in Datagrams
    BY DEF Datagrams, Payloads
  <2>4. Registers
    BY <2>2, <2>3 DEF Registers, Send
  <2> QED BY <2>1, <2>4 DEF Effect
<1>5. CASE ServiceRestart
  BY <1>5, ServiceRestartEffect
<1> QED BY <1>1, <1>2, <1>3, <1>4, <1>5

-----------------------------------------------------------------------------
(* Steps of the device                                                     *)

LEMMA LosesOnly ==
  ASSUME ToHost' \subseteq ToHost, ToService' \subseteq ToService, Fewer,
         UNCHANGED <<sent, atHost, atService>>
  PROVE  Pipe!Lose
<1>1. \A o \in Ovs : Due'[o] \subseteq Due[o]
  BY DEF Fewer, Due
<1>2. Due' = [o \in Ovs |-> Due'[o]]
  BY DEF Due
<1>3. Due' \in [Ovs -> SUBSET UNION {Due[o] : o \in Ovs}]
  BY <1>1, <1>2
<1> QED BY <1>1, <1>3 DEF Pipe!Lose, Fewer

\* A datagram without a new frame.
LEMMA RegistersKeep ==
  ASSUME TunnelInv, Registers, sent' = sent
  PROVE  ServiceFrames' /\ (inq # <<>> => inq' # <<>>) /\ ToHost' = ToHost
<1>1. inq \in Seq(Datagrams) /\ ServiceFrames
  BY InvParts DEF LoopbackTypeOK
<1>2. CASE inq' = inq
  BY <1>1, <1>2 DEF ServiceFrames, ToHost
<1>3. ASSUME NEW d \in Datagrams, d.data.type # "frame", inq' = Append(inq, d)
      PROVE  ServiceFrames' /\ inq' # <<>> /\ ToHost' = ToHost
  <2>1. PICK n : n = Len(inq)
    OBVIOUS
  <2>2. /\ n \in Nat /\ Len(inq') = n + 1 /\ inq'[n + 1] = d
        /\ \A i \in 1..n : inq'[i] = inq[i]
    BY <1>1, <1>3, <2>1
  <2>3. /\ \A i \in 1..Len(inq') : i \in 1..n \/ i = n + 1
        /\ \A i \in 1..n : i \in 1..Len(inq')
    BY <2>2
  <2>4. \A i \in 1..Len(inq'), f \in Frames : Carries(inq'[i], f) =>
          i \in 1..Len(inq) /\ Carries(inq[i], f)
    BY <1>3, <2>1, <2>2, <2>3 DEF Carries
  <2>5. ServiceFrames'
    BY <1>1, <2>4 DEF ServiceFrames
  <2>6. \A i \in 1..Len(inq), f \in Frames : Carries(inq[i], f) =>
          i \in 1..Len(inq') /\ Carries(inq'[i], f)
    BY <2>1, <2>2, <2>3
  <2>7. ToHost' = ToHost
    BY <2>4, <2>6 DEF ToHost
  <2> QED BY <2>2, <2>5, <2>7
<1> QED BY <1>2, <1>3 DEF Registers

LEMMA BridgeStays ==
  ASSUME TunnelInv, UNCHANGED bridge, inq # <<>> => inq' # <<>>
  PROVE  BridgeSound' /\ ToService' = ToService
BY InvParts DEF BridgeSound, bridge, ToService

\* How often the frames have completed a read, after a completion with f.
LEMMA CountOne ==
  ASSUME Counts, NEW t \in Threads, NEW f \in Frames, Completes(t, f),
         \A u \in Threads, g \in Frames : Completes(u, g) => u = t /\ g = f,
         atService' = [g \in Frames |->
           atService[g] + Cardinality({u \in Threads : Completes(u, g)})]
  PROVE  atService' = [atService EXCEPT ![f] = @ + 1]
         /\ atService' \in [Frames -> Nat]
<1>1. \A g \in Frames :
        {u \in Threads : Completes(u, g)} = IF g = f THEN {t} ELSE {}
  OBVIOUS
<1>2. \A g \in Frames : Cardinality({u \in Threads : Completes(u, g)})
        = IF g = f THEN 1 ELSE 0
  BY <1>1, FS_EmptySet, FS_Singleton
<1>3. atService \in [Frames -> Nat]
  BY DEF Counts
<1>4. \A g \in Frames : atService'[g] = atService[g] + IF g = f THEN 1 ELSE 0
  BY <1>2
<1>5. atService' = [g \in Frames |-> atService'[g]]
  OBVIOUS
<1>6. f \in Frames
  OBVIOUS
<1> QED BY ONLY <1>3, <1>4, <1>5, <1>6

LEMMA CountNone ==
  ASSUME Counts, ~Completion,
         atService' = [g \in Frames |->
           atService[g] + Cardinality({u \in Threads : Completes(u, g)})]
  PROVE  atService' = atService
<1>1. \A g \in Frames : {u \in Threads : Completes(u, g)} = {}
  BY DEF Completion
<1>2. \A g \in Frames : Cardinality({u \in Threads : Completes(u, g)}) = 0
  BY <1>1, FS_EmptySet
<1>3. atService \in [Frames -> Nat]
  BY DEF Counts
<1> QED BY <1>2, <1>3

LEMMA DeviceStepKeeps ==
  ASSUME TunnelInv, QuietClose, ~SharedOv, DeviceStep
  PROVE  TunnelInv' /\ Pipe!Next
<1>1. /\ IInv' /\ Registers /\ Effect /\ UNCHANGED <<bridge, sent, atHost>>
      /\ atService' = [f \in Frames |->
           atService[f] + Cardinality({t \in Threads : Completes(t, f)})]
  BY InvParts, DeviceNextKeeps, DeviceEffect DEF DeviceStep
<1>2. /\ ServiceFrames' /\ BridgeSound' /\ ToHost' = ToHost
      /\ ToService' = ToService
  BY <1>1, RegistersKeep, BridgeStays
<1>3. HostFrames'
  BY <1>1, <1>2, InvParts DEF HostFrames, bridge
<1>4. CASE ~Completion
  <2>1. atService' = atService
    BY <1>1, <1>4, CountNone, InvParts
  <2>2. Counts'
    BY <1>1, <2>1, InvParts DEF Counts
  <2>3. TunnelInv'
    BY <1>1, <1>2, <1>3, <2>2 DEF TunnelInv
  <2>4. CASE Fewer
    BY <1>1, <1>2, <2>1, <2>3, <2>4, LosesOnly DEF Pipe!Next
  <2>5. CASE Begins
    <3>1. PICK o \in Ovs \ Reads : Reads' = Reads \cup {o} /\ Due' = Due
      BY <2>5 DEF Begins
    <3>2. Pipe!Begin(o)
      BY <1>1, <1>2, <2>1, <3>1 DEF Pipe!Begin
    <3> QED BY <2>3, <3>2 DEF Pipe!Next
  <2>6. ASSUME NEW R \in SUBSET Reads, Ends(R)
        PROVE  Pipe!Next
    <3>1. Pipe!Cancel(R)
      BY <1>1, <1>2, <2>1, <2>6 DEF Ends, Pipe!Cancel, Pipe!End
    <3> QED BY <3>1 DEF Pipe!Next
  <2>8. \A t \in Threads, o \in Ovs, f \in Frames : ~Finishes(t, o, f)
    BY <1>4 DEF Finishes, Completion
  <2> QED BY <1>1, <2>3, <2>4, <2>5, <2>6, <2>8 DEF Effect
<1>5. CASE Completion
  <2>1. PICK t \in Threads, o \in Ovs, f \in Frames : Finishes(t, o, f)
    BY <1>1, <1>5 DEF Effect
  <2>2. /\ atService' = [atService EXCEPT ![f] = @ + 1]
        /\ atService' \in [Frames -> Nat]
    BY <1>1, <2>1, CountOne, InvParts DEF Finishes
  <2>3. Counts'
    BY <1>1, <2>2, InvParts DEF Counts
  <2>4. Pipe!Complete(o, f)
    BY <1>1, <1>2, <2>1, <2>2 DEF Finishes, Ends, Pipe!Complete, Pipe!End
  <2>5. Pipe!Next
    BY <2>1, <2>4 DEF Pipe!Next, Finishes
  <2> QED BY <1>1, <1>2, <1>3, <2>3, <2>5 DEF TunnelInv
<1> QED BY <1>4, <1>5

-----------------------------------------------------------------------------
(* Steps of the two ends                                                   *)

LEMMA ServiceSendsKeeps ==
  ASSUME TunnelInv, NEW f \in Frames, ServiceSends(f)
  PROVE  TunnelInv' /\ Pipe!ServicePut(f) /\ f \in FromService
<1>1. PICK t \in Threads, h \in Handles, o \in Ovs : WriteFile(t, h, f, o)
  BY DEF ServiceSends, ServiceWrites
<1>2. /\ f \in FromService \ sent /\ sent' = sent \cup {f}
      /\ UNCHANGED <<bridge, atHost, atService, up, rx, list, ctx, issued, pc, arg>>
  BY <1>1 DEF ServiceSends, ServiceWrites, WriteFile
<1>3. IInv'
  BY <1>1, <1>2, InvParts, WriteFileKeeps
<1>4. inq \in Seq(Datagrams) /\ ServiceFrames /\ f \in Frames
      /\ sent \in SUBSET Frames
  BY InvParts DEF LoopbackTypeOK, Counts
<1>5. Counts'
  BY <1>2, InvParts DEF Counts
<1>6. /\ ServiceFrames' /\ (inq # <<>> => inq' # <<>>)
      /\ ToHost' \in {ToHost, ToHost \cup {f}}
  <2>1. CASE inq' = inq
    BY <1>2, <1>4, <2>1 DEF ServiceFrames, ToHost
  <2>2. ASSUME NEW d, inq' = Append(inq, d), \A g : Carries(d, g) <=> g = f
        PROVE  ServiceFrames' /\ inq' # <<>> /\ ToHost' = ToHost \cup {f}
    <3>1. PICK n : n = Len(inq)
      OBVIOUS
    <3>2. /\ n \in Nat /\ Len(inq') = n + 1 /\ inq'[n + 1] = d
          /\ \A i \in 1..n : inq'[i] = inq[i]
      BY <1>4, <2>2, <3>1
    <3>3. /\ \A i \in 1..Len(inq') : i \in 1..n \/ i = n + 1
          /\ n + 1 \in 1..Len(inq') /\ \A i \in 1..n : i \in 1..Len(inq')
      BY <3>2
    <3>4. \A i \in 1..Len(inq'), g \in Frames : Carries(inq'[i], g) =>
            \/ i \in 1..Len(inq) /\ Carries(inq[i], g) /\ g # f
            \/ i = n + 1 /\ g = f
      <4> SUFFICES ASSUME NEW i \in 1..Len(inq'), NEW g \in Frames,
                          Carries(inq'[i], g)
                   PROVE  \/ i \in 1..Len(inq) /\ Carries(inq[i], g) /\ g # f
                          \/ i = n + 1 /\ g = f
        OBVIOUS
      <4>1. CASE i = n + 1
        BY <2>2, <3>2, <4>1
      <4>2. CASE i \in 1..n
        BY <1>2, <1>4, <3>1, <3>2, <4>2 DEF ServiceFrames
      <4> QED BY <3>3, <4>1, <4>2
    <3>5. \A i \in 1..Len(inq'), g \in Frames : Carries(inq'[i], g) => g \in sent'
      BY <1>2, <1>4, <3>4 DEF ServiceFrames
    <3>6. \A i, j \in 1..Len(inq'), g \in Frames :
            Carries(inq'[i], g) /\ Carries(inq'[j], g) => i = j
      BY <1>4, <3>4 DEF ServiceFrames
    <3>7. \A g \in Frames : g \in ToHost' <=> g \in ToHost \/ g = f
      <4>1. \A i \in 1..Len(inq) : \A g : Carries(inq[i], g) =>
              i \in 1..Len(inq') /\ Carries(inq'[i], g)
        BY <3>1, <3>2, <3>3
      <4>2. Carries(inq'[n + 1], f)
        BY <2>2, <3>2
      <4> QED BY <3>3, <3>4, <4>1, <4>2 DEF ToHost
    <3>8. ToHost' = ToHost \cup {f}
      BY <1>4, <3>7 DEF ToHost
    <3> QED BY <3>2, <3>5, <3>6, <3>8 DEF ServiceFrames
  <2>3. CASE inq' # inq
    <3>1. PICK p \in Ports :
            Send([from |-> p, data |-> [type |-> "frame", frame |-> f]])
      BY <1>1, <2>3 DEF WriteFile
    <3>2. PICK d : d = [from |-> p, data |-> [type |-> "frame", frame |-> f]]
      OBVIOUS
    <3>3. inq' = Append(inq, d)
      BY <2>3, <3>1, <3>2 DEF Send
    <3>4. \A g : Carries(d, g) <=> g = f
      BY <3>2 DEF Carries
    <3> QED BY <2>2, <3>3, <3>4
  <2> QED BY <2>1, <2>3
<1>7. BridgeSound' /\ ToService' = ToService
  BY <1>2, <1>6, BridgeStays
<1>8. HostFrames'
  BY <1>2, <1>7, InvParts DEF HostFrames, bridge
<1>9. Reads' = Reads /\ Due' = Due
  BY <1>2, SameEffect
<1>10. Pipe!ServicePut(f)
  BY <1>2, <1>6, <1>7, <1>9 DEF Pipe!ServicePut
<1> QED BY <1>2, <1>3, <1>5, <1>6, <1>7, <1>8, <1>10 DEF TunnelInv

LEMMA HostSendsKeeps ==
  ASSUME TunnelInv, NEW f \in Frames, HostSends(f)
  PROVE  TunnelInv' /\ Pipe!HostPut(f) /\ f \in FromHost
<1>1. /\ f \in FromHost \ sent /\ sent' = sent \cup {f}
      /\ tapq' = Append(tapq, f)
      /\ UNCHANGED <<device, up, clients, turn, inq, open, rx, atHost, atService>>
  BY DEF HostSends, Bridge!HostSends
<1>2. UNCHANGED <<active, created, list, ctx, internal, issued, orphans, pc, arg>>
  BY <1>1 DEF device
<1>3. IInv'
  <2>1. LoopbackTypeOK'
    BY <1>1, InvParts DEF LoopbackTypeOK
  <2>2. active' \in BOOLEAN /\ internal' \in [Ovs -> BOOLEAN]
    BY <1>2, InvParts DEF Types
  <2> QED BY <1>1, <1>2, <2>1, <2>2, InvParts, DatagramKeeps
<1>4. tapq \in Seq(Frames) /\ Distinct(tapq) /\ f \notin Elems(tapq)
  BY <1>1, InvParts DEF BridgeSound, HostFrames, ToService, Elems
<1>5. /\ tapq' \in Seq(Frames) /\ Distinct(tapq')
      /\ Elems(tapq') = Elems(tapq) \cup {f} /\ tapq' # <<>>
  BY <1>1, <1>4, AppendDistinct
<1>6. ToService' = ToService \cup {f}
  BY <1>5 DEF ToService, Elems
<1>7. Counts' /\ ServiceFrames'
  BY <1>1, InvParts DEF Counts, ServiceFrames
<1>8. BridgeSound'
  BY <1>1, <1>5, InvParts DEF BridgeSound
<1>9. HostFrames'
  BY <1>1, <1>5, <1>6, InvParts DEF HostFrames
<1>10. Reads' = Reads /\ Due' = Due
  BY <1>1, <1>2, SameEffect
<1>11. ToHost' = ToHost
  BY <1>1 DEF ToHost
<1>12. Pipe!HostPut(f)
  BY <1>1, <1>6, <1>10, <1>11 DEF Pipe!HostPut
<1> QED BY <1>1, <1>3, <1>7, <1>8, <1>9, <1>12 DEF TunnelInv

-----------------------------------------------------------------------------
(* Steps of the bridge                                                     *)

\* The bridge has no access to what the device keeps.
LEMMA BridgeDevice ==
  ASSUME TunnelInv, UNCHANGED device, open' = open, LoopbackTypeOK'
  PROVE  IInv'
<1>1. UNCHANGED <<active, created, list, ctx, internal, issued, orphans, pc, arg>>
  BY DEF device
<1>2. active' \in BOOLEAN /\ internal' \in [Ovs -> BOOLEAN]
  BY <1>1, InvParts DEF Types
<1> QED BY <1>1, <1>2, InvParts, DatagramKeeps

LEMMA RegisterSound ==
  ASSUME TunnelInv, NEW p \in Ports, Bridge!Register(p)
  PROVE  clients' \in Seq(Ports)
<1>1. clients \in Seq(Ports)
  BY InvParts DEF BridgeSound
<1>2. CASE p \in Bridge!Clients
  BY <1>1, <1>2 DEF Bridge!Register
<1>3. CASE p \notin Bridge!Clients
  <2>1. CASE Len(clients) < MaxClients
    BY <1>1, <1>3, <2>1 DEF Bridge!Register
  <2>2. CASE ~(Len(clients) < MaxClients)
    <3>1. PICK s : s = Tail(clients)
      OBVIOUS
    <3>2. clients' = Append(s, p)
      BY <1>3, <2>2, <3>1 DEF Bridge!Register
    <3>3. clients # <<>>
      BY <2>2, TunnelAssumption
    <3>4. s \in Seq(Ports)
      BY <1>1, <3>1, <3>3
    <3> QED BY <3>2, <3>4
  <2> QED BY <2>1, <2>2
<1> QED BY <1>2, <1>3

\* What the bridge takes from its socket, and the frame it then writes.
Takes ==
  \/ inq' = inq \/ inq' = <<>>
  \/ inq # <<>> /\ inq' = Tail(inq)

Writes(f) ==
  /\ inq # <<>> /\ inq' = Tail(inq) /\ Carries(Head(inq), f)
  /\ tapq' = tapq
  /\ atHost' = [atHost EXCEPT ![f] = @ + 1]

LEMMA TakesKeep ==
  ASSUME TunnelInv, UNCHANGED <<device, sent, atService, open, rx>>,
         up' \in BOOLEAN, up' \/ inq' = <<>>, Takes,
         tapq' = tapq \/ tapq' = <<>>, BridgeSound',
         atHost' = atHost \/ \E f \in Frames : Writes(f)
  PROVE  TunnelInv' /\ Pipe!Next
<1> DEFINE n == Len(inq)
<1>1. /\ inq \in Seq(Datagrams) /\ n \in Nat /\ n <= InLimit
      /\ atHost \in [Frames -> Nat]
  BY InvParts DEF LoopbackTypeOK, Counts
<1>2. /\ inq' \in Seq(Datagrams)
      /\ \/ inq' = inq
         \/ inq' = <<>>
         \/ /\ inq # <<>> /\ Head(inq) = inq[1] /\ 1 \in 1..n
            /\ inq' = Tail(inq) /\ Len(inq') = n - 1
            /\ \A i \in 1..(n - 1) : i + 1 \in 1..n /\ inq'[i] = inq[i + 1]
  <2>1. CASE inq # <<>> /\ inq' = Tail(inq)
    <3>1. PICK s : s = Tail(inq)
      OBVIOUS
    <3>2. /\ s \in Seq(Datagrams) /\ Head(inq) = inq[1] /\ 1 \in 1..n
          /\ Len(s) = n - 1
          /\ \A i \in 1..(n - 1) : i + 1 \in 1..n /\ s[i] = inq[i + 1]
      BY <1>1, <2>1, <3>1
    <3> QED BY <2>1, <3>1, <3>2
  <2>2. CASE inq' = inq
    BY <1>1, <2>2
  <2>3. CASE inq' = <<>>
    BY <2>3
  <2> QED BY <2>1, <2>2, <2>3 DEF Takes
<1>3. Len(inq') <= InLimit
  BY <1>1, <1>2, LimitsAssumption
<1>4. LoopbackTypeOK'
  BY <1>2, <1>3, InvParts DEF LoopbackTypeOK
<1>5. IInv'
  BY <1>4, BridgeDevice
<1>6. ServiceFrames
  BY InvParts
<1> HIDE DEF n
<1>7. \A i \in 1..Len(inq') : \E k \in 1..Len(inq) : inq'[i] = inq[k]
  BY <1>2 DEF n
<1>8. ServiceFrames'
  <2>1. \A i \in 1..Len(inq'), f \in Frames : Carries(inq'[i], f) => f \in sent
    BY <1>6, <1>7 DEF ServiceFrames
  <2>2. \A i, j \in 1..Len(inq'), f \in Frames :
          Carries(inq'[i], f) /\ Carries(inq'[j], f) => i = j
    <3>1. CASE inq' = inq
      BY <1>6, <3>1 DEF ServiceFrames
    <3>2. CASE inq' = <<>>
      BY <3>2
    <3>3. CASE /\ Len(inq') = n - 1
               /\ \A i \in 1..(n - 1) : i + 1 \in 1..n /\ inq'[i] = inq[i + 1]
      <4>1. \A i, j \in 1..(n - 1), f \in Frames :
              Carries(inq[i + 1], f) /\ Carries(inq[j + 1], f) => i + 1 = j + 1
        BY <1>6, <3>3 DEF ServiceFrames, n
      <4>2. \A i, j \in 1..(n - 1) : i + 1 = j + 1 => i = j
        BY <1>1
      <4> QED BY <3>3, <4>1, <4>2
    <3> QED BY <1>2, <3>1, <3>2, <3>3
  <2> QED BY <2>1, <2>2 DEF ServiceFrames
<1>9. /\ ToHost' \subseteq ToHost /\ ToService' \subseteq ToService
      /\ tapq' = tapq => ToService' = ToService
  <2>1. ToHost' \subseteq ToHost
    BY <1>7 DEF ToHost
  <2>2. tapq' = <<>> => ToService' = {}
    BY DEF ToService
  <2>3. tapq' = tapq => ToService' = ToService
    BY DEF ToService
  <2> QED BY <2>1, <2>2, <2>3
<1>10. HostFrames'
  <2>1. Distinct(<<>>)
    BY DEF Distinct
  <2> QED BY <1>9, <2>1, InvParts DEF HostFrames
<1>11. Reads' = Reads /\ Due' = Due /\ Fewer
  BY SameEffect DEF device
<1>12. CASE atHost' = atHost
  <2>1. Counts'
    BY <1>12, InvParts DEF Counts
  <2>2. Pipe!Lose
    BY <1>9, <1>11, <1>12, LosesOnly
  <2> QED BY <1>5, <1>8, <1>10, <2>1, <2>2 DEF TunnelInv, Pipe!Next
<1>13. ASSUME NEW f \in Frames, Writes(f)
       PROVE  TunnelInv' /\ Pipe!Next
  <2>1. /\ Carries(inq[1], f) /\ 1 \in 1..n /\ Len(inq') = n - 1
        /\ \A i \in 1..(n - 1) : i + 1 \in 1..n /\ inq'[i] = inq[i + 1]
    <3>1. PICK s : s = Tail(inq)
      OBVIOUS
    <3>2. /\ inq # <<>> => Head(inq) = inq[1] /\ 1 \in 1..n /\ Len(s) = n - 1
          /\ \A i \in 1..(n - 1) : i + 1 \in 1..n /\ s[i] = inq[i + 1]
      BY <1>1, <3>1 DEF n
    <3> QED BY <1>13, <3>1, <3>2 DEF Writes
  <2>2. f \in ToHost
    BY <2>1 DEF ToHost, n
  <2>3. f \notin ToHost'
    <3>1. \A i \in 1..(n - 1) : i + 1 # 1
      BY <1>1
    <3>2. \A i \in 1..(n - 1) : ~Carries(inq[i + 1], f)
      BY <1>6, <2>1, <3>1 DEF ServiceFrames, n
    <3> QED BY <2>1, <3>2 DEF ToHost
  <2>4. ASSUME NEW g \in ToHost, g # f PROVE g \in ToHost'
    <3>1. PICK i \in 1..n : Carries(inq[i], g) /\ g \in Frames
      BY <2>4 DEF ToHost, n
    <3>2. i # 1
      BY <2>1, <2>4, <3>1 DEF Carries
    <3>3. i - 1 \in 1..(n - 1) /\ (i - 1) + 1 = i
      BY <1>1, <3>2
    <3>4. Carries(inq'[i - 1], g)
      BY <2>1, <3>1, <3>3
    <3> QED BY <2>1, <3>1, <3>3, <3>4 DEF ToHost
  <2>5. ToHost' = ToHost \ {f}
    BY <1>9, <2>3, <2>4
  <2>6. tapq' = tapq /\ atHost' = [atHost EXCEPT ![f] = @ + 1]
    BY <1>13 DEF Writes
  <2>7. Counts'
    BY <1>1, <2>6, InvParts DEF Counts
  <2>8. Pipe!Carry(f)
    BY <1>9, <1>11, <2>2, <2>5, <2>6 DEF Pipe!Carry
  <2> QED BY <1>5, <1>8, <1>10, <2>2, <2>7, <2>8 DEF TunnelInv, Pipe!Next
<1> QED BY <1>12, <1>13

\* The bridge counts and fills its queues as the library does.
LEMMA BridgeEntries ==
  ASSUME TunnelInv, NEW p PROVE Bridge!Entries(p) \in Nat
<1> DEFINE C == {i \in 1..Len(clients) : clients[i] = p}
<1>1. Bridge!Entries(p) = Cardinality(C)
  BY DEF Bridge!Entries, Bridge!Cardinality, Cardinality,
         Bridge!IsFiniteSet, IsFiniteSet
<1>2. Len(clients) \in Nat
  BY InvParts DEF BridgeSound
<1>3. IsFiniteSet(1..Len(clients)) /\ C \subseteq 1..Len(clients)
  BY <1>2, FS_Interval
<1>4. Cardinality(C) \in Nat
  BY <1>3, FS_Subset, FS_CardinalityType
<1> QED BY <1>1, <1>4

LEMMA BridgeArrive ==
  ASSUME NEW s, NEW f, NEW n PROVE Bridge!Arrive(s, f, n) = Arrive(s, f, n)
BY DEF Bridge!Arrive, Arrive

\* The frame at the head of the TAP interface leaves it, for the sockets of
\* the clients.
LEMMA TapReadKeeps ==
  ASSUME TunnelInv, UNCHANGED <<device, sent, atHost, atService>>, Bridge!TapRead
  PROVE  TunnelInv' /\ Pipe!Next
<1>1. /\ tapq \in Seq(Frames) /\ tapq # <<>> /\ Distinct(tapq)
      /\ clients \in Seq(Ports)
      /\ turn \in [tap : BOOLEAN, udp : BOOLEAN]
      /\ turn.udp => inq # <<>>
  BY InvParts DEF Bridge!TapRead, BridgeSound, HostFrames
<1>2. PICK f : f = Head(tapq)
  OBVIOUS
<1>3. /\ f \in Frames /\ f \in Elems(tapq) /\ f \notin Elems(tapq')
      /\ tapq' \in Seq(Frames) /\ Distinct(tapq')
      /\ Elems(tapq') = Elems(tapq) \ {f}
  <2>1. PICK w : w = Tail(tapq)
    OBVIOUS
  <2>2. /\ w \in Seq(Frames) /\ Distinct(w) /\ f \in Elems(tapq) /\ f \in Frames
        /\ Elems(w) \subseteq Elems(tapq) /\ f \notin Elems(w)
    BY <1>1, <1>2, <2>1, TailDistinct
  <2>3. Elems(tapq) \subseteq Elems(w) \cup {f}
    <3>1. PICK n : n = Len(tapq)
      OBVIOUS
    <3>2. /\ n \in Nat /\ Len(w) = n - 1 /\ f = tapq[1]
          /\ \A i \in 1..(n - 1) : w[i] = tapq[i + 1]
      BY <1>1, <1>2, <2>1, <3>1
    <3>3. \A i \in 1..n : i = 1 \/ (i - 1 \in 1..(n - 1) /\ (i - 1) + 1 = i)
      BY <3>2
    <3>4. \A i \in 1..n : tapq[i] = f \/ tapq[i] = w[i - 1]
      BY <3>2, <3>3
    <3> QED BY <3>1, <3>2, <3>3, <3>4 DEF Elems
  <2> QED BY <2>1, <2>2, <2>3 DEF Bridge!TapRead
<1>4. /\ turn' = [turn EXCEPT !.tap = FALSE]
      /\ rx' = [p \in Ports |-> IF p \in open
                  THEN Arrive(rx[p], f, Bridge!Entries(p)) ELSE rx[p]]
      /\ UNCHANGED <<up, clients, inq, open>>
  BY <1>2, BridgeArrive DEF Bridge!TapRead
<1>5. ASSUME NEW p \in Ports
      PROVE  /\ rx'[p] \in Seq(Frames) /\ Len(rx'[p]) <= RxLimit
             /\ p \notin open => rx'[p] = <<>>
             /\ Elems(rx[p]) \subseteq Elems(rx'[p])
             /\ Elems(rx'[p]) \subseteq Elems(rx[p]) \cup {f}
  <2>1. /\ rx[p] \in Seq(Frames) /\ Len(rx[p]) <= RxLimit
        /\ p \notin open => rx[p] = <<>>
    BY InvParts DEF LoopbackTypeOK
  <2>2. PICK n \in Nat : n = Bridge!Entries(p)
    BY BridgeEntries
  <2>3. CASE p \in open
    <3>1. rx'[p] = Arrive(rx[p], f, n)
      BY <1>4, <2>2, <2>3
    <3> QED BY <1>3, <2>1, <2>3, <3>1, ArriveType, ArriveElems
  <2>4. CASE p \notin open
    BY <1>4, <2>1, <2>4
  <2> QED BY <2>3, <2>4
<1>6. LoopbackTypeOK'
  <2>1. rx' \in [Ports -> Seq(Frames)]
    BY <1>4, <1>5
  <2> QED BY <1>4, <1>5, <2>1, InvParts DEF LoopbackTypeOK
<1>7. IInv'
  BY <1>4, <1>6, BridgeDevice
<1>8. BridgeSound'
  <2>1. /\ turn' \in [tap : BOOLEAN, udp : BOOLEAN]
        /\ turn'.tap = FALSE /\ turn'.udp = turn.udp
    BY <1>1, <1>4
  <2> QED BY <1>1, <1>3, <1>4, <2>1 DEF BridgeSound
<1>9. /\ f \in ToService /\ ToService' = ToService \ {f} /\ ToHost' = ToHost
  BY <1>3, <1>4 DEF ToService, ToHost, Elems
<1>10. Counts' /\ ServiceFrames' /\ HostFrames'
  BY <1>3, <1>4, <1>9, InvParts DEF Counts, ServiceFrames, HostFrames
<1>11. Reqs' = Reqs /\ Reads' = Reads
  BY DEF device, Reqs, Queue, Held, HoldsRequest, Reads, Completed
<1>12. ASSUME NEW o \in Ovs
       PROVE  /\ Received(o) \subseteq Received(o)'
              /\ Received(o)' \subseteq Received(o) \cup {f}
  <2>1. \A r \in Reqs : r.sock # NONE => r.sock \in Ports
    BY RequestTypes, RequestPlace, InvParts DEF Requests
  <2>2. \A v : v \in Received(o) <=>
          v \in Frames /\ \E r \in Reqs : r.ov = o /\ r.sock # NONE
                                          /\ v \in Elems(rx[r.sock])
    BY DEF Received, Elems
  <2>3. \A v : v \in Received(o)' <=>
          v \in Frames /\ \E r \in Reqs : r.ov = o /\ r.sock # NONE
                                          /\ v \in Elems(rx'[r.sock])
    BY <1>11 DEF Received, Elems
  <2> QED BY <1>5, <2>1, <2>2, <2>3
<1>13. PICK R \in SUBSET Reads : R = {o \in Reads : f \in Received(o)'}
  OBVIOUS
<1>14. Due' = [o \in Ovs |-> IF o \in R THEN Due[o] \cup {f} ELSE Due[o]]
  <2>1. \A o \in Ovs : Due'[o] = IF o \in R THEN Due[o] \cup {f} ELSE Due[o]
    <3> SUFFICES ASSUME NEW o \in Ovs
                 PROVE  Due'[o] = IF o \in R THEN Due[o] \cup {f} ELSE Due[o]
      OBVIOUS
    <3>1. CASE o \notin Reads
      BY <1>11, <1>13, <3>1 DEF Due
    <3>2. CASE o \in Reads
      <4>1. Due[o] = Received(o) /\ Due'[o] = Received(o)'
        BY <1>11, <3>2 DEF Due
      <4>2. o \in R <=> f \in Due'[o]
        BY <1>13, <3>2, <4>1
      <4>3. Due[o] \subseteq Due'[o] /\ Due'[o] \subseteq Due[o] \cup {f}
        BY <1>12, <4>1
      <4> QED BY <4>2, <4>3
    <3> QED BY <3>1, <3>2
  <2>2. Due' = [o \in Ovs |-> Due'[o]]
    BY DEF Due
  <2> QED BY <2>1, <2>2
<1>15. Pipe!HandOut(f)
  BY <1>9, <1>11, <1>14 DEF Pipe!HandOut
<1> QED BY <1>7, <1>8, <1>9, <1>10, <1>15 DEF TunnelInv, Pipe!Next

\* The frame that UdpFrame writes is the one of the datagram it takes.
LEMMA BridgeWrites ==
  ASSUME TunnelInv, Bridge!UdpFrame,
         atHost' = [f \in Frames |-> atHost[f] + IF Bridge!Written(f) THEN 1 ELSE 0]
  PROVE  atHost' = atHost \/ \E f \in Frames : Writes(f)
<1>1. inq # <<>> /\ inq \in Seq(Datagrams) /\ atHost \in [Frames -> Nat]
  BY InvParts
     DEF Bridge!UdpFrame, Bridge!Receives, BridgeSound, LoopbackTypeOK, Counts
<1>2. CASE ~iface.link
  <2>1. \A f \in Frames : atHost'[f] = atHost[f]
    BY <1>1, <1>2 DEF Bridge!Written
  <2> QED BY <1>1, <2>1
<1>3. CASE iface.link
  <2>1. PICK f : f = Head(inq).data.frame
    OBVIOUS
  <2>2. Head(inq) \in Datagrams /\ Head(inq).data.type = "frame"
    BY <1>1 DEF Bridge!UdpFrame, Bridge!Receives
  <2>3. f \in Frames /\ Carries(Head(inq), f)
    <3>1. PICK d : d = Head(inq).data
      OBVIOUS
    <3>2. d \in Payloads /\ d.type = "frame" /\ f = d.frame
      BY <2>1, <2>2, <3>1 DEF Datagrams
    <3>3. PICK g \in Frames : d = [type |-> "frame", frame |-> g]
      BY ONLY <3>2 DEF Payloads
    <3> QED BY <3>1, <3>2, <3>3 DEF Carries
  <2>4. \A g \in Frames : atHost'[g] = atHost[g] + IF g = f THEN 1 ELSE 0
    BY <1>3, <2>1 DEF Bridge!Written
  <2>5. atHost' = [g \in Frames |-> atHost'[g]]
    BY <1>1
  <2>6. atHost' = [atHost EXCEPT ![f] = @ + 1]
    BY ONLY <1>1, <2>3, <2>4, <2>5
  <2> QED BY <1>1, <2>3, <2>6 DEF Writes, Bridge!UdpFrame
<1> QED BY <1>2, <1>3

\* The turn of the loop is over, with what the bridge keeps as it should be.
LEMMA TurnOver ==
  ASSUME TunnelInv, turn' = Bridge!Polling, clients' \in Seq(Ports),
         tapq' = tapq \/ tapq' = <<>>
  PROVE  BridgeSound'
<1>1. turn' = [tap |-> FALSE, udp |-> FALSE]
  BY DEF Bridge!Polling
<1>2. /\ turn' \in [tap : BOOLEAN, udp : BOOLEAN]
      /\ turn'.tap = FALSE /\ turn'.udp = FALSE
  BY <1>1
<1>3. tapq' \in Seq(Frames)
  <2>1. tapq \in Seq(Frames) /\ <<>> \in Seq(Frames)
    BY InvParts DEF BridgeSound
  <2> QED BY <2>1
<1> QED BY <1>2, <1>3 DEF BridgeSound

LEMMA DiesSound ==
  ASSUME TunnelInv, Bridge!Dies
  PROVE  BridgeSound' /\ up' = FALSE /\ inq' = <<>> /\ tapq' = <<>>
<1>1. <<>> \in Seq(Ports)
  OBVIOUS
<1> QED BY <1>1, TurnOver DEF Bridge!Dies

LEMMA BridgeStepKeeps ==
  ASSUME TunnelInv, BridgeStep
  PROVE  TunnelInv' /\ Pipe!Next
<1>1. /\ UNCHANGED <<device, sent, atService>>
      /\ atHost' = [f \in Frames |-> atHost[f] + IF Bridge!Written(f) THEN 1 ELSE 0]
  BY DEF BridgeStep
<1>2. /\ BridgeSound /\ LoopbackTypeOK /\ atHost \in [Frames -> Nat]
      /\ up \in BOOLEAN /\ inq \in Seq(Datagrams) /\ (up \/ inq = <<>>)
      /\ clients \in Seq(Ports)
  BY InvParts DEF Counts, LoopbackTypeOK, BridgeSound
<1>3. ~Bridge!UdpFrame => atHost' = atHost
  <2> SUFFICES ASSUME ~Bridge!UdpFrame PROVE atHost' = atHost
    OBVIOUS
  <2>1. \A f \in Frames : atHost'[f] = atHost[f]
    BY <1>1, <1>2 DEF Bridge!Written
  <2> QED BY <1>1, <1>2, <2>1
<1>4. CASE Bridge!UdpFrame
  <2>1. /\ inq # <<>> /\ inq' = Tail(inq) /\ Bridge!Register(Head(inq).from)
        /\ turn' = Bridge!Polling /\ UNCHANGED <<up, tapq, open, rx>>
    BY <1>2, <1>4 DEF Bridge!UdpFrame, Bridge!Receives, BridgeSound
  <2>2. Head(inq).from \in Ports
    <3>1. Head(inq) \in Datagrams
      BY ONLY <1>2, <2>1
    <3> QED BY ONLY <3>1 DEF Datagrams
  <2>3. BridgeSound'
    BY <2>1, <2>2, RegisterSound, TurnOver
  <2>4. atHost' = atHost \/ \E f \in Frames : Writes(f)
    BY <1>1, <1>4, BridgeWrites
  <2> QED BY <1>1, <1>2, <2>1, <2>3, <2>4, TakesKeep DEF Takes
<1>5. CASE Bridge!UdpControl \/ Bridge!UdpUnknown
  <2>1. /\ inq # <<>> /\ inq' = Tail(inq) /\ Bridge!Register(Head(inq).from)
        /\ turn' = Bridge!Polling /\ UNCHANGED <<up, tapq, open, rx>>
        /\ ~Bridge!UdpFrame
    BY <1>2, <1>5 DEF Bridge!UdpControl, Bridge!UdpUnknown, Bridge!UdpFrame,
                      Bridge!Receives, BridgeSound
  <2>2. Head(inq).from \in Ports
    <3>1. Head(inq) \in Datagrams
      BY ONLY <1>2, <2>1
    <3> QED BY ONLY <3>1 DEF Datagrams
  <2>3. BridgeSound'
    BY <2>1, <2>2, RegisterSound, TurnOver
  <2> QED BY <1>1, <1>2, <1>3, <2>1, <2>3, TakesKeep DEF Takes
<1>6. CASE Bridge!UdpRunt \/ Bridge!BridgeDies
  <2>1. Bridge!Dies /\ UNCHANGED <<open, rx>>
    BY <1>6 DEF Bridge!UdpRunt, Bridge!BridgeDies
  <2>2. BridgeSound' /\ up' = FALSE /\ inq' = <<>> /\ tapq' = <<>>
    BY <2>1, DiesSound
  <2>3. CASE Bridge!UdpRunt
    <3>1. ~Bridge!UdpFrame
      BY <2>3 DEF Bridge!UdpRunt, Bridge!UdpFrame
    <3> QED BY <1>1, <1>3, <2>1, <2>2, <3>1, TakesKeep DEF Takes
  <2>4. CASE ~Bridge!UdpRunt /\ Bridge!BridgeDies
    <3>1. ~Bridge!UdpFrame \/ (inq # <<>> /\ inq' = Tail(inq))
      BY <1>2 DEF Bridge!UdpFrame, Bridge!Receives, BridgeSound
    <3>2. atHost' = atHost \/ \E f \in Frames : Writes(f)
      BY <1>1, <1>3, BridgeWrites
    <3> QED BY <1>1, <2>1, <2>2, <3>2, TakesKeep DEF Takes
  <2> QED BY <1>6, <2>3, <2>4
<1>7. CASE Bridge!Poll
  <2>1. /\ turn' = [tap |-> tapq # <<>>, udp |-> inq # <<>>]
        /\ UNCHANGED <<up, clients, tapq, inq, open, rx>>
        /\ turn = [tap |-> FALSE, udp |-> FALSE]
    BY <1>7 DEF Bridge!Poll, Bridge!Polling
  <2>2. /\ turn' \in [tap : BOOLEAN, udp : BOOLEAN]
        /\ turn'.tap => tapq # <<>>
        /\ turn'.udp => inq # <<>>
        /\ turn.udp = FALSE
    BY <2>1
  <2>3. BridgeSound'
    BY <1>2, <2>1, <2>2 DEF BridgeSound
  <2>4. ~Bridge!UdpFrame
    BY <2>2 DEF Bridge!UdpFrame, Bridge!Receives
  <2> QED BY <1>1, <1>2, <1>3, <2>1, <2>3, <2>4, TakesKeep DEF Takes
<1>8. CASE Bridge!TapRead
  <2>1. ~Bridge!UdpFrame
    BY <1>8 DEF Bridge!UdpFrame, Bridge!Receives, Bridge!TapRead
  <2> QED BY <1>1, <1>3, <1>8, <2>1, TapReadKeeps
<1>9. CASE Bridge!TapReadFails \/ Bridge!UdpReadFails
  <2>1. turn' = Bridge!Polling /\ UNCHANGED <<up, clients, tapq, inq, open, rx>>
    BY <1>9 DEF Bridge!TapReadFails, Bridge!UdpReadFails
  <2>2. BridgeSound'
    BY <1>2, <2>1, TurnOver
  <2>3. atHost' = atHost \/ \E f \in Frames : Writes(f)
    BY <1>1, <1>3, BridgeWrites
  <2> QED BY <1>1, <1>2, <2>1, <2>2, <2>3, TakesKeep DEF Takes
<1>10. CASE Bridge!BridgeStarts
  <2>1. up' = TRUE /\ UNCHANGED <<clients, turn, tapq, inq, open, rx>>
    BY <1>10 DEF Bridge!BridgeStarts
  <2>2. BridgeSound'
    BY <1>2, <2>1 DEF BridgeSound
  <2>3. atHost' = atHost \/ \E f \in Frames : Writes(f)
    BY <1>1, <1>3, BridgeWrites
  <2> QED BY <1>1, <2>1, <2>2, <2>3, TakesKeep DEF Takes
<1> QED BY <1>4, <1>5, <1>6, <1>7, <1>8, <1>9, <1>10
        DEF BridgeStep, Bridge!BridgeStep, Bridge!Served

-----------------------------------------------------------------------------
(* The refinement                                                          *)

LEMMA TunnelInitInv == TunnelInit => TunnelInv /\ Pipe!Init
<1> SUFFICES ASSUME TunnelInit PROVE TunnelInv /\ Pipe!Init
  OBVIOUS
<1>1. IInv
  BY InitIInv DEF TunnelInit
<1>2. /\ inq = <<>> /\ sent = {} /\ tapq = <<>>
      /\ atHost = [f \in Frames |-> 0] /\ atService = [f \in Frames |-> 0]
      /\ clients = <<>> /\ turn = [tap |-> FALSE, udp |-> FALSE]
      /\ \A o \in Ovs : issued[o] = 0
  BY DEF TunnelInit, Init, Bridge!Init, Bridge!Polling
<1>3. BridgeSound
  BY <1>2 DEF BridgeSound
<1>4. Counts
  BY <1>2 DEF Counts
<1>5. ToHost = {} /\ ToService = {} /\ Reads = {}
  BY <1>2 DEF ToHost, ToService, Reads
<1>6. ServiceFrames /\ HostFrames
  BY <1>2, <1>5 DEF ServiceFrames, HostFrames, Distinct
<1>7. Due = [o \in Ovs |-> {}]
  BY <1>5 DEF Due
<1>8. Pipe!Init
  BY <1>2, <1>5, <1>7, TunnelAssumption DEF Pipe!Init, Pipe!Nowhere
<1> QED BY <1>1, <1>3, <1>4, <1>6, <1>8 DEF TunnelInv

LEMMA StutterKeeps == ASSUME TunnelInv, UNCHANGED tunnel PROVE TunnelInv' /\ Pipe!Next
<1>1. UNCHANGED <<device, sent, open, rx, up, inq, tapq, clients, turn, atHost,
                  atService>>
  BY DEF tunnel, vars, bridge
<1>2. BridgeSound' /\ up \in BOOLEAN /\ (up \/ inq = <<>>)
  BY <1>1, InvParts DEF BridgeSound, LoopbackTypeOK
<1> QED BY <1>1, <1>2, TakesKeep DEF Takes

LEMMA StepSimulates ==
  ASSUME TunnelInv, QuietClose, ~SharedOv, [TunnelNext]_tunnel
  PROVE  TunnelInv' /\ Pipe!Next
<1>1. CASE DeviceStep
  BY <1>1, DeviceStepKeeps
<1>2. CASE BridgeStep
  BY <1>2, BridgeStepKeeps
<1>3. ASSUME NEW f \in Frames, ServiceSends(f) \/ HostSends(f)
      PROVE  TunnelInv' /\ Pipe!Next
  BY <1>3, ServiceSendsKeeps, HostSendsKeeps DEF Pipe!Next
<1>4. CASE UNCHANGED tunnel
  BY <1>4, StutterKeeps
<1> QED BY <1>1, <1>2, <1>3, <1>4 DEF TunnelNext

\* Every step of the service's threads, of the bridge's loop and of the host
\* is a step of the Ethernet pipe or none, for a service that leaves an
\* OVERLAPPED alone while another thread is in a call with it and closes no
\* handle in use.  Hook_WriteFile and handle_udp bring no frame to the
\* host's network twice, nothing comes out that the other end did not put
\* in, and GetOverlappedResult completes a read once, with a frame that the
\* bridge took from the TAP interface while the read was outstanding.
THEOREM TunnelIsAPipe == ASSUME QuietClose, ~SharedOv PROVE TunnelSpec => PipeSpec
<1>1. TunnelInv /\ [TunnelNext]_tunnel => TunnelInv' /\ [Pipe!Next]_Pipe!vars
  BY StepSimulates
<1> QED BY TunnelInitInv, <1>1, PTL DEF TunnelSpec, PipeSpec, Pipe!Spec
==============================================================================
